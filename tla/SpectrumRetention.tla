------------------------- MODULE SpectrumRetention --------------------------
(***************************************************************************)
(* What SpectrumService.get_spectrum_by_name (domain/services/             *)
(* spectrum_service.py) does with the candidate set of an object once it   *)
(* has it: pick an epoch, serve it from retention, or download it from     *)
(* WISeREP and retain it through DjangoSpectrumRepository.save             *)
(* (infrastructure/django_repositories.py).                                *)
(*                                                                         *)
(* A save is a read of the row of the epoch followed by a write, two       *)
(* statements that other lookups' saves interleave with.  The table has a  *)
(* primary key, and (migration 0003) at most one row per epoch.  Nothing   *)
(* deletes a row.                                                          *)
(*                                                                         *)
(* A candidate needs no IAU name to be chosen (an internal name matches    *)
(* the submitted one).  Its designation is then empty: retention is not    *)
(* searched for it, and its save is a bare insert that handles no          *)
(* conflict, although the unique constraint covers the empty designation   *)
(* as any other.                                                           *)
(***************************************************************************)
EXTENDS Naturals, Sequences, FiniteSets

CONSTANTS
    Lookups,        \* by-name lookups, each of one request thread
    Epochs,         \* (designation, source_spectrum_id) pairs
    Rankings,       \* candidate sets a lookup may have been handed
    Nameless,       \* epochs of objects without an IAU name
    Blueshifted,    \* epochs of objects with a negative recorded redshift
    Ids,            \* row identifiers uuid4 may mint
    NoEpoch, NoId, NoRow    \* model values: none of these

ASSUME RankingsOfEpochs == Rankings \subseteq Seq(Epochs) \ {<<>>}
ASSUME NamelessEpochs == Nameless \subseteq Epochs
ASSUME NoSuchValues ==
    /\ NoEpoch \notin Epochs /\ NoId \notin Ids
    /\ NoRow \notin [epoch : Epochs, valid : BOOLEAN]

VARIABLES
    table,      \* the row of each identifier: its epoch, and whether its
                \* spectrum passes validate_spectrum
    pc,         \* the next step of each lookup
    epoch,      \* the epoch it selected
    mine,       \* spectrum.id of the spectrum it downloaded
    outcome,    \* how it ended
    answer,     \* the identifier of the spectrum it returned
    servedBefore,   \* history: whether the epoch had been served when it began
    missed          \* history: whether its retention lookup failed

local == <<pc, epoch, mine, outcome, answer>>
history == <<servedBefore, missed>>
vars == <<table, local, history>>

Row == [epoch : Epochs, valid : BOOLEAN]

PCs == {"select", "lookup", "download", "latest", "write", "reread", "update",
        "done"}

Outcomes == {"none", "served", "unusable", "unusable_copy", "unreachable",
             "storage_error", "conflict"}

TypeOK ==
    /\ table \in [Ids -> Row \cup {NoRow}]
    /\ pc \in [Lookups -> PCs]
    /\ epoch \in [Lookups -> Epochs \cup {NoEpoch}]
    /\ mine \in [Lookups -> Ids \cup {NoId}]
    /\ outcome \in [Lookups -> Outcomes]
    /\ answer \in [Lookups -> Ids \cup {NoId}]
    /\ servedBefore \in [Lookups -> BOOLEAN]
    /\ missed \in [Lookups -> BOOLEAN]

Init ==
    /\ table = [i \in Ids |-> NoRow]
    /\ pc = [l \in Lookups |-> "select"]
    /\ epoch = [l \in Lookups |-> NoEpoch]
    /\ mine = [l \in Lookups |-> NoId]
    /\ outcome = [l \in Lookups |-> "none"]
    /\ answer = [l \in Lookups |-> NoId]
    /\ servedBefore = [l \in Lookups |-> FALSE]
    /\ missed = [l \in Lookups |-> FALSE]

-----------------------------------------------------------------------------

\* The rows of an epoch, and _latest_for's pick among them.
RowsOf(e) == {i \in Ids : table[i] # NoRow /\ table[i].epoch = e}
LatestFor(e) == IF RowsOf(e) = {} THEN NoId ELSE CHOOSE i \in RowsOf(e) : TRUE

\* select_record: the chosen epoch if the set holds it, else the first.
SelectRecord(records, wanted) ==
    IF \E k \in DOMAIN records : records[k] = wanted THEN wanted ELSE records[1]

Goto(l, label) == pc' = [pc EXCEPT ![l] = label]

End(l, why) ==
    /\ outcome' = [outcome EXCEPT ![l] = why]
    /\ Goto(l, "done")

Return(l, i) ==
    /\ answer' = [answer EXCEPT ![l] = i]
    /\ End(l, "served")

-----------------------------------------------------------------------------

Select(l) ==
    /\ pc[l] = "select"
    /\ \E records \in Rankings, wanted \in Epochs \cup {NoEpoch} :
        LET e == SelectRecord(records, wanted) IN
        /\ epoch' = [epoch EXCEPT ![l] = e]
        /\ servedBefore' = [servedBefore EXCEPT ![l] =
                \E m \in Lookups : outcome[m] = "served" /\ epoch[m] = e]
    /\ Goto(l, "lookup")
    /\ UNCHANGED <<table, mine, outcome, answer, missed>>

\* save's `keyed`, and the test the retention lookup makes before it reads.
Keyed(l) == epoch[l] \notin Nameless

\* get_by_designation_and_spectrum_id finds a row.
Found(l) == Keyed(l) /\ RowsOf(epoch[l]) # {}

\* _retained_spectrum: a held copy that validates is served ...
ServeRetained(l) ==
    /\ pc[l] = "lookup"
    /\ Found(l)
    /\ table[LatestFor(epoch[l])].valid
    /\ Return(l, LatestFor(epoch[l]))
    /\ UNCHANGED <<table, epoch, mine, history>>

\* ... and one that does not is refused, not fetched again.
RefuseRetained(l) ==
    /\ pc[l] = "lookup"
    /\ Found(l)
    /\ ~table[LatestFor(epoch[l])].valid
    /\ End(l, "unusable_copy")
    /\ UNCHANGED <<table, epoch, mine, answer, history>>

NotRetained(l) ==
    /\ pc[l] = "lookup"
    /\ ~Found(l)
    /\ Goto(l, "download")
    /\ UNCHANGED <<table, epoch, mine, outcome, answer, history>>

\* A DatabaseError in the lookup counts as a miss.
RetentionUnreadable(l) ==
    /\ pc[l] = "lookup"
    /\ Keyed(l)
    /\ missed' = [missed EXCEPT ![l] = TRUE]
    /\ Goto(l, "download")
    /\ UNCHANGED <<table, epoch, mine, outcome, answer, servedBefore>>

\* get_for_candidate: the readers check the fluxes; the redshift is the
\* candidate's and nothing checks it.
Download(l) ==
    /\ pc[l] = "download"
    /\ Goto(l, "latest")
    /\ UNCHANGED <<table, epoch, mine, outcome, answer, history>>

DownloadFails(l) ==
    /\ pc[l] = "download"
    /\ End(l, "unreachable") \/ End(l, "unusable")
    /\ UNCHANGED <<table, epoch, mine, answer, history>>

-----------------------------------------------------------------------------
(* DjangoSpectrumRepository.save                                           *)

\* An identifier in no row and in no other hand.
Minted(i) == table[i] = NoRow /\ \A l \in Lookups : mine[l] # i

\* A keyed save takes the identifier of the epoch's row; every other mints one.
ReadLatest(l) ==
    /\ pc[l] = "latest"
    /\ \E i \in Ids :
        /\ IF Found(l) THEN i = LatestFor(epoch[l]) ELSE Minted(i)
        /\ mine' = [mine EXCEPT ![l] = i]
    /\ Goto(l, "write")
    /\ UNCHANGED <<table, epoch, outcome, answer, history>>

UnkeyedRow(l) == [epoch |-> NoEpoch, valid |-> epoch[l] \notin Blueshifted]
                                        \* mutant: the identifiers are left out
RowFor(l) == [epoch |-> epoch[l], valid |-> epoch[l] \notin Blueshifted]

\* The unique constraint: another row holds the epoch.
Taken(l) == RowsOf(epoch[l]) \ {mine[l]} # {}

\* update_or_create by identifier: in a savepoint when the save is keyed, bare
\* when it is not.
Write(l) ==
    /\ pc[l] = "write"
    /\ ~Taken(l)
    /\ table' = [table EXCEPT ![mine[l]] = RowFor(l)]
    /\ Return(l, mine[l])
    /\ UNCHANGED <<epoch, mine, history>>

ConflictEscapes(l) ==                   \* mutant: IntegrityError is not caught
    /\ pc[l] = "write"
    /\ Taken(l)
    /\ End(l, "conflict")
    /\ UNCHANGED <<table, epoch, mine, answer, history>>

\* A keyed save catches the conflict ...
WriteConflicts(l) ==
    /\ pc[l] = "write"
    /\ Taken(l)
    /\ Keyed(l)
    /\ Goto(l, "reread")
    /\ UNCHANGED <<table, epoch, mine, outcome, answer, history>>

\* ... and an unkeyed one does not: it reaches the researcher as a failure of
\* the spectrum store.
UnkeyedConflicts(l) ==
    /\ pc[l] = "write"
    /\ Taken(l)
    /\ ~Keyed(l)
    /\ End(l, "conflict")
    /\ UNCHANGED <<table, epoch, mine, answer, history>>

OwnId(l) == mine[l]                     \* mutant: the minted id is kept
WinnerId(l) == LatestFor(epoch[l])

\* The winner's row is looked for; without one the IntegrityError is raised
\* again.
Reread(l) ==
    /\ pc[l] = "reread"
    /\ IF LatestFor(epoch[l]) = NoId
         THEN End(l, "conflict") /\ UNCHANGED mine
         ELSE /\ mine' = [mine EXCEPT ![l] = WinnerId(l)]
              /\ Goto(l, "update")
              /\ UNCHANGED outcome
    /\ UNCHANGED <<table, epoch, answer, history>>

\* An UPDATE by identifier: it touches no row when there is none.
UpdateWinner(l) ==
    /\ pc[l] = "update"
    /\ table' = IF table[mine[l]] = NoRow
                  THEN table ELSE [table EXCEPT ![mine[l]] = RowFor(l)]
    /\ Return(l, mine[l])
    /\ UNCHANGED <<epoch, mine, history>>

\* A database operation of the save raises; a write may have reached the
\* table before its connection was lost.
SaveFails(l) ==
    /\ pc[l] \in {"latest", "write", "reread", "update"}
    /\ pc[l] = "latest" => Keyed(l)
    /\ End(l, "storage_error")
    /\ \/ UNCHANGED table
       \/ /\ pc[l] = "write"
          /\ ~Taken(l)
          /\ table' = [table EXCEPT ![mine[l]] = RowFor(l)]
    /\ UNCHANGED <<epoch, mine, answer, history>>

-----------------------------------------------------------------------------

Lookup(l) ==
    \/ Select(l)
    \/ ServeRetained(l) \/ RefuseRetained(l)
    \/ NotRetained(l) \/ RetentionUnreadable(l)
    \/ Download(l) \/ DownloadFails(l)
    \/ ReadLatest(l) \/ Write(l) \/ WriteConflicts(l) \/ UnkeyedConflicts(l)
    \/ Reread(l) \/ UpdateWinner(l) \/ SaveFails(l)

Next == \E l \in Lookups : Lookup(l)

Spec == Init /\ [][Next]_vars

-----------------------------------------------------------------------------

\* Whichever lookups race to retain an epoch, it looks from outside as if
\* saves were atomic: every answer carries the one identifier the epoch is
\* retained under ("the winner's id when a concurrent writer inserted the row
\* for this epoch first").  Nameless epochs included: the unique constraint
\* refuses the row a second unkeyed save would insert.
Retention == INSTANCE RetainedEpochs WITH
    idOf <- [e \in Epochs |-> LatestFor(e)],
    asked <- epoch
RetentionSpec == Retention!Spec

\* The uniqueness conflict of two first saves reaches the researcher for no
\* epoch of an object that has an IAU name ("an unhandled one would surface to
\* the researcher as an unusable spectrum").  For a nameless one it does.
NoConflictEscapes ==
    \A l \in Lookups : outcome[l] = "conflict" => epoch[l] \in Nameless

\* Once an epoch has been served, a lookup that begins afterwards does not
\* download it ("so a repeat lookup makes no outbound download"), with two
\* exceptions: it could not read retention, or the epoch's object has no IAU
\* name, under which alone retention is searched.
RepeatMakesNoDownload ==
    \A l \in Lookups :
        pc[l] = "download" /\ servedBefore[l] =>
            missed[l] \/ epoch[l] \in Nameless

-----------------------------------------------------------------------------

\* What the service's docstrings say of a retained copy that is refused: it
\* "no longer validates", "a condition of the held copy rather than of the
\* source".  A copy served as it was fetched, which nothing has touched since,
\* is then never refused to another lookup.
ServedStaysServable ==
    \A l, m \in Lookups :
        outcome[l] = "served" /\ outcome[m] = "unusable_copy" =>
            epoch[l] # epoch[m]
=============================================================================
