-------------------------- MODULE RetentionProofs ---------------------------
(***************************************************************************)
(* Proofs about SpectrumRetention, for any lookups, epochs, candidate sets *)
(* and identifiers: the read-then-write saves implement RetainedEpochs,    *)
(* and, but for the epochs of nameless objects, the uniqueness conflict    *)
(* never escapes and a repeat makes no download.                           *)
(*                                                                         *)
(* The argument: an epoch has one row at most, and never loses it          *)
(* (OneRowEach, RowsStay); an identifier in a lookup's hand is in no row,  *)
(* or in the row of the epoch that lookup selected, and lookups that hold  *)
(* one identifier selected one epoch (OneEpochEach).  So a write makes the *)
(* first row of its epoch or rewrites the only one, and a lookup that met  *)
(* the conflict finds the row that it conflicted with.                     *)
(***************************************************************************)
EXTENDS SpectrumRetention, TLAPS

OneRowEach == \A e \in Epochs : \A i, j \in RowsOf(e) : i = j

OneEpochEach ==
    \A l, m \in Lookups : mine[l] # NoId /\ mine[l] = mine[m] => epoch[l] = epoch[m]

\* Where a lookup is, and what it has in hand there.
HandInv(l) ==
    /\ pc[l] = "select" => epoch[l] = NoEpoch /\ mine[l] = NoId
    /\ pc[l] # "select" => epoch[l] \in Epochs
    /\ mine[l] # NoId => table[mine[l]] = NoRow \/ mine[l] \in RowsOf(epoch[l])
    /\ pc[l] \in {"write", "reread", "update"} => mine[l] # NoId
    /\ pc[l] = "update" => mine[l] \in RowsOf(epoch[l])

\* What a lookup has seen of its epoch.
SeenInv(l) ==
    /\ pc[l] \in {"reread", "update"} => RowsOf(epoch[l]) # {}
    /\ outcome[l] = "served" => pc[l] = "done" /\ RowsOf(epoch[l]) # {}
    /\ servedBefore[l] => RowsOf(epoch[l]) # {}

\* How it ends.
EndInv(l) ==
    /\ pc[l] # "done" => answer[l] = NoId
    /\ outcome[l] = "conflict" => epoch[l] \in Nameless
    /\ pc[l] = "download" /\ servedBefore[l] => missed[l] \/ epoch[l] \in Nameless

IInv ==
    /\ TypeOK
    /\ OneRowEach
    /\ OneEpochEach
    /\ \A l \in Lookups : HandInv(l) /\ SeenInv(l) /\ EndInv(l)

\* What a step of lookup l may do to the table: nothing, or make or rewrite the
\* one row of the epoch it selected, under the identifier in its hand.
TableStep(l) ==
    \/ table' = table
    \/ /\ mine[l] # NoId /\ epoch[l] \in Epochs
       /\ RowsOf(epoch[l]) \subseteq {mine[l]}
       /\ table' = [table EXCEPT ![mine[l]] = RowFor(l)]

\* The other lookups are where they were.
OthersStay(l) ==
    \A m \in Lookups \ {l} :
        /\ pc'[m] = pc[m] /\ epoch'[m] = epoch[m] /\ mine'[m] = mine[m]
        /\ outcome'[m] = outcome[m] /\ answer'[m] = answer[m]
        /\ servedBefore'[m] = servedBefore[m] /\ missed'[m] = missed[m]

-----------------------------------------------------------------------------

\* An epoch that has a row has the row that _latest_for picks, and no other.
LEMMA LatestIsRow ==
    ASSUME NEW e, RowsOf(e) # {}
    PROVE  LatestFor(e) \in RowsOf(e)
BY DEF LatestFor

LEMMA OnlyRow ==
    ASSUME IInv, NEW e \in Epochs, NEW i \in RowsOf(e)
    PROVE  RowsOf(e) = {i} /\ LatestFor(e) = i
BY LatestIsRow DEF IInv, OneRowEach

\* A choice from one is that one.
LEMMA ChooseOnly ==
    ASSUME NEW S, NEW i, S = {i}
    PROVE  S # {} /\ (CHOOSE j \in S : TRUE) = i
OBVIOUS

LEMMA ChooseSame ==
    ASSUME NEW S, NEW T, S = T
    PROVE  (CHOOSE j \in S : TRUE) = (CHOOSE j \in T : TRUE)
OBVIOUS

\* What a row is, and what an identifier in hand is.
LEMMA RowFacts ==
    ASSUME IInv, NEW l \in Lookups, mine[l] # NoId
    PROVE  /\ mine[l] \in Ids
           /\ epoch[l] \in Epochs => RowFor(l) \in Row /\ RowFor(l) # NoRow
           /\ RowFor(l).epoch = epoch[l]
<1>1. mine[l] \in Ids
  BY DEF IInv, TypeOK
<1>2. epoch[l] \in Epochs => RowFor(l) \in Row
  <2>1. (epoch[l] \notin Blueshifted) \in BOOLEAN
    OBVIOUS
  <2> QED
    BY <2>1 DEF RowFor, Row
<1>3. NoRow \notin Row
  BY NoSuchValues DEF Row
<1> QED
  BY <1>1, <1>2, <1>3 DEF RowFor

-----------------------------------------------------------------------------
(* What a step does to the rows.                                            *)

\* The rows of each epoch after a write.
LEMMA RowsAfterWrite ==
    ASSUME IInv, NEW l \in Lookups, mine[l] # NoId, epoch[l] \in Epochs,
           RowsOf(epoch[l]) \subseteq {mine[l]},
           table' = [table EXCEPT ![mine[l]] = RowFor(l)],
           NEW e \in Epochs
    PROVE  RowsOf(e)' = IF e = epoch[l] THEN {mine[l]} ELSE RowsOf(e)
<1>1. /\ mine[l] \in Ids /\ RowFor(l) # NoRow /\ RowFor(l).epoch = epoch[l]
      /\ table \in [Ids -> Row \cup {NoRow}]
  BY RowFacts DEF IInv, TypeOK
<1>2. \A i \in Ids : table'[i] = IF i = mine[l] THEN RowFor(l) ELSE table[i]
  BY <1>1
<1>3. table[mine[l]] = NoRow \/ table[mine[l]].epoch = epoch[l]
  BY DEF IInv, HandInv, RowsOf
<1>4. RowsOf(e)' = {i \in Ids : table'[i] # NoRow /\ table'[i].epoch = e}
  BY DEF RowsOf
<1>5. CASE e = epoch[l]
  <2>1. \A i \in Ids : table[i] # NoRow /\ table[i].epoch = e => i = mine[l]
    BY <1>5 DEF RowsOf
  <2> QED
    BY <1>1, <1>2, <1>4, <1>5, <2>1
<1>6. CASE e # epoch[l]
  BY <1>1, <1>2, <1>3, <1>4, <1>6 DEF RowsOf
<1> QED
  BY <1>5, <1>6

\* Rows are never lost, an epoch never gets a second one, and what is in the
\* lookups' hands stays in no row or in the row of its epoch.
LEMMA RowsStay ==
    ASSUME IInv, NEW l \in Lookups, TableStep(l)
    PROVE  /\ table' \in [Ids -> Row \cup {NoRow}]
           /\ OneRowEach'
           /\ \A e \in Epochs : RowsOf(e) \subseteq RowsOf(e)'
           /\ \A m \in Lookups, e \in Epochs : mine[m] # NoId /\ epoch[m] = e =>
                table'[mine[m]] = NoRow \/ mine[m] \in RowsOf(e)'
<1>1. CASE table' = table
  <2>1. \A e : RowsOf(e)' = RowsOf(e)
    BY <1>1 DEF RowsOf
  <2> QED
    BY <1>1, <2>1 DEF IInv, TypeOK, OneRowEach, HandInv, Row
<1>2. CASE table' # table
  <2>1. /\ mine[l] # NoId /\ epoch[l] \in Epochs
        /\ RowsOf(epoch[l]) \subseteq {mine[l]}
        /\ table' = [table EXCEPT ![mine[l]] = RowFor(l)]
    BY <1>2 DEF TableStep
  <2>2. \A e \in Epochs : RowsOf(e)' = IF e = epoch[l] THEN {mine[l]} ELSE RowsOf(e)
    BY <2>1, RowsAfterWrite
  <2>3. table' \in [Ids -> Row \cup {NoRow}]
    BY <2>1, RowFacts DEF IInv, TypeOK
  <2>4. OneRowEach'
    BY <2>2 DEF IInv, OneRowEach
  <2>5. \A e \in Epochs : RowsOf(e) \subseteq RowsOf(e)'
    BY <2>1, <2>2
  <2>6. ASSUME NEW m \in Lookups, NEW e \in Epochs, mine[m] # NoId, epoch[m] = e
        PROVE  table'[mine[m]] = NoRow \/ mine[m] \in RowsOf(e)'
    <3>1. CASE mine[m] = mine[l]
      BY <2>1, <2>2, <2>6, <3>1 DEF IInv, OneEpochEach
    <3>2. CASE mine[m] # mine[l]
      <4>1. mine[m] \in Ids /\ table'[mine[m]] = table[mine[m]]
        BY <2>1, <2>6, <3>2, RowFacts DEF IInv, TypeOK
      <4>2. table[mine[m]] = NoRow \/ mine[m] \in RowsOf(e)
        BY <2>6 DEF IInv, HandInv
      <4> QED
        BY <2>5, <4>1, <4>2
    <3> QED
      BY <3>1, <3>2
  <2> QED
    BY <2>3, <2>4, <2>5, <2>6
<1> QED
  BY <1>1, <1>2

-----------------------------------------------------------------------------
(* One lookup's step leaves the invariant to the others.                    *)

LEMMA OthersKeep ==
    ASSUME IInv, NEW l \in Lookups, TableStep(l), OthersStay(l),
           NEW m \in Lookups \ {l}
    PROVE  HandInv(m)' /\ SeenInv(m)' /\ EndInv(m)'
<1>1. HandInv(m) /\ SeenInv(m) /\ EndInv(m)
  BY DEF IInv
<1>2. /\ pc'[m] = pc[m] /\ epoch'[m] = epoch[m] /\ mine'[m] = mine[m]
      /\ outcome'[m] = outcome[m] /\ answer'[m] = answer[m]
      /\ servedBefore'[m] = servedBefore[m] /\ missed'[m] = missed[m]
  BY DEF OthersStay
<1>3. EndInv(m)'
  BY <1>1, <1>2 DEF EndInv
<1>4. CASE epoch[m] \notin Epochs
  <2>1. pc[m] = "select" /\ mine[m] = NoId /\ RowsOf(epoch[m]) = {}
    BY <1>1, <1>4 DEF HandInv, RowsOf, IInv, TypeOK, Row
  <2>2. HandInv(m)'
    BY <1>1, <1>2, <2>1 DEF HandInv
  <2>3. SeenInv(m)'
    BY <1>1, <1>2, <2>1 DEF SeenInv
  <2> QED
    BY <1>3, <2>2, <2>3
<1>5. CASE epoch[m] \in Epochs
  <2>1. /\ mine[m] # NoId => table'[mine[m]] = NoRow \/ mine[m] \in RowsOf(epoch[m])'
        /\ RowsOf(epoch[m]) \subseteq RowsOf(epoch[m])'
    <3>1. \A d \in Epochs : d = epoch[m] =>
            /\ mine[m] # NoId => table'[mine[m]] = NoRow \/ mine[m] \in RowsOf(d)'
            /\ RowsOf(d) \subseteq RowsOf(d)'
      BY RowsStay
    <3>2. \A d \in Epochs : d = epoch[m] => RowsOf(d)' = RowsOf(epoch[m])'
      BY <1>2 DEF RowsOf
    <3> QED
      BY <1>5, <3>1, <3>2
  <2>2. HandInv(m)'
    BY <1>1, <1>2, <2>1 DEF HandInv
  <2>3. SeenInv(m)'
    BY <1>1, <1>2, <2>1 DEF SeenInv
  <2> QED
    BY <1>3, <2>2, <2>3
<1> QED
  BY <1>4, <1>5

\* So a step keeps the invariant when it keeps its own lookup's part of it.
LEMMA LocalStep ==
    ASSUME IInv, NEW l \in Lookups, TableStep(l), OthersStay(l), TypeOK',
           HandInv(l)', SeenInv(l)', EndInv(l)',
           \A m \in Lookups \ {l} :
                mine'[l] # NoId /\ mine[m] = mine'[l] => epoch[m] = epoch'[l]
    PROVE  IInv'
<1>1. OneRowEach'
  BY RowsStay
<1>2. \A m \in Lookups : HandInv(m)' /\ SeenInv(m)' /\ EndInv(m)'
  BY OthersKeep
<1>3. OneEpochEach'
  BY DEF IInv, OneEpochEach, OthersStay
<1> QED
  BY <1>1, <1>2, <1>3 DEF IInv
-----------------------------------------------------------------------------
(* The steps.                                                               *)

\* What a lookup's own step needs of its row when it leaves the table alone.
LEMMA QuietRows ==
    ASSUME table' = table
    PROVE  \A l \in Lookups : RowsOf(epoch[l])' = RowsOf(epoch'[l])
BY DEF RowsOf

LEMMA SelectStep ==
    ASSUME IInv, NEW l \in Lookups, Select(l)
    PROVE  IInv'
<1>1. /\ pc[l] = "select" /\ epoch[l] = NoEpoch /\ mine[l] = NoId
      /\ outcome[l] # "served" /\ outcome[l] # "conflict" /\ answer[l] = NoId
  BY NamelessEpochs, NoSuchValues DEF IInv, HandInv, SeenInv, EndInv, Select
<1>2. PICK e : /\ epoch' = [epoch EXCEPT ![l] = e]
               /\ servedBefore' = [servedBefore EXCEPT ![l] =
                    \E m \in Lookups : outcome[m] = "served" /\ epoch[m] = e]
               /\ \E records \in Rankings, wanted \in Epochs \cup {NoEpoch} :
                    e = SelectRecord(records, wanted)
  BY DEF Select
<1>3. e \in Epochs
  BY <1>2, RankingsOfEpochs, NoSuchValues DEF SelectRecord
<1>4. /\ pc' = [pc EXCEPT ![l] = "lookup"] /\ table' = table
      /\ UNCHANGED <<mine, outcome, answer, missed>>
  BY DEF Select, Goto
<1>5. TypeOK'
  <2>1. (\E m \in Lookups : outcome[m] = "served" /\ epoch[m] = e) \in BOOLEAN
    OBVIOUS
  <2> QED
    BY <1>2, <1>3, <1>4, <2>1 DEF IInv, TypeOK, PCs
<1>6. pc'[l] = "lookup" /\ epoch'[l] = e /\ OthersStay(l)
  BY <1>2, <1>4 DEF IInv, TypeOK, OthersStay
<1>7. servedBefore'[l] => RowsOf(e) # {}
  BY <1>2 DEF IInv, TypeOK, SeenInv
<1>8. HandInv(l)' /\ SeenInv(l)' /\ EndInv(l)'
  BY <1>1, <1>3, <1>4, <1>6, <1>7, QuietRows DEF HandInv, SeenInv, EndInv
<1> QED
  BY <1>1, <1>4, <1>5, <1>6, <1>8, LocalStep DEF TableStep

\* Steps that leave the table, the epoch and the identifier in hand alone.
LEMMA QuietStep ==
    ASSUME IInv, NEW l \in Lookups, pc[l] # "select",
           UNCHANGED <<table, epoch, mine, servedBefore>>,
           OthersStay(l), TypeOK', SeenInv(l)', EndInv(l)',
           pc'[l] \in {"download", "latest", "reread", "done"},
           pc'[l] = "reread" => mine[l] # NoId
    PROVE  IInv'
<1>1. HandInv(l)'
  BY QuietRows DEF IInv, HandInv, RowsOf
<1>2. \A m \in Lookups \ {l} : mine'[l] # NoId /\ mine[m] = mine'[l] => epoch[m] = epoch'[l]
  BY DEF IInv, OneEpochEach
<1> QED
  BY <1>1, <1>2, LocalStep DEF TableStep

LEMMA QuietSteps ==
    ASSUME IInv, NEW l \in Lookups,
           \/ ServeRetained(l) \/ RefuseRetained(l) \/ NotRetained(l)
           \/ RetentionUnreadable(l) \/ Download(l) \/ DownloadFails(l)
           \/ WriteConflicts(l) \/ UnkeyedConflicts(l)
    PROVE  IInv'
<1>1. /\ HandInv(l) /\ SeenInv(l) /\ EndInv(l)
      /\ epoch[l] \in Epochs
  BY DEF IInv, HandInv, ServeRetained, RefuseRetained, NotRetained,
         RetentionUnreadable, Download, DownloadFails, WriteConflicts, UnkeyedConflicts
<1>2. RowsOf(epoch[l]) # {} => LatestFor(epoch[l]) \in Ids
  BY LatestIsRow DEF RowsOf
<1>3. /\ table' = table /\ UNCHANGED <<epoch, mine, servedBefore>> /\ pc[l] # "select"
  BY DEF ServeRetained, RefuseRetained, NotRetained, RetentionUnreadable, Download,
         DownloadFails, WriteConflicts, UnkeyedConflicts, history
<1>4. RowsOf(epoch[l])' = RowsOf(epoch[l])
  BY <1>3 DEF RowsOf
<1>5. CASE ServeRetained(l)
  <2>1. TypeOK' /\ OthersStay(l) /\ pc'[l] = "done" /\ outcome'[l] = "served"
    BY <1>2, <1>5 DEF IInv, TypeOK, OthersStay, ServeRetained, Found, Return, End, Goto,
                      history, PCs, Outcomes
  <2>2. SeenInv(l)' /\ EndInv(l)'
    BY <1>1, <1>3, <1>4, <1>5, <2>1 DEF SeenInv, EndInv, ServeRetained, Found
  <2> QED
    BY <1>3, <2>1, <2>2, QuietStep
<1>6. CASE RefuseRetained(l)
  <2>1. TypeOK' /\ OthersStay(l) /\ pc'[l] = "done" /\ outcome'[l] = "unusable_copy"
    BY <1>6 DEF IInv, TypeOK, OthersStay, RefuseRetained, End, Goto, history, PCs, Outcomes
  <2>2. SeenInv(l)' /\ EndInv(l)'
    BY <1>1, <1>3, <1>4, <2>1 DEF SeenInv, EndInv
  <2> QED
    BY <1>3, <2>1, <2>2, QuietStep
<1>7. CASE NotRetained(l)
  <2>1. /\ TypeOK' /\ OthersStay(l) /\ pc'[l] = "download" /\ outcome'[l] = outcome[l]
        /\ answer'[l] = answer[l] /\ pc[l] = "lookup"
    BY <1>7 DEF IInv, TypeOK, OthersStay, NotRetained, Goto, history, PCs
  <2>2. SeenInv(l)' /\ EndInv(l)'
    BY <1>1, <1>3, <1>4, <1>7, <2>1 DEF SeenInv, EndInv, NotRetained, Found, Keyed
  <2> QED
    BY <1>3, <2>1, <2>2, QuietStep
<1>8. CASE RetentionUnreadable(l)
  <2>1. /\ TypeOK' /\ OthersStay(l) /\ pc'[l] = "download" /\ outcome'[l] = outcome[l]
        /\ answer'[l] = answer[l] /\ pc[l] = "lookup" /\ missed'[l]
    BY <1>8 DEF IInv, TypeOK, OthersStay, RetentionUnreadable, Goto, PCs
  <2>2. SeenInv(l)' /\ EndInv(l)'
    BY <1>1, <1>3, <1>4, <2>1 DEF SeenInv, EndInv
  <2> QED
    BY <1>3, <2>1, <2>2, QuietStep
<1>9. CASE Download(l)
  <2>1. /\ TypeOK' /\ OthersStay(l) /\ pc'[l] = "latest" /\ outcome'[l] = outcome[l]
        /\ answer'[l] = answer[l] /\ pc[l] = "download"
    BY <1>9 DEF IInv, TypeOK, OthersStay, Download, Goto, history, PCs
  <2>2. SeenInv(l)' /\ EndInv(l)'
    BY <1>1, <1>3, <1>4, <2>1 DEF SeenInv, EndInv
  <2> QED
    BY <1>3, <2>1, <2>2, QuietStep
<1>10. CASE DownloadFails(l)
  <2>1. /\ TypeOK' /\ OthersStay(l) /\ pc'[l] = "done"
        /\ outcome'[l] \in {"unreachable", "unusable"}
    BY <1>10 DEF IInv, TypeOK, OthersStay, DownloadFails, End, Goto, history, PCs, Outcomes
  <2>2. SeenInv(l)' /\ EndInv(l)'
    BY <1>1, <1>3, <1>4, <2>1 DEF SeenInv, EndInv
  <2> QED
    BY <1>3, <2>1, <2>2, QuietStep
<1>11. CASE WriteConflicts(l)
  <2>1. /\ TypeOK' /\ OthersStay(l) /\ pc'[l] = "reread" /\ outcome'[l] = outcome[l]
        /\ answer'[l] = answer[l] /\ pc[l] = "write"
    BY <1>11 DEF IInv, TypeOK, OthersStay, WriteConflicts, Goto, history, PCs
  <2>2. SeenInv(l)' /\ EndInv(l)'
    BY <1>1, <1>3, <1>4, <1>11, <2>1 DEF SeenInv, EndInv, WriteConflicts, Taken
  <2>3. mine[l] # NoId
    BY <1>1, <2>1 DEF HandInv
  <2> QED
    BY <1>3, <2>1, <2>2, <2>3, QuietStep
<1>12. CASE UnkeyedConflicts(l)
  <2>1. TypeOK' /\ OthersStay(l) /\ pc'[l] = "done" /\ outcome'[l] = "conflict"
    BY <1>12 DEF IInv, TypeOK, OthersStay, UnkeyedConflicts, End, Goto, history, PCs, Outcomes
  <2>2. SeenInv(l)' /\ EndInv(l)'
    BY <1>1, <1>3, <1>4, <1>12, <2>1 DEF SeenInv, EndInv, UnkeyedConflicts, Keyed
  <2> QED
    BY <1>3, <2>1, <2>2, QuietStep
<1> QED
  BY <1>5, <1>6, <1>7, <1>8, <1>9, <1>10, <1>11, <1>12

\* An identifier taken up by lookup l that no other lookup holds, or that is the
\* row of the epoch l selected.
LEMMA ReadLatestStep ==
    ASSUME IInv, NEW l \in Lookups, ReadLatest(l)
    PROVE  IInv'
<1>1. /\ pc[l] = "latest" /\ epoch[l] \in Epochs
      /\ HandInv(l) /\ SeenInv(l) /\ EndInv(l)
  BY DEF IInv, HandInv, ReadLatest
<1>2. PICK i \in Ids :
        /\ IF Found(l) THEN i = LatestFor(epoch[l]) ELSE Minted(i)
        /\ mine' = [mine EXCEPT ![l] = i]
  BY DEF ReadLatest
<1>3. /\ pc' = [pc EXCEPT ![l] = "write"] /\ table' = table
      /\ UNCHANGED <<epoch, outcome, answer, servedBefore, missed>>
  BY DEF ReadLatest, Goto, history
<1>4. /\ TypeOK' /\ OthersStay(l) /\ mine'[l] = i /\ pc'[l] = "write" /\ i # NoId
  BY <1>2, <1>3, NoSuchValues DEF IInv, TypeOK, OthersStay, PCs
<1>5. RowsOf(epoch[l])' = RowsOf(epoch[l])
  BY <1>3 DEF RowsOf
<1>6. \/ i \in RowsOf(epoch[l])
      \/ table[i] = NoRow /\ \A m \in Lookups : mine[m] # i
  BY <1>2, LatestIsRow DEF Minted, Found
<1>7. HandInv(l)' /\ SeenInv(l)' /\ EndInv(l)'
  BY <1>1, <1>3, <1>4, <1>5, <1>6 DEF HandInv, SeenInv, EndInv
<1>8. ASSUME NEW m \in Lookups \ {l}, mine[m] = i
      PROVE  epoch[m] = epoch'[l]
  <2>1. i \in RowsOf(epoch[l])
    BY <1>6, <1>8
  <2>2. i \in RowsOf(epoch[m])
    BY <1>4, <1>8, <2>1 DEF IInv, HandInv, RowsOf
  <2> QED
    BY <1>3, <2>1, <2>2 DEF RowsOf
<1> QED
  BY <1>3, <1>4, <1>7, <1>8, LocalStep DEF TableStep

\* A lookup that met the conflict finds the row it conflicted with.
LEMMA RereadStep ==
    ASSUME IInv, NEW l \in Lookups, Reread(l)
    PROVE  IInv'
<1>1. /\ pc[l] = "reread" /\ epoch[l] \in Epochs
      /\ HandInv(l) /\ SeenInv(l) /\ EndInv(l)
  BY DEF IInv, HandInv, Reread
<1> DEFINE i == LatestFor(epoch[l])
<1>2. i \in RowsOf(epoch[l]) /\ i \in Ids /\ i # NoId
  BY <1>1, LatestIsRow, NoSuchValues DEF SeenInv, RowsOf
<1>3. /\ pc' = [pc EXCEPT ![l] = "update"] /\ mine' = [mine EXCEPT ![l] = i]
      /\ table' = table
      /\ UNCHANGED <<epoch, outcome, answer, servedBefore, missed>>
  BY <1>2 DEF Reread, Goto, history, WinnerId
<1>4. /\ TypeOK' /\ OthersStay(l) /\ mine'[l] = i /\ pc'[l] = "update"
  BY <1>2, <1>3 DEF IInv, TypeOK, OthersStay, PCs
<1>5. RowsOf(epoch[l])' = RowsOf(epoch[l])
  BY <1>3 DEF RowsOf
<1>6. HandInv(l)' /\ SeenInv(l)' /\ EndInv(l)'
  BY <1>1, <1>2, <1>3, <1>4, <1>5 DEF HandInv, SeenInv, EndInv
<1>7. ASSUME NEW m \in Lookups \ {l}, mine[m] = i
      PROVE  epoch[m] = epoch'[l]
  <2>1. i \in RowsOf(epoch[m])
    BY <1>2, <1>7 DEF IInv, HandInv, RowsOf
  <2> QED
    BY <1>2, <1>3, <2>1 DEF RowsOf
<1> QED
  BY <1>3, <1>4, <1>6, <1>7, LocalStep DEF TableStep

\* What a save may do to the table.
LEMMA WriteMakesRow ==
    ASSUME IInv, NEW l \in Lookups, pc[l] = "write", ~Taken(l),
           table' = [table EXCEPT ![mine[l]] = RowFor(l)]
    PROVE  TableStep(l)
BY DEF IInv, HandInv, Taken, TableStep

LEMMA UpdateRewritesRow ==
    ASSUME IInv, NEW l \in Lookups, UpdateWinner(l)
    PROVE  /\ TableStep(l)
           /\ mine[l] # NoId /\ epoch[l] \in Epochs
           /\ RowsOf(epoch[l]) = {mine[l]}
           /\ table' = [table EXCEPT ![mine[l]] = RowFor(l)]
<1>1. mine[l] \in RowsOf(epoch[l]) /\ epoch[l] \in Epochs /\ mine[l] # NoId
  BY DEF UpdateWinner, IInv, HandInv
<1>2. RowsOf(epoch[l]) = {mine[l]}
  BY <1>1, OnlyRow
<1>3. table' = [table EXCEPT ![mine[l]] = RowFor(l)]
  BY <1>1 DEF UpdateWinner, RowsOf
<1> QED
  BY <1>1, <1>2, <1>3 DEF TableStep

LEMMA SaveMakesRow ==
    ASSUME IInv, NEW l \in Lookups, SaveFails(l)
    PROVE  TableStep(l)
BY WriteMakesRow DEF SaveFails, TableStep

\* The steps that end a save.
LEMMA SaveSteps ==
    ASSUME IInv, NEW l \in Lookups, Write(l) \/ UpdateWinner(l) \/ SaveFails(l)
    PROVE  IInv'
<1>1. /\ HandInv(l) /\ SeenInv(l) /\ EndInv(l) /\ epoch[l] \in Epochs
      /\ pc[l] \in {"latest", "write", "reread", "update"}
  BY DEF IInv, HandInv, Write, UpdateWinner, SaveFails
<1>2. TableStep(l)
  BY WriteMakesRow, UpdateRewritesRow, SaveMakesRow DEF Write
<1>3. table' \in [Ids -> Row \cup {NoRow}] /\ UNCHANGED <<epoch, mine, servedBefore, missed>>
  BY <1>2, RowsStay DEF Write, UpdateWinner, SaveFails, history
<1>4. /\ \A e \in Epochs : e = epoch[l] => RowsOf(e)' = RowsOf(epoch[l])'
      /\ RowsOf(epoch[l]) \subseteq RowsOf(epoch[l])'
      /\ mine[l] # NoId => table'[mine[l]] = NoRow \/ mine[l] \in RowsOf(epoch[l])'
  <2>1. \A e \in Epochs : e = epoch[l] => RowsOf(e)' = RowsOf(epoch[l])'
    BY <1>3 DEF RowsOf
  <2>2. \A e \in Epochs : e = epoch[l] =>
            /\ RowsOf(e) \subseteq RowsOf(e)'
            /\ mine[l] # NoId => table'[mine[l]] = NoRow \/ mine[l] \in RowsOf(e)'
    BY <1>2, RowsStay
  <2> QED
    BY <1>1, <2>1, <2>2
<1>5. /\ pc' = [pc EXCEPT ![l] = "done"]
      /\ outcome' \in {[outcome EXCEPT ![l] = "served"], [outcome EXCEPT ![l] = "storage_error"]}
      /\ answer' \in {answer, [answer EXCEPT ![l] = mine[l]]}
  BY DEF Write, UpdateWinner, SaveFails, Return, End, Goto
<1>6. TypeOK' /\ OthersStay(l)
  BY <1>3, <1>5 DEF IInv, TypeOK, OthersStay, PCs, Outcomes
<1>7. pc'[l] = "done" /\ outcome'[l] \in {"served", "storage_error"}
  BY <1>5 DEF IInv, TypeOK
<1>8. outcome'[l] = "served" => RowsOf(epoch[l])' # {}
  <2>1. CASE SaveFails(l)
    BY <2>1 DEF SaveFails, End, IInv, TypeOK
  <2>2. CASE UpdateWinner(l)
    BY <1>4, <2>2, UpdateRewritesRow
  <2>3. CASE Write(l)
    <3>1. mine[l] # NoId /\ table'[mine[l]] # NoRow
      BY <1>1, <2>3, RowFacts DEF Write, HandInv, IInv, TypeOK
    <3> QED
      BY <1>4, <3>1
  <2> QED
    BY <2>1, <2>2, <2>3
<1>9. HandInv(l)' /\ SeenInv(l)' /\ EndInv(l)'
  BY <1>1, <1>3, <1>4, <1>7, <1>8 DEF HandInv, SeenInv, EndInv
<1>10. \A m \in Lookups \ {l} : mine'[l] # NoId /\ mine[m] = mine'[l] => epoch[m] = epoch'[l]
  BY <1>3 DEF IInv, OneEpochEach
<1> QED
  BY <1>2, <1>6, <1>9, <1>10, LocalStep

LEMMA IInvStep ==
    ASSUME IInv, [Next]_vars
    PROVE  IInv'
<1>1. CASE UNCHANGED vars
  BY <1>1 DEF vars, local, history, IInv, TypeOK, OneRowEach, OneEpochEach, HandInv,
              SeenInv, EndInv, RowsOf
<1>2. ASSUME NEW l \in Lookups, Lookup(l)
      PROVE  IInv'
  BY <1>2, SelectStep, QuietSteps, ReadLatestStep, RereadStep, SaveSteps DEF Lookup
<1> QED
  BY <1>1, <1>2 DEF Next

LEMMA IInvInit == Init => IInv
BY NoSuchValues DEF Init, IInv, TypeOK, OneRowEach, OneEpochEach, HandInv, SeenInv, EndInv,
   RowsOf, PCs, Outcomes

-----------------------------------------------------------------------------
(* The theorems.                                                            *)

\* However lookups of any epochs interleave the statements of their saves, and
\* whichever of these fail, an epoch never gets a second row, and what a lookup
\* holds never turns out to be another epoch's row.
THEOREM RetentionInvariant == Spec => []IInv
BY IInvInit, IInvStep, PTL DEF Spec

\* The types that the runs check.
THEOREM RetentionTyped == Spec => []TypeOK
<1>1. IInv => TypeOK
  BY DEF IInv
<1> QED
  BY <1>1, RetentionInvariant, PTL

\* save catches the uniqueness conflict of two first saves and adopts the
\* winner's row: since rows are never deleted the re-read finds one.  The
\* conflict reaches the researcher only from the save that does not catch it,
\* that of an epoch of an object without an IAU name.
THEOREM ConflictsStayInside == Spec => []NoConflictEscapes
<1>1. IInv => NoConflictEscapes
  BY DEF IInv, EndInv, NoConflictEscapes
<1> QED
  BY <1>1, RetentionInvariant, PTL

\* A lookup that begins after its epoch was served downloads nothing, unless it
\* could not read retention or the epoch's object has no IAU name.
THEOREM NoRepeatedDownload == Spec => []RepeatMakesNoDownload
<1>1. IInv => RepeatMakesNoDownload
  BY DEF IInv, EndInv, RepeatMakesNoDownload
<1> QED
  BY <1>1, RetentionInvariant, PTL

-----------------------------------------------------------------------------
(* The refinement of RetainedEpochs.                                        *)

\* The identifiers the epochs are retained under, as the mapping sees them.
IdOf == [e \in Epochs |-> LatestFor(e)]

LEMMA LatestTyped ==
    ASSUME NEW e \in Epochs
    PROVE  /\ RowsOf(e) = {} => LatestFor(e) = NoId
           /\ RowsOf(e) # {} => LatestFor(e) \in RowsOf(e) /\ LatestFor(e) \in Ids
BY LatestIsRow DEF LatestFor, RowsOf

\* An epoch whose rows a step leaves alone keeps its identifier.
LEMMA IdKept ==
    ASSUME NEW e \in Epochs, RowsOf(e)' = RowsOf(e)
    PROVE  LatestFor(e)' = LatestFor(e)
<1>1. LatestFor(e)' = IF RowsOf(e)' = {} THEN NoId ELSE CHOOSE i \in RowsOf(e)' : TRUE
  BY DEF LatestFor
<1> QED
  BY <1>1, ChooseSame DEF LatestFor

LEMMA IdsKept ==
    ASSUME table' = table
    PROVE  IdOf' = IdOf
<1>1. \A e \in Epochs : RowsOf(e)' = RowsOf(e)
  BY DEF RowsOf
<1>2. \A e \in Epochs : LatestFor(e)' = LatestFor(e)
  BY <1>1, IdKept
<1> QED
  BY <1>2 DEF IdOf

\* A write settles the identifier of an epoch without one, and of no other; of
\* an epoch with one it keeps it.
LEMMA IdsAfterWrite ==
    ASSUME IInv, NEW l \in Lookups, mine[l] # NoId, epoch[l] \in Epochs,
           RowsOf(epoch[l]) \subseteq {mine[l]},
           table' = [table EXCEPT ![mine[l]] = RowFor(l)]
    PROVE  /\ IdOf' = [IdOf EXCEPT ![epoch[l]] = mine[l]]
           /\ IdOf[epoch[l]] \in {NoId, mine[l]}
           /\ \A f \in Epochs : IdOf[f] = mine[l] => f = epoch[l]
<1>1. \A e \in Epochs : RowsOf(e)' = IF e = epoch[l] THEN {mine[l]} ELSE RowsOf(e)
  BY RowsAfterWrite
<1>2. \A e \in Epochs \ {epoch[l]} : LatestFor(e)' = LatestFor(e)
  BY <1>1, IdKept
<1>3. \A e \in Epochs : e = epoch[l] => LatestFor(e)' = mine[l]
  <2>1. ASSUME NEW e \in Epochs, e = epoch[l]
        PROVE  LatestFor(e)' = mine[l]
    <3>1. LatestFor(e)' = IF RowsOf(e)' = {} THEN NoId ELSE CHOOSE i \in RowsOf(e)' : TRUE
      BY DEF LatestFor
    <3>2. RowsOf(e)' = {mine[l]}
      BY <1>1, <2>1
    <3> QED
      BY <3>1, <3>2, ChooseOnly
  <2> QED
    BY <2>1
<1>4. IdOf' = [e \in Epochs |-> LatestFor(e)']
  BY DEF IdOf
<1>5. IdOf' = [IdOf EXCEPT ![epoch[l]] = mine[l]]
  BY <1>2, <1>3, <1>4 DEF IdOf
<1>6. IdOf[epoch[l]] \in {NoId, mine[l]}
  BY LatestTyped DEF IdOf
<1>7. ASSUME NEW f \in Epochs, IdOf[f] = mine[l]
      PROVE  f = epoch[l]
  <2>1. mine[l] \in RowsOf(f)
    BY <1>7, LatestTyped DEF IdOf
  <2> QED
    BY <2>1 DEF RowsOf, IInv, HandInv
<1> QED
  BY <1>5, <1>6, <1>7

\* How the steps look from outside: a lookup asks, ...
LEMMA SelectAsks ==
    ASSUME IInv, NEW l \in Lookups, Select(l)
    PROVE  Retention!Next
<1>1. PICK records \in Rankings, wanted \in Epochs \cup {NoEpoch} :
        epoch' = [epoch EXCEPT ![l] = SelectRecord(records, wanted)]
  BY DEF Select
<1>2. SelectRecord(records, wanted) \in Epochs
  BY RankingsOfEpochs, NoSuchValues DEF SelectRecord
<1>3. epoch[l] = NoEpoch /\ answer' = answer /\ IdOf' = IdOf
  BY IdsKept DEF IInv, HandInv, Select
<1> QED
  BY <1>1, <1>2, <1>3 DEF Retention!Next, Retention!Ask, IdOf

\* ... is answered with the identifier there is ...
LEMMA ServesAnswer ==
    ASSUME IInv, NEW l \in Lookups, ServeRetained(l) \/ UpdateWinner(l)
    PROVE  Retention!Next
<1>1. /\ epoch[l] \in Epochs /\ epoch[l] # NoEpoch /\ answer[l] = NoId /\ epoch' = epoch
  BY NoSuchValues DEF IInv, HandInv, EndInv, ServeRetained, UpdateWinner
<1>2. IdOf' = IdOf /\ IdOf[epoch[l]] # NoId /\ answer' = [answer EXCEPT ![l] = IdOf[epoch[l]]]
  <2>1. CASE ServeRetained(l)
    BY <1>1, <2>1, IdsKept, LatestTyped, NoSuchValues
      DEF ServeRetained, Found, Return, IdOf
  <2>2. CASE UpdateWinner(l)
    <3>1. /\ mine[l] # NoId /\ RowsOf(epoch[l]) = {mine[l]}
          /\ table' = [table EXCEPT ![mine[l]] = RowFor(l)]
      BY <2>2, UpdateRewritesRow
    <3>2. IdOf[epoch[l]] = mine[l]
      BY <1>1, <3>1, LatestTyped DEF IdOf
    <3>3. IdOf' = IdOf
      BY <1>1, <3>1, <3>2, IdsAfterWrite DEF IdOf
    <3> QED
      BY <2>2, <3>1, <3>2, <3>3 DEF UpdateWinner, Return
  <2> QED
    BY <2>1, <2>2
<1> QED
  BY <1>1, <1>2 DEF Retention!Next, Retention!Answer, IdOf

\* ... or settles it, and is answered, unless the connection was lost.
LEMMA WriteRetains ==
    ASSUME IInv, NEW l \in Lookups,
           \/ Write(l)
           \/ SaveFails(l) /\ table' # table
    PROVE  [Retention!Next]_Retention!vars
<1>1. /\ epoch[l] \in Epochs /\ epoch[l] # NoEpoch /\ answer[l] = NoId /\ epoch' = epoch
      /\ mine[l] # NoId /\ mine[l] \in Ids
      /\ pc[l] = "write" /\ ~Taken(l)
      /\ table' = [table EXCEPT ![mine[l]] = RowFor(l)]
  BY NoSuchValues DEF IInv, TypeOK, HandInv, EndInv, Write, SaveFails, history
<1>2. RowsOf(epoch[l]) \subseteq {mine[l]}
  BY <1>1 DEF Taken
<1>3. /\ IdOf' = [IdOf EXCEPT ![epoch[l]] = mine[l]]
      /\ IdOf[epoch[l]] \in {NoId, mine[l]}
      /\ \A f \in Epochs : IdOf[f] = mine[l] => f = epoch[l]
  BY <1>1, <1>2, IdsAfterWrite
<1>4. IdOf \in [Epochs -> Ids \cup {NoId}]
  BY LatestTyped DEF IdOf
<1>5. Write(l) => Retention!Answer(l)
  BY <1>1, <1>3, <1>4 DEF Write, Return, Retention!Answer, IdOf
<1>6. ~Write(l) => answer' = answer
  BY DEF SaveFails
<1>7. CASE IdOf[epoch[l]] = NoId
  <2>1. Retention!Retain(epoch[l], mine[l])
    BY <1>1, <1>3, <1>7 DEF Retention!Retain, IdOf
  <2> QED
    BY <1>1, <1>5, <1>6, <2>1 DEF Retention!Next
<1>8. CASE IdOf[epoch[l]] = mine[l]
  <2>1. IdOf' = IdOf
    BY <1>3, <1>4, <1>8
  <2> QED
    BY <1>1, <1>5, <1>6, <2>1 DEF Retention!Next, Retention!vars, IdOf
<1> QED
  BY <1>3, <1>7, <1>8

LEMMA RefinedStep ==
    ASSUME IInv, [Next]_vars
    PROVE  [Retention!Next]_Retention!vars
<1>1. table' = table /\ epoch' = epoch /\ answer' = answer => UNCHANGED Retention!vars
  BY IdsKept DEF Retention!vars, IdOf
<1>2. ASSUME NEW l \in Lookups,
             \/ RefuseRetained(l) \/ NotRetained(l) \/ RetentionUnreadable(l)
             \/ Download(l) \/ DownloadFails(l) \/ ReadLatest(l) \/ WriteConflicts(l)
             \/ UnkeyedConflicts(l) \/ Reread(l) \/ (SaveFails(l) /\ table' = table)
      PROVE  UNCHANGED Retention!vars
  BY <1>1, <1>2 DEF RefuseRetained, NotRetained, RetentionUnreadable, Download,
     DownloadFails, ReadLatest, WriteConflicts, UnkeyedConflicts, Reread, SaveFails
<1>3. ASSUME NEW l \in Lookups, Lookup(l)
      PROVE  [Retention!Next]_Retention!vars
  BY <1>2, <1>3, SelectAsks, ServesAnswer, WriteRetains DEF Lookup
<1>4. CASE UNCHANGED vars
  BY <1>1, <1>4 DEF vars, local
<1> QED
  BY <1>3, <1>4 DEF Next

LEMMA RefinedInit == Init => Retention!Init
BY DEF Init, Retention!Init, RowsOf, LatestFor

\* However the statements of the saves interleave, from outside each epoch is
\* retained under one identifier, for good, and every answer carries it: the
\* read-then-write saves implement RetainedEpochs, whose retaining and answering
\* are single steps.
THEOREM RetentionIsAtomic == Spec => RetentionSpec
<1>1. IInv /\ [Next]_vars => [Retention!Next]_Retention!vars
  BY RefinedStep
<1> QED
  BY <1>1, RefinedInit, RetentionInvariant, PTL DEF Spec, RetentionSpec, Retention!Spec
=============================================================================
