----------------------------- MODULE Leaderboard -----------------------------
(***************************************************************************)
(* The monthly standings: infrastructure/ml/leaderboard/.  An operator     *)
(* scores the listed models on the directory a scrape left (evaluate.py),  *)
(* which writes the month's score file; the page shows that file, and      *)
(* where it is silent the directory (page.py).  One month; scoring and     *)
(* scraping are run one after the other.                                   *)
(***************************************************************************)
EXTENDS MonthlyScrape

CONSTANTS
    Models,         \* listed classifiers
    NeedsRedshift,  \* those of them whose redshift input is required
    NoScores        \* contents of a missing score file

VARIABLE scores     \* the score file: rows loaded, rows scored by model, stamp

allVars == <<vars, scores>>

\* Types outside the five classes are not scored.
Canonical(r) == TypeOf(r) \notin {"SN", "SLSN-II"}

\* parse_ascii_spectrum: at least two numeric rows.
Readable(r) == files[r] \in Samples

\* load_challenge: the listed rows with a canonical type and a readable file.
Loaded == {r \in listed : Canonical(r) /\ Readable(r)}

\* drop_duplicate_spectra: in name order, one spectrum of an object and of each
\* set of samples.
KeepFirst(kept, r) ==
    IF \E k \in kept : Entry[k].object = Entry[r].object \/ files[k] = files[r]
    THEN kept ELSE kept \cup {r}

\* Mutant: an object counts as represented before its spectrum is compared.
ObjectsFirst ==
    LET seen(n) == \E q \in Loaded : q < n /\ Entry[q].object = Entry[n].object
        f[n \in 0..Cardinality(Rows)] ==
            IF n = 0 THEN {}
            ELSE IF n \notin Loaded \/ seen(n) \/ \E k \in f[n - 1] : files[k] = files[n]
            THEN f[n - 1] ELSE f[n - 1] \cup {n}
    IN  f[Cardinality(Rows)]

\* What is kept of the first n rows.
Kept[n \in 0..Cardinality(Rows)] ==
    IF n = 0 THEN {}
    ELSE IF n \in Loaded THEN KeepFirst(Kept[n - 1], n) ELSE Kept[n - 1]

Challenge == Kept[Cardinality(Rows)]

\* score_definition: a model that needs a redshift skips the rows without one.
ScoredBy(m) == {r \in Challenge : m \in NeedsRedshift => RedshiftKnown(r)}

Standings == [challenge |-> Challenge,
              scored |-> [m \in Models |-> ScoredBy(m)],
              stamp |-> stamp,
              by |-> listedBy]

\* evaluate_month, which needs a metadata.csv.
Score ==
    /\ pc = "off" /\ listedBy # 0
    /\ scores' = Standings
    /\ UNCHANGED vars

\* Killed while the score file is written in place.
ScoreKilled ==
    /\ pc = "off" /\ listedBy # 0
    /\ scores' = Torn
    /\ UNCHANGED vars

\* Mutant: the directory's date is preferred to the score file's.
DirectoryFirst ==
    [count |-> IF scores = NoScores THEN Cardinality(Challenge)
                                    ELSE Cardinality(scores.challenge),
     stamp |-> stamp]

\* What the page says of the month: the score file's word first.  (A torn score
\* file makes it raise.)
Shown ==
    IF scores = NoScores
    THEN [count |-> Cardinality(Challenge), stamp |-> stamp]
    ELSE [count |-> Cardinality(scores.challenge),
          stamp |-> IF scores.stamp # 0 THEN scores.stamp ELSE stamp]

LeaderboardInit == Init /\ scores = NoScores

Next ==
    \/ ScrapeNext /\ UNCHANGED scores
    \/ Score
    \/ ScoreKilled

Spec == LeaderboardInit /\ [][Next]_allVars

-----------------------------------------------------------------------------

\* The challenge has one spectrum of an object and of each set of samples, and
\* nothing is left out but for one that is in: a copy of another object's
\* spectrum does not take its own object's other spectra with it
\* (drop_duplicate_spectra, "Keep one spectrum per object, and drop residual-0
\* content copies").
Alike(r, s) == Entry[r].object = Entry[s].object \/ files[r] = files[s]

ChallengeIsRepresentative ==
    /\ \A r, s \in Challenge : r # s => ~Alike(r, s)
    /\ \A r \in Loaded : \E s \in Challenge : Alike(r, s)

\* The date shown beside the standings is that of the collection they were
\* computed from, unless a run was killed ("Stamp the dataset's collection date
\* onto the standings", evaluate.py:138): not when later runs have replaced
\* that collection, or failed to.
StandingsNameTheirCollection ==
    scores \notin {NoScores, Torn} /\ "killed" \notin mishaps =>
        Shown.stamp = scores.by
=============================================================================
