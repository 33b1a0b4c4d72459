--------------------------- MODULE SpectrumRanking ---------------------------
(***************************************************************************)
(* Which spectrum a designation means: infrastructure/wiserep/selection.py *)
(* over the rows of an export.  Names are normalised: equal names compare  *)
(* equal whatever their SN or AT prefix, spacing and case.                 *)
(***************************************************************************)
EXTENDS Naturals, Sequences, FiniteSets

CONSTANTS
    Rows,       \* rows WISeREP may hold
    Export,     \* a row: object, internal names, public, kind, id, day, quality
    NoId,       \* a row without Spec. ID
    NoDay       \* a row without a readable Julian date

\* _QUALITY_ORDER: best first, an unset flag last.
QualityRank(r) ==
    CASE Export[r].quality = "high" -> 0
      [] Export[r].quality = "medium" -> 1
      [] Export[r].quality = "low" -> 2
      [] OTHER -> 3

\* Every designation a row can be matched by.
Names(r) == {Export[r].object} \cup Export[r].internal

Matched(rs, name) == {r \in rs : name \in Names(r)}

Objects(rs) == {Export[r].object : r \in rs}

\* Public, of the object itself, with an identifier and a date to rank by.
Eligible(r) ==
    /\ Export[r].public
    /\ Export[r].kind = "Object"
    /\ Export[r].id # NoId
    /\ Export[r].day # NoDay

\* Dates are numbers, and so are identifiers, each a row's own.
ASSUME RankableRows ==
    /\ IsFiniteSet(Rows)
    /\ \A r \in Rows : Eligible(r) => Export[r].day \in Nat /\ Export[r].id \in Nat
    /\ \A r, s \in Rows :
        Eligible(r) /\ Eligible(s) /\ r # s => Export[r].id # Export[s].id

\* _ranking_key: Julian date, then quality, then identifier.
Before(r, s) ==
    \/ Export[r].day < Export[s].day
    \/ /\ Export[r].day = Export[s].day
       /\ \/ QualityRank(r) < QualityRank(s)
          \/ QualityRank(r) = QualityRank(s) /\ Export[r].id < Export[s].id

\* The rows sorted by the key.
Ranking(rs) ==
    CHOOSE s \in [1..Cardinality(rs) -> rs] :
        \A i, j \in DOMAIN s : i < j => Before(s[i], s[j])

Refusal(reason) == [refusal |-> reason, candidates |-> <<>>]

\* Mutant: the objects are told apart after the ineligible rows are dropped.
RankEligibleOnly(rs, name) ==
    LET eligible == {r \in Matched(rs, name) : Eligible(r)}
    IN  IF Cardinality(Objects(eligible)) > 1 THEN Refusal("ambiguous")
        ELSE IF eligible = {} THEN Refusal("none")
        ELSE [refusal |-> "no", candidates |-> Ranking(eligible)]

\* rank_candidates: the rows of the one object the name names, else, when the
\* rows or the matching ones are of several, a refusal.
RankCandidates(rs, name) ==
    LET matched == Matched(rs, name)
        eligible == {r \in matched : Eligible(r)}
    IN  IF Cardinality(Objects(IF matched = {} THEN rs ELSE matched)) > 1
        THEN Refusal("ambiguous")
        ELSE IF eligible = {} THEN Refusal("none")
        ELSE [refusal |-> "no", candidates |-> Ranking(eligible)]
=============================================================================
