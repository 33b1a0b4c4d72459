--------------------------- MODULE WiserepProofs ---------------------------
(***************************************************************************)
(* Proofs about WiserepSearch, for any export, names, number of workers,   *)
(* page size and durations: that a walk which is ranked has read every row *)
(* there was when it began, that what is downloaded belongs to the one     *)
(* object named and is its earliest spectrum, that the client asks nothing *)
(* late, and that a worker's requests are spaced.                          *)
(*                                                                         *)
(* The argument about pages: a row only ever moves down the listing, and   *)
(* by no more than the number of rows that appeared.  So no known row      *)
(* ahead of the next page is missed, and a full page of rows already met   *)
(* takes a page of new ones (Collecting).  The argument about time: what a *)
(* request may take is bounded when the wait before it is (Punctual).      *)
(***************************************************************************)
EXTENDS WiserepSearch, FiniteSetTheorems, TLAPS

(***************************************************************************)
(* A strict total order of a finite set numbers its elements.              *)
(***************************************************************************)

\* R orders S strictly and totally.
Orders(R, S) ==
    /\ \A r \in S : <<r, r>> \notin R
    /\ \A r, s, t \in S : <<r, s>> \in R /\ <<s, t>> \in R => <<r, t>> \in R
    /\ \A r, s \in S : r # s => <<r, s>> \in R \/ <<s, r>> \in R

Below(R, S, r) == {s \in S : <<s, r>> \in R}

\* The number of elements before one grows along the order, from 0 up, and
\* takes every value below the size of the set.
LEMMA PlacesAreFilled ==
    ASSUME NEW S, IsFiniteSet(S), NEW R, Orders(R, S)
    PROVE  /\ Cardinality(S) \in Nat
           /\ \A r \in S : Cardinality(Below(R, S, r)) \in 0..Cardinality(S) - 1
           /\ \A r, s \in S :
                <<r, s>> \in R => Cardinality(Below(R, S, r)) < Cardinality(Below(R, S, s))
           /\ \A i \in 0..Cardinality(S) - 1 :
                \E r \in S : Cardinality(Below(R, S, r)) = i
<1> DEFINE n == Cardinality(S)
           f == [r \in S |-> Cardinality(Below(R, S, r))]
<1>1. n \in Nat
  BY FS_CardinalityType
<1>2. ASSUME NEW r \in S
      PROVE  IsFiniteSet(Below(R, S, r)) /\ Cardinality(Below(R, S, r)) \in 0..n - 1
  <2>1. Below(R, S, r) \in SUBSET (S \ {r})
    BY DEF Below, Orders
  <2>2. IsFiniteSet(S \ {r}) /\ Cardinality(S \ {r}) = n - 1
    BY FS_RemoveElement
  <2>3. /\ IsFiniteSet(Below(R, S, r))
        /\ Cardinality(Below(R, S, r)) <= Cardinality(S \ {r})
    BY <2>1, <2>2, FS_Subset
  <2>4. Cardinality(Below(R, S, r)) \in Nat
    BY <2>3, FS_CardinalityType
  <2> QED BY <1>1, <2>2, <2>3, <2>4
<1>3. ASSUME NEW r \in S, NEW s \in S, <<r, s>> \in R
      PROVE  Cardinality(Below(R, S, r)) < Cardinality(Below(R, S, s))
  <2>1. /\ Below(R, S, r) \cup {r} \in SUBSET Below(R, S, s)
        /\ r \notin Below(R, S, r)
    BY <1>3 DEF Below, Orders
  <2>2. Cardinality(Below(R, S, r) \cup {r}) = Cardinality(Below(R, S, r)) + 1
    BY <1>2, <2>1, FS_AddElement
  <2>3. Cardinality(Below(R, S, r) \cup {r}) <= Cardinality(Below(R, S, s))
    BY <1>2, <2>1, FS_Subset
  <2> QED BY <1>2, <2>2, <2>3
<1>4. \A i \in 0..n - 1 : \E r \in S : f[r] = i
  <2>1. f \in [S -> 0..n - 1]
    BY <1>2
  <2>2. ASSUME NEW r \in S, NEW s \in S, f[r] = f[s] PROVE r = s
    <3>1. Cardinality(Below(R, S, r)) = Cardinality(Below(R, S, s))
      BY <2>2
    <3>2. \A x \in S : Cardinality(Below(R, S, x)) \in Int
      BY <1>1, <1>2
    <3>3. <<r, s>> \notin R /\ <<s, r>> \notin R
      BY <1>3, <3>1, <3>2
    <3> QED BY <3>3 DEF Orders
  <2>3. f \in Injection(S, 0..n - 1)
    BY <2>1, <2>2 DEF Injection, IsInjective
  <2>4. IsFiniteSet(0..n - 1) /\ Cardinality(0..n - 1) = n
    BY <1>1, FS_Interval
  <2>5. f \in Surjection(S, 0..n - 1)
    BY <2>3, <2>4, FS_Injection
  <2> QED BY <2>5 DEF Surjection
<1> QED BY <1>1, <1>2, <1>3, <1>4

\* The rows of an export can be sorted, and Ranking sorts them.
LEMMA RankingSorts ==
    ASSUME NEW rs \in SUBSET Rows, \A r \in rs : Eligible(r), rs # {}
    PROVE  /\ Ranking(rs) \in [1..Cardinality(rs) -> rs]
           /\ Cardinality(rs) \in Nat \ {0}
           /\ Ranking(rs)[1] \in rs
           /\ \A r \in rs : r = Ranking(rs)[1] \/ Before(Ranking(rs)[1], r)
<1> DEFINE R == {p \in rs \X rs : Before(p[1], p[2])}
           n == Cardinality(rs)
           Sorted(s) == \A i, j \in DOMAIN s : i < j => Before(s[i], s[j])
<1>1. IsFiniteSet(rs) /\ n \in Nat \ {0}
  BY RankableRows, FS_Subset, FS_CardinalityType, FS_EmptySet
<1>2. Orders(R, rs)
  <2>1. \A r \in rs : Export[r].day \in Nat /\ Export[r].id \in Nat /\ QualityRank(r) \in 0..3
    BY RankableRows DEF QualityRank
  <2>2. \A r, s \in rs : r # s => Export[r].id # Export[s].id
    BY RankableRows
  <2>3. \A r, s \in rs : <<r, s>> \in R <=> Before(r, s)
    OBVIOUS
  <2>4. \A r \in rs : ~Before(r, r)
    BY <2>1 DEF Before
  <2>5. \A r, s, t \in rs : Before(r, s) /\ Before(s, t) => Before(r, t)
    BY <2>1 DEF Before
  <2>6. \A r, s \in rs : r # s => Before(r, s) \/ Before(s, r)
    BY <2>1, <2>2 DEF Before
  <2> HIDE DEF R
  <2> QED BY <2>3, <2>4, <2>5, <2>6 DEF Orders
<1>3. PICK g : g \in [1..n -> rs] /\ \A i \in 1..n : Cardinality(Below(R, rs, g[i])) = i - 1
  <2>1. \A i \in 1..n : \E r \in rs : Cardinality(Below(R, rs, r)) = i - 1
    <3>1. \A k \in 0..n - 1 : \E r \in rs : Cardinality(Below(R, rs, r)) = k
      <4> HIDE DEF R
      <4> QED BY <1>1, <1>2, PlacesAreFilled
    <3>2. \A i \in 1..n : i - 1 \in 0..n - 1
      BY <1>1
    <3> QED BY <3>1, <3>2
  <2> DEFINE h == [i \in 1..n |-> CHOOSE r \in rs : Cardinality(Below(R, rs, r)) = i - 1]
  <2>2. ASSUME NEW i \in 1..n
        PROVE  h[i] \in rs /\ Cardinality(Below(R, rs, h[i])) = i - 1
    <3> HIDE DEF R
    <3> QED BY <2>1
  <2>3. h \in [1..n -> rs]
    <3> HIDE DEF R
    <3> QED BY <2>2
  <2> QED BY <2>2, <2>3
<1>4. Sorted(g)
  <2> SUFFICES ASSUME NEW i \in 1..n, NEW j \in 1..n, i < j PROVE Before(g[i], g[j])
    BY <1>3
  <2>1. g[i] \in rs /\ g[j] \in rs
    BY <1>3
  <2>2. /\ Cardinality(Below(R, rs, g[i])) = i - 1
        /\ Cardinality(Below(R, rs, g[j])) = j - 1
    BY <1>3
  <2>3. g[i] # g[j]
    BY <1>1, <2>2
  <2>4. ~(<<g[j], g[i]>> \in R)
    <3> HIDE DEF R
    <3> QED BY <1>1, <1>2, <2>1, <2>2, PlacesAreFilled
  <2>5. <<g[i], g[j]>> \in R
    BY <1>2, <2>1, <2>3, <2>4 DEF Orders
  <2> QED BY <2>5
<1>5. Ranking(rs) \in [1..n -> rs] /\ Sorted(Ranking(rs))
  BY <1>3, <1>4 DEF Ranking
<1>6. ASSUME NEW r \in rs PROVE \E i \in 1..n : Ranking(rs)[i] = r
  <2> DEFINE s == Ranking(rs)
  <2>1. \A i, j \in 1..n : s[i] = s[j] => i = j
    <3> SUFFICES ASSUME NEW i \in 1..n, NEW j \in 1..n, i < j PROVE s[i] # s[j]
      BY <1>1
    <3>1. Before(s[i], s[j]) /\ s[i] \in rs
      BY <1>5
    <3>2. \A x \in rs : ~Before(x, x)
      BY <1>2 DEF Orders
    <3> QED BY <3>1, <3>2
  <2>2. s \in Injection(1..n, rs)
    BY <1>5, <2>1 DEF Injection, IsInjective
  <2>3. Cardinality(1..n) = n
    BY <1>1, FS_Interval
  <2>4. s \in Surjection(1..n, rs)
    BY <1>1, <2>2, <2>3, FS_Injection
  <2> QED BY <2>4 DEF Surjection
<1>7. ASSUME NEW r \in rs PROVE r = Ranking(rs)[1] \/ Before(Ranking(rs)[1], r)
  BY <1>1, <1>5, <1>6
<1> QED BY <1>1, <1>5, <1>7

-----------------------------------------------------------------------------
(* The inductive invariant.                                                 *)

Waiting == {"throttle", "throttled", "issue", "request", "backoff"}

Walks ==
    [pc : {"idle", "page", "rank"} \cup Waiting \cup Ended,
     task : {"search", "download"}, name : Designations \cup {NoName},
     page : 0..PageCap, rows : SUBSET Rows, begun : Nat, limit : Nat, wake : Nat,
     tries : 0..Retries, selected : Rows \cup {0}, known : SUBSET Rows]

Typed ==
    /\ now \in 0..MaxTime
    /\ listing \in Seq(Rows) /\ IsInjective(listing)
    /\ last \in 0..now \cup {Never}
    /\ sent \in [Workers -> 0..now \cup {Never}]
    /\ walk \in [Workers -> Walks]

Whole(x) == IF x.task = "search" THEN Deadline ELSE DownloadDeadline

\* At time t the walk x is within its budget: what its next request may take
\* ends with the budget, or with the one interval that is waited for.
Punctual(t, x) ==
    /\ x.begun <= t
    /\ x.pc = "page" => x.task = "search" /\ (x.page = 0 => x.begun = t)
    /\ x.pc \in Waiting => x.page < PageCap
    /\ x.pc = "throttle" => t + x.limit <= x.begun + Whole(x)
    /\ x.pc = "throttled" =>
        t <= x.wake /\ x.wake + x.limit <= x.begun + Whole(x) + Interval
    /\ x.pc = "issue" => t + x.limit <= x.begun + Whole(x) + Interval
    /\ x.pc \in {"request", "backoff"} => x.limit <= x.begun + Whole(x) + Interval
    /\ x.pc = "backoff" => t <= x.wake /\ x.wake <= x.limit

\* While own, the walk's last spaced request since the cache last lost the time,
\* is known, the cache holds a time no earlier than it, and who is about to send again does so an interval after it.
Spaced(t, latest, own, x) ==
    own # Never =>
        /\ latest # Never /\ own <= latest
        /\ x.pc = "issue" => t - own >= Interval
        /\ x.pc = "throttled" => x.wake - own >= Interval

\* What the server lists, as operators of the listing.
FoundIn(list, name) == ToSet(list) \cap Returns[name]
Heads(list, r, s) == \E i, j \in DOMAIN list : i < j /\ list[i] = r /\ list[j] = s
PlaceIn(list, name, r) == Cardinality({s \in FoundIn(list, name) : Heads(list, s, r)})
Appeared(list, x) == Cardinality(FoundIn(list, x.name) \ x.known)

\* The pages read so far gave every known row that was ahead of the next page
\* when they were read, for a row only ever moves down, and it moves down by
\* no more than the rows that appeared.
Collecting(list, x) ==
    /\ x.known \subseteq FoundIn(list, x.name) /\ x.rows \subseteq FoundIn(list, x.name)
    /\ \A r \in x.known :
        PlaceIn(list, x.name, r) < x.page * PageSize => r \in x.rows
    /\ \A r \in x.rows :
        PlaceIn(list, x.name, r) < x.page * PageSize + Appeared(list, x)

Chosen(x) ==
    \A r \in Matched(x.known, x.name) :
        /\ Export[r].object = Export[x.selected].object
        /\ Eligible(r) => Export[x.selected].day <= Export[r].day

Collected(list, x) ==
    /\ x.task = "search" /\ x.pc \in Waiting \cup {"page"} => Collecting(list, x)
    /\ x.pc = "rank" => x.task = "search"
    /\ x.pc = "rank" /\ Appeared(list, x) < PageSize => x.known \subseteq x.rows
    /\ x.task = "download" /\ Appeared(list, x) < PageSize => Chosen(x)

IInv ==
    /\ Typed
    /\ \A w \in Workers :
        /\ Punctual(now, walk[w])
        /\ Spaced(now, last, sent[w], walk[w])
        /\ Collected(listing, walk[w])

\* Nothing is under way at first.
LEMMA InitIInv == Init => IInv
<1> SUFFICES ASSUME Init PROVE IInv
  OBVIOUS
<1>1. Idle \in Walks
  BY SearchBounds DEF Idle, Walks
<1>2. Typed
  BY <1>1, SearchBounds, ListedRows DEF Init, Typed
<1>3. Punctual(0, Idle) /\ Collected(Order, Idle)
  BY SearchBounds DEF Punctual, Collected, Idle, Waiting
<1>4. \A x : Spaced(now, last, Never, x)
  BY DEF Spaced
<1> QED BY <1>2, <1>3, <1>4 DEF Init, IInv

\* A step of a walk leaves the others alone.
LEMMA OneWalks ==
    ASSUME Typed, NEW w \in Workers, Search(w)
    PROVE  /\ now' = now /\ listing' = listing
           /\ \A v \in Workers \ {w} : walk'[v] = walk[v] /\ sent'[v] = sent[v]
           /\ last' \in {last, now}
<1> USE DEF Typed, Goto, End, Request
<1>1. CASE StartSearch(w)
  BY <1>1 DEF StartSearch
<1>2. CASE PageCapReached(w)
  BY <1>2 DEF PageCapReached
<1>3. CASE OutOfTime(w)
  BY <1>3 DEF OutOfTime
<1>4. CASE FetchPage(w)
  BY <1>4 DEF FetchPage
<1>5. CASE Throttle(w)
  BY <1>5 DEF Throttle
<1>6. CASE Throttled(w)
  BY <1>6 DEF Throttled
<1>7. CASE Issue(w)
  BY <1>7 DEF Issue
<1>8. CASE IssueUnspaced(w)
  BY <1>8 DEF IssueUnspaced
<1>9. CASE RequestFails(w)
  BY <1>9 DEF RequestFails
<1>10. CASE Retry(w)
  BY <1>10 DEF Retry
<1>11. CASE AskAgain(w)
  BY <1>11 DEF AskAgain
<1>12. CASE StillArriving(w)
  BY <1>12 DEF StillArriving
<1>13. CASE NotAnExport(w)
  BY <1>13 DEF NotAnExport
<1>14. CASE PageArrives(w)
  BY <1>14 DEF PageArrives
<1>15. CASE Refuse(w)
  BY <1>15 DEF Refuse
<1>16. CASE LinkRefused(w)
  BY <1>16 DEF LinkRefused
<1>17. CASE StartDownload(w)
  BY <1>17 DEF StartDownload
<1>18. CASE RedirectRefused(w)
  BY <1>18 DEF RedirectRefused
<1>19. CASE FileUnusable(w)
  BY <1>19 DEF FileUnusable
<1>20. CASE FileArrives(w)
  BY <1>20 DEF FileArrives
<1>21. CASE RedirectFollowed(w)
  BY <1>21 DEF RedirectFollowed
<1> QED BY <1>1, <1>2, <1>3, <1>4, <1>5, <1>6, <1>7, <1>8, <1>9, <1>10, <1>11,
           <1>12, <1>13, <1>14, <1>15, <1>16, <1>17, <1>18, <1>19, <1>20, <1>21
        DEF Search

\* Two things are two.
LEMMA TwoOfThem ==
    ASSUME NEW x, NEW y, x # y
    PROVE  Cardinality({x, y}) = 2
<1>1. IsFiniteSet({x}) /\ Cardinality({x}) = 1
  BY FS_Singleton
<1>2. Cardinality({x} \cup {y}) = IF y \in {x} THEN Cardinality({x}) ELSE Cardinality({x}) + 1
  BY <1>1, FS_AddElement
<1>3. Cardinality({x} \cup {y}) = 2
  BY <1>1, <1>2
<1>4. {x, y} = {x} \cup {y}
  OBVIOUS
<1> QED BY <1>3, <1>4

\* What is ranked first is eligible and belongs to the one object that the
\* name matches, and none of its eligible rows has an earlier day.
LEMMA FirstCandidate ==
    ASSUME NEW rs \in SUBSET Rows, NEW name, RankCandidates(rs, name).refusal = "no"
    PROVE  LET first == Head(RankCandidates(rs, name).candidates)
           IN  /\ first \in Rows
               /\ \A r \in Matched(rs, name) :
                    /\ Export[r].object = Export[first].object
                    /\ Eligible(r) => Export[first].day <= Export[r].day
<1> DEFINE matched == Matched(rs, name)
           eligible == {r \in matched : Eligible(r)}
           first == Ranking(eligible)[1]
<1>1. /\ eligible # {}
      /\ ~(Cardinality(Objects(matched)) > 1)
      /\ RankCandidates(rs, name).candidates = Ranking(eligible)
  BY DEF RankCandidates, Refusal
<1>2. matched \in SUBSET Rows /\ eligible \in SUBSET Rows
  BY DEF Matched
<1>3. /\ Ranking(eligible) \in [1..Cardinality(eligible) -> eligible]
      /\ Cardinality(eligible) \in Nat \ {0}
      /\ first \in eligible
      /\ \A r \in eligible : r = first \/ Before(first, r)
  <2> HIDE DEF eligible
  <2>1. \A r \in eligible : Eligible(r)
    BY DEF eligible
  <2> QED BY <1>1, <1>2, <2>1, RankingSorts
<1>4. Head(RankCandidates(rs, name).candidates) = first
  <2> HIDE DEF eligible
  <2>1. Ranking(eligible) \in Seq(eligible) /\ Len(Ranking(eligible)) > 0
    BY <1>3
  <2> QED BY <1>1, <2>1
<1>5. \A r, s \in matched : Export[r].object = Export[s].object
  <2> SUFFICES ASSUME NEW r \in matched, NEW s \in matched,
                      Export[r].object # Export[s].object
               PROVE  Cardinality(Objects(matched)) > 1
    BY <1>1
  <2> DEFINE two == {Export[r].object, Export[s].object}
  <2>1. IsFiniteSet(matched)
    BY <1>2, RankableRows, FS_Subset
  <2>2. IsFiniteSet(Objects(matched))
    <3> HIDE DEF matched
    <3> DEFINE f == [x \in matched |-> Export[x].object]
    <3>1. f \in Surjection(matched, Objects(matched))
      BY DEF Surjection, Objects
    <3> QED BY <2>1, <3>1, FS_Surjection
  <2>3. two \in SUBSET Objects(matched)
    BY DEF Objects
  <2>4. Cardinality(two) <= Cardinality(Objects(matched))
    BY <2>2, <2>3, FS_Subset
  <2>5. Cardinality(Objects(matched)) \in Nat
    BY <2>2, FS_CardinalityType
  <2>6. Cardinality(two) = 2
    BY TwoOfThem
  <2> DEFINE n == Cardinality(Objects(matched))
             k == Cardinality(two)
  <2>7. k = 2 /\ k <= n /\ n \in Nat
    BY <2>4, <2>5, <2>6
  <2> HIDE DEF n, k
  <2>8. n > 1
    BY <2>7
  <2> QED BY <2>8 DEF n
<1>6. ASSUME NEW r \in matched, Eligible(r) PROVE Export[first].day <= Export[r].day
  <2>1. Export[first].day \in Nat /\ Export[r].day \in Nat
    <3>1. \A x \in eligible : x \in Rows /\ Eligible(x)
      BY <1>2
    <3> HIDE DEF eligible, first
    <3>2. r \in Rows /\ first \in Rows /\ Eligible(first)
      BY <1>2, <1>3, <3>1
    <3> QED BY <1>6, <3>2, RankableRows
  <2>2. r = first \/ Before(first, r)
    BY <1>3, <1>6
  <2> QED BY <2>1, <2>2 DEF Before
<1> QED BY <1>2, <1>3, <1>4, <1>5, <1>6

\* What a step does to the walk that makes it: the types, the time and the
\* interval.
LEMMA WalkSteps ==
    ASSUME Typed, NEW w \in Workers, Search(w),
           Punctual(now, walk[w]), Spaced(now, last, sent[w], walk[w])
    PROVE  /\ walk'[w] \in Walks
           /\ walk' = [walk EXCEPT ![w] = walk'[w]]
           /\ sent' \in [Workers -> 0..now \cup {Never}]
           /\ Punctual(now, walk'[w])
           /\ Spaced(now, last', sent'[w], walk'[w])
<1> DEFINE Goal ==
        /\ walk'[w] \in Walks
        /\ walk' = [walk EXCEPT ![w] = walk'[w]]
        /\ sent' \in [Workers -> 0..now \cup {Never}]
        /\ Punctual(now, walk'[w])
        /\ Spaced(now, last', sent'[w], walk'[w])
<1> DEFINE e == walk[w]
<1>0. /\ e \in Walks /\ now \in Nat /\ last \in 0..now \cup {Never}
      /\ sent[w] \in 0..now \cup {Never} /\ now # Never
  BY SearchBounds DEF Typed
<1>a. ASSUME NEW f \in Walks, walk' = [walk EXCEPT ![w] = f],
             sent' \in [Workers -> 0..now \cup {Never}],
             Punctual(now, f), Spaced(now, last', sent'[w], f)
      PROVE  Goal
  BY <1>a DEF Typed
<1>b. sent' = sent => sent' \in [Workers -> 0..now \cup {Never}]
  BY DEF Typed
<1>1. ASSUME NEW pc \in Ended, End(w, pc) PROVE Goal
  <2> DEFINE f == [Idle EXCEPT !.pc = pc]
  <2>1. walk' = [walk EXCEPT ![w] = f] /\ sent' = [sent EXCEPT ![w] = Never]
    BY <1>1 DEF End
  <2>2. f \in Walks
    BY SearchBounds DEF Idle, Walks
  <2>3. Punctual(now, f)
    BY <1>0 DEF Punctual, Idle, Ended, Waiting
  <2>4. sent' \in [Workers -> 0..now \cup {Never}] /\ sent'[w] = Never
    BY <2>1 DEF Typed
  <2>5. Spaced(now, last', Never, f)
    BY DEF Spaced
  <2> QED BY <1>a, <2>1, <2>2, <2>3, <2>4, <2>5
<1>2. CASE StartSearch(w)
  <2>1. PICK name \in Designations :
            walk' = [walk EXCEPT ![w] = [Idle EXCEPT !.pc = "page", !.name = name,
                !.begun = now, !.known = ToSet(listing) \cap Returns[name]]]
    BY <1>2 DEF StartSearch, Found
  <2> DEFINE known == ToSet(listing) \cap Returns[name]
             f == [Idle EXCEPT !.pc = "page", !.name = name, !.begun = now,
                               !.known = known]
  <2>2. known \in SUBSET Rows
    BY DEF Typed, ToSet
  <2>3. f \in Walks
    <3> HIDE DEF known
    <3>1. 0 \in 0..PageCap /\ 0 \in 0..Retries
      BY SearchBounds
    <3> QED BY <1>0, <2>2, <3>1 DEF Idle, Walks
  <2>4. Punctual(now, f)
    BY <1>0 DEF Punctual, Idle, Waiting
  <2>5. e.pc = "idle" /\ last' = last /\ sent' = sent
    BY <1>2 DEF StartSearch, At
  <2>6. Spaced(now, last, sent[w], f)
    BY DEF Spaced, Idle
  <2> QED BY <1>a, <1>b, <2>1, <2>3, <2>4, <2>5, <2>6
<1>3. CASE FetchPage(w)
  <2> DEFINE limit == e.begun + Deadline - now
             f == [e EXCEPT !.pc = "throttle", !.limit = limit]
  <2>1. walk' = [walk EXCEPT ![w] = f] /\ sent' = sent /\ last' = last
    BY <1>3 DEF FetchPage, Left
  <2>2. /\ e.pc = "page" /\ e.task = "search" /\ e.page < PageCap
        /\ e.begun <= now /\ e.begun \in Nat /\ limit \in Nat
    BY <1>0, <1>3, SearchBounds DEF FetchPage, Left, At, Walks, Punctual
  <2>3. f \in Walks
    <3> HIDE DEF limit
    <3> QED BY <1>0, <2>2 DEF Walks, Waiting
  <2>4. Punctual(now, f)
    BY <1>0, <2>2, SearchBounds DEF Punctual, Whole, Walks, Waiting
  <2>5. Spaced(now, last, sent[w], f)
    BY <1>0 DEF Spaced, Walks
  <2> QED BY <1>a, <1>b, <2>1, <2>3, <2>4, <2>5
<1>4. CASE Throttle(w)
  <2>0. e.pc = "throttle" /\ sent' = sent /\ last' = last
    BY <1>4 DEF Throttle, At
  <2>1. CASE last = Never \/ now - last >= Interval
    <3> DEFINE f == [e EXCEPT !.pc = "issue"]
    <3>1. walk' = [walk EXCEPT ![w] = f]
      BY <1>4, <2>1 DEF Throttle
    <3>2. f \in Walks
      BY <1>0 DEF Walks, Waiting
    <3>3. Punctual(now, f)
      BY <1>0, <2>0, SearchBounds DEF Punctual, Whole, Walks, Waiting
    <3>4. Spaced(now, last, sent[w], f)
      BY <1>0, <2>0, <2>1, SearchBounds DEF Spaced, Walks
    <3> QED BY <1>a, <1>b, <2>0, <3>1, <3>2, <3>3, <3>4
  <2>2. CASE last # Never /\ ~(now - last >= Interval)
    <3> DEFINE wake == last + Interval
               f == [e EXCEPT !.pc = "throttled", !.wake = wake]
    <3>1. walk' = [walk EXCEPT ![w] = f]
      BY <1>4, <2>2 DEF Throttle
    <3>2. wake \in Nat /\ last \in 0..now /\ now <= wake /\ wake <= now + Interval
      BY <1>0, <2>2, SearchBounds
    <3>3. f \in Walks
      <4> HIDE DEF wake
      <4> QED BY <1>0, <3>2 DEF Walks, Waiting
    <3>4. Punctual(now, f)
      <4> HIDE DEF wake
      <4> QED BY <1>0, <2>0, <3>2, SearchBounds DEF Punctual, Whole, Walks, Waiting
    <3>5. Spaced(now, last, sent[w], f)
      BY <1>0, <2>0, <3>2, SearchBounds DEF Spaced, Walks
    <3> QED BY <1>a, <1>b, <2>0, <3>1, <3>3, <3>4, <3>5
  <2> QED BY <2>1, <2>2
<1>5. CASE Throttled(w)
  <2> DEFINE f == [e EXCEPT !.pc = "issue"]
  <2>1. walk' = [walk EXCEPT ![w] = f] /\ sent' = sent /\ last' = last
    BY <1>5 DEF Throttled, Goto
  <2>2. e.pc = "throttled" /\ now >= e.wake
    BY <1>5 DEF Throttled, At
  <2>3. f \in Walks
    BY <1>0 DEF Walks, Waiting
  <2>4. Punctual(now, f)
    BY <1>0, <2>2, SearchBounds DEF Punctual, Whole, Walks, Waiting
  <2>5. Spaced(now, last, sent[w], f)
    BY <1>0, <2>2, SearchBounds DEF Spaced, Walks
  <2> QED BY <1>a, <1>b, <2>1, <2>3, <2>4, <2>5
<1>6. CASE Issue(w) \/ IssueUnspaced(w)
  <2> DEFINE limit == now + e.limit
             f == [e EXCEPT !.pc = "request", !.tries = 0, !.wake = 0, !.limit = limit]
  <2>1. walk' = [walk EXCEPT ![w] = f]
    BY <1>6 DEF Issue, IssueUnspaced, Request
  <2>2. /\ e.pc \in {"throttle", "issue"} /\ e.page < PageCap
        /\ e.begun <= now /\ e.begun \in Nat /\ limit \in Nat
        /\ limit <= e.begun + Whole(e) + Interval
    <3>1. e.pc \in {"throttle", "issue"}
      BY <1>6 DEF Issue, IssueUnspaced, At
    <3>2. e.begun \in Nat /\ e.limit \in Nat /\ Whole(e) \in Nat
      BY <1>0, SearchBounds DEF Walks, Whole
    <3>3. /\ e.page < PageCap /\ e.begun <= now
          /\ e.pc = "throttle" => now + e.limit <= e.begun + Whole(e)
          /\ e.pc = "issue" => now + e.limit <= e.begun + Whole(e) + Interval
      BY <3>1 DEF Punctual, Waiting
    <3>4. now \in Nat /\ Interval \in Nat
      BY <1>0, SearchBounds
    <3>5. limit \in Nat
      BY <3>2, <3>4
    <3>6. CASE e.pc = "throttle"
      BY <3>2, <3>3, <3>4, <3>5, <3>6
    <3>7. CASE e.pc = "issue"
      BY <3>2, <3>3, <3>4, <3>5, <3>7
    <3> QED BY <3>1, <3>6, <3>7
  <2>3. f \in Walks
    <3>1. 0 \in 0..Retries
      BY SearchBounds
    <3> HIDE DEF limit
    <3> QED BY <1>0, <2>2, <3>1 DEF Walks, Waiting
  <2>4. Punctual(now, f)
    <3> HIDE DEF limit
    <3> QED BY <1>0, <2>2, SearchBounds DEF Punctual, Whole, Walks, Waiting
  <2>5. CASE Issue(w)
    <3>1. sent' = [sent EXCEPT ![w] = now] /\ last' = now
      BY <2>5 DEF Issue
    <3>2. sent' \in [Workers -> 0..now \cup {Never}] /\ sent'[w] = now
      BY <1>0, <3>1 DEF Typed
    <3>3. Spaced(now, now, now, f)
      BY <1>0 DEF Spaced, Walks
    <3> QED BY <1>a, <2>1, <2>3, <2>4, <3>1, <3>2, <3>3
  <2>6. CASE IssueUnspaced(w)
    <3>1. sent' = sent /\ last' = last
      BY <2>6 DEF IssueUnspaced
    <3>2. Spaced(now, last, sent[w], f)
      BY <1>0 DEF Spaced, Walks
    <3> QED BY <1>a, <1>b, <2>1, <2>3, <2>4, <3>1, <3>2
  <2> QED BY <1>6, <2>5, <2>6
<1>7. CASE Retry(w)
  <2>1. PICK wait \in RetryWaits :
            walk' = [walk EXCEPT ![w].pc = "backoff", ![w].tries = walk[w].tries + 1,
                                 ![w].wake = now + RetryWait(w, wait)]
    BY <1>7 DEF Retry
  <2> DEFINE tries == e.tries + 1
             wake == now + RetryWait(w, wait)
             f == [e EXCEPT !.pc = "backoff", !.tries = tries, !.wake = wake]
  <2>2. e.pc = "request" /\ e.tries < Retries /\ now < e.limit /\ e.limit \in Nat
    BY <1>0, <1>7 DEF Retry, Overdue, At, Walks
  <2>3. wake \in Nat /\ now <= wake /\ wake <= e.limit
    BY <1>0, <2>2, SearchBounds DEF RetryWait
  <2>4. tries \in 0..Retries
    BY <1>0, <2>2, SearchBounds DEF Walks
  <2> HIDE DEF tries, wake
  <2>5. f \in Walks
    BY <1>0, <2>3, <2>4 DEF Walks, Waiting
  <2>6. Punctual(now, f)
    BY <1>0, <2>2, <2>3, SearchBounds DEF Punctual, Whole, Walks, Waiting
  <2>7. Spaced(now, last, sent[w], f)
    BY <1>0 DEF Spaced, Walks
  <2>8. walk' = [walk EXCEPT ![w] = f] /\ sent' = sent /\ last' = last
    BY <1>7, <2>1 DEF Retry, tries, wake
  <2> QED BY <1>a, <1>b, <2>5, <2>6, <2>7, <2>8
<1>8. CASE AskAgain(w)
  <2> DEFINE f == [e EXCEPT !.pc = "request", !.wake = 0]
  <2>1. walk' = [walk EXCEPT ![w] = f] /\ sent' = sent /\ last' = last
    BY <1>8 DEF AskAgain
  <2>2. e.pc = "backoff"
    BY <1>8 DEF AskAgain, At
  <2>3. f \in Walks
    BY <1>0 DEF Walks, Waiting
  <2>4. Punctual(now, f)
    BY <1>0, <2>2, SearchBounds DEF Punctual, Whole, Walks, Waiting
  <2>5. Spaced(now, last, sent[w], f)
    BY <1>0 DEF Spaced, Walks
  <2> QED BY <1>a, <1>b, <2>1, <2>3, <2>4, <2>5
<1>9. CASE PageArrives(w)
  <2> DEFINE rs == ExportPage(e.name, e.page)
             all == e.rows \cup Unseen(w, rs)
             pc == IF IsLastPage(w, rs) THEN "rank" ELSE "page"
             page == IF IsLastPage(w, rs) THEN e.page ELSE e.page + 1
             f == [e EXCEPT !.rows = all, !.limit = 0, !.tries = 0, !.pc = pc, !.page = page]
  <2>1. walk' = [walk EXCEPT ![w] = f] /\ sent' = sent /\ last' = last
    BY <1>9 DEF PageArrives
  <2>2. e.pc = "request" /\ e.task = "search" /\ e.page < PageCap
    BY <1>9 DEF PageArrives, At, Punctual, Waiting
  <2>3. rs \in SUBSET Rows
    BY DEF ExportPage, Found, Typed, ToSet
  <2>4. all \in SUBSET Rows
    BY <1>0, <2>3 DEF Unseen, Walks
  <2>5. pc \in {"rank", "page"} /\ page \in 0..PageCap /\ (pc = "page" => page # 0)
    BY <1>0, <2>2, SearchBounds DEF Walks
  <2> HIDE DEF rs, all, pc, page
  <2>6. f \in Walks
    <3>1. 0 \in 0..Retries /\ 0 \in Nat
      BY SearchBounds
    <3>2. pc \in {"idle", "page", "rank"} \cup Waiting \cup Ended
      BY <2>5
    <3>3. page \in 0..PageCap
      BY <2>5
    <3> QED BY <1>0, <2>4, <3>1, <3>2, <3>3 DEF Walks
  <2>7. Punctual(now, f)
    BY <1>0, <2>2, <2>5 DEF Punctual, Walks, Waiting
  <2>8. Spaced(now, last, sent[w], f)
    BY <1>0, <2>5 DEF Spaced, Walks
  <2> QED BY <1>a, <1>b, <2>1, <2>6, <2>7, <2>8
<1>10. CASE StartDownload(w)
  <2> DEFINE first == Head(RankCandidates(e.rows, e.name).candidates)
             f == [e EXCEPT !.pc = "throttle", !.task = "download", !.begun = now,
                            !.limit = DownloadDeadline, !.rows = {}, !.page = 0,
                            !.selected = first]
  <2>1. walk' = [walk EXCEPT ![w] = f] /\ sent' = sent /\ last' = last
    BY <1>10 DEF StartDownload
  <2>2. first \in Rows
    BY <1>0, <1>10, FirstCandidate DEF StartDownload, Walks
  <2> HIDE DEF first
  <2>3. f \in Walks
    <3>1. 0 \in 0..PageCap /\ DownloadDeadline \in Nat
      BY SearchBounds
    <3> QED BY <1>0, <2>2, <3>1 DEF Walks, Waiting
  <2>4. Punctual(now, f)
    BY <1>0, SearchBounds DEF Punctual, Whole, Walks, Waiting
  <2>5. Spaced(now, last, sent[w], f)
    BY <1>0 DEF Spaced, Walks
  <2> QED BY <1>a, <1>b, <2>1, <2>3, <2>4, <2>5
<1>11. CASE RedirectFollowed(w)
  <2> DEFINE f == [e EXCEPT !.tries = 0]
  <2>1. walk' = [walk EXCEPT ![w] = f] /\ sent' = sent /\ last' = last
    BY <1>11 DEF RedirectFollowed
  <2>2. e.pc = "request"
    BY <1>11 DEF RedirectFollowed, At
  <2>3. f \in Walks
    BY <1>0, SearchBounds DEF Walks
  <2>4. Punctual(now, f)
    BY <1>0, <2>2 DEF Punctual, Whole, Walks, Waiting
  <2>5. Spaced(now, last, sent[w], f)
    BY <1>0 DEF Spaced, Walks
  <2> QED BY <1>a, <1>b, <2>1, <2>3, <2>4, <2>5
<1> QED BY <1>1, <1>2, <1>3, <1>4, <1>5, <1>6, <1>7, <1>8, <1>9, <1>10, <1>11
        DEF Search, PageCapReached, OutOfTime, RequestFails, StillArriving, NotAnExport,
            Refuse, LinkRefused, RedirectRefused, FileUnusable, FileArrives, Ended

-----------------------------------------------------------------------------
(* Pages of the listing.                                                    *)

\* What the model says of the listing, in terms of the listing.
LEMMA InTheListing ==
    /\ \A name : Found(name) = FoundIn(listing, name)
    /\ \A name, r : Place(name, r) = PlaceIn(listing, name, r)
  BY DEF Found, FoundIn, Place, PlaceIn, Above, Heads

\* The server's order numbers the rows it lists for a name, from 0 up.
LEMMA FoundArePlaced ==
    ASSUME NEW list \in Seq(Rows), IsInjective(list), NEW name
    PROVE  LET found == FoundIn(list, name)
               place(r) == PlaceIn(list, name, r)
           IN  /\ found \subseteq Rows /\ IsFiniteSet(found) /\ Cardinality(found) \in Nat
               /\ \A r \in found : place(r) \in 0..Cardinality(found) - 1
               /\ \A r, s \in found : place(r) = place(s) => r = s
               /\ \A i \in 0..Cardinality(found) - 1 : \E r \in found : place(r) = i
<1> DEFINE found == FoundIn(list, name)
           R == {p \in found \X found : Heads(list, p[1], p[2])}
<1>1. found \subseteq Rows /\ IsFiniteSet(found)
  <2>1. found \in SUBSET Rows
    BY DEF FoundIn, ToSet
  <2> QED BY <2>1, RankableRows, FS_Subset
<1>2. Orders(R, found)
  <2>1. \A r, s \in found : <<r, s>> \in R <=> Heads(list, r, s)
    OBVIOUS
  <2>2. \A r \in found : ~Heads(list, r, r)
    BY DEF Heads, IsInjective
  <2>3. \A r, s, t \in found : Heads(list, r, s) /\ Heads(list, s, t) => Heads(list, r, t)
    <3> SUFFICES ASSUME NEW r, NEW s, NEW t, Heads(list, r, s), Heads(list, s, t)
                 PROVE  Heads(list, r, t)
      OBVIOUS
    <3>1. PICK i, j \in DOMAIN list : i < j /\ list[i] = r /\ list[j] = s
      BY DEF Heads
    <3>2. PICK k, l \in DOMAIN list : k < l /\ list[k] = s /\ list[l] = t
      BY DEF Heads
    <3>3. j = k
      BY <3>1, <3>2 DEF IsInjective
    <3>4. i < l
      BY <3>1, <3>2, <3>3
    <3> QED BY <3>1, <3>2, <3>4 DEF Heads
  <2>4. \A r, s \in found : r # s => Heads(list, r, s) \/ Heads(list, s, r)
    <3> SUFFICES ASSUME NEW r \in found, NEW s \in found, r # s
                 PROVE  Heads(list, r, s) \/ Heads(list, s, r)
      OBVIOUS
    <3>1. PICK i \in DOMAIN list : list[i] = r
      BY DEF FoundIn, ToSet
    <3>2. PICK j \in DOMAIN list : list[j] = s
      BY DEF FoundIn, ToSet
    <3>3. i < j \/ j < i
      BY <3>1, <3>2
    <3> QED BY <3>1, <3>2, <3>3 DEF Heads
  <2> HIDE DEF R, found
  <2> QED BY <2>1, <2>2, <2>3, <2>4 DEF Orders
<1>3. \A r \in found : PlaceIn(list, name, r) = Cardinality(Below(R, found, r))
  <2> SUFFICES ASSUME NEW r \in found
               PROVE  {s \in found : Heads(list, s, r)} = Below(R, found, r)
    BY DEF PlaceIn
  <2> QED BY DEF Below
<1> HIDE DEF R, found
<1>4. /\ Cardinality(found) \in Nat
      /\ \A r \in found : PlaceIn(list, name, r) \in 0..Cardinality(found) - 1
      /\ \A i \in 0..Cardinality(found) - 1 :
            \E r \in found : PlaceIn(list, name, r) = i
  BY <1>1, <1>2, <1>3, PlacesAreFilled
<1>5. ASSUME NEW r \in found, NEW s \in found,
             PlaceIn(list, name, r) = PlaceIn(list, name, s)
      PROVE  r = s
  <2>1. \A p, q \in found :
            <<p, q>> \in R => PlaceIn(list, name, p) < PlaceIn(list, name, q)
    BY <1>1, <1>2, <1>3, PlacesAreFilled
  <2>2. <<r, s>> \notin R /\ <<s, r>> \notin R
    BY <1>4, <1>5, <2>1
  <2> QED BY <1>2, <2>2 DEF Orders
<1> QED BY <1>1, <1>4, <1>5 DEF found

PageIn(list, name, n) ==
    {r \in FoundIn(list, name) :
        PlaceIn(list, name, r) \in n * PageSize .. (n + 1) * PageSize - 1}

\* No row follows a short page, and a full one has a row in its last place.
LEMMA PagesAreFull ==
    ASSUME NEW list \in Seq(Rows), IsInjective(list), NEW name, NEW n \in Nat
    PROVE  LET page == PageIn(list, name, n)
               place(r) == PlaceIn(list, name, r)
           IN  /\ n * PageSize \in Nat /\ (n + 1) * PageSize = n * PageSize + PageSize
               /\ IsFiniteSet(page) /\ Cardinality(page) \in Nat
               /\ Cardinality(page) < PageSize =>
                    \A r \in FoundIn(list, name) : place(r) < (n + 1) * PageSize
               /\ Cardinality(page) >= PageSize =>
                    \E r \in page : place(r) = (n + 1) * PageSize - 1
<1> DEFINE a == n * PageSize
           found == FoundIn(list, name)
           page == PageIn(list, name, n)
           slots == a .. a + PageSize - 1
           f == [r \in page |-> PlaceIn(list, name, r)]
<1>1. a \in Nat /\ (n + 1) * PageSize = a + PageSize /\ PageSize \in Nat \ {0}
  BY SearchBounds
<1> HIDE DEF a
<1>2. page = {r \in found : PlaceIn(list, name, r) \in slots}
  BY <1>1 DEF PageIn, a
<1>3. /\ found \subseteq Rows /\ IsFiniteSet(found) /\ Cardinality(found) \in Nat
      /\ \A r \in found : PlaceIn(list, name, r) \in 0..Cardinality(found) - 1
      /\ \A r, s \in found : PlaceIn(list, name, r) = PlaceIn(list, name, s) => r = s
      /\ \A i \in 0..Cardinality(found) - 1 :
            \E r \in found : PlaceIn(list, name, r) = i
  BY FoundArePlaced
<1> HIDE DEF found, page
<1>4. IsFiniteSet(page) /\ Cardinality(page) \in Nat
  <2>1. page \in SUBSET found
    BY <1>2
  <2> QED BY <1>3, <2>1, FS_Subset, FS_CardinalityType
<1>5. IsFiniteSet(slots) /\ Cardinality(slots) = PageSize
  BY <1>1, FS_Interval
<1>6. f \in Injection(page, slots)
  BY <1>2, <1>3 DEF Injection, IsInjective
<1>7. Cardinality(page) <= PageSize /\ (Cardinality(page) = PageSize => f \in Surjection(page, slots))
  BY <1>5, <1>6, FS_Injection
<1>8. ASSUME Cardinality(page) >= PageSize
      PROVE  \E r \in page : PlaceIn(list, name, r) = a + PageSize - 1
  <2>1. f \in Surjection(page, slots)
    BY <1>1, <1>4, <1>7, <1>8
  <2>2. a + PageSize - 1 \in slots
    BY <1>1
  <2> QED BY <2>1, <2>2 DEF Surjection
<1>9. ASSUME NEW r \in found, ~(PlaceIn(list, name, r) < a + PageSize)
      PROVE  ~(Cardinality(page) < PageSize)
  <2>1. \A i \in slots : \E s \in found : PlaceIn(list, name, s) = i
    <3>1. slots \subseteq 0..Cardinality(found) - 1
      BY <1>1, <1>3, <1>9
    <3> QED BY <1>3, <3>1
  <2>2. f \in Surjection(page, slots)
    <3>1. f \in [page -> slots]
      BY <1>2
    <3>2. \A i \in slots : \E s \in page : f[s] = i
      BY <1>2, <2>1
    <3> QED BY <3>1, <3>2 DEF Surjection
  <2>3. Cardinality(slots) <= Cardinality(page)
    BY <1>4, <2>2, FS_Surjection
  <2> QED BY <1>1, <1>4, <1>5, <2>3
<1> QED BY <1>1, <1>4, <1>8, <1>9 DEF a, found, page

\* A list with one more element, before or after the others, orders the others
\* as before.
LEMMA OneMore ==
    ASSUME NEW n \in Nat, NEW list, DOMAIN list = 1..n, IsInjective(list),
           NEW more, DOMAIN more = 1..n + 1, NEW d \in {0, 1},
           NEW r, r \notin ToSet(list),
           \A i \in 1..n : more[i + d] = list[i],
           \A i \in 1..n + 1 : more[i] = r \/ i - d \in 1..n
    PROVE  /\ (\A i, j \in 1..n + 1 : more[i] = r /\ more[j] = r => i = j) =>
                IsInjective(more)
           /\ ToSet(more) \subseteq ToSet(list) \cup {r}
           /\ ToSet(list) \subseteq ToSet(more)
           /\ \A s, t \in ToSet(list) : Heads(more, s, t) <=> Heads(list, s, t)
<1>1. ASSUME NEW i \in 1..n + 1, more[i] # r
      PROVE  i - d \in 1..n /\ more[i] = list[i - d]
  <2>1. i - d \in 1..n
    BY <1>1
  <2>2. more[(i - d) + d] = list[i - d]
    BY <2>1
  <2>3. (i - d) + d = i
    OBVIOUS
  <2> QED BY <2>1, <2>2, <2>3
<1>2. ASSUME NEW i \in 1..n PROVE i + d \in 1..n + 1 /\ more[i + d] = list[i]
  <2>1. i + d \in 1..n + 1
    OBVIOUS
  <2>2. more[i + d] = list[i]
    OBVIOUS
  <2> QED BY <2>1, <2>2
<1>3. ToSet(more) \subseteq ToSet(list) \cup {r} /\ ToSet(list) \subseteq ToSet(more)
  <2>1. ASSUME NEW i \in 1..n + 1 PROVE more[i] \in ToSet(list) \cup {r}
    BY <1>1 DEF ToSet
  <2>2. ASSUME NEW i \in 1..n PROVE list[i] \in ToSet(more)
    BY <1>2 DEF ToSet
  <2> QED BY <2>1, <2>2 DEF ToSet
<1>4. ASSUME \A i, j \in 1..n + 1 : more[i] = r /\ more[j] = r => i = j,
             NEW i \in 1..n + 1, NEW j \in 1..n + 1, more[i] = more[j]
      PROVE  i = j
  <2>1. CASE more[i] = r
    BY <1>4, <2>1
  <2>2. CASE more[i] # r
    <3>1. i - d \in 1..n /\ j - d \in 1..n /\ list[i - d] = list[j - d]
      BY <1>1, <1>4, <2>2
    <3>2. i - d = j - d
      BY <3>1 DEF IsInjective
    <3> QED BY <3>2
  <2> QED BY <2>1, <2>2
<1>5. ASSUME NEW s \in ToSet(list), NEW t \in ToSet(list), Heads(list, s, t)
      PROVE  Heads(more, s, t)
  <2>1. PICK i \in 1..n, j \in 1..n : i < j /\ list[i] = s /\ list[j] = t
    BY <1>5 DEF Heads
  <2>2. i + d < j + d
    BY <2>1
  <2> QED BY <1>2, <2>1, <2>2 DEF Heads
<1>6. ASSUME NEW s \in ToSet(list), NEW t \in ToSet(list), Heads(more, s, t)
      PROVE  Heads(list, s, t)
  <2>1. PICK i \in 1..n + 1, j \in 1..n + 1 : i < j /\ more[i] = s /\ more[j] = t
    BY <1>6 DEF Heads
  <2>2. i - d < j - d
    BY <2>1
  <2>3. more[i] # r /\ more[j] # r
    BY <2>1
  <2> QED BY <1>1, <2>1, <2>2, <2>3 DEF Heads
<1>7. (\A i, j \in 1..n + 1 : more[i] = r /\ more[j] = r => i = j) => IsInjective(more)
  BY <1>4 DEF IsInjective
<1> QED BY <1>3, <1>5, <1>6, <1>7

\* What a publication does to the rows of a name: it lists one more, or none,
\* and moves the others down by no more than that.
Shifts(list, more, name, new) ==
    /\ FoundIn(more, name) = FoundIn(list, name) \cup new
    /\ Cardinality(new) \in {0, 1} /\ IsFiniteSet(new)
    /\ FoundIn(list, name) \cap new = {}
    /\ \A s \in FoundIn(list, name) :
        /\ PlaceIn(list, name, s) <= PlaceIn(more, name, s)
        /\ PlaceIn(more, name, s) <= PlaceIn(list, name, s) + Cardinality(new)

LEMMA PublicationShifts ==
    ASSUME NEW list \in Seq(Rows), IsInjective(list), NEW r \in Rows \ ToSet(list),
           NEW more \in {<<r>> \o list, Append(list, r)}, NEW name
    PROVE  /\ more \in Seq(Rows) /\ IsInjective(more)
           /\ Shifts(list, more, name, {r} \cap Returns[name])
<1> DEFINE new == {r} \cap Returns[name]
<1> DEFINE n == Len(list)
<1>1. PICK d \in {0, 1} :
        /\ more \in Seq(Rows) /\ Len(more) = n + 1
        /\ \A i \in 1..n : more[i + d] = list[i]
        /\ \A i \in 1..n + 1 : more[i] = r \/ i - d \in 1..n
        /\ \E p \in 1..n + 1 : more[p] = r /\ \A i \in 1..n + 1 : i # p => i - d \in 1..n
  <2>1. CASE more = Append(list, r)
    <3>1. /\ more \in Seq(Rows) /\ Len(more) = n + 1
          /\ \A i \in 1..n : more[i + 0] = list[i]
          /\ more[n + 1] = r
      BY <2>1
    <3>2. \A i \in 1..n + 1 : i = n + 1 \/ i - 0 \in 1..n
      OBVIOUS
    <3>3. n + 1 \in 1..n + 1
      OBVIOUS
    <3> HIDE DEF n
    <3> QED BY <3>1, <3>2, <3>3
  <2>2. CASE more = <<r>> \o list
    <3>1. /\ more \in Seq(Rows) /\ Len(more) = n + 1
          /\ \A i \in 1..n : more[i + 1] = list[i]
          /\ more[1] = r
      BY <2>2
    <3>2. \A i \in 1..n + 1 : i = 1 \/ i - 1 \in 1..n
      OBVIOUS
    <3>3. 1 \in 1..n + 1
      OBVIOUS
    <3> HIDE DEF n
    <3> QED BY <3>1, <3>2, <3>3
  <2> QED BY <2>1, <2>2
<1>2. /\ n \in Nat /\ DOMAIN list = 1..n /\ DOMAIN more = 1..n + 1 /\ r \notin ToSet(list)
  BY <1>1
<1>a. /\ ToSet(more) = ToSet(list) \cup {r} /\ IsInjective(more)
      /\ \A s, t \in ToSet(list) : Heads(more, s, t) <=> Heads(list, s, t)
  <2> HIDE DEF n
  <2>1. /\ (\A i, j \in 1..n + 1 : more[i] = r /\ more[j] = r => i = j) => IsInjective(more)
        /\ ToSet(more) \subseteq ToSet(list) \cup {r} /\ ToSet(list) \subseteq ToSet(more)
        /\ \A s, t \in ToSet(list) : Heads(more, s, t) <=> Heads(list, s, t)
    BY <1>1, <1>2, OneMore
  <2>2. PICK p \in 1..n + 1 : more[p] = r /\ \A i \in 1..n + 1 : i # p => i - d \in 1..n
    BY <1>1
  <2>3. ASSUME NEW i \in 1..n + 1, more[i] = r PROVE i = p
    <3> SUFFICES ASSUME i # p PROVE FALSE
      OBVIOUS
    <3>1. i - d \in 1..n
      BY <2>2
    <3>a. (i - d) + d = i
      BY <1>2
    <3>2. more[i] = list[i - d]
      <4>1. more[(i - d) + d] = list[i - d]
        BY <1>1, <3>1
      <4> QED BY <3>a, <4>1
    <3> QED BY <1>2, <2>3, <3>1, <3>2 DEF ToSet
  <2>4. r \in ToSet(more)
    BY <1>2, <2>2 DEF ToSet
  <2> QED BY <2>1, <2>3, <2>4
<1>3. FoundIn(more, name) = FoundIn(list, name) \cup new /\ FoundIn(list, name) \cap new = {}
  BY <1>a DEF FoundIn
<1>4. Cardinality(new) \in {0, 1} /\ IsFiniteSet(new)
  <2>1. new = {} \/ new = {r}
    OBVIOUS
  <2> HIDE DEF new
  <2>2. Cardinality({}) = 0 /\ IsFiniteSet({}) /\ Cardinality({r}) = 1 /\ IsFiniteSet({r})
    BY FS_EmptySet, FS_Singleton
  <2> QED BY <2>1, <2>2
<1>5. ASSUME NEW s \in FoundIn(list, name)
      PROVE  /\ PlaceIn(list, name, s) <= PlaceIn(more, name, s)
             /\ PlaceIn(more, name, s) <= PlaceIn(list, name, s) + Cardinality(new)
  <2> DEFINE before == {t \in FoundIn(list, name) : Heads(list, t, s)}
             after == {t \in FoundIn(more, name) : Heads(more, t, s)}
  <2>1. before \in SUBSET after /\ after \in SUBSET (before \cup new)
    BY <1>3, <1>a DEF FoundIn
  <2>2. IsFiniteSet(before) /\ before \cap new = {}
    <3>1. before \in SUBSET Rows
      BY DEF FoundIn, ToSet
    <3> QED BY <1>3, <3>1, RankableRows, FS_Subset
  <2> HIDE DEF before, after, new
  <2>3. /\ IsFiniteSet(before \cup new) /\ Cardinality(before) \in Nat
        /\ Cardinality(before \cup new) = Cardinality(before) + Cardinality(new)
    <3>1. Cardinality({}) = 0
      BY FS_EmptySet
    <3>2. Cardinality(before) \in Nat
      BY <2>2, FS_CardinalityType
    <3>3. /\ IsFiniteSet(before \cup new)
          /\ Cardinality(before \cup new) =
                Cardinality(before) + Cardinality(new) - Cardinality(before \cap new)
      BY <1>4, <2>2, FS_Union
    <3>4. Cardinality(before \cap new) = 0
      BY <2>2, <3>1
    <3> QED BY <1>4, <3>2, <3>3, <3>4
  <2>4. /\ IsFiniteSet(after) /\ Cardinality(after) \in Nat
        /\ Cardinality(after) <= Cardinality(before) + Cardinality(new)
    BY <2>1, <2>3, FS_Subset, FS_CardinalityType
  <2>5. Cardinality(before) <= Cardinality(after)
    BY <2>1, <2>4, FS_Subset
  <2> QED BY <2>4, <2>5 DEF PlaceIn, before, after
<1> QED BY <1>1, <1>3, <1>4, <1>5, <1>a DEF Shifts

-----------------------------------------------------------------------------
(* What a walk has collected.                                               *)

LEMMA AppearedIsANumber ==
    ASSUME NEW list \in Seq(Rows), IsInjective(list), NEW x
    PROVE  IsFiniteSet(FoundIn(list, x.name) \ x.known) /\ Appeared(list, x) \in Nat
<1>1. IsFiniteSet(FoundIn(list, x.name))
  BY FoundArePlaced
<1>2. FoundIn(list, x.name) \ x.known \in SUBSET FoundIn(list, x.name)
  OBVIOUS
<1> QED BY <1>1, <1>2, FS_Subset, FS_CardinalityType DEF Appeared

\* Waiting for a request changes nothing of what is collected.
LEMMA WaitingCollects ==
    ASSUME NEW list, NEW e, NEW f, Collected(list, e),
           e.pc \in Waiting \cup {"page"}, f.pc \in Waiting,
           f.task = e.task, f.name = e.name, f.rows = e.rows, f.known = e.known,
           f.page = e.page, f.selected = e.selected
    PROVE  Collected(list, f)
<1>1. f.pc # "rank" /\ (e.task = "search" => Collecting(list, e))
  BY DEF Collected, Waiting
<1>2. Appeared(list, f) = Appeared(list, e)
  BY DEF Appeared
<1>3. Collecting(list, e) => Collecting(list, f)
  BY <1>2 DEF Collecting
<1>4. Chosen(e) => Chosen(f)
  BY DEF Chosen
<1> QED BY <1>1, <1>2, <1>3, <1>4 DEF Collected

\* Nor does a publication undo it.
LEMMA PublicationCollects ==
    ASSUME NEW list \in Seq(Rows), IsInjective(list), NEW r \in Rows \ ToSet(list),
           NEW more \in {<<r>> \o list, Append(list, r)},
           NEW e \in Walks, Collected(list, e)
    PROVE  Collected(more, e)
<1> DEFINE name == e.name
           new == {r} \cap Returns[name]
           a == e.page * PageSize
<1>1. /\ more \in Seq(Rows) /\ IsInjective(more)
      /\ FoundIn(more, name) = FoundIn(list, name) \cup new
      /\ Cardinality(new) \in {0, 1} /\ IsFiniteSet(new)
      /\ FoundIn(list, name) \cap new = {}
      /\ \A s \in FoundIn(list, name) :
            /\ PlaceIn(list, name, s) <= PlaceIn(more, name, s)
            /\ PlaceIn(more, name, s) <= PlaceIn(list, name, s) + Cardinality(new)
  <2>1. more \in Seq(Rows) /\ IsInjective(more) /\ Shifts(list, more, name, new)
    BY PublicationShifts
  <2> QED BY <2>1 DEF Shifts
<1>2. /\ Appeared(list, e) \in Nat /\ Appeared(more, e) \in Nat
      /\ IsFiniteSet(FoundIn(list, name) \ e.known)
      /\ IsFiniteSet(FoundIn(more, name) \ e.known)
  BY <1>1, AppearedIsANumber
<1>3. a \in Nat
  BY SearchBounds DEF Walks
<1>4. \A s \in FoundIn(list, name) : PlaceIn(list, name, s) \in Nat
  BY FoundArePlaced
<1>5. \A s \in FoundIn(more, name) : PlaceIn(more, name, s) \in Nat
  BY <1>1, FoundArePlaced
<1> HIDE DEF new, name, a
<1>6. Appeared(list, e) <= Appeared(more, e)
  <2>1. FoundIn(list, name) \ e.known \in SUBSET (FoundIn(more, name) \ e.known)
    BY <1>1
  <2> QED BY <1>2, <2>1, FS_Subset DEF Appeared, name
<1>7. ASSUME Collecting(list, e) PROVE Collecting(more, e)
  <2>1. /\ e.known \subseteq FoundIn(list, name) /\ e.rows \subseteq FoundIn(list, name)
        /\ \A s \in e.known : PlaceIn(list, name, s) < a => s \in e.rows
        /\ \A s \in e.rows : PlaceIn(list, name, s) < a + Appeared(list, e)
    BY <1>7 DEF Collecting, name, a
  <2>2. Appeared(more, e) = Appeared(list, e) + Cardinality(new)
    <3>1. /\ FoundIn(more, name) \ e.known = (FoundIn(list, name) \ e.known) \cup new
          /\ (FoundIn(list, name) \ e.known) \cap new = {}
      BY <1>1, <2>1
    <3>2. Cardinality((FoundIn(list, name) \ e.known) \cup new) =
            Cardinality(FoundIn(list, name) \ e.known) + Cardinality(new)
              - Cardinality((FoundIn(list, name) \ e.known) \cap new)
      BY <1>1, <1>2, FS_Union
    <3>3. Cardinality((FoundIn(list, name) \ e.known) \cap new) = 0
      BY <3>1, FS_EmptySet
    <3>4. /\ Appeared(list, e) = Cardinality(FoundIn(list, name) \ e.known)
          /\ Appeared(more, e) = Cardinality(FoundIn(more, name) \ e.known)
      BY DEF Appeared, name
    <3>5. Appeared(more, e) = Appeared(list, e) + Cardinality(new) - 0
      BY <3>1, <3>2, <3>3, <3>4
    <3>6. Cardinality(new) \in Int /\ Appeared(list, e) \in Int
      BY <1>1, <1>2
    <3> QED BY <3>5, <3>6
  <2>3. ASSUME NEW s \in e.known, PlaceIn(more, name, s) < a PROVE s \in e.rows
    <3>1. s \in FoundIn(list, name) /\ s \in FoundIn(more, name)
      BY <1>1, <2>1
    <3>2. PlaceIn(list, name, s) < a
      BY <1>1, <1>3, <1>4, <1>5, <2>3, <3>1
    <3> QED BY <2>1, <3>2
  <2>4. ASSUME NEW s \in e.rows PROVE PlaceIn(more, name, s) < a + Appeared(more, e)
    <3>1. s \in FoundIn(list, name) /\ s \in FoundIn(more, name)
      BY <1>1, <2>1
    <3>2. PlaceIn(list, name, s) < a + Appeared(list, e)
      BY <2>1
    <3>3. PlaceIn(more, name, s) <= PlaceIn(list, name, s) + Cardinality(new)
      BY <1>1, <3>1
    <3>4. /\ PlaceIn(list, name, s) \in Nat /\ PlaceIn(more, name, s) \in Nat
          /\ Cardinality(new) \in Nat
      BY <1>1, <1>4, <1>5, <3>1
    <3> QED BY <1>2, <1>3, <2>2, <3>2, <3>3, <3>4
  <2>5. e.known \subseteq FoundIn(more, name) /\ e.rows \subseteq FoundIn(more, name)
    BY <1>1, <2>1
  <2> QED BY <2>3, <2>4, <2>5 DEF Collecting, name, a
<1>8. Appeared(more, e) < PageSize => Appeared(list, e) < PageSize
  BY <1>2, <1>6, SearchBounds
<1> QED BY <1>7, <1>8 DEF Collected

\* A page that is not the last adds the rows in its places.  On the last one,
\* a short page, nothing follows it; and a full page of rows already met needs
\* as many publications, for the row in its last place moved down by that many.
LEMMA PageCollects ==
    ASSUME NEW list \in Seq(Rows), IsInjective(list), NEW e \in Walks,
           Collecting(list, e), NEW f \in Walks,
           NEW page, page = PageIn(list, e.name, e.page),
           f.name = e.name, f.known = e.known, f.rows = e.rows \cup (page \ e.rows)
    PROVE  /\ f.page = e.page + 1 => Collecting(list, f)
           /\ (Cardinality(page) < PageSize \/ page \ e.rows = {})
                /\ Appeared(list, f) < PageSize
              => f.known \subseteq f.rows
<1> DEFINE name == e.name
           a == e.page * PageSize
           found == FoundIn(list, name)
<1>1. e.page \in Nat /\ PageSize \in Nat \ {0}
  BY SearchBounds DEF Walks
<1>2. /\ a \in Nat /\ (e.page + 1) * PageSize = a + PageSize
      /\ IsFiniteSet(page) /\ Cardinality(page) \in Nat
      /\ Cardinality(page) < PageSize =>
            \A r \in found : PlaceIn(list, name, r) < a + PageSize
      /\ Cardinality(page) >= PageSize =>
            \E r \in page : PlaceIn(list, name, r) = a + PageSize - 1
  BY <1>1, PagesAreFull
<1>3. \A r \in found : PlaceIn(list, name, r) \in Nat
  BY FoundArePlaced
<1>4. /\ e.known \subseteq found /\ e.rows \subseteq found
      /\ \A r \in e.known : PlaceIn(list, name, r) < a => r \in e.rows
      /\ \A r \in e.rows : PlaceIn(list, name, r) < a + Appeared(list, e)
  BY DEF Collecting
<1>5. page = {r \in found : PlaceIn(list, name, r) \in a .. a + PageSize - 1}
  <2>1. page = {r \in found : PlaceIn(list, name, r) \in a .. (e.page + 1) * PageSize - 1}
    BY DEF PageIn
  <2>2. (e.page + 1) * PageSize - 1 = a + PageSize - 1
    BY <1>1
  <2> QED BY ONLY <2>1, <2>2
<1>6. Appeared(list, e) \in Nat /\ Appeared(list, f) = Appeared(list, e)
  BY AppearedIsANumber DEF Appeared
<1> HIDE DEF a, found, name
<1>7. ASSUME NEW r \in f.known, PlaceIn(list, name, r) < a + PageSize PROVE r \in f.rows
  <2>1. r \in found /\ PlaceIn(list, name, r) \in Nat
    BY <1>3, <1>4
  <2>2. CASE PlaceIn(list, name, r) < a
    BY <1>4, <2>2
  <2>3. CASE ~(PlaceIn(list, name, r) < a)
    <3>1. PlaceIn(list, name, r) \in a .. a + PageSize - 1
      BY <1>1, <1>2, <1>7, <2>1, <2>3
    <3> QED BY <1>5, <2>1, <3>1
  <2> QED BY <2>2, <2>3
<1>8. ASSUME f.page = e.page + 1 PROVE Collecting(list, f)
  <2>1. f.page * PageSize = a + PageSize
    BY <1>2, <1>8
  <2>2. ASSUME NEW r \in f.rows PROVE PlaceIn(list, name, r) < a + PageSize + Appeared(list, f)
    <3>1. r \in found /\ PlaceIn(list, name, r) \in Nat
      BY <1>3, <1>4, <1>5
    <3>2. CASE r \in e.rows
      BY <1>1, <1>2, <1>4, <1>6, <3>1, <3>2
    <3>3. CASE r \in page
      <4>1. PlaceIn(list, name, r) <= a + PageSize - 1
        BY <1>1, <1>2, <1>5, <3>1, <3>3
      <4> QED BY <1>1, <1>2, <1>6, <3>1, <4>1
    <3> QED BY <3>2, <3>3
  <2>3. f.known \subseteq found /\ f.rows \subseteq found
    BY <1>4, <1>5
  <2> QED BY <1>7, <2>1, <2>2, <2>3 DEF Collecting, found, name
<1>9. ASSUME Cardinality(page) < PageSize PROVE f.known \subseteq f.rows
  BY <1>2, <1>4, <1>7, <1>9
<1>10. ASSUME ~(Cardinality(page) < PageSize), page \ e.rows = {}
       PROVE  ~(Appeared(list, f) < PageSize)
  <2>1. PICK r \in page : PlaceIn(list, name, r) = a + PageSize - 1
    BY <1>1, <1>2, <1>10
  <2>2. a + PageSize - 1 < a + Appeared(list, e)
    BY <1>4, <1>10, <2>1
  <2> QED BY <1>1, <1>2, <1>6, <2>2
<1> QED BY <1>8, <1>9, <1>10

LEMMA SearchCollects ==
    ASSUME Typed, NEW w \in Workers, Search(w), walk'[w] \in Walks,
           Punctual(now, walk[w]), Collected(listing, walk[w])
    PROVE  Collected(listing, walk'[w])
<1> DEFINE e == walk[w]
           f == walk'[w]
<1>0. /\ e \in Walks /\ f \in Walks /\ listing \in Seq(Rows) /\ IsInjective(listing)
      /\ walk \in [Workers -> Walks]
  BY DEF Typed
<1>1. ASSUME NEW pc \in Ended, End(w, pc) PROVE Collected(listing, f)
  <2>1. f = [Idle EXCEPT !.pc = pc]
    BY <1>0, <1>1 DEF End
  <2>2. f.pc = pc /\ f.task = "search"
    BY <2>1 DEF Idle
  <2> QED BY <1>1, <2>2 DEF Collected, Ended, Waiting
<1>2. CASE StartSearch(w)
  <2>1. PICK name \in Designations :
            walk' = [walk EXCEPT ![w] = [Idle EXCEPT !.pc = "page", !.name = name,
                !.begun = now, !.known = Found(name)]]
    BY <1>2 DEF StartSearch
  <2>2. f = [Idle EXCEPT !.pc = "page", !.name = name, !.begun = now, !.known = Found(name)]
    BY <1>0, <2>1
  <2>3. /\ f.pc = "page" /\ f.task = "search" /\ f.name = name /\ f.page = 0
        /\ f.rows = {} /\ f.known = FoundIn(listing, name)
    BY <2>2, InTheListing DEF Idle
  <2>4. 0 * PageSize = 0
    BY SearchBounds
  <2>5. \A r \in f.known : PlaceIn(listing, name, r) \in Nat
    BY <1>0, <2>3, FoundArePlaced
  <2>6. Collecting(listing, f)
    BY <2>3, <2>4, <2>5 DEF Collecting
  <2> QED BY <2>3, <2>6 DEF Collected
<1>3. CASE FetchPage(w) \/ Throttle(w) \/ Throttled(w) \/ Issue(w) \/ IssueUnspaced(w)
           \/ Retry(w) \/ AskAgain(w) \/ RedirectFollowed(w)
  <2>1. e.pc \in Waiting \cup {"page"}
    BY <1>3 DEF FetchPage, Throttle, Throttled, Issue, IssueUnspaced, Retry, AskAgain,
              RedirectFollowed, At, Waiting
  <2>2. /\ f.pc \in Waiting
        /\ f.task = e.task /\ f.name = e.name /\ f.rows = e.rows /\ f.known = e.known
        /\ f.page = e.page /\ f.selected = e.selected
    <3>1. CASE FetchPage(w)
      BY <1>0, <3>1 DEF FetchPage, Walks, Waiting
    <3>2. CASE Throttle(w)
      BY <1>0, <3>2 DEF Throttle, Walks, Waiting
    <3>3. CASE Throttled(w)
      BY <1>0, <3>3 DEF Throttled, Goto, Walks, Waiting
    <3>4. CASE Issue(w)
      BY <1>0, <3>4 DEF Issue, Request, Walks, Waiting
    <3>5. CASE IssueUnspaced(w)
      BY <1>0, <3>5 DEF IssueUnspaced, Request, Walks, Waiting
    <3>6. CASE Retry(w)
      BY <1>0, <3>6 DEF Retry, Walks, Waiting
    <3>7. CASE AskAgain(w)
      BY <1>0, <3>7 DEF AskAgain, Walks, Waiting
    <3>8. CASE RedirectFollowed(w)
      BY <1>0, <3>8 DEF RedirectFollowed, At, Walks, Waiting
    <3> QED BY <1>3, <3>1, <3>2, <3>3, <3>4, <3>5, <3>6, <3>7, <3>8
  <2> HIDE DEF e, f
  <2>3. Collected(listing, e)
    BY DEF e
  <2>4. Collected(listing, f)
    BY <2>1, <2>2, <2>3, WaitingCollects
  <2> QED BY <2>4 DEF f
<1>4. CASE PageArrives(w)
  <2> DEFINE page == ExportPage(e.name, e.page)
  <2>1. /\ f.rows = e.rows \cup (page \ e.rows) /\ f.name = e.name /\ f.known = e.known
        /\ f.task = e.task
        /\ f.pc = (IF IsLastPage(w, page) THEN "rank" ELSE "page")
        /\ f.page = (IF IsLastPage(w, page) THEN e.page ELSE e.page + 1)
    BY <1>0, <1>4 DEF PageArrives, Unseen, Walks
  <2>2. e.pc = "request" /\ e.task = "search"
    BY <1>4 DEF PageArrives, At
  <2>3. page = PageIn(listing, e.name, e.page)
    BY InTheListing DEF ExportPage, PageIn
  <2>4. IsLastPage(w, page) <=> Cardinality(page) < PageSize \/ page \ e.rows = {}
    BY DEF IsLastPage, Unseen
  <2>5. Collecting(listing, e)
    BY <2>2 DEF Collected, Waiting
  <2> HIDE DEF e, f, page
  <2>6. /\ f.page = e.page + 1 => Collecting(listing, f)
        /\ (Cardinality(page) < PageSize \/ page \ e.rows = {})
             /\ Appeared(listing, f) < PageSize
           => f.known \subseteq f.rows
    BY <1>0, <2>1, <2>3, <2>5, PageCollects
  <2>7. Collected(listing, f)
    BY <2>1, <2>2, <2>4, <2>6 DEF Collected, Waiting
  <2> QED BY <2>7 DEF f
<1>5. CASE StartDownload(w)
  <2> DEFINE first == Head(RankCandidates(e.rows, e.name).candidates)
  <2>1. /\ e.pc = "rank" /\ e.name = f.name /\ e.known = f.known
        /\ f.pc = "throttle" /\ f.task = "download" /\ f.selected = first
    BY <1>0, <1>5 DEF StartDownload, Walks, At
  <2>2. \A r \in Matched(e.rows, e.name) :
            /\ Export[r].object = Export[first].object
            /\ Eligible(r) => Export[first].day <= Export[r].day
    BY <1>0, <1>5, FirstCandidate DEF StartDownload, Walks
  <2>3. Appeared(listing, f) = Appeared(listing, e)
    BY <2>1 DEF Appeared
  <2>4. Appeared(listing, e) < PageSize => e.known \subseteq e.rows
    BY <2>1 DEF Collected
  <2>5. e.known \subseteq e.rows => Matched(e.known, e.name) \subseteq Matched(e.rows, e.name)
    BY DEF Matched
  <2>6. e.known \subseteq e.rows => Chosen(f)
    BY <2>1, <2>2, <2>5 DEF Chosen
  <2> QED BY <2>1, <2>3, <2>4, <2>6 DEF Collected
<1> QED BY <1>1, <1>2, <1>3, <1>4, <1>5
        DEF Search, PageCapReached, OutOfTime, RequestFails, StillArriving, NotAnExport,
            Refuse, LinkRefused, RedirectRefused, FileUnusable, FileArrives, Ended

\* Every step keeps the inductive invariant.
LEMMA StepIInv == IInv /\ [Next]_vars => IInv'
<1> SUFFICES ASSUME IInv, [Next]_vars PROVE IInv'
  OBVIOUS
<1>0. /\ Typed /\ now \in Nat /\ MaxTime \in Nat
      /\ \A w \in Workers : /\ walk[w] \in Walks
                            /\ Punctual(now, walk[w])
                            /\ Spaced(now, last, sent[w], walk[w])
                            /\ Collected(listing, walk[w])
  BY SearchBounds DEF IInv, Typed
<1>1. CASE UNCHANGED vars
  BY <1>0, <1>1 DEF vars, Typed, IInv
<1>2. CASE Tick
  <2>1. /\ now < MaxTime /\ now' = now + 1 /\ listing' = listing /\ last' = last
        /\ walk' = walk /\ sent' = sent
    BY <1>2 DEF Tick
  <2>2. Typed'
    BY <1>0, <2>1, SearchBounds DEF Typed
  <2>3. ASSUME NEW w \in Workers
        PROVE  Punctual(now + 1, walk[w]) /\ Spaced(now + 1, last, sent[w], walk[w])
    <3> DEFINE e == walk[w]
    <3>1. e.pc \notin {"page", "throttle", "issue"}
      BY <1>2 DEF Tick, AtOnce
    <3>2. e.pc \in {"throttled", "backoff"} => now + 1 <= e.wake
      BY <1>0, <1>2 DEF Tick, Asleep, Walks
    <3>3. e.begun <= now + 1
      BY <1>0 DEF Punctual, Walks
    <3>4. Punctual(now, e) /\ Spaced(now, last, sent[w], e)
      BY <1>0
    <3> HIDE DEF e
    <3>5. Punctual(now + 1, e)
      BY <3>1, <3>2, <3>3, <3>4 DEF Punctual
    <3>6. Spaced(now + 1, last, sent[w], e)
      BY <3>1, <3>4 DEF Spaced
    <3> QED BY <3>5, <3>6 DEF e
  <2> QED BY <1>0, <2>1, <2>2, <2>3 DEF IInv
<1>3. ASSUME NEW r \in Late, Publish(r) PROVE IInv'
  <2>1. /\ now' = now /\ last' = last /\ walk' = walk /\ sent' = sent
        /\ r \in Rows \ ToSet(listing)
        /\ listing' \in {<<r>> \o listing, Append(listing, r)}
    BY <1>3, ListedRows DEF Publish
  <2>2. listing \in Seq(Rows) /\ IsInjective(listing)
    BY <1>0 DEF Typed
  <2>3. listing' \in Seq(Rows) /\ IsInjective(listing')
    BY <2>1, <2>2, PublicationShifts
  <2>4. Typed'
    BY <1>0, <2>1, <2>3 DEF Typed
  <2>5. \A w \in Workers : Collected(listing', walk[w])
    BY <1>0, <2>1, <2>2, PublicationCollects
  <2> QED BY <1>0, <2>1, <2>4, <2>5 DEF IInv
<1>4. ASSUME NEW w \in Workers, Search(w) PROVE IInv'
  <2>1. /\ walk'[w] \in Walks
        /\ walk' = [walk EXCEPT ![w] = walk'[w]]
        /\ sent' \in [Workers -> 0..now \cup {Never}]
        /\ Punctual(now, walk'[w])
        /\ Spaced(now, last', sent'[w], walk'[w])
    BY <1>0, <1>4, WalkSteps
  <2>2. /\ now' = now /\ listing' = listing
        /\ \A v \in Workers \ {w} : walk'[v] = walk[v] /\ sent'[v] = sent[v]
        /\ last' \in {last, now}
    BY <1>0, <1>4, OneWalks
  <2>3. Typed'
    BY <1>0, <2>1, <2>2 DEF Typed
  <2>4. Collected(listing, walk'[w])
    BY <1>0, <1>4, <2>1, SearchCollects
  <2>5. ASSUME NEW v \in Workers \ {w} PROVE Spaced(now, last', sent[v], walk[v])
    <3>1. Spaced(now, last, sent[v], walk[v]) /\ sent[v] \in 0..now \cup {Never}
      BY <1>0 DEF Typed
    <3>2. now # Never
      BY <1>0, SearchBounds
    <3> QED BY <1>0, <2>2, <3>1, <3>2 DEF Spaced
  <2>6. ASSUME NEW v \in Workers
        PROVE  /\ Punctual(now, walk'[v]) /\ Spaced(now, last', sent'[v], walk'[v])
               /\ Collected(listing, walk'[v])
    BY <1>0, <2>1, <2>2, <2>4, <2>5
  <2> QED BY <2>2, <2>3, <2>6 DEF IInv
<1>5. CASE ForgetTime
  <2>1. /\ now' = now /\ listing' = listing /\ walk' = walk
        /\ last' = Never /\ sent' = [w \in Workers |-> Never]
    BY <1>5 DEF ForgetTime
  <2>2. Typed'
    BY <1>0, <2>1 DEF Typed
  <2>3. \A w \in Workers : Spaced(now, Never, Never, walk[w])
    BY DEF Spaced
  <2> QED BY <1>0, <2>1, <2>2, <2>3 DEF IInv
<1> QED BY <1>1, <1>2, <1>3, <1>4, <1>5 DEF Next

-----------------------------------------------------------------------------
(* The theorems.                                                            *)

\* In every reachable state every walk is within its time, spaced from its last
\* request, and has collected what was ahead of its next page.
THEOREM SearchInvariant == Spec => []IInv
  BY InitIInv, StepIInv, PTL DEF Spec

\* The types that the runs check.
THEOREM SearchTyped == Spec => []TypeOK
<1>1. IInv => TypeOK
  <2> SUFFICES ASSUME IInv PROVE TypeOK
    OBVIOUS
  <2>1. Typed
    BY DEF IInv
  <2>2. ASSUME NEW w \in Workers PROVE walk[w] \in Walks
    BY <2>1 DEF Typed
  <2>3. ToSet(listing) \subseteq Rows
    BY <2>1 DEF Typed, ToSet
  <2>4. ASSUME NEW w \in Workers
        PROVE  walk[w].pc \in {"idle", "request"} \cup AtOnce \cup Asleep \cup Ended
    BY <2>2 DEF Walks, Waiting, AtOnce, Asleep
  <2> QED BY <2>1, <2>2, <2>3, <2>4 DEF TypeOK, Typed, Walks
<1> QED BY <1>1, SearchInvariant, PTL

\* A walk that search_spectra_rows returns from has every row there was when it
\* began, unless a page's worth of rows appeared meanwhile.
THEOREM CompleteWalks == Spec => []WalkIsComplete
<1>1. IInv => WalkIsComplete
  BY InTheListing DEF IInv, Collected, WalkIsComplete, FewAppeared, Appeared, At
<1> QED BY <1>1, SearchInvariant, PTL

\* What download_spectrum is asked for belongs to the one object that the name
\* names, and is that object's earliest.
THEOREM OneObjectNamed == Spec => []NamesOneObject
<1>1. IInv => NamesOneObject
  BY InTheListing DEF IInv, Collected, Chosen, NamesOneObject, FewAppeared, Appeared
<1> QED BY <1>1, SearchInvariant, PTL

\* What the client asks, it asks within the budget and one interval.
LEMMA InTime ==
    ASSUME IInv, NEW w \in Workers, Search(w), Asks(w)
    PROVE  now <= walk[w].begun + Budget(w) + Interval
<1> DEFINE e == walk[w]
           end == e.begun + Whole(e) + Interval
<1>0. /\ walk \in [Workers -> Walks] /\ Punctual(now, e) /\ e \in Walks /\ now \in Nat
      /\ e.begun \in Nat /\ e.limit \in Nat /\ e.wake \in Nat
      /\ Whole(e) \in Nat /\ Interval \in Nat /\ end \in Nat
      /\ end = e.begun + Budget(w) + Interval
  <2>1. walk \in [Workers -> Walks] /\ Punctual(now, e) /\ e \in Walks /\ now \in Nat
    BY SearchBounds DEF IInv, Typed
  <2>2. e.begun \in Nat /\ e.limit \in Nat /\ e.wake \in Nat
    BY <2>1 DEF Walks
  <2>3. Whole(e) \in Nat /\ Interval \in Nat /\ Whole(e) = Budget(w)
    BY SearchBounds DEF Whole, Budget
  <2> QED BY <2>1, <2>2, <2>3
<1>1. ASSUME NEW pc \in Ended, End(w, pc) PROVE FALSE
  <2>1. walk'[w].pc = pc
    BY <1>0, <1>1 DEF End, Idle
  <2> QED BY <1>1, <2>1 DEF Asks, Ended
<1>2. ASSUME StartSearch(w) \/ FetchPage(w) \/ StartDownload(w) \/ Throttle(w)
                \/ Throttled(w)
      PROVE  FALSE
  <2>1. e.pc # "request"
    BY <1>2 DEF StartSearch, FetchPage, StartDownload, Throttle, Throttled, At
  <2>2. walk'[w].pc # "request"
    <3>1. CASE StartSearch(w)
      BY <1>0, <3>1 DEF StartSearch, Idle
    <3>2. CASE FetchPage(w)
      BY <1>0, <3>2 DEF FetchPage, Walks
    <3>3. CASE StartDownload(w)
      BY <1>0, <3>3 DEF StartDownload, Walks
    <3>4. CASE Throttle(w)
      BY <1>0, <3>4 DEF Throttle, Walks
    <3>5. CASE Throttled(w)
      BY <1>0, <3>5 DEF Throttled, Goto, Walks
    <3> QED BY <1>2, <3>1, <3>2, <3>3, <3>4, <3>5
  <2> QED BY <2>1, <2>2 DEF Asks
<1>3. CASE Retry(w) \/ RedirectFollowed(w) \/ PageArrives(w)
  BY <1>3 DEF Asks, Retry, RedirectFollowed, PageArrives, At
<1>4. CASE Issue(w) \/ IssueUnspaced(w)
  <2>1. e.pc = "throttle" \/ e.pc = "issue"
    BY <1>4 DEF Issue, IssueUnspaced, At
  <2>2. now + e.limit <= end
    <3>1. e.pc = "throttle" => now + e.limit <= e.begun + Whole(e)
      BY <1>0 DEF Punctual
    <3>2. e.pc = "issue" => now + e.limit <= e.begun + Whole(e) + Interval
      BY <1>0 DEF Punctual
    <3> QED BY <1>0, <2>1, <3>1, <3>2
  <2> QED BY <1>0, <2>2
<1>5. CASE AskAgain(w)
  <2>1. now <= e.wake /\ e.wake <= e.limit /\ e.limit <= end
    BY <1>0, <1>5 DEF AskAgain, At, Punctual
  <2> QED BY <1>0, <2>1
<1> QED BY <1>1, <1>2, <1>3, <1>4, <1>5
        DEF Search, PageCapReached, OutOfTime, RequestFails, StillArriving, NotAnExport,
            Refuse, LinkRefused, RedirectRefused, FileUnusable, FileArrives, Ended

\* By itself the client asks nothing more than one interval past the deadline
\* of the search or of the download; redirects are not its own asking.
THEOREM NothingLate == Spec => NothingBeginsLate
<1>1. IInv /\ [Next]_vars =>
        [\A w \in Workers :
            Asks(w) => now <= walk[w].begun + Budget(w) + Interval]_vars
  <2> SUFFICES ASSUME IInv, Next, NEW w \in Workers, Asks(w)
               PROVE  now <= walk[w].begun + Budget(w) + Interval
    OBVIOUS
  <2>1. walk'[w] # walk[w]
    BY DEF Asks
  <2>2. Search(w)
    <3>1. ASSUME NEW v \in Workers, Search(v), v # w PROVE FALSE
      BY <2>1, <3>1, OneWalks DEF IInv
    <3>2. ~Tick /\ ~ForgetTime /\ ~(\E r \in Late : Publish(r))
      BY <2>1 DEF Tick, ForgetTime, Publish
    <3> QED BY <3>1, <3>2 DEF Next
  <2> QED BY <2>2, InTime
<1> QED BY <1>1, SearchInvariant, PTL DEF Spec, NothingBeginsLate

\* Who sends after looking at the cache does so an interval after its own last
\* spaced request, as long as the cache keeps the time.
THEOREM SpacedRequests == Spec => RequestsAreSpaced
<1>1. IInv /\ [Next]_vars =>
        [\A w \in Workers :
            At(w, "issue") /\ walk'[w].pc = "request" /\ sent[w] # Never =>
                now - sent[w] >= Interval]_vars
  BY DEF IInv, Spaced, At
<1> QED BY <1>1, SearchInvariant, PTL DEF Spec, RequestsAreSpaced
=============================================================================
