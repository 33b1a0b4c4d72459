---------------------------- MODULE ScrapeProofs ----------------------------
(***************************************************************************)
(* Proofs about MonthlyScrape and Leaderboard, for any spectra, pages of   *)
(* objects, windows, sizes of a page and number of runs.                   *)
(*                                                                         *)
(* The walk: a row only moves down the listing, by no more than what was   *)
(* published, so that no row ahead of the next page is missed (Collecting) *)
(* and a page that repeats the one before takes a page of new rows.        *)
(* The directory: what the accepted identities say of the files (Distinct  *)
(* and Owned), and what stands in for a candidate's file (Held), hold      *)
(* whatever order candidates come in and wherever a run is killed.         *)
(***************************************************************************)
EXTENDS Leaderboard, FiniteSetTheorems, WellFoundedInduction, NaturalsInduction, TLAPS

(***************************************************************************)
(* The inductive invariant.                                                *)
(***************************************************************************)

Contents == Samples \cup {Unreadable, NoFile, Torn}
Collectors == {"collect", "write", "compare", "stamp"}

Typed ==
    /\ published \subseteq Rows /\ publishedAtStart \subseteq published
    /\ files \in [Rows -> Contents]
    /\ listed \subseteq Rows /\ rows \subseteq Rows /\ taken \subseteq Rows
    /\ run \in 0..MaxRuns /\ stamp \in 0..run /\ listedBy \in 0..run
    /\ pc \in {"off", "search", "index"} \cup Collectors
    /\ window \in Windows /\ overwrite \in BOOLEAN /\ filtered \in BOOLEAN
    /\ page \in 0..MaxPages
    /\ todo \in Seq(Rows) /\ lastPage \subseteq Rows
    /\ owner \in [Samples -> Rows \cup {0}]
    /\ failed \in BOOLEAN /\ misled \in BOOLEAN
    /\ mishaps \subseteq {"killed", "torn", "unreleased", "killed overwriting"}

\* The file in hand: half written, then whole.
Handled ==
    /\ pc = "off" => ~overwrite
    /\ pc = "stamp" => todo = <<>>
    /\ pc \in {"write", "compare"} => todo # <<>> /\ Eligible(Current)
    /\ pc = "write" => files[Current] = Torn
    /\ pc = "compare" => files[Current] = Remote(Current)

New == published \ publishedAtStart

\* The rows of the window that were published at the start and are ahead of the
\* next page have been found, and the page before began where it ends, but for
\* what was published since.
Collecting ==
    /\ \A r \in publishedAtStart :
        InWindow(r) /\ CanBeTaken(r) /\ Place(r) < page * PageSize => r \in ToSet(todo)
    /\ page > 0 =>
        \E q \in Signature(lastPage) :
            q \in Asked /\ Place(q) <= (page - 1) * PageSize + Cardinality(New)

Walked ==
    /\ pc = "search" => Collecting
    /\ SearchIsComplete

\* The files are those of their candidates.
Downloaded ==
    \A r \in Rows : files[r] \in Samples \cup {Unreadable} => files[r] = Remote(r)

\* Samples that can be compared.
Finite == Samples \ Incomparable

\* What a candidate that is done has on disk: its file, a torn one, or another
\* name for its samples, be it in the file in hand.
Held(r) ==
    \/ files[r] = Remote(r) /\ r \in rows
    \/ files[r] = Torn /\ "torn" \in mishaps
    \/ /\ Remote(r) \in Finite
       /\ \/ \E q \in Rows : files[q] = Remote(r)
          \/ pc = "write" /\ Remote(Current) = Remote(r)

Kempt ==
    pc \in Collectors /\ ~failed =>
        \A r \in taken \ ToSet(todo) : Eligible(r) => Held(r)

\* Torn files, and those not listed, are of runs that went wrong.
Accounted ==
    /\ \A r \in Rows : files[r] = Torn => InHand(r) \/ "torn" \in mishaps
    /\ "killed" \notin mishaps =>
        \A r \in Rows : files[r] \in Samples \cup {Unreadable} /\ ~InHand(r) =>
            IF pc \in {"collect", "write", "compare"} THEN r \in rows ELSE r \in listed

\* The rows listed, and those to be listed, have files; who does not overwrite
\* has no listed file in hand.
Filed ==
    "killed overwriting" \notin mishaps =>
        /\ ~overwrite \/ pc \in {"search", "index", "stamp"} =>
            \A r \in listed : files[r] # NoFile
        /\ pc \in Collectors => \A r \in rows : files[r] # NoFile
        /\ ~overwrite /\ pc \in {"write", "compare"} => Current \notin listed

\* No two files that were compared have the same samples.
Distinct ==
    \A r, s \in Rows :
        ~InHand(r) /\ ~InHand(s) /\ r # s /\ files[r] \in Finite => files[r] # files[s]

\* A run knows the file of each set of samples, and none in hand.
Owned ==
    pc \in {"collect", "write", "compare"} =>
        /\ \A r \in Rows : ~InHand(r) /\ files[r] \in Finite => owner[files[r]] = r
        /\ \A s \in Samples :
            owner[s] # 0 => files[owner[s]] = s /\ ~InHand(owner[s])

Named == mishaps \cap {"killed", "unreleased"} = {} => Distinct /\ Owned

\* The stamp is that of the metadata, but between the two writes.
Stamped ==
    /\ pc # "off" => run # 0
    /\ pc = "stamp" => listedBy = run /\ listed = rows
    /\ "killed" \notin mishaps /\ pc # "stamp" => stamp = listedBy

IInv ==
    /\ Typed /\ Handled /\ Walked /\ Downloaded /\ Accounted /\ Kempt
    /\ Filed /\ Named /\ Stamped

\* What scores say of their collection.
Dated ==
    scores \notin {NoScores, Torn} =>
        /\ scores.by # 0
        /\ "killed" \notin mishaps => scores.stamp = scores.by

(***************************************************************************)
(* Lemmas about the operators.                                             *)
(***************************************************************************)

LEMMA NatMin ==
    ASSUME NEW S \in SUBSET Nat, S # {}
    PROVE  \E n \in S : \A m \in S : n <= m
<1>1. PICK n \in S : \A m \in S : ~(<<m, n>> \in OpToRel(<, Nat))
  BY NatLessThanWellFounded, WFMin
<1>2. \A m \in S : ~(m < n)
  BY <1>1 DEF OpToRel
<1> QED BY <1>2

\* What a sequence of rows holds is its first row and what the rest holds.
LEMMA HeadAndTail ==
    ASSUME NEW s \in Seq(Rows), s # <<>>
    PROVE  /\ Head(s) \in Rows /\ Tail(s) \in Seq(Rows)
           /\ ToSet(s) = {Head(s)} \cup ToSet(Tail(s))
<1>1. Head(s) \in Rows /\ Tail(s) \in Seq(Rows)
  OBVIOUS
<1>2. /\ Len(s) \in Nat /\ 1 \in 1..Len(s) /\ Len(Tail(s)) = Len(s) - 1
      /\ DOMAIN s = 1..Len(s) /\ DOMAIN Tail(s) = 1..Len(s) - 1
      /\ \A i \in 1..Len(s) - 1 : Tail(s)[i] = s[i + 1]
      /\ Head(s) = s[1]
  OBVIOUS
<1>3. \A i \in 1..Len(s) : i = 1 \/ (i - 1 \in 1..Len(s) - 1 /\ Tail(s)[i - 1] = s[i])
  BY <1>2
<1>4. \A i \in 1..Len(s) - 1 : i + 1 \in 1..Len(s)
  BY <1>2
<1>5. ASSUME NEW i \in 1..Len(s) PROVE s[i] \in {Head(s)} \cup ToSet(Tail(s))
  BY <1>2, <1>3 DEF ToSet
<1>6. ASSUME NEW i \in 1..Len(s) - 1 PROVE Tail(s)[i] \in ToSet(s)
  BY <1>2, <1>4 DEF ToSet
<1>7. Head(s) \in ToSet(s)
  BY <1>2 DEF ToSet
<1>8. ToSet(s) = {s[i] : i \in 1..Len(s)} /\ ToSet(Tail(s)) = {Tail(s)[i] : i \in 1..Len(s) - 1}
  BY <1>2 DEF ToSet
<1> HIDE DEF ToSet
<1> QED BY <1>1, <1>5, <1>6, <1>7, <1>8

\* What a candidate's link leads to is a file's content.
LEMMA RemoteIsContent ==
    ASSUME NEW r \in Rows, Eligible(r)
    PROVE  Remote(r) \in Samples \cup {Unreadable}
<1>1. LinksOf(r) # {} /\ LinksOf(r) \subseteq ObjectPage[Entry[r].object].links
  BY DEF Eligible, LinksOf, Links
<1>2. PICK l \in ObjectPage[Entry[r].object].links : Remote(r) = l.data
  BY <1>1 DEF Remote
<1>3. ObjectPage[Entry[r].object] \in Range(ObjectPage)
  BY RowsHavePages DEF Range
<1>4. l \in UNION {p.links : p \in Range(ObjectPage)}
  BY <1>3
<1> QED BY <1>2, <1>4 DEF Samples

LEMMA RowNumbers == \A r \in Rows : r \in Nat /\ r # 0 /\ r <= Cardinality(Rows)
  BY RowsAreNumbers

LEMMA FirstHolders ==
    ASSUME NEW s
    PROVE  LET h == FirstHolder(s)
           IN  /\ h \in Rows \cup {0}
               /\ h # 0 => files[h] = s
               /\ \A r \in Rows : files[r] = s => h # 0
<1> DEFINE holders == {r \in Rows : files[r] = s}
<1>1. CASE holders = {}
  BY <1>1 DEF FirstHolder
<1>2. CASE holders # {}
  <2>1. holders \in SUBSET Nat
    BY RowNumbers
  <2>2. \E n \in holders : \A m \in holders : n <= m
    <3> HIDE DEF holders
    <3> QED BY <1>2, <2>1, NatMin
  <2>3. Min(holders) \in holders
    <3> HIDE DEF holders
    <3> QED BY <2>2 DEF Min
  <2>4. FirstHolder(s) = Min(holders)
    BY <1>2 DEF FirstHolder
  <2> QED BY <2>3, <2>4, RowNumbers
<1> QED BY <1>1, <1>2

-----------------------------------------------------------------------------
(* Types, and the file in hand.                                             *)

\* The page's candidates are added, each once, in the order of the listing.
LEMMA Found ==
    ASSUME NEW rs \in SUBSET Rows, NEW s \in InOrder(rs)
    PROVE  s \in Seq(Rows) /\ ToSet(s) = rs
<1>1. IsFiniteSet(rs) /\ Cardinality(rs) \in Nat
  <2>1. IsFiniteSet(Rows)
    BY RowsAreNumbers, FS_Interval
  <2> QED BY <2>1, FS_Subset, FS_CardinalityType
<1> DEFINE n == Cardinality(rs)
<1>2. s \in [1..n -> rs] /\ \A i, j \in 1..n : i < j => Above(s[i], s[j])
  BY DEF InOrder
<1>3. \A i, j \in 1..n : s[i] = s[j] => i = j
  <2> SUFFICES ASSUME NEW i \in 1..n, NEW j \in 1..n, i < j PROVE s[i] # s[j]
    BY <1>1
  <2>1. Above(s[i], s[j]) /\ s[i] \in Rows
    BY <1>2
  <2> QED BY <2>1, ListedNewestFirst DEF Above
<1>4. s \in Injection(1..n, rs)
  BY <1>2, <1>3 DEF Injection, IsInjective
<1>5. IsFiniteSet(1..n) /\ Cardinality(1..n) = n
  BY <1>1, FS_Interval
<1>6. s \in Surjection(1..n, rs)
  BY <1>1, <1>4, <1>5, FS_Injection
<1>7. \A r \in rs : \E i \in 1..n : s[i] = r
  BY <1>6 DEF Surjection
<1>8. ToSet(s) = rs
  BY <1>2, <1>7 DEF ToSet
<1>9. s \in [1..n -> Rows]
  BY <1>2
<1> HIDE DEF n
<1> QED BY <1>1, <1>8, <1>9 DEF n

\* What sequences of rows hold are rows.
LEMMA Members ==
    ASSUME NEW s \in Seq(Rows)
    PROVE  /\ ToSet(s) \subseteq Rows
           /\ \A t \in Seq(Rows) : s \o t \in Seq(Rows) /\ ToSet(s \o t) = ToSet(s) \cup ToSet(t)
<1>1. DOMAIN s = 1..Len(s) /\ Len(s) \in Nat /\ \A i \in 1..Len(s) : s[i] \in Rows
  OBVIOUS
<1>2. ASSUME NEW t \in Seq(Rows)
      PROVE  s \o t \in Seq(Rows) /\ ToSet(s \o t) = ToSet(s) \cup ToSet(t)
  <2>1. /\ s \o t \in Seq(Rows)
        /\ DOMAIN t = 1..Len(t) /\ Len(t) \in Nat
        /\ DOMAIN (s \o t) = 1..Len(s) + Len(t)
        /\ \A i \in 1..Len(s) + Len(t) :
                (s \o t)[i] = IF i <= Len(s) THEN s[i] ELSE t[i - Len(s)]
    OBVIOUS
  <2>2. ASSUME NEW i \in 1..Len(s) + Len(t) PROVE (s \o t)[i] \in ToSet(s) \cup ToSet(t)
    <3>1. i <= Len(s) => i \in 1..Len(s)
      BY <1>1
    <3>2. ~(i <= Len(s)) => i - Len(s) \in 1..Len(t)
      BY <1>1, <2>1
    <3> QED BY <1>1, <2>1, <3>1, <3>2 DEF ToSet
  <2>3. ASSUME NEW i \in 1..Len(s) PROVE s[i] \in ToSet(s \o t)
    <3>1. i \in 1..Len(s) + Len(t) /\ (s \o t)[i] = s[i]
      BY <1>1, <2>1
    <3> QED BY <2>1, <3>1 DEF ToSet
  <2>4. ASSUME NEW i \in 1..Len(t) PROVE t[i] \in ToSet(s \o t)
    <3>1. i + Len(s) \in 1..Len(s) + Len(t) /\ (s \o t)[i + Len(s)] = t[i]
      BY <1>1, <2>1
    <3> QED BY <2>1, <3>1 DEF ToSet
  <2>5. /\ ToSet(s) = {s[i] : i \in 1..Len(s)} /\ ToSet(t) = {t[i] : i \in 1..Len(t)}
        /\ ToSet(s \o t) = {(s \o t)[i] : i \in 1..Len(s) + Len(t)}
    BY <1>1, <2>1 DEF ToSet
  <2>6. ToSet(s \o t) \subseteq ToSet(s) \cup ToSet(t)
    <3> SUFFICES ASSUME NEW x \in ToSet(s \o t) PROVE x \in ToSet(s) \cup ToSet(t)
      OBVIOUS
    <3>1. PICK i \in 1..Len(s) + Len(t) : x = (s \o t)[i]
      BY <2>5, Zenon
    <3> QED BY <2>2, <3>1, Zenon
  <2>7. ToSet(s) \subseteq ToSet(s \o t)
    <3> SUFFICES ASSUME NEW x \in ToSet(s) PROVE x \in ToSet(s \o t)
      OBVIOUS
    <3>1. PICK i \in 1..Len(s) : x = s[i]
      BY <2>5, Zenon
    <3> QED BY <2>3, <3>1, Zenon
  <2>8. ToSet(t) \subseteq ToSet(s \o t)
    <3> SUFFICES ASSUME NEW x \in ToSet(t) PROVE x \in ToSet(s \o t)
      OBVIOUS
    <3>1. PICK i \in 1..Len(t) : x = t[i]
      BY <2>5, Zenon
    <3> QED BY <2>4, <3>1, Zenon
  <2>9. ToSet(s \o t) = ToSet(s) \cup ToSet(t)
    BY <2>6, <2>7, <2>8, Zenon
  <2> QED BY <2>1, <2>9
<1>3. ToSet(s) \subseteq Rows
  BY <1>1 DEF ToSet
<1> QED BY <1>2, <1>3

\* What a page adds.
LEMMA PageTaken ==
    ASSUME todo \in Seq(Rows), published \subseteq Rows, TakePage
    PROVE  /\ SearchPage(page) \subseteq Rows
           /\ todo' \in Seq(Rows)
           /\ ToSet(todo') = ToSet(todo) \cup {r \in SearchPage(page) : Wanted(r)}
<1> DEFINE rs == {r \in SearchPage(page) : Wanted(r)}
<1>1. PICK found \in InOrder(rs) : todo' = todo \o found
  BY DEF TakePage
<1>2. SearchPage(page) \in SUBSET Rows
  BY DEF SearchPage, Asked
<1>3. rs \in SUBSET Rows
  BY <1>2
<1>4. found \in InOrder(rs)
  BY <1>1
<1> HIDE DEF rs
<1>5. found \in Seq(Rows) /\ ToSet(found) = rs
  BY <1>3, <1>4, Found
<1>6. todo' \in Seq(Rows) /\ ToSet(todo') = ToSet(todo) \cup rs
  BY <1>1, <1>5, Members
<1> QED BY <1>2, <1>6 DEF rs

\* What memory is empty of, and a number of a run.
LEMMA Emptied ==
    /\ AnyWindow \in Windows /\ NoOwner \in [Samples -> Rows \cup {0}]
    /\ 0 \in 0..MaxPages /\ 0 \in 0..MaxRuns /\ 0 \in 0..0 /\ <<>> \in Seq(Rows)
    /\ \A n \in 0..MaxRuns :
        /\ n \in 0..n
        /\ n < MaxRuns => n + 1 \in 0..MaxRuns /\ \A k \in 0..n : k \in 0..(n + 1)
<1>1. AnyWindow \in Windows
  BY WindowsAreDays DEF AnyWindow
<1> QED BY <1>1, PositiveSizes DEF NoOwner

LEMMA InitIInv == Init => IInv
<1> SUFFICES ASSUME Init PROVE IInv
  OBVIOUS
<1>1. Typed
  BY Emptied DEF Init, Typed, Contents
<1>2. Handled /\ Walked /\ Downloaded /\ Kempt /\ Filed /\ Stamped
  BY FilesAreTold DEF Init, Handled, Walked, SearchIsComplete, Downloaded, Kempt, Filed,
                      Stamped, Collectors
<1>3. Named /\ Accounted
  BY FilesAreTold DEF Init, Named, Distinct, Owned, Finite, Accounted
<1> QED BY <1>1, <1>2, <1>3 DEF IInv

LEMMA StepTyped == Typed /\ Handled /\ [ScrapeNext]_vars => Typed'
<1> SUFFICES ASSUME Typed, Handled, [ScrapeNext]_vars PROVE Typed'
  OBVIOUS
<1> USE DEF Typed, disk, walk, memory, history, Collectors
<1>1. CASE Start
  BY <1>1, Emptied DEF Start
<1>2. CASE EndOfPages
  BY <1>2, HeadAndTail DEF EndOfPages, AtCandidate, NextCandidate, Current, Contents
<1>3. CASE TakePage
  <2>1. SearchPage(page) \subseteq Rows /\ todo' \in Seq(Rows)
    BY <1>3, PageTaken
  <2>2. page' \in 0..MaxPages
    <3>1. page \in 0..MaxPages /\ page < MaxPages /\ page' = page + 1
      BY <1>3 DEF TakePage, PageLeft
    <3> QED BY ONLY <3>1, PositiveSizes
  <2>3. pc' \in {"index", "search"} /\ lastPage' = SearchPage(page)
    BY <1>3 DEF TakePage
  <2> QED BY <1>3, <2>1, <2>2, <2>3 DEF TakePage
<1>4. CASE MissingColumns
  BY <1>4, Emptied DEF MissingColumns, Exit
<1>5. CASE SearchFails
  BY <1>5, Emptied DEF SearchFails, Exit
<1>6. CASE ReadDirectory
  <2>1. owner' \in [Samples -> Rows \cup {0}]
    BY <1>6, FirstHolders DEF ReadDirectory
  <2>2. taken' \subseteq Rows
    BY <1>6, Members DEF ReadDirectory
  <2> QED BY <1>6, <2>1, <2>2 DEF ReadDirectory
<1>7. CASE Skip
  BY <1>7, HeadAndTail DEF Skip, AtCandidate, NextCandidate, Current, Contents
<1>8. CASE PageFails
  BY <1>8, HeadAndTail DEF PageFails, AtCandidate, NextCandidate, Current, Contents
<1>9. CASE AlreadyThere
  BY <1>9, HeadAndTail DEF AlreadyThere, AtCandidate, NextCandidate, Current, Contents
<1>10. CASE DownloadFails
  <2>1. todo # <<>> /\ Current \in Rows /\ Tail(todo) \in Seq(Rows)
    BY <1>10, HeadAndTail DEF DownloadFails, AtCandidate, Current
  <2>2. owner' \in [Samples -> Rows \cup {0}]
    BY <1>10 DEF DownloadFails, ReleasedOwner
  <2> QED BY <1>10, <2>1, <2>2 DEF DownloadFails, NextCandidate
<1>11. CASE BeginWrite
  <2>1. todo # <<>> /\ Current \in Rows /\ Tail(todo) \in Seq(Rows)
    BY <1>11, HeadAndTail DEF BeginWrite, AtCandidate, Current
  <2>2. owner' \in [Samples -> Rows \cup {0}]
    BY <1>11 DEF BeginWrite, ReleasedOwner
  <2> QED BY <1>11, <2>1, <2>2 DEF BeginWrite, Contents
<1>12. CASE WriteFails
  <2>1. Current \in Rows /\ Tail(todo) \in Seq(Rows) /\ Eligible(Current)
    BY <1>12, HeadAndTail DEF WriteFails, Handled, Current
  <2> QED BY <1>12, <2>1 DEF WriteFails, NextCandidate
<1>13. CASE EndWrite
  <2>1. Current \in Rows /\ Tail(todo) \in Seq(Rows) /\ Eligible(Current)
    BY <1>13, HeadAndTail DEF EndWrite, Handled, Current
  <2>2. Remote(Current) \in Contents
    BY <2>1, RemoteIsContent DEF Contents
  <2> QED BY <1>13, <2>1, <2>2 DEF EndWrite
<1>14. CASE DropCopy
  <2>1. Current \in Rows /\ Tail(todo) \in Seq(Rows) /\ Eligible(Current)
    BY <1>14, HeadAndTail DEF DropCopy, Handled, Current
  <2> QED BY <1>14, <2>1 DEF DropCopy, NextCandidate, Contents
<1>15. CASE Keep
  <2>1. Current \in Rows /\ Tail(todo) \in Seq(Rows) /\ Eligible(Current)
    BY <1>15, HeadAndTail DEF Keep, Handled, Current
  <2>2. owner' \in [Samples -> Rows \cup {0}]
    BY <1>15, <2>1 DEF Keep
  <2> QED BY <1>15, <2>1, <2>2 DEF Keep, NextCandidate
<1>16. CASE WriteMetadata
  BY <1>16, Emptied DEF WriteMetadata
<1>17. CASE WriteSnapshot
  BY <1>17, Emptied DEF WriteSnapshot, Exit
<1>18. CASE Killed
  BY <1>18, Emptied DEF Killed, Exit
<1>19. ASSUME NEW late \in Late, Publish(late) PROVE Typed'
  BY <1>19, RowsAreNumbers DEF Publish
<1>20. CASE UNCHANGED vars
  BY <1>20 DEF vars
<1>21. CASE TablelessPage
  BY <1>21 DEF TablelessPage
<1> QED BY <1>1, <1>2, <1>3, <1>4, <1>5, <1>6, <1>7, <1>8, <1>9, <1>10,
           <1>11, <1>12, <1>13, <1>14, <1>15, <1>16, <1>17, <1>18, <1>19, <1>20, <1>21 DEF ScrapeNext, Search, Collect

LEMMA StepHandled == Typed /\ Handled /\ [ScrapeNext]_vars => Handled'
<1> SUFFICES ASSUME Typed, Handled, [ScrapeNext]_vars PROVE Handled'
  OBVIOUS
<1> USE DEF Typed, Handled, Current, disk, walk, memory, history
<1>1. CASE Start
  BY <1>1 DEF Start, Exit, AtCandidate, NextCandidate
<1>2. CASE EndOfPages
  BY <1>2 DEF EndOfPages, Exit, AtCandidate, NextCandidate
<1>3. CASE TakePage
  BY <1>3 DEF TakePage, Exit, AtCandidate, NextCandidate
<1>4. CASE MissingColumns
  BY <1>4 DEF MissingColumns, Exit, AtCandidate, NextCandidate
<1>5. CASE SearchFails
  BY <1>5 DEF SearchFails, Exit, AtCandidate, NextCandidate
<1>6. CASE ReadDirectory
  BY <1>6 DEF ReadDirectory, Exit, AtCandidate, NextCandidate
<1>7. CASE Skip
  BY <1>7 DEF Skip, Exit, AtCandidate, NextCandidate
<1>8. CASE PageFails
  BY <1>8 DEF PageFails, Exit, AtCandidate, NextCandidate
<1>9. CASE AlreadyThere
  BY <1>9 DEF AlreadyThere, Exit, AtCandidate, NextCandidate
<1>10. CASE DownloadFails
  BY <1>10 DEF DownloadFails, Exit, AtCandidate, NextCandidate
<1>11. CASE BeginWrite
  <2>1. Head(todo) \in Rows
    BY <1>11, HeadAndTail DEF BeginWrite, AtCandidate
  <2> QED BY <1>11, <2>1 DEF BeginWrite, AtCandidate
<1>12. CASE WriteFails
  BY <1>12 DEF WriteFails, Exit, AtCandidate, NextCandidate
<1>13. CASE EndWrite
  <2>1. Head(todo) \in Rows
    BY <1>13, HeadAndTail DEF EndWrite
  <2> QED BY <1>13, <2>1 DEF EndWrite
<1>14. CASE DropCopy
  BY <1>14 DEF DropCopy, Exit, AtCandidate, NextCandidate
<1>15. CASE Keep
  BY <1>15 DEF Keep, Exit, AtCandidate, NextCandidate
<1>16. CASE WriteMetadata
  BY <1>16 DEF WriteMetadata, Exit, AtCandidate, NextCandidate
<1>17. CASE WriteSnapshot
  BY <1>17 DEF WriteSnapshot, Exit, AtCandidate, NextCandidate
<1>18. CASE Killed
  BY <1>18 DEF Killed, Exit, AtCandidate, NextCandidate
<1>19. ASSUME NEW late \in Late, Publish(late) PROVE Handled'
  BY <1>19 DEF Publish, Exit, AtCandidate, NextCandidate
<1>20. CASE UNCHANGED vars
  BY <1>20 DEF vars
<1>21. CASE TablelessPage
  BY <1>21 DEF TablelessPage
<1> QED BY <1>1, <1>2, <1>3, <1>4, <1>5, <1>6, <1>7, <1>8, <1>9, <1>10,
           <1>11, <1>12, <1>13, <1>14, <1>15, <1>16, <1>17, <1>18, <1>19, <1>20, <1>21 DEF ScrapeNext, Search, Collect
-----------------------------------------------------------------------------
(* The directory.                                                           *)

\* Only writing a file and dropping a copy change the directory.
LEMMA FilesChange ==
    [ScrapeNext]_vars => UNCHANGED files \/ BeginWrite \/ EndWrite \/ DropCopy
<1> SUFFICES ASSUME [ScrapeNext]_vars
             PROVE  UNCHANGED files \/ BeginWrite \/ EndWrite \/ DropCopy
  OBVIOUS
<1> USE DEF disk
<1>1. CASE Start
  BY <1>1 DEF Start
<1>2. CASE EndOfPages
  BY <1>2 DEF EndOfPages
<1>3. CASE TakePage
  BY <1>3 DEF TakePage
<1>4. CASE MissingColumns
  BY <1>4 DEF MissingColumns
<1>5. CASE SearchFails
  BY <1>5 DEF SearchFails
<1>6. CASE ReadDirectory
  BY <1>6 DEF ReadDirectory
<1>7. CASE Skip
  BY <1>7 DEF Skip
<1>8. CASE PageFails
  BY <1>8 DEF PageFails
<1>9. CASE AlreadyThere
  BY <1>9 DEF AlreadyThere
<1>10. CASE DownloadFails
  BY <1>10 DEF DownloadFails
<1>11. CASE BeginWrite
  BY <1>11 DEF BeginWrite
<1>12. CASE WriteFails
  BY <1>12 DEF WriteFails
<1>13. CASE EndWrite
  BY <1>13 DEF EndWrite
<1>14. CASE DropCopy
  BY <1>14 DEF DropCopy
<1>15. CASE Keep
  BY <1>15 DEF Keep
<1>16. CASE WriteMetadata
  BY <1>16 DEF WriteMetadata
<1>17. CASE WriteSnapshot
  BY <1>17 DEF WriteSnapshot
<1>18. CASE Killed
  BY <1>18 DEF Killed
<1>19. ASSUME NEW late \in Late, Publish(late) PROVE UNCHANGED files
  BY <1>19 DEF Publish
<1>20. CASE UNCHANGED vars
  BY <1>20 DEF vars
<1>21. CASE TablelessPage
  BY <1>21 DEF TablelessPage
<1> QED BY <1>1, <1>2, <1>3, <1>4, <1>5, <1>6, <1>7, <1>8, <1>9, <1>10,
           <1>11, <1>12, <1>13, <1>14, <1>15, <1>16, <1>17, <1>18, <1>19, <1>20, <1>21 DEF ScrapeNext, Search, Collect

\* The file in hand is a candidate's.
LEMMA HandIsFull ==
    ASSUME Typed, Handled, pc \in {"write", "compare"} \/ AtCandidate
    PROVE  /\ Current \in Rows /\ Tail(todo) \in Seq(Rows)
           /\ ToSet(todo) = {Current} \cup ToSet(Tail(todo))
           /\ Eligible(Current) => Remote(Current) \in Samples \cup {Unreadable}
<1>1. todo \in Seq(Rows) /\ todo # <<>>
  BY DEF Typed, Handled, AtCandidate
<1> QED BY <1>1, HeadAndTail, RemoteIsContent DEF Current

LEMMA StepDownloaded ==
    Typed /\ Handled /\ Downloaded /\ [ScrapeNext]_vars => Downloaded'
<1> SUFFICES ASSUME Typed, Handled, Downloaded, [ScrapeNext]_vars, NEW r \in Rows,
                    files'[r] \in Samples \cup {Unreadable}
             PROVE  files'[r] = Remote(r)
  BY DEF Downloaded
<1>1. files \in [Rows -> Contents]
  BY DEF Typed
<1>2. CASE UNCHANGED files
  BY <1>2 DEF Downloaded
<1>3. CASE BeginWrite
  BY <1>1, <1>3, FilesAreTold DEF BeginWrite, Downloaded
<1>4. CASE EndWrite
  BY <1>1, <1>4 DEF EndWrite, Downloaded
<1>5. CASE DropCopy
  BY <1>1, <1>5, FilesAreTold DEF DropCopy, Downloaded
<1> QED BY <1>2, <1>3, <1>4, <1>5, FilesChange

\* What went wrong is not forgotten.
LEMMA MishapsStay == [ScrapeNext]_vars => mishaps \subseteq mishaps'
<1> SUFFICES ASSUME [ScrapeNext]_vars PROVE mishaps \subseteq mishaps'
  OBVIOUS
<1> USE DEF history
<1>1. CASE Start
  BY <1>1 DEF Start
<1>2. CASE EndOfPages
  BY <1>2 DEF EndOfPages
<1>3. CASE TakePage
  BY <1>3 DEF TakePage
<1>4. CASE MissingColumns
  BY <1>4 DEF MissingColumns
<1>5. CASE SearchFails
  BY <1>5 DEF SearchFails
<1>6. CASE ReadDirectory
  BY <1>6 DEF ReadDirectory
<1>7. CASE Skip
  BY <1>7 DEF Skip
<1>8. CASE PageFails
  BY <1>8 DEF PageFails
<1>9. CASE AlreadyThere
  BY <1>9 DEF AlreadyThere
<1>10. CASE DownloadFails
  BY <1>10 DEF DownloadFails
<1>11. CASE BeginWrite
  BY <1>11 DEF BeginWrite
<1>12. CASE WriteFails
  BY <1>12 DEF WriteFails
<1>13. CASE EndWrite
  BY <1>13 DEF EndWrite
<1>14. CASE DropCopy
  BY <1>14 DEF DropCopy
<1>15. CASE Keep
  BY <1>15 DEF Keep
<1>16. CASE WriteMetadata
  BY <1>16 DEF WriteMetadata
<1>17. CASE WriteSnapshot
  BY <1>17 DEF WriteSnapshot
<1>18. CASE Killed
  BY <1>18 DEF Killed
<1>19. ASSUME NEW late \in Late, Publish(late) PROVE mishaps \subseteq mishaps'
  BY <1>19 DEF Publish
<1>20. CASE UNCHANGED vars
  BY <1>20 DEF vars
<1>21. CASE TablelessPage
  BY <1>21 DEF TablelessPage
<1> QED BY <1>1, <1>2, <1>3, <1>4, <1>5, <1>6, <1>7, <1>8, <1>9, <1>10,
           <1>11, <1>12, <1>13, <1>14, <1>15, <1>16, <1>17, <1>18, <1>19, <1>20, <1>21 DEF ScrapeNext, Search, Collect

\* What is torn, and what is not listed, is accounted for.
LEMMA StepAccounted ==
    Typed /\ Handled /\ Accounted /\ [ScrapeNext]_vars => Accounted'
<1> SUFFICES ASSUME Typed, Handled, Accounted, [ScrapeNext]_vars PROVE Accounted'
  OBVIOUS
<1>a. files \in [Rows -> Contents] /\ mishaps \subseteq mishaps'
  BY MishapsStay DEF Typed
\* Where nothing is in hand, and nothing comes to hand.
<1>b. ASSUME UNCHANGED <<files, listed>>, pc \notin {"write", "compare"},
             pc' \notin {"write", "compare"}, pc' = "collect" => pc = "collect",
             pc = "collect" => pc' = "collect" /\ rows \subseteq rows'
      PROVE  Accounted'
  BY <1>a, <1>b DEF Accounted, InHand
<1> USE DEF disk, walk, memory, history
<1>1. CASE Start
  BY <1>1, <1>b DEF Start
<1>2. CASE EndOfPages
  BY <1>2, <1>b DEF EndOfPages
<1>3. CASE TakePage
  BY <1>3, <1>b DEF TakePage
<1>4. CASE MissingColumns
  BY <1>4, <1>b DEF MissingColumns, Exit
<1>5. CASE SearchFails
  BY <1>5, <1>b DEF SearchFails, Exit
<1>6. CASE ReadDirectory
  BY <1>6 DEF ReadDirectory, Accounted, InHand
<1>7. CASE Skip
  BY <1>7, <1>b DEF Skip, AtCandidate, NextCandidate
<1>8. CASE PageFails
  BY <1>8, <1>b DEF PageFails, AtCandidate, NextCandidate
<1>9. CASE AlreadyThere
  BY <1>9, <1>b DEF AlreadyThere, AtCandidate, NextCandidate
<1>10. CASE DownloadFails
  BY <1>10, <1>b DEF DownloadFails, AtCandidate, NextCandidate
<1>11. CASE BeginWrite
  <2>1. Current \in Rows
    BY <1>11, HandIsFull DEF BeginWrite
  <2>2. /\ pc = "collect" /\ pc' = "write" /\ Current' = Current
        /\ UNCHANGED <<rows, mishaps>>
        /\ \A q \in Rows : files'[q] = IF q = Current THEN Torn ELSE files[q]
    BY <1>11, <1>a, <2>1 DEF BeginWrite, AtCandidate, Current
  <2> QED BY <2>2 DEF Accounted, InHand
<1>12. CASE WriteFails
  <2>1. /\ pc = "write" /\ pc' = "collect" /\ UNCHANGED <<files, rows>>
        /\ files[Current] = Torn
        /\ "torn" \in mishaps' /\ ("killed" \in mishaps => "killed" \in mishaps')
    BY <1>12 DEF WriteFails, NextCandidate, Handled
  <2> QED BY <2>1, FilesAreTold DEF Accounted, InHand
<1>13. CASE EndWrite
  <2>1. Current \in Rows
    BY <1>13, HandIsFull DEF EndWrite
  <2>2. /\ pc = "write" /\ pc' = "compare" /\ Current' = Current
        /\ UNCHANGED <<rows, mishaps>>
        /\ \A q \in Rows : q # Current => files'[q] = files[q]
    BY <1>13, <1>a, <2>1 DEF EndWrite, Current
  <2> QED BY <2>2 DEF Accounted, InHand
<1>14. CASE DropCopy
  <2>1. Current \in Rows
    BY <1>14, HandIsFull DEF DropCopy
  <2>2. /\ pc = "compare" /\ pc' = "collect" /\ mishaps' = mishaps
        /\ rows' = rows \ {Current}
        /\ \A q \in Rows : files'[q] = IF q = Current THEN NoFile ELSE files[q]
    BY <1>14, <1>a, <2>1 DEF DropCopy, NextCandidate
  <2> QED BY <2>2, FilesAreTold DEF Accounted, InHand
<1>15. CASE Keep
  <2>1. files[Current] # Torn
    BY <1>15, FilesAreTold, HandIsFull DEF Keep, Handled
  <2>2. /\ pc = "compare" /\ pc' = "collect" /\ UNCHANGED <<files, mishaps>>
        /\ rows' = rows \cup {Current}
    BY <1>15 DEF Keep, NextCandidate
  <2> QED BY <2>1, <2>2 DEF Accounted, InHand
<1>16. CASE WriteMetadata
  BY <1>16 DEF WriteMetadata, Accounted, InHand
<1>17. CASE WriteSnapshot
  BY <1>17, <1>b DEF WriteSnapshot, Exit
<1>18. CASE Killed
  <2>1. pc = "compare" => files[Current] # Torn
    BY FilesAreTold, HandIsFull DEF Handled
  <2>2. /\ pc' = "off" /\ files' = files
        /\ "killed" \in mishaps' /\ (pc = "write" => "torn" \in mishaps')
    BY <1>18 DEF Killed, Exit
  <2> QED BY <1>a, <2>1, <2>2 DEF Accounted, InHand
<1>19. ASSUME NEW late \in Late, Publish(late) PROVE Accounted'
  BY <1>19, <1>b DEF Publish
<1>20. CASE UNCHANGED vars
  BY <1>20 DEF vars, Accounted, InHand, Current
<1>21. CASE TablelessPage
  BY <1>21, <1>b DEF TablelessPage
<1> QED BY <1>1, <1>2, <1>3, <1>4, <1>5, <1>6, <1>7, <1>8, <1>9, <1>10,
           <1>11, <1>12, <1>13, <1>14, <1>15, <1>16, <1>17, <1>18, <1>19, <1>20, <1>21 DEF ScrapeNext, Search, Collect

LEMMA StepKempt ==
    Typed /\ Handled /\ Downloaded /\ Accounted /\ Kempt /\ [ScrapeNext]_vars => Kempt'
<1> SUFFICES ASSUME Typed, Handled, Downloaded, Accounted, Kempt, [ScrapeNext]_vars,
                    pc' \in Collectors, ~failed',
                    NEW r \in taken' \ ToSet(todo'), Eligible(r)
             PROVE  Held(r)'
  BY DEF Kempt
<1>a. files \in [Rows -> Contents] /\ taken \subseteq Rows /\ todo \in Seq(Rows) /\ failed \in BOOLEAN
  BY DEF Typed
<1>b. r \in taken \ ToSet(todo) /\ pc \in Collectors /\ ~failed => r \in Rows /\ Held(r)
  BY <1>a DEF Kempt
\* Where nothing of it is taken away.
<1>c. ASSUME Held(r), pc # "write", rows \subseteq rows', UNCHANGED files
      PROVE  Held(r)'
  <2>1. mishaps \subseteq mishaps'
    BY MishapsStay
  <2> QED BY <1>c, <2>1 DEF Held
<1> USE DEF disk, walk, memory, history, Collectors
<1>1. CASE Start
  BY <1>1 DEF Start
<1>2. CASE EndOfPages
  BY <1>2 DEF EndOfPages
<1>3. CASE TakePage
  BY <1>3 DEF TakePage
<1>4. CASE MissingColumns
  BY <1>4 DEF MissingColumns, Exit
<1>5. CASE SearchFails
  BY <1>5 DEF SearchFails, Exit
<1>6. CASE ReadDirectory
  BY <1>6 DEF ReadDirectory
<1>7. CASE Skip
  <2>1. ToSet(todo) = {Current} \cup ToSet(Tail(todo))
    BY <1>7, HandIsFull DEF Skip
  <2>2. r # Current /\ todo' = Tail(todo) /\ pc = "collect"
    BY <1>7 DEF Skip, AtCandidate, NextCandidate
  <2>3. Held(r)
    BY <1>7, <1>b, <2>1, <2>2 DEF Skip
  <2> QED BY <1>7, <1>c, <2>2, <2>3 DEF Skip
<1>8. CASE PageFails
  BY <1>8 DEF PageFails
<1>9. CASE AlreadyThere
  <2>1. ToSet(todo) = {Current} \cup ToSet(Tail(todo)) /\ Current \in Rows
    BY <1>9, HandIsFull DEF AlreadyThere
  <2>2. /\ todo' = Tail(todo) /\ pc = "collect" /\ files[Current] # NoFile
        /\ rows' = rows \cup {Current} /\ UNCHANGED <<files, mishaps>>
    BY <1>9 DEF AlreadyThere, AtCandidate, NextCandidate, MustDownload
  <2>3. CASE r # Current
    BY <1>9, <1>b, <1>c, <2>1, <2>2, <2>3 DEF AlreadyThere
  <2>4. CASE r = Current
    <3>1. files[Current] = Torn \/ files[Current] \in Samples \cup {Unreadable}
      BY <1>a, <2>1, <2>2 DEF Contents
    <3>2. files[Current] = Torn => "torn" \in mishaps
      BY <2>1, <2>2 DEF Accounted, InHand
    <3>3. files[Current] = Torn \/ files[Current] = Remote(Current)
      BY <2>1, <3>1 DEF Downloaded
    <3> QED BY <2>2, <2>4, <3>2, <3>3 DEF Held
  <2> QED BY <2>3, <2>4
<1>10. CASE DownloadFails
  BY <1>10 DEF DownloadFails
<1>11. CASE BeginWrite
  <2>1. /\ Current \in Rows /\ ToSet(todo) = {Current} \cup ToSet(Tail(todo))
        /\ Remote(Current) \in Samples \cup {Unreadable}
    BY <1>11, HandIsFull DEF BeginWrite, Handled
  <2>2. r \in Rows /\ Held(r) /\ pc = "collect" /\ r # Current /\ Current' = Current
    BY <1>11, <1>b, <2>1 DEF BeginWrite, AtCandidate, Current
  <2>3. /\ pc' = "write" /\ UNCHANGED <<rows, mishaps>>
        /\ \A q \in Rows : q # Current => files'[q] = files[q]
    BY <1>11, <1>a DEF BeginWrite
  <2>4. CASE (files[r] = Remote(r) /\ r \in rows) \/ (files[r] = Torn /\ "torn" \in mishaps)
    BY <2>2, <2>3, <2>4 DEF Held
  <2>5. ASSUME Remote(r) \in Finite, NEW q \in Rows, files[q] = Remote(r) PROVE Held(r)'
    <3>1. CASE q = Current
      <4>1. Remote(Current) = Remote(r)
        BY <2>5, <3>1 DEF Downloaded, Finite
      <4> QED BY <2>2, <2>3, <2>5, <4>1 DEF Held
    <3>2. CASE q # Current
      BY <2>3, <2>5, <3>2 DEF Held
    <3> QED BY <3>1, <3>2
  <2>6. \/ files[r] = Remote(r) /\ r \in rows
        \/ files[r] = Torn /\ "torn" \in mishaps
        \/ Remote(r) \in Finite /\ \E q \in Rows : files[q] = Remote(r)
    BY <2>2 DEF Held
  <2> QED BY <2>4, <2>5, <2>6
<1>12. CASE WriteFails
  BY <1>12 DEF WriteFails
<1>13. CASE EndWrite
  <2>1. /\ Current \in Rows /\ ToSet(todo) = {Current} \cup ToSet(Tail(todo))
        /\ Remote(Current) \in Samples \cup {Unreadable}
    BY <1>13, HandIsFull DEF EndWrite, Handled
  <2>2. /\ r \in Rows /\ Held(r) /\ pc = "write" /\ files[Current] = Torn
        /\ pc' = "compare" /\ r # Current /\ UNCHANGED <<rows, mishaps>>
        /\ \A q \in Rows : files'[q] = IF q = Current THEN Remote(Current) ELSE files[q]
    BY <1>13, <1>a, <1>b, <2>1 DEF EndWrite, Handled
  <2>3. CASE (files[r] = Remote(r) /\ r \in rows) \/ (files[r] = Torn /\ "torn" \in mishaps)
    BY <2>2, <2>3 DEF Held
  <2>4. CASE Remote(r) \in Finite /\ Remote(Current) = Remote(r)
    BY <2>1, <2>2, <2>4 DEF Held
  <2>5. ASSUME Remote(r) \in Finite, NEW q \in Rows, files[q] = Remote(r) PROVE Held(r)'
    <3>1. q # Current
      BY <2>2, <2>5, FilesAreTold DEF Finite
    <3> QED BY <2>2, <2>5, <3>1 DEF Held
  <2> QED BY <2>2, <2>3, <2>4, <2>5 DEF Held
<1>14. CASE DropCopy
  <2>1. /\ Current \in Rows /\ ToSet(todo) = {Current} \cup ToSet(Tail(todo))
        /\ Remote(Current) \in Samples \cup {Unreadable}
    BY <1>14, HandIsFull DEF DropCopy, Handled
  <2> DEFINE other == owner[files[Current]]
  <2>2. /\ pc = "compare" /\ todo' = Tail(todo) /\ files[Current] = Remote(Current)
        /\ files[Current] \in Finite
        /\ other \in Rows /\ other # Current /\ files[other] = files[Current]
        /\ \A q \in Rows : files'[q] = IF q = Current THEN NoFile ELSE files[q]
        /\ rows' = rows \ {Current} /\ mishaps' = mishaps
    BY <1>14, <1>a, <2>1 DEF DropCopy, Handled, NextCandidate, IsCopy, Typed, Finite
  <2> HIDE DEF other
  <2>3. files'[other] = Remote(Current)
    BY <2>2
  <2>4. CASE r = Current
    BY <2>2, <2>3, <2>4 DEF Held
  <2>5. CASE r # Current
    <3>1. r \in Rows /\ Held(r)
      BY <1>14, <1>b, <2>1, <2>2, <2>5 DEF DropCopy
    <3>2. CASE (files[r] = Remote(r) /\ r \in rows) \/ (files[r] = Torn /\ "torn" \in mishaps)
      BY <2>2, <2>5, <3>1, <3>2 DEF Held
    <3>3. ASSUME Remote(r) \in Finite, NEW q \in Rows, files[q] = Remote(r) PROVE Held(r)'
      <4>1. CASE q = Current
        BY <2>2, <2>3, <3>3, <4>1 DEF Held
      <4>2. CASE q # Current
        BY <2>2, <3>3, <4>2 DEF Held
      <4> QED BY <4>1, <4>2
    <3> QED BY <2>2, <3>1, <3>2, <3>3 DEF Held
  <2> QED BY <2>4, <2>5
<1>15. CASE Keep
  <2>1. /\ Current \in Rows /\ ToSet(todo) = {Current} \cup ToSet(Tail(todo))
        /\ Remote(Current) \in Samples \cup {Unreadable}
    BY <1>15, HandIsFull DEF Keep, Handled
  <2>2. /\ pc = "compare" /\ todo' = Tail(todo) /\ files[Current] = Remote(Current)
        /\ files' = files /\ rows' = rows \cup {Current}
    BY <1>15 DEF Keep, Handled, NextCandidate
  <2>3. CASE r = Current
    BY <2>1, <2>2, <2>3 DEF Held
  <2>4. CASE r # Current
    BY <1>15, <1>b, <1>c, <2>1, <2>2, <2>4 DEF Keep
  <2> QED BY <2>3, <2>4
<1>16. CASE WriteMetadata
  <2>1. Held(r) /\ pc = "collect"
    BY <1>16, <1>b DEF WriteMetadata
  <2> QED BY <1>16, <1>c, <2>1 DEF WriteMetadata
<1>17. CASE WriteSnapshot
  BY <1>17 DEF WriteSnapshot, Exit
<1>18. CASE Killed
  BY <1>18 DEF Killed, Exit
<1>19. ASSUME NEW late \in Late, Publish(late) PROVE Held(r)'
  BY <1>19 DEF Publish
<1>20. CASE UNCHANGED vars
  <2>1. Held(r)
    BY <1>20, <1>b DEF vars
  <2> QED BY <1>20, <2>1 DEF vars, Held, Current
<1>21. CASE TablelessPage
  BY <1>21 DEF TablelessPage
<1> QED BY <1>1, <1>2, <1>3, <1>4, <1>5, <1>6, <1>7, <1>8, <1>9, <1>10,
           <1>11, <1>12, <1>13, <1>14, <1>15, <1>16, <1>17, <1>18, <1>19, <1>20, <1>21 DEF ScrapeNext, Search, Collect

LEMMA StepFiled ==
    Typed /\ Handled /\ Filed /\ [ScrapeNext]_vars => Filed'
<1> SUFFICES ASSUME Typed, Handled, Filed, [ScrapeNext]_vars,
                    "killed overwriting" \notin mishaps'
             PROVE  Filed'
  BY DEF Filed
<1>a. /\ files \in [Rows -> Contents] /\ listed \subseteq Rows /\ rows \subseteq Rows
      /\ overwrite \in BOOLEAN /\ todo \in Seq(Rows)
      /\ pc \in {"off", "search", "index"} \cup Collectors
  BY DEF Typed
<1>b. /\ ~overwrite \/ pc \in {"search", "index", "stamp"} =>
            \A r \in listed : files[r] # NoFile
      /\ pc \in Collectors => \A r \in rows : files[r] # NoFile
      /\ ~overwrite /\ pc \in {"write", "compare"} => Current \notin listed
  BY MishapsStay DEF Filed
<1> USE DEF disk, walk, memory, history, Collectors
<1>1. CASE Start
  BY <1>1, <1>a, <1>b DEF Start, Filed, Handled
<1>2. CASE EndOfPages
  BY <1>2, <1>a, <1>b DEF EndOfPages, Filed, AtCandidate, NextCandidate
<1>3. CASE TakePage
  BY <1>3, <1>a, <1>b DEF TakePage, Filed, AtCandidate, NextCandidate
<1>4. CASE MissingColumns
  BY <1>4, <1>a, <1>b DEF MissingColumns, Exit, Filed
<1>5. CASE SearchFails
  BY <1>5, <1>a, <1>b DEF SearchFails, Exit, Filed
<1>6. CASE ReadDirectory
  BY <1>6, <1>a, <1>b DEF ReadDirectory, Filed, AtCandidate, NextCandidate
<1>7. CASE Skip
  BY <1>7, <1>a, <1>b DEF Skip, Filed, AtCandidate, NextCandidate
<1>8. CASE PageFails
  BY <1>8, <1>a, <1>b DEF PageFails, Filed, AtCandidate, NextCandidate
<1>9. CASE AlreadyThere
  <2>1. files[Current] # NoFile /\ files' = files
    BY <1>9 DEF AlreadyThere, MustDownload
  <2> QED BY <1>9, <1>a, <1>b, <2>1 DEF AlreadyThere, Filed, AtCandidate, NextCandidate
<1>10. CASE DownloadFails
  BY <1>10, <1>a, <1>b DEF DownloadFails, Filed, AtCandidate, NextCandidate
<1>11. CASE BeginWrite
  <2>1. Current \in Rows
    BY <1>11, HandIsFull DEF BeginWrite
  <2>2. /\ \A q \in Rows : files'[q] = IF q = Current THEN Torn ELSE files[q]
        /\ pc = "collect" /\ pc' = "write" /\ Current' = Current
        /\ UNCHANGED <<overwrite, listed, rows>>
    BY <1>11, <1>a, <2>1 DEF BeginWrite, AtCandidate, Current
  <2>3. \A q \in Rows : files[q] # NoFile => files'[q] # NoFile
    BY <2>2, FilesAreTold
  <2>4. ~overwrite => Current \notin listed
    BY <1>11, <1>b DEF BeginWrite, MustDownload
  <2> QED BY <1>a, <1>b, <2>2, <2>3, <2>4 DEF Filed
<1>12. CASE WriteFails
  BY <1>12, <1>a, <1>b DEF WriteFails, Filed, AtCandidate, NextCandidate
<1>13. CASE EndWrite
  <2>1. Current \in Rows
    BY <1>13, HandIsFull DEF EndWrite
  <2>2. /\ \A q \in Rows : files'[q] = IF q = Current THEN Remote(Current) ELSE files[q]
        /\ pc = "write" /\ pc' = "compare" /\ Current' = Current
        /\ UNCHANGED <<overwrite, listed, rows>>
    BY <1>13, <1>a, <2>1 DEF EndWrite, Current
  <2>3. Remote(Current) # NoFile
    BY <1>13, FilesAreTold, HandIsFull DEF EndWrite, Handled
  <2> QED BY <1>a, <1>b, <2>2, <2>3 DEF Filed
<1>14. CASE DropCopy
  <2>1. Current \in Rows
    BY <1>14, HandIsFull DEF DropCopy
  <2>2. /\ \A q \in Rows : files'[q] = IF q = Current THEN NoFile ELSE files[q]
        /\ pc = "compare" /\ pc' = "collect" /\ rows' = rows \ {Current}
        /\ UNCHANGED <<overwrite, listed>>
    BY <1>14, <1>a, <2>1 DEF DropCopy, NextCandidate
  <2> QED BY <1>a, <1>b, <2>2 DEF Filed
<1>15. CASE Keep
  <2>1. files[Current] # NoFile
    BY <1>15, FilesAreTold, HandIsFull DEF Keep, Handled
  <2>2. /\ pc = "compare" /\ pc' = "collect" /\ rows' = rows \cup {Current}
        /\ UNCHANGED <<overwrite, listed, files>>
    BY <1>15 DEF Keep, NextCandidate
  <2> QED BY <1>a, <1>b, <2>1, <2>2 DEF Filed
<1>16. CASE WriteMetadata
  BY <1>16, <1>a, <1>b DEF WriteMetadata, Filed, AtCandidate, NextCandidate
<1>17. CASE WriteSnapshot
  BY <1>17, <1>a, <1>b DEF WriteSnapshot, Exit, Filed
<1>18. CASE Killed
  <2>1. ~overwrite
    BY <1>18, <1>a DEF Killed
  <2> QED BY <1>18, <2>1, <1>b DEF Killed, Exit, Filed
<1>19. ASSUME NEW late \in Late, Publish(late) PROVE Filed'
  BY <1>19, <1>a, <1>b DEF Publish, Filed, AtCandidate, NextCandidate
<1>20. CASE UNCHANGED vars
  BY <1>20, <1>b DEF vars, Filed, Current
<1>21. CASE TablelessPage
  BY <1>21, <1>a, <1>b DEF TablelessPage, Filed
<1> QED BY <1>1, <1>2, <1>3, <1>4, <1>5, <1>6, <1>7, <1>8, <1>9, <1>10,
           <1>11, <1>12, <1>13, <1>14, <1>15, <1>16, <1>17, <1>18, <1>19, <1>20, <1>21 DEF ScrapeNext, Search, Collect

LEMMA StepNamed ==
    Typed /\ Handled /\ Named /\ [ScrapeNext]_vars => Named'
<1> SUFFICES ASSUME Typed, Handled, Named, [ScrapeNext]_vars,
                    mishaps' \cap {"killed", "unreleased"} = {}
             PROVE  Distinct' /\ Owned'
  BY DEF Named
<1>a. /\ files \in [Rows -> Contents] /\ owner \in [Samples -> Rows \cup {0}]
      /\ NoFile \notin Samples /\ Torn \notin Samples
      /\ "killed" \notin mishaps' /\ "unreleased" \notin mishaps'
  BY FilesAreTold DEF Typed
<1>b. Distinct /\ Owned
  BY MishapsStay DEF Named
\* Where nothing is in hand, and nothing comes to hand.
<1>c. ASSUME UNCHANGED <<files, owner>>, pc \notin {"write", "compare"},
             pc' \notin {"write", "compare"}, pc' = "collect" => pc = "collect"
      PROVE  Distinct' /\ Owned'
  BY <1>b, <1>c DEF Distinct, Owned, InHand
\* Where the run ends, or has yet to read the directory.
<1>d. ASSUME UNCHANGED files, pc \notin {"write", "compare"},
             pc' \notin {"collect", "write", "compare"}
      PROVE  Distinct' /\ Owned'
  BY <1>b, <1>d DEF Distinct, Owned, InHand
<1> USE DEF disk, walk, memory, history, Finite
<1>1. CASE Start
  BY <1>1, <1>d DEF Start
<1>2. CASE EndOfPages
  BY <1>2, <1>d DEF EndOfPages
<1>3. CASE TakePage
  BY <1>3, <1>d DEF TakePage
<1>4. CASE MissingColumns
  BY <1>4, <1>d DEF MissingColumns, Exit
<1>5. CASE SearchFails
  BY <1>5, <1>d DEF SearchFails, Exit
<1>6. CASE ReadDirectory
  <2>1. /\ pc = "index" /\ pc' = "collect" /\ files' = files
        /\ \A s \in Samples : owner'[s] = FirstHolder(s)
    BY <1>6 DEF ReadDirectory
  <2>2. Distinct'
    BY <1>b, <2>1 DEF Distinct, InHand
  <2>3. ASSUME NEW r \in Rows, files[r] \in Finite PROVE FirstHolder(files[r]) = r
    <3>1. FirstHolder(files[r]) \in Rows /\ files[FirstHolder(files[r])] = files[r]
      BY <2>3, FirstHolders
    <3> QED BY <1>b, <2>1, <2>3, <3>1 DEF Distinct, InHand
  <2>4. \A s \in Samples : FirstHolder(s) # 0 => files[FirstHolder(s)] = s
    BY FirstHolders
  <2> QED BY <2>1, <2>2, <2>3, <2>4 DEF Owned, InHand
<1>7. CASE Skip
  BY <1>7, <1>c DEF Skip, AtCandidate, NextCandidate
<1>8. CASE PageFails
  BY <1>8, <1>c DEF PageFails, AtCandidate, NextCandidate
<1>9. CASE AlreadyThere
  BY <1>9, <1>c DEF AlreadyThere, AtCandidate, NextCandidate
<1>10. CASE DownloadFails
  <2>1. Current \in Rows
    BY <1>10, HandIsFull DEF DownloadFails
  <2>2. /\ pc = "collect" /\ pc' = "collect" /\ files' = files /\ files[Current] = NoFile
        /\ \A s \in Samples : owner'[s] = IF owner[s] = Current THEN 0 ELSE owner[s]
    BY <1>10, <1>a DEF DownloadFails, AtCandidate, NextCandidate, ReleasedOwner
  <2>3. Distinct'
    BY <1>b, <2>2 DEF Distinct, InHand
  <2>4. \A r \in Rows : files[r] \in Finite => owner'[files[r]] = r
    BY <1>a, <1>b, <2>2 DEF Owned, InHand
  <2>5. \A s \in Samples : owner'[s] # 0 => files[owner'[s]] = s
    BY <1>a, <1>b, <2>2 DEF Owned, InHand
  <2> QED BY <2>2, <2>3, <2>4, <2>5 DEF Owned, InHand
<1>11. CASE BeginWrite
  <2>1. Current \in Rows
    BY <1>11, HandIsFull DEF BeginWrite
  <2>2. /\ pc = "collect" /\ pc' = "write" /\ Current' = Current
        /\ \A q \in Rows : files'[q] = IF q = Current THEN Torn ELSE files[q]
        /\ \A s \in Samples : owner'[s] = IF owner[s] = Current THEN 0 ELSE owner[s]
    BY <1>11, <1>a, <2>1 DEF BeginWrite, AtCandidate, ReleasedOwner, Current
  <2>3. Distinct'
    BY <1>a, <1>b, <2>2 DEF Distinct, InHand
  <2>4. \A r \in Rows : r # Current /\ files'[r] \in Finite => owner'[files'[r]] = r
    BY <1>a, <1>b, <2>2 DEF Owned, InHand
  <2>5. \A s \in Samples : owner'[s] # 0 => owner'[s] # Current /\ files'[owner'[s]] = s
    <3> SUFFICES ASSUME NEW s \in Samples, owner'[s] # 0
                 PROVE  owner'[s] # Current /\ files'[owner'[s]] = s
      OBVIOUS
    <3>1. owner'[s] = owner[s] /\ owner[s] # Current /\ owner[s] \in Rows
      BY <1>a, <2>1, <2>2, RowNumbers
    <3>2. files[owner[s]] = s
      BY <1>b, <2>2, <3>1, RowNumbers DEF Owned
    <3> QED BY <2>2, <3>1, <3>2
  <2> QED BY <2>2, <2>3, <2>4, <2>5 DEF Owned, InHand
<1>12. CASE WriteFails
  <2>1. Current \in Rows
    BY <1>12, HandIsFull DEF WriteFails
  <2>2. pc = "write" /\ pc' = "collect" /\ UNCHANGED <<files, owner>> /\ files[Current] = Torn
    BY <1>12 DEF WriteFails, NextCandidate, Handled
  <2>3. Distinct'
    BY <1>a, <1>b, <2>2 DEF Distinct, InHand
  <2>4. Owned'
    BY <1>a, <1>b, <2>2 DEF Owned, InHand
  <2> QED BY <2>3, <2>4
<1>13. CASE EndWrite
  <2>1. Current \in Rows
    BY <1>13, HandIsFull DEF EndWrite
  <2>2. /\ pc = "write" /\ pc' = "compare" /\ Current' = Current /\ owner' = owner
        /\ \A q \in Rows : files'[q] = IF q = Current THEN Remote(Current) ELSE files[q]
    BY <1>13, <1>a, <2>1 DEF EndWrite, Current
  <2>3. Distinct'
    BY <1>a, <1>b, <2>2 DEF Distinct, InHand
  <2>4. \A s \in Samples : owner[s] # 0 => owner[s] \in Rows
    BY <1>a
  <2>5. Owned'
    BY <1>a, <1>b, <2>2, <2>4 DEF Owned, InHand
  <2> QED BY <2>3, <2>5
<1>14. CASE DropCopy
  <2>1. Current \in Rows
    BY <1>14, HandIsFull DEF DropCopy
  <2>2. /\ pc = "compare" /\ pc' = "collect" /\ owner' = owner
        /\ \A q \in Rows : files'[q] = IF q = Current THEN NoFile ELSE files[q]
    BY <1>14, <1>a, <2>1 DEF DropCopy, NextCandidate
  <2>3. Distinct'
    BY <1>a, <1>b, <2>2 DEF Distinct, InHand
  <2>4. \A s \in Samples : owner[s] # 0 => owner[s] \in Rows
    BY <1>a
  <2>5. Owned'
    BY <1>a, <1>b, <2>2, <2>4 DEF Owned, InHand
  <2> QED BY <2>3, <2>5
<1>15. CASE Keep
  <2>1. Current \in Rows
    BY <1>15, HandIsFull DEF Keep
  <2>2. pc = "compare" /\ pc' = "collect" /\ files' = files /\ ~IsCopy(Current)
    BY <1>15 DEF Keep, NextCandidate
  <2>3. CASE files[Current] \notin Samples
    <3>1. owner' = owner
      BY <1>15, <2>3 DEF Keep
    <3>2. Distinct'
      BY <1>b, <2>2, <2>3 DEF Distinct, InHand
    <3>3. Owned'
      BY <1>a, <1>b, <2>2, <2>3, <3>1 DEF Owned, InHand
    <3> QED BY <3>2, <3>3
  <2>4. CASE files[Current] \in Samples
    <3> DEFINE t == files[Current]
    <3>1. \A s \in Samples : owner'[s] = IF s = t THEN Current ELSE owner[s]
      BY <1>15, <1>a, <2>4 DEF Keep
    <3>2. t \in Finite => owner[t] = 0
      <4>1. owner[t] # 0 => files[owner[t]] = t /\ owner[t] # Current
        BY <1>b, <2>2, <2>4 DEF Owned, InHand
      <4> QED BY <2>2, <2>4, <4>1 DEF IsCopy
    <3>3. \A r \in Rows : t \in Finite /\ r # Current => files[r] # t
      BY <1>b, <2>2, <2>4, <3>2, RowNumbers DEF Owned, InHand
    <3>4. Distinct'
      BY <1>b, <2>2, <3>3 DEF Distinct, InHand
    <3>5. \A r \in Rows : files[r] \in Finite => owner'[files[r]] = r
      BY <1>b, <2>2, <3>1, <3>3 DEF Owned, InHand
    <3>6. \A s \in Samples : owner'[s] # 0 => files[owner'[s]] = s
      BY <1>b, <2>2, <3>1 DEF Owned, InHand
    <3> QED BY <2>2, <3>4, <3>5, <3>6 DEF Owned, InHand
  <2> QED BY <2>3, <2>4
<1>16. CASE WriteMetadata
  BY <1>16, <1>d DEF WriteMetadata
<1>17. CASE WriteSnapshot
  BY <1>17, <1>d DEF WriteSnapshot, Exit
<1>18. CASE Killed
  BY <1>18, <1>a DEF Killed
<1>19. ASSUME NEW late \in Late, Publish(late) PROVE Distinct' /\ Owned'
  BY <1>19, <1>c DEF Publish
<1>20. CASE UNCHANGED vars
  BY <1>20, <1>b DEF vars, Distinct, Owned, InHand, Current
<1>21. CASE TablelessPage
  BY <1>21, <1>d DEF TablelessPage
<1> QED BY <1>1, <1>2, <1>3, <1>4, <1>5, <1>6, <1>7, <1>8, <1>9, <1>10,
           <1>11, <1>12, <1>13, <1>14, <1>15, <1>16, <1>17, <1>18, <1>19, <1>20, <1>21 DEF ScrapeNext, Search, Collect

LEMMA StepStamped == Typed /\ Stamped /\ [ScrapeNext]_vars => Stamped'
<1> SUFFICES ASSUME Typed, Stamped, [ScrapeNext]_vars PROVE Stamped'
  OBVIOUS
<1>a. run \in Nat /\ mishaps \subseteq mishaps'
  <2>1. run \in 0..MaxRuns
    BY DEF Typed
  <2> QED BY <2>1, MishapsStay
<1> USE <1>a DEF Stamped, disk, walk, memory, history, NextCandidate, AtCandidate
<1>1. CASE Start
  BY <1>1 DEF Start
<1>2. CASE EndOfPages
  BY <1>2 DEF EndOfPages
<1>3. CASE TakePage
  BY <1>3 DEF TakePage
<1>4. CASE MissingColumns
  BY <1>4 DEF MissingColumns, Exit
<1>5. CASE SearchFails
  BY <1>5 DEF SearchFails, Exit
<1>6. CASE ReadDirectory
  BY <1>6 DEF ReadDirectory
<1>7. CASE Skip
  BY <1>7 DEF Skip
<1>8. CASE PageFails
  BY <1>8 DEF PageFails
<1>9. CASE AlreadyThere
  BY <1>9 DEF AlreadyThere
<1>10. CASE DownloadFails
  BY <1>10 DEF DownloadFails
<1>11. CASE BeginWrite
  BY <1>11 DEF BeginWrite
<1>12. CASE WriteFails
  BY <1>12 DEF WriteFails
<1>13. CASE EndWrite
  BY <1>13 DEF EndWrite
<1>14. CASE DropCopy
  BY <1>14 DEF DropCopy
<1>15. CASE Keep
  BY <1>15 DEF Keep
<1>16. CASE WriteMetadata
  BY <1>16 DEF WriteMetadata
<1>17. CASE WriteSnapshot
  BY <1>17 DEF WriteSnapshot, Exit
<1>18. CASE Killed
  BY <1>18 DEF Killed, Exit
<1>19. ASSUME NEW late \in Late, Publish(late) PROVE Stamped'
  BY <1>19 DEF Publish
<1>20. CASE UNCHANGED vars
  BY <1>20 DEF vars
<1>21. CASE TablelessPage
  BY <1>21 DEF TablelessPage
<1> QED BY <1>1, <1>2, <1>3, <1>4, <1>5, <1>6, <1>7, <1>8, <1>9, <1>10,
           <1>11, <1>12, <1>13, <1>14, <1>15, <1>16, <1>17, <1>18, <1>19, <1>20, <1>21 DEF ScrapeNext, Search, Collect
-----------------------------------------------------------------------------
(* The pages.                                                               *)

PlaceIn(A, r) == Cardinality({s \in A : Above(s, r)})

LEMMA RowsAreFinite ==
    ASSUME NEW A \in SUBSET Rows
    PROVE  IsFiniteSet(A) /\ Cardinality(A) \in Nat
<1>1. IsFiniteSet(Rows)
  BY RowsAreNumbers, FS_Interval
<1> QED BY <1>1, FS_Subset, FS_CardinalityType

LEMMA AboveOrders ==
    /\ \A r, s \in Rows : Above(r, s) => ~Above(s, r)
    /\ \A r, s, t \in Rows : Above(r, s) /\ Above(s, t) => Above(r, t)
    /\ \A r, s \in Rows : r # s => Above(r, s) \/ Above(s, r)
    /\ \A r \in Rows : ~Above(r, r)
<1>1. /\ \A r \in Rows : ListedAt[r] \in Nat
      /\ \A r, s \in Rows : ListedAt[r] = ListedAt[s] => r = s
  BY ListedNewestFirst DEF IsInjective
<1> QED BY <1>1 DEF Above

\* Places grow down the listing, from 0 up, and none is empty.
LEMMA PlacesAreFilled ==
    ASSUME NEW A \in SUBSET Rows
    PROVE  /\ \A r \in A : PlaceIn(A, r) \in 0..Cardinality(A) - 1
           /\ \A r, s \in A : Above(r, s) => PlaceIn(A, r) < PlaceIn(A, s)
           /\ \A i \in 0..Cardinality(A) - 1 : \E r \in A : PlaceIn(A, r) = i
<1> DEFINE n == Cardinality(A)
           before(r) == {s \in A : Above(s, r)}
           f == [r \in A |-> PlaceIn(A, r)]
<1>1. IsFiniteSet(A) /\ n \in Nat
  BY RowsAreFinite
<1>2. ASSUME NEW r \in A
      PROVE  IsFiniteSet(before(r)) /\ PlaceIn(A, r) \in 0..n - 1
  <2>1. before(r) \in SUBSET (A \ {r})
    BY AboveOrders
  <2>2. IsFiniteSet(A \ {r}) /\ Cardinality(A \ {r}) = n - 1
    BY <1>1, FS_RemoveElement
  <2>3. IsFiniteSet(before(r)) /\ Cardinality(before(r)) <= Cardinality(A \ {r})
    BY <2>1, <2>2, FS_Subset
  <2>4. Cardinality(before(r)) \in Nat
    BY <2>3, FS_CardinalityType
  <2>5. PlaceIn(A, r) = Cardinality(before(r))
    BY DEF PlaceIn
  <2> QED BY <1>1, <2>2, <2>3, <2>4, <2>5
<1>a. ASSUME NEW r \in A PROVE PlaceIn(A, r) \in Int
  <2>1. PlaceIn(A, r) \in 0..n - 1
    BY <1>2
  <2> QED BY <2>1
<1>3. ASSUME NEW r \in A, NEW s \in A, Above(r, s)
      PROVE  PlaceIn(A, r) < PlaceIn(A, s)
  <2>1. before(r) \cup {r} \in SUBSET before(s) /\ r \notin before(r)
    BY <1>3, AboveOrders
  <2>2. Cardinality(before(r) \cup {r}) = Cardinality(before(r)) + 1
    BY <1>2, <2>1, FS_AddElement
  <2>3. Cardinality(before(r) \cup {r}) <= Cardinality(before(s))
    BY <1>2, <2>1, FS_Subset
  <2>4. PlaceIn(A, r) = Cardinality(before(r)) /\ PlaceIn(A, s) = Cardinality(before(s))
    BY DEF PlaceIn
  <2> HIDE DEF before
  <2> QED BY <1>a, <2>2, <2>3, <2>4
<1>4. ASSUME NEW i \in 0..n - 1 PROVE \E r \in A : PlaceIn(A, r) = i
  <2>1. f \in [A -> 0..n - 1]
    BY <1>2
  <2>2. ASSUME NEW r \in A, NEW s \in A, f[r] = f[s] PROVE r = s
    <3>1. PlaceIn(A, r) = PlaceIn(A, s) /\ PlaceIn(A, r) \in Int /\ PlaceIn(A, s) \in Int
      BY <1>a, <2>2
    <3>2. ~Above(r, s) /\ ~Above(s, r)
      BY <1>3, <3>1
    <3> QED BY <3>2, AboveOrders
  <2>3. f \in Injection(A, 0..n - 1)
    BY <2>1, <2>2 DEF Injection, IsInjective
  <2>4. IsFiniteSet(0..n - 1) /\ Cardinality(0..n - 1) = n
    BY <1>1, FS_Interval
  <2>5. f \in Surjection(A, 0..n - 1)
    BY <1>1, <2>3, <2>4, FS_Injection
  <2>6. PICK r \in A : f[r] = i
    BY <2>5 DEF Surjection
  <2> QED BY <2>6
<1> QED BY <1>2, <1>3, <1>4

\* One more row moves the others down by one place at the most.
LEMMA OneMore ==
    ASSUME NEW A \in SUBSET Rows, NEW q \in Rows \ A, NEW B \in {A, A \cup {q}}, NEW r \in A
    PROVE  /\ PlaceIn(A, r) \in Nat /\ PlaceIn(B, r) \in Nat
           /\ PlaceIn(A, r) <= PlaceIn(B, r) /\ PlaceIn(B, r) <= PlaceIn(A, r) + 1
<1> DEFINE before == {s \in A : Above(s, r)}
           after == {s \in B : Above(s, r)}
<1>1. before \in SUBSET Rows /\ before \cup {q} \in SUBSET Rows /\ after \in SUBSET Rows
  OBVIOUS
<1>2. before \in SUBSET after /\ after \in SUBSET (before \cup {q}) /\ q \notin before
  OBVIOUS
<1>3. PlaceIn(A, r) = Cardinality(before) /\ PlaceIn(B, r) = Cardinality(after)
  BY DEF PlaceIn
<1> HIDE DEF before, after
<1>4. /\ IsFiniteSet(before) /\ IsFiniteSet(after) /\ IsFiniteSet(before \cup {q})
      /\ Cardinality(before) \in Nat /\ Cardinality(after) \in Nat
  BY <1>1, RowsAreFinite
<1>5. Cardinality(before \cup {q}) = Cardinality(before) + 1
  BY <1>2, <1>4, FS_AddElement
<1>6. Cardinality(before) <= Cardinality(after) /\ Cardinality(after) <= Cardinality(before \cup {q})
  BY <1>2, <1>4, FS_Subset
<1> QED BY <1>3, <1>4, <1>5, <1>6

\* The first place of a page, and of those around it.
LEMMA FirstPlaces ==
    ASSUME NEW n \in Nat
    PROVE  /\ n * PageSize \in Nat /\ PageSize \in Nat \ {0}
           /\ (n + 1) * PageSize = n * PageSize + PageSize
           /\ (n - 1) * PageSize = n * PageSize - PageSize
  BY PositiveSizes

\* The row in the first place of a page is there, unless nothing follows, and
\* belongs to the page's signature.
LEMMA PagesBegin ==
    ASSUME Typed, NEW r \in Asked, Place(r) >= page * PageSize
    PROVE  \E q \in Signature(SearchPage(page)) : q \in Asked /\ Place(q) = page * PageSize
<1> DEFINE a == page * PageSize
<1>1. Asked \in SUBSET Rows
  BY DEF Typed, Asked
<1>2. \A s \in Asked : Place(s) = PlaceIn(Asked, s)
  BY DEF Place, PlaceIn
<1>3. page \in Nat /\ SignatureRows \in Nat \ {0}
  <2>1. page \in 0..MaxPages
    BY DEF Typed
  <2> QED BY <2>1, PositiveSizes
<1>4. a \in Nat /\ PageSize \in Nat \ {0} /\ (page + 1) * PageSize = a + PageSize
  BY <1>3, FirstPlaces
<1>5. Cardinality(Asked) \in Nat /\ Place(r) \in 0..Cardinality(Asked) - 1
  BY <1>1, <1>2, RowsAreFinite, PlacesAreFilled
<1>6. SearchPage(page) = {s \in Asked : Place(s) \in a .. (page + 1) * PageSize - 1}
  BY DEF SearchPage
<1>0. Place(r) >= a
  OBVIOUS
<1> HIDE DEF a
<1>7. a \in 0..Cardinality(Asked) - 1
  BY <1>0, <1>4, <1>5
<1>8. PICK q \in Asked : Place(q) = a
  BY <1>1, <1>2, <1>7, PlacesAreFilled
<1>9. q \in SearchPage(page)
  BY <1>4, <1>6, <1>8
<1>10. ASSUME NEW s \in SearchPage(page), Above(s, q) PROVE FALSE
  <2>1. s \in Asked /\ Place(s) \in a .. a + PageSize - 1
    BY <1>4, <1>6
  <2>2. Place(s) < Place(q)
    BY <1>1, <1>2, <1>8, <1>10, <2>1, PlacesAreFilled
  <2> QED BY <1>4, <1>8, <2>1, <2>2
<1>11. {s \in SearchPage(page) : Above(s, q)} = {}
  BY <1>10
<1>12. Cardinality({s \in SearchPage(page) : Above(s, q)}) = 0
  BY <1>11, FS_EmptySet
<1>13. q \in Signature(SearchPage(page))
  BY <1>3, <1>9, <1>12 DEF Signature
<1> QED BY <1>8, <1>13 DEF a
LEMMA AskedForAll ==
    ASSUME Typed
    PROVE  /\ Asked \in SUBSET Rows /\ publishedAtStart \subseteq Rows
           /\ \A r \in publishedAtStart : InWindow(r) => r \in Asked
           /\ \A r \in Asked : Place(r) \in Nat
           /\ page \in Nat
           /\ IsFiniteSet(New) /\ Cardinality(New) \in Nat
<1>1. /\ Asked \in SUBSET Rows /\ publishedAtStart \subseteq Rows /\ New \in SUBSET Rows
      /\ \A r \in publishedAtStart : InWindow(r) => r \in Asked
  BY DEF Typed, Asked, New
<1>2. ASSUME NEW r \in Asked PROVE Place(r) \in Nat
  <2>1. {s \in Asked : Above(s, r)} \in SUBSET Rows
    BY <1>1
  <2> QED BY <2>1, RowsAreFinite DEF Place
<1>3. page \in Nat
  <2>1. page \in 0..MaxPages
    BY DEF Typed
  <2> QED BY <2>1
<1>4. IsFiniteSet(New) /\ Cardinality(New) \in Nat
  BY <1>1, RowsAreFinite
<1> QED BY <1>1, <1>2, <1>3, <1>4

\* A page adds what it holds, and begins where the pages before it end.
LEMMA PageCollects == Typed /\ Collecting /\ TakePage => Collecting'
<1> SUFFICES ASSUME Typed, Collecting, TakePage PROVE Collecting'
  OBVIOUS
<1> DEFINE a == page * PageSize
<1>1. /\ UNCHANGED <<published, publishedAtStart, window, filtered>>
      /\ SearchPage(page) # {} /\ page' = page + 1 /\ lastPage' = SearchPage(page)
  BY DEF TakePage, NothingNew, history
<1>2. /\ Asked' = Asked /\ New' = New
      /\ \A r \in Rows : InWindow(r)' = InWindow(r) /\ Place(r)' = Place(r)
  BY <1>1 DEF Asked, New, InWindow, Place
<1>3. ToSet(todo') = ToSet(todo) \cup {r \in SearchPage(page) : Wanted(r)}
  BY PageTaken DEF Typed
<1>4. page \in Nat /\ \A r \in Asked : r \in Rows /\ Place(r) \in Nat
  BY AskedForAll
<1>5. /\ a \in Nat /\ PageSize \in Nat \ {0}
      /\ (page + 1) * PageSize = a + PageSize
      /\ ((page + 1) - 1) * PageSize = a
  BY <1>4, FirstPlaces
<1>6. \A r : r \in SearchPage(page) <=> r \in Asked /\ Place(r) \in a .. (page + 1) * PageSize - 1
  BY DEF SearchPage
<1>7. /\ \A r \in publishedAtStart :
            InWindow(r) /\ CanBeTaken(r) /\ Place(r) < a => r \in ToSet(todo)
  BY DEF Collecting
<1>8. PICK q \in Signature(SearchPage(page)) : q \in Asked /\ Place(q) = a
  <2>1. PICK s \in SearchPage(page) : TRUE
    BY <1>1
  <2>2. s \in Asked /\ Place(s) >= page * PageSize
    BY <1>4, <1>5, <1>6
  <2> QED BY <2>2, PagesBegin
<1> HIDE DEF a
<1>9. ASSUME NEW r \in publishedAtStart, InWindow(r), CanBeTaken(r), Place(r) < a + PageSize
      PROVE  r \in ToSet(todo')
  <2>1. r \in Asked
    BY <1>9, AskedForAll
  <2>2. CASE Place(r) < a
    BY <1>3, <1>7, <1>9, <2>2
  <2>3. CASE ~(Place(r) < a)
    <3>1. r \in SearchPage(page)
      BY <1>4, <1>5, <1>6, <1>9, <2>1, <2>3
    <3>2. r \in ToSet(todo) \/ Wanted(r)
      BY <1>9 DEF Wanted
    <3> QED BY <1>3, <3>1, <3>2
  <2> QED BY <2>2, <2>3
<1>10. \A r \in publishedAtStart' :
        InWindow(r)' /\ CanBeTaken(r) /\ Place(r)' < (page * PageSize)' => r \in ToSet(todo')
  <2>1. (page * PageSize)' = a + PageSize
    BY <1>1, <1>5
  <2>2. publishedAtStart' = publishedAtStart /\ publishedAtStart \subseteq Rows
    BY <1>1, AskedForAll
  <2> QED BY <1>2, <1>9, <2>1, <2>2
<1>11. \E s \in Signature(lastPage') :
            s \in Asked' /\ Place(s)' <= (page' - 1) * PageSize + Cardinality(New')
  <2>1. (page' - 1) * PageSize = a
    BY <1>1, <1>5
  <2>2. Place(q)' = a /\ q \in Asked' /\ q \in Signature(lastPage')
    BY <1>1, <1>2, <1>4, <1>8
  <2>3. Cardinality(New') \in Nat
    BY <1>2, AskedForAll
  <2>4. Place(q)' <= (page' - 1) * PageSize + Cardinality(New')
    BY <1>5, <2>1, <2>2, <2>3
  <2> QED BY <2>2, <2>4
<1>12. Signature(lastPage)' = Signature(lastPage')
  BY DEF Signature
<1> QED BY <1>10, <1>11, <1>12 DEF Collecting

\* What is published moves rows down, by one place, and is one more that is new.
LEMMA PublicationCollects ==
    ASSUME Typed, Collecting, NEW late \in Late, Publish(late)
    PROVE  Collecting'
<1>1. /\ UNCHANGED <<publishedAtStart, window, filtered, page, lastPage, todo>>
      /\ published' = published \cup {late} /\ late \notin published /\ late \in Rows
  BY RowsAreNumbers DEF Publish, walk, memory, history
<1>2. /\ Asked' \in {Asked, Asked \cup {late}} /\ late \notin Asked
      /\ New' = New \cup {late} /\ late \notin New
      /\ \A r \in Rows : InWindow(r)' = InWindow(r)
  BY <1>1 DEF Asked, New, InWindow, Typed
<1>3. /\ Asked \in SUBSET Rows /\ publishedAtStart \subseteq Rows
      /\ \A r \in publishedAtStart : InWindow(r) => r \in Asked
      /\ page \in Nat
      /\ IsFiniteSet(New) /\ Cardinality(New) \in Nat
  BY AskedForAll
<1>4. \A r : Place(r) = PlaceIn(Asked, r) /\ Place(r)' = PlaceIn(Asked', r)
  BY DEF Place, PlaceIn
<1>5. ASSUME NEW r \in Asked
      PROVE  /\ Place(r) \in Nat /\ Place(r)' \in Nat
             /\ Place(r) <= Place(r)' /\ Place(r)' <= Place(r) + 1
  BY <1>1, <1>2, <1>3, <1>4, OneMore
<1>6. Cardinality(New') = Cardinality(New) + 1
  BY <1>2, <1>3, FS_AddElement
<1>7. page * PageSize \in Nat /\ (page - 1) * PageSize \in Int
  <2>1. /\ page * PageSize \in Nat /\ PageSize \in Nat
        /\ (page - 1) * PageSize = page * PageSize - PageSize
    BY <1>3, FirstPlaces
  <2>2. page * PageSize - PageSize \in Int
    BY <2>1
  <2> QED BY <2>1, <2>2
<1>8. ASSUME NEW r \in publishedAtStart', InWindow(r)', CanBeTaken(r),
             Place(r)' < page * PageSize
      PROVE  r \in ToSet(todo)
  <2>1. r \in publishedAtStart /\ InWindow(r) /\ r \in Asked
    BY <1>1, <1>2, <1>3, <1>8
  <2>2. Place(r) < page * PageSize
    BY <1>5, <1>7, <1>8, <2>1
  <2> QED BY <1>8, <2>1, <2>2 DEF Collecting
<1>9. ASSUME page > 0
      PROVE  \E q \in Signature(lastPage) :
                q \in Asked' /\ Place(q)' <= (page - 1) * PageSize + Cardinality(New')
  <2>1. PICK q \in Signature(lastPage) :
            q \in Asked /\ Place(q) <= (page - 1) * PageSize + Cardinality(New)
    BY <1>9 DEF Collecting
  <2>2. Place(q)' <= (page - 1) * PageSize + Cardinality(New')
    BY <1>3, <1>5, <1>6, <1>7, <2>1
  <2>3. q \in Asked'
    BY <1>2, <2>1
  <2> QED BY <2>2, <2>3
<1>10. Signature(lastPage)' = Signature(lastPage)
  BY <1>1 DEF Signature
<1>11. (page * PageSize)' = page * PageSize /\ page' = page /\ ToSet(todo)' = ToSet(todo)
  BY <1>1
<1> QED BY <1>8, <1>9, <1>10, <1>11 DEF Collecting

\* An empty page follows all the rows, and so does a page that repeats the one
\* before, unless a page of rows is new.
LEMMA NothingFollows ==
    ASSUME Typed, Collecting, NothingNew(SearchPage(page)), Cardinality(New) < PageSize,
           NEW r \in publishedAtStart, InWindow(r), CanBeTaken(r)
    PROVE  r \in ToSet(todo)
<1> DEFINE a == page * PageSize
<1>1. /\ r \in Asked /\ page \in Nat /\ Cardinality(New) \in Nat
      /\ \A s \in Asked : Place(s) \in Nat
  BY AskedForAll
<1>2. /\ a \in Nat /\ PageSize \in Nat \ {0}
      /\ (page + 1) * PageSize = a + PageSize /\ (page - 1) * PageSize = a - PageSize
  BY <1>1, FirstPlaces
<1>3. SearchPage(page) = {s \in Asked : Place(s) \in a .. (page + 1) * PageSize - 1}
  BY DEF SearchPage
<1>4. Place(r) < a => r \in ToSet(todo)
  BY DEF Collecting
<1>5. Place(r) >= a => \E q \in Signature(SearchPage(page)) : q \in Asked /\ Place(q) = a
  BY <1>1, PagesBegin
<1>6. \A rs : Signature(rs) \subseteq rs
  BY DEF Signature
<1>7. CASE SearchPage(page) = {}
  BY <1>1, <1>2, <1>4, <1>5, <1>6, <1>7
<1>8. CASE page > 0 /\ Signature(SearchPage(page)) = Signature(lastPage)
  <2>1. PICK q \in Signature(lastPage) :
            q \in Asked /\ Place(q) <= (page - 1) * PageSize + Cardinality(New)
    BY <1>8 DEF Collecting
  <2>2. q \in SearchPage(page)
    BY <1>6, <1>8, <2>1
  <2> HIDE DEF a
  <2>3. Place(q) \in Nat /\ Place(q) >= a
    BY <1>1, <1>2, <1>3, <2>1, <2>2
  <2> QED BY <1>1, <1>2, <2>1, <2>3
<1> QED BY <1>7, <1>8 DEF NothingNew

\* Nor does a page that is past the window precede any row of it.
LEMMA PastPages ==
    ASSUME Typed, Collecting, TakePage, PastTheWindow(SearchPage(page)),
           NEW r \in publishedAtStart, InWindow(r), CanBeTaken(r)
    PROVE  r \in ToSet(todo')
<1>1. Collecting'
  BY PageCollects
<1>2. UNCHANGED <<published, publishedAtStart, window, filtered>> /\ page' = page + 1
  BY DEF TakePage, history
<1>3. /\ r \in Asked /\ page \in Nat /\ Asked \in SUBSET Rows
      /\ \A s \in Asked : Place(s) \in Nat
  BY AskedForAll
<1>4. Place(r)' = Place(r) /\ InWindow(r)' = InWindow(r)
  BY <1>2 DEF Place, Asked, InWindow
<1>5. SUFFICES ASSUME ~(Place(r) < (page + 1) * PageSize) PROVE FALSE
  BY <1>1, <1>2, <1>4 DEF Collecting
<1>6. PICK q \in SearchPage(page) : Entry[q].dated /\ Entry[q].day < window[1]
  BY DEF PastTheWindow
<1>7. q \in Asked /\ Place(q) < Place(r)
  <2>1. /\ page * PageSize \in Nat /\ (page + 1) * PageSize = page * PageSize + PageSize
        /\ PageSize \in Nat
    BY <1>3, FirstPlaces
  <2>2. q \in Asked /\ Place(q) \in page * PageSize .. (page + 1) * PageSize - 1
    BY <1>6 DEF SearchPage
  <2> QED BY <1>3, <1>5, <2>1, <2>2
<1>8. Above(q, r)
  <2>1. Place(q) = PlaceIn(Asked, q) /\ Place(r) = PlaceIn(Asked, r)
    BY DEF Place, PlaceIn
  <2>2. ~Above(r, q) /\ q # r
    BY <1>3, <1>7, <2>1, PlacesAreFilled
  <2> QED BY <1>3, <1>7, <2>2, AboveOrders
<1>9. Entry[q].day >= Entry[r].day /\ Entry[q].day \in Nat /\ Entry[r].day \in Nat
  <2>1. Entry[q].dated /\ Entry[r].dated
    BY <1>6 DEF CanBeTaken
  <2> QED BY <1>3, <1>7, <1>8, <2>1, ListedNewestFirst, RowsHavePages DEF Above
<1>10. window[1] \in Nat
  BY WindowsAreDays DEF Typed
<1>11. Entry[q].day < window[1]
  BY <1>6
<1>12. window[1] <= Entry[r].day
  BY DEF InWindow
<1> QED BY <1>9, <1>10, <1>11, <1>12

LEMMA StepWalked == Typed /\ Walked /\ [ScrapeNext]_vars => Walked'
<1> SUFFICES ASSUME Typed, Walked, [ScrapeNext]_vars PROVE Walked'
  OBVIOUS
<1> USE DEF disk, walk, memory, history
<1>a. pc' \notin {"search", "index"} => Walked'
  BY DEF Walked, SearchIsComplete
<1>b. SearchIsComplete' <=>
        (pc' = "index" /\ ~misled' /\ Cardinality(New') < PageSize =>
            \A r \in publishedAtStart' :
                InWindow(r)' /\ CanBeTaken(r) => r \in ToSet(todo'))
  BY DEF SearchIsComplete, New
<1>1. CASE Start
  <2>1. /\ pc' = "search" /\ page' = 0 /\ published' = published
        /\ publishedAtStart' = published
    BY <1>1 DEF Start
  <2>2. ASSUME NEW r \in publishedAtStart', InWindow(r)', Place(r)' < page' * PageSize
        PROVE  FALSE
    <3>1. r \in Asked' /\ Asked' \in SUBSET Rows
      BY <2>1, <2>2 DEF Asked, InWindow, Typed
    <3>2. {s \in Asked' : Above(s, r)} \in SUBSET Rows
      BY <3>1
    <3>3. Place(r)' \in Nat
      BY <3>2, RowsAreFinite DEF Place
    <3> QED BY <2>1, <2>2, <3>3, PositiveSizes
  <2>3. Collecting'
    BY <2>1, <2>2 DEF Collecting
  <2> QED BY <2>1, <2>3, <1>b DEF Walked
<1>2. CASE EndOfPages
  <2>1. /\ UNCHANGED <<published, publishedAtStart, window, todo>>
        /\ pc = "search" /\ pc' = "index" /\ NothingNew(SearchPage(page))
    BY <1>2 DEF EndOfPages
  <2>2. New' = New /\ \A r : InWindow(r)' = InWindow(r)
    BY <2>1 DEF New, InWindow
  <2> QED BY <2>1, <2>2, <1>b, NothingFollows DEF Walked
<1>3. CASE TakePage
  <2>1. /\ UNCHANGED <<published, publishedAtStart, window>> /\ pc = "search"
        /\ pc' = IF PastTheWindow(SearchPage(page)) THEN "index" ELSE "search"
    BY <1>3 DEF TakePage
  <2>2. \A r : InWindow(r)' = InWindow(r)
    BY <2>1 DEF InWindow
  <2>3. Collecting'
    BY <1>3, <2>1, PageCollects DEF Walked
  <2>4. pc' = "index" =>
            \A r \in publishedAtStart :
                InWindow(r) /\ CanBeTaken(r) => r \in ToSet(todo')
    BY <1>3, <2>1, PastPages DEF Walked
  <2> QED BY <2>1, <2>2, <2>3, <2>4, <1>b DEF Walked
<1>4. CASE MissingColumns
  BY <1>4, <1>a DEF MissingColumns, Exit
<1>5. CASE SearchFails
  BY <1>5, <1>a DEF SearchFails, Exit
<1>6. CASE ReadDirectory
  BY <1>6, <1>a DEF ReadDirectory, NextCandidate, AtCandidate
<1>7. CASE Skip
  BY <1>7, <1>a DEF Skip, NextCandidate, AtCandidate
<1>8. CASE PageFails
  BY <1>8, <1>a DEF PageFails, NextCandidate, AtCandidate
<1>9. CASE AlreadyThere
  BY <1>9, <1>a DEF AlreadyThere, NextCandidate, AtCandidate
<1>10. CASE DownloadFails
  BY <1>10, <1>a DEF DownloadFails, NextCandidate, AtCandidate
<1>11. CASE BeginWrite
  BY <1>11, <1>a DEF BeginWrite, NextCandidate, AtCandidate
<1>12. CASE WriteFails
  BY <1>12, <1>a DEF WriteFails, NextCandidate, AtCandidate
<1>13. CASE EndWrite
  BY <1>13, <1>a DEF EndWrite, NextCandidate, AtCandidate
<1>14. CASE DropCopy
  BY <1>14, <1>a DEF DropCopy, NextCandidate, AtCandidate
<1>15. CASE Keep
  BY <1>15, <1>a DEF Keep, NextCandidate, AtCandidate
<1>16. CASE WriteMetadata
  BY <1>16, <1>a DEF WriteMetadata, NextCandidate, AtCandidate
<1>17. CASE WriteSnapshot
  BY <1>17, <1>a DEF WriteSnapshot, Exit
<1>18. CASE Killed
  BY <1>18, <1>a DEF Killed, Exit
<1>19. ASSUME NEW late \in Late, Publish(late) PROVE Walked'
  <2>1. pc = "search" /\ pc' = pc
    BY <1>19 DEF Publish
  <2> QED BY <1>19, <2>1, <1>b, PublicationCollects DEF Walked
<1>20. CASE UNCHANGED vars
  <2>1. UNCHANGED <<published, publishedAtStart, window, filtered, page, lastPage, todo, pc, misled>>
    BY <1>20 DEF vars
  <2>2. Collecting' = Collecting
    BY <2>1 DEF Collecting, Signature, Asked, Place, New, InWindow
  <2>3. SearchIsComplete' = SearchIsComplete
    BY <2>1 DEF SearchIsComplete, InWindow
  <2> QED BY <2>1, <2>2, <2>3 DEF Walked
<1>21. CASE TablelessPage
  BY <1>21 DEF TablelessPage, Walked, SearchIsComplete
<1> QED BY <1>1, <1>2, <1>3, <1>4, <1>5, <1>6, <1>7, <1>8, <1>9, <1>10,
           <1>11, <1>12, <1>13, <1>14, <1>15, <1>16, <1>17, <1>18, <1>19, <1>20, <1>21 DEF ScrapeNext, Search, Collect
-----------------------------------------------------------------------------
(* The theorems of the scrape.                                              *)

LEMMA StepIInv == IInv /\ [ScrapeNext]_vars => IInv'
  BY StepTyped, StepHandled, StepWalked, StepDownloaded, StepAccounted, StepKempt,
     StepFiled, StepNamed, StepStamped DEF IInv

\* What scores say of their collection stays so: a later run changes the
\* directory and not the score file.
LEMMA StepDated == IInv /\ Dated /\ [Next]_allVars => Dated'
<1> SUFFICES ASSUME IInv, Dated, [Next]_allVars PROVE Dated'
  OBVIOUS
<1>1. CASE ScrapeNext /\ UNCHANGED scores
  <2>1. mishaps \subseteq mishaps'
    BY <1>1, MishapsStay
  <2> QED BY <1>1, <2>1 DEF Dated
<1>2. CASE Score
  <2>1. pc = "off" /\ listedBy # 0 /\ mishaps' = mishaps
    BY <1>2 DEF Score, vars, history
  <2>2. scores'.by = listedBy /\ scores'.stamp = stamp
    BY <1>2 DEF Score, Standings
  <2>3. "killed" \notin mishaps => stamp = listedBy
    BY <2>1 DEF IInv, Stamped
  <2> QED BY <2>1, <2>2, <2>3 DEF Dated
<1>3. CASE ScoreKilled
  BY <1>3 DEF ScoreKilled, Dated
<1>4. CASE UNCHANGED allVars
  BY <1>4 DEF allVars, vars, history, Dated
<1> QED BY <1>1, <1>2, <1>3, <1>4 DEF Next

\* A run's steps, kills and scorings in any order keep the inductive invariant.
THEOREM ScrapeInvariant == Spec => [](IInv /\ Dated)
<1>1. LeaderboardInit => IInv /\ Dated
  BY InitIInv DEF LeaderboardInit, Dated
<1>2. IInv /\ [Next]_allVars => IInv'
  <2>1. [Next]_allVars => [ScrapeNext]_vars
    BY DEF Next, allVars, Score, ScoreKilled
  <2> QED BY <2>1, StepIInv
<1> QED BY <1>1, <1>2, StepDated, PTL DEF Spec

\* Type correctness of the scrape.
THEOREM ScrapeTyped == Spec => []TypeOK
<1>1. IInv => TypeOK
  BY DEF IInv, Typed, TypeOK, Contents, Collectors
<1> QED BY <1>1, ScrapeInvariant, PTL

\* A search that is taken to be complete has found every public, dated and named
\* spectrum of the window that was listed when it began, unless a page's worth
\* was published since or an answer without a table ended it (SearchIsComplete).
THEOREM CompleteSearches == Spec => []SearchIsComplete
<1>1. IInv => SearchIsComplete
  BY DEF IInv, Walked
<1> QED BY <1>1, ScrapeInvariant, PTL

\* A row of metadata.csv has its file, wherever runs were killed
\* (RowsHaveFiles).
THEOREM ListedHaveFiles == Spec => []RowsHaveFiles
<1>1. IInv => RowsHaveFiles
  BY DEF IInv, Filed, RowsHaveFiles
<1> QED BY <1>1, ScrapeInvariant, PTL

\* No two listed files have the same finite samples (OneNamePerSpectrum).
THEOREM OneNameEach == Spec => []OneNamePerSpectrum
<1>1. IInv => OneNamePerSpectrum
  BY DEF IInv, Typed, Named, Distinct, Finite, OneNamePerSpectrum
<1> QED BY <1>1, ScrapeInvariant, PTL

\* A run that ends well has each candidate listed with its samples, or has them
\* under another name, which is listed unless a run was killed, whatever went
\* wrong before it; excepted is a file that an earlier run left torn
\* (NothingLost).
THEOREM CandidatesAreKept == Spec => []NothingLost
<1>1. ASSUME IInv, pc = "stamp", ~failed, NEW r \in taken, Eligible(r)
      PROVE  \/ r \in listed /\ files[r] = Remote(r)
             \/ /\ Remote(r) \in Samples \ Incomparable
                /\ \E s \in Rows : /\ files[s] = Remote(r)
                                   /\ s \in listed \/ "killed" \in mishaps
             \/ files[r] = Torn /\ "torn" \in mishaps
  <2>1. ToSet(todo) = {}
    BY <1>1 DEF IInv, Handled, ToSet
  <2>2. Held(r) /\ listed = rows
    BY <1>1, <2>1 DEF IInv, Kempt, Collectors, Stamped
  <2>3. \A s \in Rows : files[s] \in Samples => s \in listed \/ "killed" \in mishaps
    BY <1>1 DEF IInv, Accounted, InHand
  <2> QED BY <1>1, <2>2, <2>3 DEF Held, Finite
<1>2. IInv => NothingLost
  BY <1>1 DEF NothingLost
<1> QED BY <1>2, ScrapeInvariant, PTL

\* A run that does not overwrite changes a file only where there was none, or
\* that it is writing itself (EarlierFilesStand).
THEOREM EarlierFilesKept == Spec => EarlierFilesStand
<1> DEFINE A == ~overwrite => \A r \in Rows :
                    files'[r] # files[r] => files[r] = NoFile \/ InHand(r)
<1>1. ASSUME IInv, [ScrapeNext]_vars PROVE A
  <2> SUFFICES ASSUME ~overwrite, NEW r \in Rows, files'[r] # files[r]
               PROVE  files[r] = NoFile \/ InHand(r)
    OBVIOUS
  <2>1. files \in [Rows -> Contents]
    BY <1>1 DEF IInv, Typed
  <2>2. CASE UNCHANGED files
    BY <2>2
  <2>3. CASE BeginWrite
    BY <2>1, <2>3 DEF BeginWrite, MustDownload
  <2>4. CASE EndWrite
    BY <2>1, <2>4 DEF EndWrite, InHand
  <2>5. CASE DropCopy
    BY <2>1, <2>5 DEF DropCopy, InHand
  <2> QED BY <1>1, <2>2, <2>3, <2>4, <2>5, FilesChange
<1>2. [Next]_allVars => [ScrapeNext]_vars
  BY DEF Next, allVars, Score, ScoreKilled
<1>3. IInv /\ [Next]_allVars => [A]_vars
  BY <1>1, <1>2
<1> QED BY <1>3, ScrapeInvariant, PTL DEF Spec, EarlierFilesStand

\* The page's date is that of the collection the standings were computed from
\* (StandingsNameTheirCollection).
THEOREM StandingsAreDated == Spec => []StandingsNameTheirCollection
<1>1. Dated => StandingsNameTheirCollection
  BY DEF Dated, StandingsNameTheirCollection, Shown
<1> QED BY <1>1, ScrapeInvariant, PTL

-----------------------------------------------------------------------------
(* The challenge.                                                           *)

KeptNext(kept, n) == IF n \in Loaded THEN KeepFirst(kept, n) ELSE kept

\* Kept is what its definition says.
LEMMA KeptIs ==
    /\ Kept[0] = {}
    /\ \A n \in 1..Cardinality(Rows) : Kept[n] = KeptNext(Kept[n - 1], n)
<1> DEFINE size == Cardinality(Rows)
           Keeps(f, n) ==
               /\ DOMAIN f = 0..n /\ f[0] = {}
               /\ \A k \in 1..n : f[k] = KeptNext(f[k - 1], k)
           Bad == {n \in 0..size : ~\E f : Keeps(f, n)}
<1>1. size \in Nat
  BY RowsAreNumbers
<1> HIDE DEF size
<1>2. \A n \in 0..size : \E f : Keeps(f, n)
  <2> SUFFICES ASSUME Bad # {} PROVE FALSE
    OBVIOUS
  <2>1. Bad \in SUBSET Nat
    BY <1>1
  <2>2. PICK n \in Bad : \A m \in Bad : n <= m
    <3> HIDE DEF Bad
    <3> QED BY <2>1, NatMin
  <2>3. n # 0
    <3>1. Keeps([k \in 0..0 |-> {}], 0)
      OBVIOUS
    <3> QED BY <2>2, <3>1
  <2>4. n \in 1..size /\ n - 1 \in 0..size /\ n - 1 \notin Bad
    <3>1. n \in 0..size
      OBVIOUS
    <3>2. n \in 1..size /\ n - 1 \in 0..size /\ ~(n <= n - 1)
      BY <1>1, <2>3, <3>1
    <3> HIDE DEF Bad
    <3> QED BY <2>2, <3>2
  <2>5. PICK f : Keeps(f, n - 1)
    BY <2>4
  <2> DEFINE g == [k \in 0..n |-> IF k = n THEN KeptNext(f[n - 1], n) ELSE f[k]]
  <2>6. Keeps(g, n)
    <3>1. \A k \in 0..n - 1 : g[k] = f[k]
      BY <2>4
    <3>2. g[n] = KeptNext(f[n - 1], n)
      BY <2>4
    <3>3. DOMAIN g = 0..n /\ 0 \in 0..n - 1 /\ n - 1 \in 0..n - 1
      BY <2>4
    <3> HIDE DEF g
    <3>4. ASSUME NEW k \in 1..n PROVE g[k] = KeptNext(g[k - 1], k)
      <4>1. k = n \/ k \in 1..n - 1
        BY <2>4
      <4>2. k - 1 \in 0..n - 1
        BY <2>4
      <4> QED BY <2>5, <3>1, <3>2, <4>1, <4>2
    <3> QED BY <2>5, <3>1, <3>3, <3>4
  <2> HIDE DEF g
  <2> QED BY <2>2, <2>6
<1>3. PICK f : Keeps(f, size)
  <2>1. size \in 0..size
    BY <1>1
  <2> HIDE DEF Keeps
  <2> QED BY <1>2, <2>1
<1> DEFINE Def(h) == h = [n \in 0..size |->
                IF n = 0 THEN {} ELSE IF n \in Loaded THEN KeepFirst(h[n - 1], n) ELSE h[n - 1]]
           h0 == [n \in 0..size |-> f[n]]
<1>4. Def(h0)
  <2>1. ASSUME NEW n \in 0..size
        PROVE  h0[n] = IF n = 0 THEN {}
                       ELSE IF n \in Loaded THEN KeepFirst(h0[n - 1], n) ELSE h0[n - 1]
    <3>1. n = 0 \/ (n \in 1..size /\ n - 1 \in 0..size)
      BY <1>1
    <3>2. h0[n] = f[n] /\ (n # 0 => h0[n - 1] = f[n - 1])
      BY <3>1
    <3> HIDE DEF h0
    <3> QED BY <1>3, <3>1, <3>2 DEF KeptNext
  <2>2. h0 = [n \in 0..size |-> h0[n]]
    OBVIOUS
  <2> HIDE DEF h0
  <2> QED BY <2>1, <2>2
<1>5. Def(Kept)
  <2>1. Kept = CHOOSE h : Def(h)
    BY DEF Kept, size
  <2> HIDE DEF h0, Def
  <2> QED BY <1>4, <2>1
<1>6. \A n \in 0..size :
        Kept[n] = IF n = 0 THEN {}
                  ELSE IF n \in Loaded THEN KeepFirst(Kept[n - 1], n) ELSE Kept[n - 1]
  BY <1>5
<1>7. Kept[0] = {} /\ \A n \in 1..size : Kept[n] = KeptNext(Kept[n - 1], n)
  BY <1>1, <1>6 DEF KeptNext
<1> QED BY <1>7 DEF size

\* What is kept of the first n rows stands for the rows loaded of them.
Represents(n) ==
    LET kept == Kept[n]
    IN  /\ kept \subseteq Loaded /\ \A r \in kept : r <= n
        /\ \A r, s \in kept : r # s => ~Alike(r, s)
        /\ \A r \in Loaded : r <= n => \E s \in kept : Alike(r, s)

LEMMA KeptRepresent ==
    ASSUME listed \subseteq Rows
    PROVE  \A n \in 0..Cardinality(Rows) : Represents(n)
<1> DEFINE size == Cardinality(Rows)
           Bad == {n \in 0..size : ~Represents(n)}
<1>1. size \in Nat /\ \A r \in Loaded : r \in 1..size
  BY RowsAreNumbers DEF Loaded
<1>2. Kept[0] = {} /\ \A n \in 1..size : Kept[n] = KeptNext(Kept[n - 1], n)
  BY KeptIs
<1> HIDE DEF size
<1> SUFFICES ASSUME Bad # {} PROVE FALSE
  BY DEF size
<1>3. PICK n \in Bad : \A m \in Bad : n <= m
  <2>1. Bad \in SUBSET Nat
    BY <1>1
  <2> HIDE DEF Bad
  <2> QED BY <2>1, NatMin
<1>4. n # 0
  <2>1. Represents(0)
    BY <1>1, <1>2 DEF Represents
  <2> QED BY <1>3, <2>1
<1>5. n \in 1..size /\ n - 1 \in 0..size /\ Represents(n - 1)
  BY <1>1, <1>3, <1>4
<1> DEFINE before == Kept[n - 1]
<1>6. /\ before \subseteq Loaded /\ \A r \in before : r <= n - 1
      /\ \A r, s \in before : r # s => ~Alike(r, s)
      /\ \A r \in Loaded : r <= n - 1 => \E s \in before : Alike(r, s)
      /\ Kept[n] = KeptNext(before, n)
  BY <1>2, <1>5 DEF Represents
<1> HIDE DEF before
<1>7. \A r \in Loaded : r \in Nat /\ (r <= n => r = n \/ r <= n - 1)
  BY <1>1, <1>5
<1>8. \A r, s : Alike(r, s) <=> Alike(s, r)
  BY DEF Alike
<1>9. CASE n \notin Loaded
  <2>1. Kept[n] = before
    BY <1>6, <1>9 DEF KeptNext
  <2>2. \A r \in before : r <= n
    BY <1>5, <1>6, <1>7
  <2>3. \A r \in Loaded : r <= n => r <= n - 1
    BY <1>7, <1>9
  <2>4. Represents(n)
    BY <1>6, <2>1, <2>2, <2>3 DEF Represents
  <2> QED BY <1>3, <2>4
<1>10. CASE n \in Loaded
  <2>1. Kept[n] = IF \E k \in before : Alike(k, n) THEN before ELSE before \cup {n}
    BY <1>6, <1>10 DEF KeptNext, KeepFirst, Alike
  <2>2. \A r \in before \cup {n} : r <= n
    BY <1>5, <1>6, <1>7, <1>10
  <2>3. Alike(n, n)
    BY DEF Alike
  <2>4. CASE \E k \in before : Alike(k, n)
    <3>1. Kept[n] = before
      BY <2>1, <2>4
    <3>2. \A r \in Loaded : r <= n => \E s \in before : Alike(r, s)
      BY <1>6, <1>7, <1>8, <2>4
    <3>3. Represents(n)
      BY <1>6, <2>2, <3>1, <3>2 DEF Represents
    <3> QED BY <1>3, <3>3
  <2>5. CASE ~\E k \in before : Alike(k, n)
    <3>1. Kept[n] = before \cup {n}
      BY <2>1, <2>5
    <3>2. \A r, s \in before \cup {n} : r # s => ~Alike(r, s)
      BY <1>6, <1>8, <2>5
    <3>3. \A r \in Loaded : r <= n => \E s \in before \cup {n} : Alike(r, s)
      BY <1>6, <1>7, <2>3
    <3>4. Represents(n)
      BY <1>6, <1>10, <2>2, <3>1, <3>2, <3>3 DEF Represents
    <3> QED BY <1>3, <3>4
  <2> QED BY <2>4, <2>5
<1> QED BY <1>9, <1>10

\* The challenge has no two spectra of one object or of the same samples, and
\* one for every row that can be loaded (ChallengeIsRepresentative).
THEOREM ChallengeRepresents == Spec => []ChallengeIsRepresentative
<1>1. ASSUME IInv PROVE ChallengeIsRepresentative
  <2>1. listed \subseteq Rows /\ Cardinality(Rows) \in 0..Cardinality(Rows)
    <3>1. listed \subseteq Rows
      BY <1>1 DEF IInv, Typed
    <3> QED BY <3>1, RowsAreNumbers
  <2>2. Represents(Cardinality(Rows))
    BY <2>1, KeptRepresent
  <2>3. \A r \in Loaded : r <= Cardinality(Rows)
    BY <2>1, RowNumbers DEF Loaded
  <2> QED BY <2>2, <2>3 DEF Represents, ChallengeIsRepresentative, Challenge
<1> QED BY <1>1, ScrapeInvariant, PTL
=============================================================================
