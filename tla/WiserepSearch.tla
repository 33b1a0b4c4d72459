---------------------------- MODULE WiserepSearch ----------------------------
(***************************************************************************)
(* Looking a designation up at WISeREP, infrastructure/wiserep/client.py,  *)
(* as the workers of the application do it at the same time: walk the      *)
(* pages of the export, rank the rows, download the first candidate.       *)
(*                                                                         *)
(* Requests are spaced by a timestamp in the shared cache, which may lose  *)
(* it, and retried within what is left of the budget.  An answer that      *)
(* comes past the budget is refused if one of its pieces does; one whose   *)
(* last piece was in time, or that is empty, may end late and is taken.    *)
(* What a worker does between two waits takes no time; an answer may take  *)
(* any time, or fail.  Wall clock and monotonic clock run alike.  Spectra  *)
(* may be published, and the pages shift, while a walk is under way.  Each *)
(* row has an identity of its own: its Spec. ID, or else all its fields.   *)
(***************************************************************************)
EXTENDS SpectrumRanking, Integers, SequencesExt

CONSTANTS
    Workers,
    Designations,       \* names that are asked for
    Returns,            \* rows WISeREP's substring search returns for a name
    Late,               \* rows published while walks are under way
    Order,              \* the other rows, as the server lists them
    PageSize,           \* EXPORT_PAGE_ROW_CAP
    PageCap,            \* wiserep_page_cap
    Deadline,           \* wiserep_total_deadline_seconds
    DownloadDeadline,   \* wiserep_download_deadline_seconds
    Interval,           \* wiserep_min_request_interval_seconds
    Retries,            \* the total of the retry policy
    RetryWaits,         \* waits that the server or the backoff asks for
    StartBy, MaxTime,   \* bounds on when a search begins, and on the clock
    Never, NoName       \* model values: no time, no name

ASSUME SearchBounds ==
    /\ PageSize \in Nat \ {0} /\ PageCap \in Nat \ {0}
    /\ Interval \in Nat \ {0} /\ Deadline \in Nat \ {0}
    /\ DownloadDeadline \in Nat /\ Retries \in Nat /\ RetryWaits \subseteq Nat
    /\ MaxTime \in Nat /\ Never \notin Nat

ASSUME ListedRows ==
    /\ 0 \notin Rows
    /\ Order \in Seq(Rows) /\ IsInjective(Order)
    /\ Late \subseteq Rows

VARIABLES
    now,
    listing,    \* the published rows, in the server's order
    last,       \* the cached time of the last request
    walk,       \* what each worker is doing
    sent        \* history: each worker's last spaced request of this walk,
                \* since the cache last lost the time

vars == <<now, listing, last, walk, sent>>

\* rows: found so far; begun: when the search or the download began; limit:
\* what the request may take, then when it must be over; wake: end of a sleep;
\* known: history, the rows there were to find when the search began.
Idle == [pc |-> "idle", task |-> "search", name |-> NoName, page |-> 0,
         rows |-> {}, begun |-> 0, limit |-> 0, wake |-> 0, tries |-> 0,
         selected |-> 0, known |-> {}]

AtOnce == {"page", "throttle", "issue", "rank"}
Asleep == {"throttled", "backoff"}
Ended == {"answered", "refused", "unreachable", "incomplete", "unusable"}

TypeOK ==
    /\ now \in 0..MaxTime
    /\ ToSet(listing) \subseteq Rows /\ IsInjective(listing)
    /\ last \in 0..now \cup {Never} /\ sent \in [Workers -> 0..now \cup {Never}]
    /\ \A w \in Workers :
        /\ walk[w].pc \in {"idle", "request"} \cup AtOnce \cup Asleep \cup Ended
        /\ walk[w].task \in {"search", "download"}
        /\ walk[w].page \in 0..PageCap
        /\ walk[w].selected \in Rows \cup {0}
        /\ walk[w].rows \subseteq Rows /\ walk[w].known \subseteq Rows
        /\ walk[w].tries \in 0..Retries

Init ==
    /\ now = 0
    /\ listing = Order
    /\ last = Never
    /\ walk = [w \in Workers |-> Idle]
    /\ sent = [w \in Workers |-> Never]

At(w, pc) == walk[w].pc = pc
Goto(w, pc) == walk' = [walk EXCEPT ![w].pc = pc]
End(w, pc) ==
    /\ walk' = [walk EXCEPT ![w] = [Idle EXCEPT !.pc = pc]]
    /\ sent' = [sent EXCEPT ![w] = Never]

\* What the server lists for a name, in its order, and one page of it.
Found(name) == ToSet(listing) \cap Returns[name]

Above(r, s) ==
    \E i, j \in DOMAIN listing : i < j /\ listing[i] = r /\ listing[j] = s

Place(name, r) == Cardinality({s \in Found(name) : Above(s, r)})

ExportPage(name, n) ==
    {r \in Found(name) : Place(name, r) \in n * PageSize .. (n + 1) * PageSize - 1}

-----------------------------------------------------------------------------
(* The world: time passes and a spectrum is published, when no worker has   *)
(* something to do at once; and the cache loses what it holds, at any time. *)

Tick ==
    /\ now < MaxTime
    /\ \A w \in Workers :
        /\ walk[w].pc \notin AtOnce
        /\ walk[w].pc \in Asleep => now < walk[w].wake
    /\ now' = now + 1
    /\ UNCHANGED <<listing, last, walk, sent>>

Publish(r) ==
    /\ r \notin ToSet(listing)
    /\ \A w \in Workers : walk[w].pc \notin AtOnce
    /\ listing' \in {<<r>> \o listing, Append(listing, r)}
    /\ UNCHANGED <<now, last, walk, sent>>

\* A flush, an eviction or a restart of the cache: cache.get gives None.
ForgetTime ==
    /\ last # Never
    /\ last' = Never
    /\ sent' = [w \in Workers |-> Never]
    /\ UNCHANGED <<now, listing, walk>>

-----------------------------------------------------------------------------
(* search_spectra_rows                                                      *)

StartSearch(w) ==
    /\ At(w, "idle") /\ now <= StartBy
    /\ \E name \in Designations :
        walk' = [walk EXCEPT ![w] =
            [Idle EXCEPT !.pc = "page", !.name = name, !.begun = now,
                         !.known = Found(name)]]
    /\ UNCHANGED <<now, listing, last, sent>>

PageCapReached(w) ==
    /\ At(w, "page") /\ walk[w].page >= PageCap
    /\ End(w, "incomplete")
    /\ UNCHANGED <<now, listing, last>>

Left(w) == walk[w].begun + Deadline - now

OutOfTime(w) ==
    /\ At(w, "page") /\ walk[w].page \in 1..PageCap - 1
    /\ Left(w) <= 0
    /\ End(w, "unreachable")
    /\ UNCHANGED <<now, listing, last>>

\* Mutant: each page gets a deadline of its own.
DeadlinePerPage(w) ==
    /\ At(w, "page") /\ walk[w].page < PageCap
    /\ walk' = [walk EXCEPT ![w].pc = "throttle", ![w].limit = Deadline]
    /\ UNCHANGED <<now, listing, last, sent>>

\* The budget of the page's request is what is left now.
FetchPage(w) ==
    /\ At(w, "page") /\ walk[w].page < PageCap
    /\ walk[w].page > 0 => Left(w) > 0
    /\ walk' = [walk EXCEPT ![w].pc = "throttle", ![w].limit = Left(w)]
    /\ UNCHANGED <<now, listing, last, sent>>

-----------------------------------------------------------------------------
(* _get_bounded: space the request, then issue it.                          *)

\* _respect_min_request_interval, up to its sleep.
Throttle(w) ==
    /\ At(w, "throttle")
    /\ walk' = IF last = Never \/ now - last >= Interval
               THEN [walk EXCEPT ![w].pc = "issue"]
               ELSE [walk EXCEPT ![w].pc = "throttled", ![w].wake = last + Interval]
    /\ UNCHANGED <<now, listing, last, sent>>

Throttled(w) ==
    /\ At(w, "throttled") /\ now >= walk[w].wake
    /\ Goto(w, "issue")
    /\ UNCHANGED <<now, listing, last, sent>>

\* The request goes out; its time starts here.
Request(w) ==
    walk' = [walk EXCEPT ![w].pc = "request", ![w].tries = 0,
                         ![w].wake = 0, ![w].limit = now + walk[w].limit]

\* Mutant: the cache keeps the time it holds (add instead of set).
AddTime(w) ==
    /\ At(w, "issue")
    /\ last' = IF last = Never THEN now ELSE last
    /\ sent' = [sent EXCEPT ![w] = now]
    /\ Request(w)
    /\ UNCHANGED <<now, listing>>

Issue(w) ==
    /\ At(w, "issue")
    /\ last' = now
    /\ sent' = [sent EXCEPT ![w] = now]
    /\ Request(w)
    /\ UNCHANGED <<now, listing>>

\* Without the cache the interval is not kept.
IssueUnspaced(w) ==
    /\ walk[w].pc \in {"throttle", "issue"}
    /\ Request(w)
    /\ UNCHANGED <<now, listing, last, sent>>

-----------------------------------------------------------------------------
(* The request: retries, redirects, refusals, answers.                      *)

Overdue(w) == now >= walk[w].limit

\* A refused connection, an error status, a timeout, or too many bytes.
RequestFails(w) ==
    /\ At(w, "request")
    /\ End(w, "unreachable")
    /\ UNCHANGED <<now, listing, last>>

\* _DeadlineAwareRetry: no wait outlives the budget.
RetryWait(w, wait) ==
    IF wait < walk[w].limit - now THEN wait ELSE walk[w].limit - now

\* Mutant: the count of retries does not bound them.
RetryUntilDeadline(w) ==
    /\ At(w, "request") /\ ~Overdue(w)
    /\ \E wait \in RetryWaits :
        walk' = [walk EXCEPT ![w].pc = "backoff",
                             ![w].tries = walk[w].tries + 1,
                             ![w].wake = now + RetryWait(w, wait)]
    /\ UNCHANGED <<now, listing, last, sent>>

Retry(w) ==
    /\ At(w, "request") /\ walk[w].tries < Retries /\ ~Overdue(w)
    /\ \E wait \in RetryWaits :
        walk' = [walk EXCEPT ![w].pc = "backoff",
                             ![w].tries = walk[w].tries + 1,
                             ![w].wake = now + RetryWait(w, wait)]
    /\ UNCHANGED <<now, listing, last, sent>>

\* The attempt is made outside the interval.
AskAgain(w) ==
    /\ At(w, "backoff") /\ now >= walk[w].wake
    /\ walk' = [walk EXCEPT ![w].pc = "request", ![w].wake = 0]
    /\ UNCHANGED <<now, listing, last, sent>>

\* requests follows a redirect with another request, whose retries are counted
\* anew; the deadline is not looked at.  (One redirect more than the session
\* follows is a request that fails; how many that is, is left out.)
RedirectFollowed(w) ==
    /\ At(w, "request")
    /\ walk' = [walk EXCEPT ![w].tries = 0]
    /\ UNCHANGED <<now, listing, last, sent>>

\* A piece of the body comes late.
StillArriving(w) ==
    /\ At(w, "request") /\ Overdue(w)
    /\ End(w, "unreachable")
    /\ UNCHANGED <<now, listing, last>>

\* Mutant: a page that repeats a row ends the walk.
RepeatsARow(w, rs) == Cardinality(rs) < PageSize \/ rs \cap walk[w].rows # {}

\* extract_csv_text_from_zip finds no single export, or too large a one.
NotAnExport(w) ==
    /\ At(w, "request") /\ walk[w].task = "search"
    /\ End(w, "unreachable")
    /\ UNCHANGED <<now, listing, last>>

\* Rows with an identity the walk has not met.
Unseen(w, rs) == rs \ walk[w].rows

\* A short page ends the walk, and so does one with nothing unseen.
IsLastPage(w, rs) == Cardinality(rs) < PageSize \/ Unseen(w, rs) = {}

PageArrives(w) ==
    /\ At(w, "request") /\ walk[w].task = "search"
    /\ LET rs == ExportPage(walk[w].name, walk[w].page) IN
        walk' = [walk EXCEPT
            ![w].rows = walk[w].rows \cup Unseen(w, rs),
            ![w].limit = 0, ![w].tries = 0,
            ![w].pc = IF IsLastPage(w, rs) THEN "rank" ELSE "page",
            ![w].page = IF IsLastPage(w, rs) THEN walk[w].page ELSE walk[w].page + 1]
    /\ UNCHANGED <<now, listing, last, sent>>

-----------------------------------------------------------------------------
(* What the lookup does with the rows (SpectrumService, and for the file    *)
(* download_spectrum).                                                      *)

Refuse(w) ==
    /\ At(w, "rank")
    /\ RankCandidates(walk[w].rows, walk[w].name).refusal # "no"
    /\ End(w, "refused")
    /\ UNCHANGED <<now, listing, last>>

StartDownload(w) ==
    /\ At(w, "rank")
    /\ LET result == RankCandidates(walk[w].rows, walk[w].name) IN
        /\ result.refusal = "no"
        /\ walk' = [walk EXCEPT ![w].pc = "throttle", ![w].task = "download",
                                ![w].begun = now, ![w].limit = DownloadDeadline,
                                ![w].rows = {}, ![w].page = 0,
                                ![w].selected = Head(result.candidates)]
    /\ UNCHANGED <<now, listing, last, sent>>

\* The candidate's address is not on the configured origin: nothing is asked.
LinkRefused(w) ==
    /\ At(w, "rank")
    /\ RankCandidates(walk[w].rows, walk[w].name).refusal = "no"
    /\ End(w, "unusable")
    /\ UNCHANGED <<now, listing, last>>

\* Neither is the place the answer redirects to.
RedirectRefused(w) ==
    /\ At(w, "request") /\ walk[w].task = "download"
    /\ End(w, "unusable")
    /\ UNCHANGED <<now, listing, last>>

\* The file is no spectrum, or has too few points in the window.
FileUnusable(w) ==
    /\ At(w, "request") /\ walk[w].task = "download"
    /\ End(w, "unusable")
    /\ UNCHANGED <<now, listing, last>>

FileArrives(w) ==
    /\ At(w, "request") /\ walk[w].task = "download"
    /\ End(w, "answered")
    /\ UNCHANGED <<now, listing, last>>

Search(w) ==
    \/ StartSearch(w) \/ PageCapReached(w) \/ OutOfTime(w) \/ FetchPage(w)
    \/ Throttle(w) \/ Throttled(w) \/ Issue(w) \/ IssueUnspaced(w)
    \/ RequestFails(w) \/ Retry(w) \/ AskAgain(w) \/ RedirectFollowed(w)
    \/ StillArriving(w) \/ NotAnExport(w) \/ PageArrives(w) \/ Refuse(w)
    \/ LinkRefused(w) \/ StartDownload(w) \/ RedirectRefused(w)
    \/ FileUnusable(w) \/ FileArrives(w)

Next ==
    \/ Tick \/ ForgetTime
    \/ \E r \in Late : Publish(r)
    \/ \E w \in Workers : Search(w)

Spec == Init /\ [][Next]_vars

-----------------------------------------------------------------------------
(* Properties.                                                              *)

\* Fewer rows have appeared for the name since the search began than a page
\* holds.  With as many, a page may hold nothing but rows already met.
FewAppeared(w) ==
    Cardinality(Found(walk[w].name) \ walk[w].known) < PageSize

\* The rows that are ranked include every row there was when the search began,
\* although a publication shifts the pages between two requests: a walk cut
\* short is refused, never ranked ("Ranking is only correct over every eligible
\* row for a designation").
WalkIsComplete ==
    \A w \in Workers :
        At(w, "rank") /\ FewAppeared(w) => walk[w].known \subseteq walk[w].rows

\* What is downloaded belongs to the one object that the name names among all
\* the rows listed when the search began, ineligible ones included, and none of
\* that object's eligible spectra is earlier (rank_candidates; R6, R19).
NamesOneObject ==
    \A w \in Workers : walk[w].task = "download" /\ FewAppeared(w) =>
        \A r \in Matched(walk[w].known, walk[w].name) :
            /\ Export[r].object = Export[walk[w].selected].object
            /\ Eligible(r) => Export[walk[w].selected].day <= Export[r].day

Budget(w) == IF walk[w].task = "search" THEN Deadline ELSE DownloadDeadline

\* The client asks nothing of WISeREP, not by a retry either, more than one
\* request interval after the deadline of the search or of the download.
\* (search_spectra_rows promises that the walk "cannot exceed" its deadline; the
\* wait for the interval is not counted in it.)  What is asked before may end
\* later: redirects are followed, and the end of a body taken, at any time.
Asks(w) == walk[w].pc # "request" /\ walk'[w].pc = "request"

NothingBeginsLate ==
    [][\A w \in Workers :
        Asks(w) => now <= walk[w].begun + Budget(w) + Interval]_vars

\* While the cache keeps the time, a worker that reads it sends no request
\* within the interval of its own last spaced one of the lookup, whatever the
\* others write into the cache between the worker's reads and writes.  Retries
\* and redirects are not spaced, nor is what follows the loss of the time.
RequestsAreSpaced ==
    [][\A w \in Workers :
        At(w, "issue") /\ walk'[w].pc = "request" /\ sent[w] # Never =>
            now - sent[w] >= Interval]_vars
=============================================================================
