----------------------------- MODULE Resolution -----------------------------
(***************************************************************************)
(* How SpectrumService.get_spectrum_by_name (domain/services/              *)
(* spectrum_service.py) comes by the candidate set of one normalized       *)
(* designation, as request threads of several worker processes run it      *)
(* against the shared stores: the candidate-set row in the database, its   *)
(* copy in the Django cache, the cached refusal, and WISeREP itself.  What *)
(* a lookup does with the set it gets is SpectrumRetention's subject.      *)
(*                                                                         *)
(* Every access to a shared store is one step.  The single-flight slot of  *)
(* each worker is the abstract one of ResolutionSlot, which SingleFlight   *)
(* implements.  Any cache operation may fail or find its entry evicted     *)
(* ("the cache fails open"); any database operation may raise.             *)
(*                                                                         *)
(* Time is counted in coarse ticks, which keep the configured durations in *)
(* order: search deadline, refusal TTL, wait, candidate set TTL.           *)
(***************************************************************************)
EXTENDS Naturals, FiniteSets

CONSTANTS
    Callers,        \* request threads, each with one lookup to make
    Workers,        \* worker processes
    WorkerOf,       \* the worker each thread belongs to
    MaxClock,       \* bound: how long the system is watched
    SetTTL,         \* wiserep_candidate_set_ttl_seconds
    RefusalTTL,     \* wiserep_refusal_cache_ttl_seconds
    Wait,           \* wiserep_resolution_wait_seconds
    Deadline,       \* wiserep_total_deadline_seconds
    NoWorker, NoSet, NoTime     \* model values: none of these

ASSUME WorkerOfCaller == WorkerOf \in [Callers -> Workers]
ASSUME Durations == {MaxClock, SetTTL, RefusalTTL, Wait, Deadline} \subseteq Nat

VARIABLES
    clock,
    stored,         \* the candidate set row of the designation
    cached,         \* its copy in the Django cache
    refusal,        \* when the cached refusal was written, NoTime if none is
    phase,          \* where each caller stands with its worker's slot
    pc,             \* the next shared access of each caller
    found,          \* the set a caller carries from one store to another
    since,          \* when it began to wait, then to search
    outcome,        \* how its lookup ended
    hadSet,         \* history: whether a set was stored when it began
    lastRefusal     \* history: when WISeREP last refused the designation

shared == <<stored, cached, refusal>>
local == <<pc, found, since, outcome>>
history == <<hadSet, lastRefusal>>
vars == <<clock, shared, phase, local, history>>

\* A set carries when it was resolved and, as history, when the search behind
\* it began (it describes WISeREP no later than that) and the worker whose
\* slot holder resolved it, if one did.
CandidateSet == [at : Nat, asOf : Nat, by : Workers \cup {NoWorker}]

ASSUME NoSuchValues ==
    NoWorker \notin Workers /\ NoSet \notin CandidateSet /\ NoTime \notin Nat

PCs == {"cache", "stored", "writeback", "wait", "refusal", "search",
        "aged", "save", "cacheset", "clear", "leave", "done"}

Outcomes == {"none", "set", "refused", "unreachable", "storage_error"}

TypeOK ==
    /\ clock \in 0..MaxClock
    /\ stored \in CandidateSet \cup {NoSet}
    /\ cached \in CandidateSet \cup {NoSet}
    /\ refusal \in Nat \cup {NoTime}
    /\ phase \in [Callers -> {"out", "waiting", "holding", "overdue"}]
    /\ pc \in [Callers -> PCs]
    /\ found \in [Callers -> CandidateSet \cup {NoSet}]
    /\ since \in [Callers -> Nat]
    /\ outcome \in [Callers -> Outcomes]
    /\ hadSet \in [Callers -> BOOLEAN]
    /\ lastRefusal \in Nat \cup {NoTime}

Slot == INSTANCE ResolutionSlot WITH
    Threads <- Callers,
    Designations <- Workers,
    NoDesignation <- NoWorker,
    want <- [c \in Callers |->
                IF phase[c] = "out" THEN NoWorker ELSE WorkerOf[c]]

-----------------------------------------------------------------------------

\* What earlier runs may have left behind: nothing, or a set just resolved.
Init ==
    /\ clock = 0
    /\ stored \in {NoSet, [at |-> 0, asOf |-> 0, by |-> NoWorker]}
    /\ cached = NoSet
    /\ refusal = NoTime
    /\ phase = [c \in Callers |-> "out"]
    /\ pc = [c \in Callers |-> "cache"]
    /\ found = [c \in Callers |-> NoSet]
    /\ since = [c \in Callers |-> 0]
    /\ outcome = [c \in Callers |-> "none"]
    /\ hadSet = [c \in Callers |-> FALSE]
    /\ lastRefusal = NoTime

\* A search ends within the client's deadline, and a waiter is woken as soon as
\* the slot is free.  The stores may be slow without bound.
Tick ==
    /\ clock < MaxClock
    /\ \A c \in Callers :
        /\ pc[c] = "search" => clock - since[c] < Deadline
        /\ pc[c] = "wait" => Slot!Holders(WorkerOf[c]) # {}
    /\ clock' = clock + 1
    /\ UNCHANGED <<shared, phase, local, history>>

\* _is_current
Current(set) == set # NoSet /\ clock - set.at <= SetTTL

\* A cache entry lives RefusalTTL; a non-positive TTL caches nothing.
RefusalLive == refusal # NoTime /\ clock - refusal < RefusalTTL

Goto(c, label) == pc' = [pc EXCEPT ![c] = label]
End(c, why) ==
    /\ outcome' = [outcome EXCEPT ![c] = why]
    /\ found' = [found EXCEPT ![c] = NoSet]
    /\ hadSet' = [hadSet EXCEPT ![c] = @ /\ why = "unreachable"]

\* A lookup that is over first leaves the slot it is in, if any.
Out(c) == IF phase[c] = "out" THEN "done" ELSE "leave"

-----------------------------------------------------------------------------
(* _load_candidate_records, before the slot and again inside it.           *)

CacheHit(c) ==
    /\ pc[c] = "cache"
    /\ Current(cached)
    /\ End(c, "set")
    /\ Goto(c, Out(c))
    /\ UNCHANGED <<clock, shared, phase, since, lastRefusal>>

\* Absent, evicted, aged or unreadable.
CacheMiss(c) ==
    /\ pc[c] = "cache"
    /\ Goto(c, "stored")
    /\ hadSet' = IF phase[c] = "out"
                   THEN [hadSet EXCEPT ![c] = stored # NoSet] ELSE hadSet
    /\ UNCHANGED <<clock, shared, phase, found, since, outcome, lastRefusal>>

StoredCurrent(c) ==
    /\ pc[c] = "stored"
    /\ Current(stored)
    /\ found' = [found EXCEPT ![c] = stored]
    /\ Goto(c, "writeback")
    /\ UNCHANGED <<clock, shared, phase, since, outcome, history>>

UnstampedCopy(set) == [set EXCEPT !.at = NoTime]    \* mutant: copied without it
RestampedCopy(set) == [set EXCEPT !.at = clock]     \* mutant: copied as new
CacheCopy(set) == set

\* The cache gets the row with the row's own resolution time, or nothing.
WriteBack(c) ==
    /\ pc[c] = "writeback"
    /\ cached' \in {CacheCopy(found[c]), cached}
    /\ End(c, "set")
    /\ Goto(c, Out(c))
    /\ UNCHANGED <<clock, stored, refusal, phase, since, lastRefusal>>

\* No current set outside the slot: ask for the slot.
ClaimSlot(c) ==
    /\ pc[c] = "stored"
    /\ ~Current(stored)
    /\ Slot!Arrive(c, WorkerOf[c])
    /\ since' = [since EXCEPT ![c] = clock]
    /\ Goto(c, "wait")
    /\ UNCHANGED <<clock, shared, found, outcome, history>>

-----------------------------------------------------------------------------
(* _resolve_once: the slot, the refusal, the second look, the search.      *)

TakeSlot(c) ==
    /\ pc[c] = "wait"
    /\ Slot!Take(c)
    /\ since' = [since EXCEPT ![c] = 0]
    /\ Goto(c, "refusal")
    /\ UNCHANGED <<clock, shared, found, outcome, history>>

WaitRunsOut(c) ==
    /\ pc[c] = "wait"
    /\ clock - since[c] >= Wait
    /\ Slot!GoAhead(c)
    /\ since' = [since EXCEPT ![c] = 0]
    /\ Goto(c, "refusal")
    /\ UNCHANGED <<clock, shared, found, outcome, history>>

RefuseAndRecache(c) ==                  \* mutant: raising renews the entry
    /\ pc[c] = "refusal"
    /\ RefusalLive
    /\ refusal' = clock
    /\ End(c, "refused")
    /\ Goto(c, "leave")
    /\ UNCHANGED <<clock, stored, cached, phase, since, lastRefusal>>

RefuseFromCache(c) ==
    /\ pc[c] = "refusal"
    /\ RefusalLive
    /\ End(c, "refused")
    /\ Goto(c, "leave")
    /\ UNCHANGED <<clock, shared, phase, since, lastRefusal>>

StraightToSearch(c) ==                  \* mutant: no second look
    /\ pc[c] = "refusal"
    /\ Goto(c, "search")
    /\ since' = [since EXCEPT ![c] = clock]
    /\ UNCHANGED <<clock, shared, phase, found, outcome, history>>

\* No live refusal, or the cache cannot be read: look the set up again.
LookAgain(c) ==
    /\ pc[c] = "refusal"
    /\ Goto(c, "cache")
    /\ UNCHANGED <<clock, shared, phase, found, since, outcome, history>>

BeginSearch(c) ==
    /\ pc[c] = "stored"
    /\ phase[c] # "out"
    /\ ~Current(stored)
    /\ Goto(c, "search")
    /\ since' = [since EXCEPT ![c] = clock]
    /\ UNCHANGED <<clock, shared, phase, found, outcome, history>>

EndSearch(c) == since' = [since EXCEPT ![c] = 0]

CacheOnly == "cacheset"                 \* mutant: the row is not written
AfterSearch == "save"

\* The walk read the export to its end; the set is stamped once it is ranked.
SearchResolves(c) ==
    /\ pc[c] = "search"
    /\ found' = [found EXCEPT ![c] =
                    [at |-> clock, asOf |-> since[c],
                     by |-> IF phase[c] = "holding" THEN WorkerOf[c] ELSE NoWorker]]
    /\ EndSearch(c)
    /\ Goto(c, AfterSearch)
    /\ UNCHANGED <<clock, shared, phase, outcome, history>>

\* Incomplete export, ambiguous name or no eligible spectrum: the refusal is
\* cached (unless the cache is down or the TTL is not positive) and raised.
SearchRefuses(c) ==
    /\ pc[c] = "search"
    /\ refusal' \in {refusal} \cup (IF RefusalTTL > 0 THEN {clock} ELSE {})
    /\ lastRefusal' = clock
    /\ End(c, "refused")
    /\ EndSearch(c)
    /\ Goto(c, "leave")
    /\ UNCHANGED <<clock, stored, cached, phase>>

SearchUnreachable(c) ==
    /\ pc[c] = "search"
    /\ EndSearch(c)
    /\ Goto(c, "aged")
    /\ UNCHANGED <<clock, shared, phase, found, outcome, history>>

CurrentOnly == stored # NoSet /\ Current(stored)    \* mutant: the age is checked
Fallback == stored # NoSet

\* _aged_candidate_records: any stored set will do when WISeREP is down.
ServeAged(c) ==
    /\ pc[c] = "aged"
    /\ Fallback
    /\ End(c, "set")
    /\ Goto(c, "leave")
    /\ UNCHANGED <<clock, shared, phase, since, lastRefusal>>

Unreachable(c) ==
    /\ pc[c] = "aged"
    /\ ~Fallback
    /\ End(c, "unreachable")
    /\ Goto(c, "leave")
    /\ UNCHANGED <<clock, shared, phase, since, lastRefusal>>

SaveSet(c) ==
    /\ pc[c] = "save"
    /\ stored' = found[c]
    /\ Goto(c, "cacheset")
    /\ UNCHANGED <<clock, cached, refusal, phase, found, since, outcome, history>>

CacheSet(c) ==
    /\ pc[c] = "cacheset"
    /\ cached' \in {found[c], cached}
    /\ Goto(c, "clear")
    /\ UNCHANGED <<clock, stored, refusal, phase, found, since, outcome, history>>

ClearRefusal(c) ==
    /\ pc[c] = "clear"
    /\ refusal' \in {NoTime, refusal}
    /\ End(c, "set")
    /\ Goto(c, "leave")
    /\ UNCHANGED <<clock, stored, cached, phase, since, lastRefusal>>

\* The block ends: the slot goes to a waiter, whatever the outcome.
LeaveSlot(c) ==
    /\ pc[c] = "leave"
    /\ Slot!Leave(c)
    /\ Goto(c, "done")
    /\ UNCHANGED <<clock, shared, found, since, outcome, history>>

\* A database operation raises: the lookup ends there as a storage failure.
StoreFails(c) ==
    /\ pc[c] \in {"stored", "aged", "save"}
    /\ End(c, "storage_error")
    /\ Goto(c, Out(c))
    /\ UNCHANGED <<clock, shared, phase, since, lastRefusal>>

-----------------------------------------------------------------------------

Lookup(c) ==
    \/ CacheHit(c) \/ CacheMiss(c) \/ StoredCurrent(c) \/ WriteBack(c)
    \/ ClaimSlot(c) \/ TakeSlot(c) \/ WaitRunsOut(c) \/ LeaveSlot(c)
    \/ RefuseFromCache(c) \/ LookAgain(c) \/ BeginSearch(c)
    \/ SearchResolves(c) \/ SearchRefuses(c) \/ SearchUnreachable(c)
    \/ ServeAged(c) \/ Unreachable(c)
    \/ SaveSet(c) \/ CacheSet(c) \/ ClearRefusal(c)
    \/ StoreFails(c)

Next == Tick \/ \E c \in Callers : Lookup(c)

\* Every lookup has been answered, and the watch is over.
Terminated ==
    /\ clock = MaxClock
    /\ \A c \in Callers : pc[c] = "done"
    /\ UNCHANGED vars

Spec == Init /\ [][Next \/ Terminated]_vars

-----------------------------------------------------------------------------

\* A set served as current describes WISeREP no longer ago than the set's
\* lifetime plus one search, however it travelled between the stores ("without
\* it the result line's claim that the served epoch is the earliest eligible
\* observation would quietly stop being true").
Fresh(set) == clock - set.asOf <= SetTTL + Deadline

ServedSetIsFresh ==
    [][\A c \in Callers :
        /\ (pc[c] = "cache" /\ outcome'[c] = "set") => Fresh(cached)
        /\ (pc[c] = "stored" /\ pc'[c] = "writeback") => Fresh(stored)]_vars

\* A lookup of a designation that had a stored set when it was submitted does
\* not end because WISeREP is unreachable for the search.
StoredSetSurvivesOutage ==
    \A c \in Callers : outcome[c] = "unreachable" => ~hadSet[c]

\* A refusal raised from the cache is one WISeREP gave within RefusalTTL:
\* raising it does not prolong it.
RefusalExpires ==
    [][\A c \in Callers :
        (pc[c] = "refusal" /\ outcome'[c] = "refused") =>
            lastRefusal # NoTime /\ clock - lastRefusal < RefusalTTL]_vars

\* While a slot holder searches, the stored set is not a current one that an
\* earlier holder of the same worker's slot resolved: waiting for a resolution
\* spares the second walk of the export.
SlotSparesSearch ==
    \A c \in Callers :
        pc[c] = "search" /\ phase[c] = "holding" =>
            ~(Current(stored) /\ stored.by = WorkerOf[c])

\* The cache never holds a set of a designation that has no stored one: losing
\* the cache loses nothing.
CachedIsStored == cached # NoSet => stored # NoSet
=============================================================================
