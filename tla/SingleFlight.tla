---------------------------- MODULE SingleFlight ----------------------------
(***************************************************************************)
(* The registry _ResolutionSingleFlight of domain/services/                *)
(* spectrum_service.py, as the threads of one worker process run it.       *)
(*                                                                         *)
(* The registry maps a designation to a slot: a lock and the number of     *)
(* threads that hold a reference to it.  _claim and _discard run under the *)
(* registry's guard and are one step each; the lock itself is taken, timed *)
(* out on and released outside the guard, so those steps interleave with   *)
(* every claim and discard.                                                *)
(***************************************************************************)
EXTENDS Naturals, FiniteSets

CONSTANTS
    Threads,        \* the worker's threads
    Designations,   \* the normalized designations (the registry's keys)
    NoDesignation,  \* no designation
    Locks,          \* the lock objects threading.Lock() can return
    NoLock,         \* no lock object
    BoundedWait     \* whether wait_seconds is positive

ASSUME ThreadsFinite == IsFiniteSet(Threads)
ASSUME WaitIsFlag == BoundedWait \in BOOLEAN
ASSUME NoValues == NoDesignation \notin Designations /\ NoLock \notin Locks

VARIABLES
    slots,          \* self._slots: designation -> slot, or NoSlot
    locked,         \* which lock objects are locked
    pc,             \* where each thread stands in hold()
    key,            \* the designation each thread passed to hold()
    mine,           \* the lock _claim returned to each thread
    held            \* the flag hold() yields

vars == <<slots, locked, pc, key, mine, held>>

NoSlot == [lock |-> NoLock, refs |-> 0]

Slot == [lock : Locks, refs : Nat \ {0}]

PCs == {"idle", "claimed", "inside", "leaving"}

TypeOK ==
    /\ slots \in [Designations -> Slot \cup {NoSlot}]
    /\ locked \in [Locks -> BOOLEAN]
    /\ pc \in [Threads -> PCs]
    /\ key \in [Threads -> Designations \cup {NoDesignation}]
    /\ mine \in [Threads -> Locks \cup {NoLock}]
    /\ held \in [Threads -> BOOLEAN]

-----------------------------------------------------------------------------

\* The threads with a reference to the slot of d: from _claim to _discard.
Claimants(d) == {t \in Threads : pc[t] # "idle" /\ key[t] = d}

\* A new lock object is one that nothing refers to any more.
Fresh(l) ==
    /\ \A d \in Designations : slots[d].lock # l
    /\ \A t \in Threads : pc[t] # "idle" => mine[t] # l

Holding(t) == pc[t] = "inside" /\ held[t]

-----------------------------------------------------------------------------

Init ==
    /\ slots = [d \in Designations |-> NoSlot]
    /\ locked = [l \in Locks |-> FALSE]
    /\ pc = [t \in Threads |-> "idle"]
    /\ key = [t \in Threads |-> NoDesignation]
    /\ mine = [t \in Threads |-> NoLock]
    /\ held = [t \in Threads |-> FALSE]

\* Registering and dropping a reference (the bodies under self._guard).
Uncounted(slot) == slot                     \* mutant: the claim is not counted
Reference(slot) == [slot EXCEPT !.refs = @ + 1]

NeverPopped(slot) ==                        \* mutant: the last one leaves a slot
    [slot EXCEPT !.refs = @ - 1]
AlwaysPopped(slot) == NoSlot                \* mutant: any discard forgets the lock
Dereference(slot) ==
    IF slot.refs > 1 THEN [slot EXCEPT !.refs = @ - 1] ELSE NoSlot

\* _claim on a designation nobody resolves: a new lock with one reference.
ClaimNew(t, d) ==
    /\ pc[t] = "idle"
    /\ slots[d] = NoSlot
    /\ \E l \in Locks :
        /\ Fresh(l)
        /\ slots' = [slots EXCEPT ![d] = [lock |-> l, refs |-> 1]]
        /\ locked' = [locked EXCEPT ![l] = FALSE]
        /\ mine' = [mine EXCEPT ![t] = l]
    /\ pc' = [pc EXCEPT ![t] = "claimed"]
    /\ key' = [key EXCEPT ![t] = d]
    /\ UNCHANGED held

\* _claim on a designation already being resolved: one more reference.
ClaimShared(t, d) ==
    /\ pc[t] = "idle"
    /\ slots[d] # NoSlot
    /\ slots' = [slots EXCEPT ![d] = Reference(slots[d])]
    /\ mine' = [mine EXCEPT ![t] = slots[d].lock]
    /\ pc' = [pc EXCEPT ![t] = "claimed"]
    /\ key' = [key EXCEPT ![t] = d]
    /\ UNCHANGED <<locked, held>>

\* lock.acquire(timeout) succeeds.
Acquire(t) ==
    /\ pc[t] = "claimed"
    /\ ~locked[mine[t]]
    /\ locked' = [locked EXCEPT ![mine[t]] = TRUE]
    /\ held' = [held EXCEPT ![t] = TRUE]
    /\ pc' = [pc EXCEPT ![t] = "inside"]
    /\ UNCHANGED <<slots, key, mine>>

WaitForEver(t) == FALSE                     \* mutant: acquire() with no timeout

\* lock.acquire(timeout) runs out of time: the thread goes on without it.
TimeOut(t) ==
    /\ BoundedWait
    /\ pc[t] = "claimed"
    /\ locked[mine[t]]
    /\ held' = [held EXCEPT ![t] = FALSE]
    /\ pc' = [pc EXCEPT ![t] = "inside"]
    /\ UNCHANGED <<slots, locked, key, mine>>

ReleaseAnyway(t) ==                         \* mutant: release() whether held or not
    /\ pc[t] = "inside"
    /\ locked' = [locked EXCEPT ![mine[t]] = FALSE]
    /\ pc' = [pc EXCEPT ![t] = "leaving"]
    /\ UNCHANGED <<slots, key, mine, held>>

\* The block ends, normally or not: "if held: lock.release()".
Release(t) ==
    /\ pc[t] = "inside"
    /\ locked' = IF held[t] THEN [locked EXCEPT ![mine[t]] = FALSE] ELSE locked
    /\ pc' = [pc EXCEPT ![t] = "leaving"]
    /\ UNCHANGED <<slots, key, mine, held>>

\* _discard, which forgets the lock with the last reference.
Discard(t) ==
    /\ pc[t] = "leaving"
    /\ slots' = IF slots[key[t]] = NoSlot
                  THEN slots
                  ELSE [slots EXCEPT ![key[t]] = Dereference(@)]
    /\ pc' = [pc EXCEPT ![t] = "idle"]
    /\ key' = [key EXCEPT ![t] = NoDesignation]
    /\ mine' = [mine EXCEPT ![t] = NoLock]
    /\ held' = [held EXCEPT ![t] = FALSE]
    /\ UNCHANGED locked

Next ==
    \E t \in Threads :
        \/ \E d \in Designations : ClaimNew(t, d) \/ ClaimShared(t, d)
        \/ Acquire(t)
        \/ TimeOut(t)
        \/ Release(t)
        \/ Discard(t)

Spec == Init /\ [][Next]_vars

\* A thread that waits is eventually woken (by the lock or by its timeout),
\* and one inside the block or past it runs on: the resolution it performs is
\* bounded by the client's total deadline.  Nothing obliges a lookup to start.
Fairness ==
    \A t \in Threads :
        /\ WF_vars(Acquire(t) \/ TimeOut(t))
        /\ WF_vars(Release(t))
        /\ WF_vars(Discard(t))

FairSpec == Spec /\ Fairness

-----------------------------------------------------------------------------

\* Two threads never hold the slot of one designation together (the promise
\* of the class: "one resolution per normalized designation in flight").
OneHolder ==
    \A t, u \in Threads :
        Holding(t) /\ Holding(u) /\ key[t] = key[u] => t = u

\* The registry holds a slot exactly while somebody refers to it, its count
\* is the number of those threads, and all of them refer to the same lock: so
\* a lock is never forgotten under a waiter, nor kept for ever after the last.
SlotMatchesClaimants ==
    \A d \in Designations :
        /\ slots[d].refs = Cardinality(Claimants(d))
        /\ \A t \in Claimants(d) : slots[d] # NoSlot /\ mine[t] = slots[d].lock

\* A lookup that waits for a slot is not left waiting: it gets the slot or
\* its wait runs out.
WaiterProceeds ==
    \A t \in Threads : pc[t] = "claimed" ~> pc[t] = "inside"

\* The registry implements the slots of ResolutionSlot.
Phase(t) ==
    IF pc[t] \in {"idle", "leaving"} THEN "out"
    ELSE IF pc[t] = "claimed" THEN "waiting"
    ELSE IF held[t] THEN "holding" ELSE "overdue"

Wanted(t) == IF Phase(t) = "out" THEN NoDesignation ELSE key[t]

Slots == INSTANCE ResolutionSlot WITH
    phase <- [t \in Threads |-> Phase(t)],
    want <- [t \in Threads |-> Wanted(t)]

SlotsSpec == Slots!Spec
=============================================================================
