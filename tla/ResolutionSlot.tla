--------------------------- MODULE ResolutionSlot ---------------------------
(***************************************************************************)
(* What the single-flight registry of one worker process promises the      *)
(* lookups that go through it: one resolution of a designation holds its   *)
(* slot at a time, a lookup that finds the slot taken waits for it, and a  *)
(* lookup whose wait runs out goes ahead without the slot rather than      *)
(* being refused.  How the registry keeps this promise (a guarded          *)
(* dictionary of reference-counted locks) is SingleFlight's business.      *)
(***************************************************************************)

CONSTANTS
    Threads,        \* the threads of the worker that look designations up
    Designations,   \* the normalized designations they look up
    NoDesignation   \* no designation

VARIABLES
    phase,          \* where each thread stands with respect to its slot
    want            \* the designation each thread resolves

vars == <<phase, want>>

Phases == {"out", "waiting", "holding", "overdue"}

TypeOK ==
    /\ phase \in [Threads -> Phases]
    /\ want \in [Threads -> Designations \cup {NoDesignation}]

Holders(d) == {t \in Threads : phase[t] = "holding" /\ want[t] = d}

Init ==
    /\ phase = [t \in Threads |-> "out"]
    /\ want = [t \in Threads |-> NoDesignation]

\* A lookup asks for the slot of its designation.
Arrive(t, d) ==
    /\ phase[t] = "out"
    /\ phase' = [phase EXCEPT ![t] = "waiting"]
    /\ want' = [want EXCEPT ![t] = d]

\* It gets the slot, which nobody holds.
Take(t) ==
    /\ phase[t] = "waiting"
    /\ Holders(want[t]) = {}
    /\ phase' = [phase EXCEPT ![t] = "holding"]
    /\ UNCHANGED want

\* Its wait runs out while another lookup holds the slot.
GoAhead(t) ==
    /\ phase[t] = "waiting"
    /\ Holders(want[t]) # {}
    /\ phase' = [phase EXCEPT ![t] = "overdue"]
    /\ UNCHANGED want

\* Its resolution is over, however it ended.
Leave(t) ==
    /\ phase[t] \in {"holding", "overdue"}
    /\ phase' = [phase EXCEPT ![t] = "out"]
    /\ want' = [want EXCEPT ![t] = NoDesignation]

Next ==
    \E t \in Threads :
        \/ \E d \in Designations : Arrive(t, d)
        \/ Take(t)
        \/ GoAhead(t)
        \/ Leave(t)

Spec == Init /\ [][Next]_vars
=============================================================================
