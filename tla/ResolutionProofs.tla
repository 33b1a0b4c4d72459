------------------------- MODULE ResolutionProofs --------------------------
(***************************************************************************)
(* Proofs about Resolution, for any request threads of any workers and any *)
(* durations: how old a served set can be, that a stored set survives an   *)
(* outage, that the cache holds nothing the database does not, that a      *)
(* refusal expires, and that the slot spares the second search.            *)
(*                                                                         *)
(* The argument: a set is stamped when its search ends, which is within    *)
(* the deadline, and keeps the stamp through every store and every hand    *)
(* (Stamped); the stored row is replaced and never removed; and a set that *)
(* carries the name of a worker is in the hands of the holder of that      *)
(* worker's slot until it is stored, so nobody else's search sees it come. *)
(***************************************************************************)
EXTENDS Resolution, TLAPS

\* A set that was resolved by a search which ended by now, within the deadline.
Stamped(set, now) ==
    /\ set \in CandidateSet
    /\ set.asOf <= set.at /\ set.at <= set.asOf + Deadline
    /\ set.at <= now

OneHolder ==
    \A c, d \in Callers :
        phase[c] = "holding" /\ phase[d] = "holding" /\ WorkerOf[c] = WorkerOf[d] => c = d

SharedInv ==
    /\ stored # NoSet => Stamped(stored, clock)
    /\ cached # NoSet => stored # NoSet /\ Stamped(cached, clock)
    /\ refusal # NoTime => lastRefusal # NoTime /\ refusal <= lastRefusal
    /\ lastRefusal # NoTime => lastRefusal <= clock

\* What a caller has in hand.
FoundInv(c) ==
    /\ found[c] # NoSet => Stamped(found[c], clock)
    /\ pc[c] \in {"writeback", "save", "cacheset"} => found[c] # NoSet
    /\ pc[c] \in {"writeback", "cacheset"} => stored # NoSet
    /\ pc[c] = "save" /\ found[c].by # NoWorker =>
        found[c].by = WorkerOf[c] /\ phase[c] = "holding"

\* What holds while it searches.
SearchInv(c) ==
    pc[c] = "search" =>
        /\ since[c] <= clock /\ clock <= since[c] + Deadline
        /\ phase[c] = "holding" => ~(Current(stored) /\ stored.by = WorkerOf[c])

\* How it ends.
EndInv(c) ==
    /\ hadSet[c] => stored # NoSet
    /\ outcome[c] # "none" => pc[c] \in {"leave", "done"}
    /\ outcome[c] = "unreachable" => ~hadSet[c]

CallerInv(c) == FoundInv(c) /\ SearchInv(c) /\ EndInv(c)

IInv ==
    /\ TypeOK
    /\ OneHolder
    /\ SharedInv
    /\ \A c \in Callers : CallerInv(c)

\* The other callers are where they were.
OthersStay(c) ==
    \A d \in Callers \ {c} :
        /\ phase'[d] = phase[d] /\ pc'[d] = pc[d] /\ found'[d] = found[d]
        /\ since'[d] = since[d] /\ outcome'[d] = outcome[d] /\ hadSet'[d] = hadSet[d]

-----------------------------------------------------------------------------
(* What the pieces of the steps do.                                         *)

LEMMA GotoFacts ==
    ASSUME TypeOK, NEW c \in Callers, NEW label \in PCs, Goto(c, label)
    PROVE  /\ pc' \in [Callers -> PCs] /\ pc'[c] = label
           /\ \A d \in Callers \ {c} : pc'[d] = pc[d]
BY DEF TypeOK, Goto

LEMMA OutFacts ==
    ASSUME NEW c \in Callers
    PROVE  Out(c) \in {"leave", "done"}
BY DEF Out

LEMMA EndFacts ==
    ASSUME TypeOK, NEW c \in Callers, NEW why \in Outcomes, End(c, why)
    PROVE  /\ outcome' \in [Callers -> Outcomes] /\ outcome'[c] = why
           /\ found' \in [Callers -> CandidateSet \cup {NoSet}] /\ found'[c] = NoSet
           /\ hadSet' \in [Callers -> BOOLEAN]
           /\ hadSet'[c] => hadSet[c] /\ why = "unreachable"
           /\ \A d \in Callers \ {c} : /\ outcome'[d] = outcome[d]
                                       /\ found'[d] = found[d]
                                       /\ hadSet'[d] = hadSet[d]
<1>1. (hadSet[c] /\ why = "unreachable") \in BOOLEAN
  OBVIOUS
<1>2. hadSet' = [hadSet EXCEPT ![c] = hadSet[c] /\ why = "unreachable"]
  BY DEF End
<1>3. hadSet' \in [Callers -> BOOLEAN]
  BY <1>1, <1>2 DEF TypeOK
<1>4. hadSet'[c] <=> hadSet[c] /\ why = "unreachable"
  BY <1>2, Zenon DEF TypeOK
<1>5. \A d \in Callers \ {c} : hadSet'[d] = hadSet[d]
  BY <1>2 DEF TypeOK
<1> QED
  BY <1>3, <1>4, <1>5 DEF TypeOK, End

LEMMA SinceFacts ==
    ASSUME TypeOK, NEW c \in Callers, NEW time \in Nat, since' = [since EXCEPT ![c] = time]
    PROVE  /\ since' \in [Callers -> Nat] /\ since'[c] = time
           /\ \A d \in Callers \ {c} : since'[d] = since[d]
BY DEF TypeOK

LEMMA FoundFacts ==
    ASSUME TypeOK, NEW c \in Callers, NEW set \in CandidateSet, found' = [found EXCEPT ![c] = set]
    PROVE  /\ found' \in [Callers -> CandidateSet \cup {NoSet}] /\ found'[c] = set
           /\ \A d \in Callers \ {c} : found'[d] = found[d]
BY DEF TypeOK

\* The slot of a worker.
LEMMA SlotFacts ==
    ASSUME TypeOK, NEW c \in Callers, NEW p \in {"out", "waiting", "holding", "overdue"},
           phase' = [phase EXCEPT ![c] = p]
    PROVE  /\ phase' \in [Callers -> {"out", "waiting", "holding", "overdue"}] /\ phase'[c] = p
           /\ \A d \in Callers \ {c} : phase'[d] = phase[d]
BY DEF TypeOK

LEMMA ClockFacts == TypeOK => clock \in Nat
BY Durations DEF TypeOK

-----------------------------------------------------------------------------
(* One caller's step leaves the invariant to the others.                    *)

\* What a caller's step may do to the stored row.
StoredStep(c) ==
    \/ stored' = stored
    \/ pc[c] = "save" /\ stored' = found[c]

LEMMA StoredStays ==
    ASSUME IInv, NEW c \in Callers, StoredStep(c)
    PROVE  stored # NoSet => stored' # NoSet
BY DEF IInv, CallerInv, FoundInv, StoredStep

LEMMA OthersKeep ==
    ASSUME IInv, NEW c \in Callers, clock' = clock, OthersStay(c), StoredStep(c),
           NEW d \in Callers \ {c}
    PROVE  CallerInv(d)'
<1>1. /\ phase'[d] = phase[d] /\ pc'[d] = pc[d] /\ found'[d] = found[d]
      /\ since'[d] = since[d] /\ outcome'[d] = outcome[d] /\ hadSet'[d] = hadSet[d]
  BY DEF OthersStay
<1>2. FoundInv(d) /\ SearchInv(d) /\ EndInv(d)
  BY DEF IInv, CallerInv
<1>3. FoundInv(d)'
  BY <1>1, <1>2, StoredStays DEF FoundInv
<1>4. EndInv(d)'
  BY <1>1, <1>2, StoredStays DEF EndInv
<1>5. SearchInv(d)'
  <2>1. CASE stored' = stored
    BY <1>1, <1>2, <2>1 DEF SearchInv, Current
  <2>2. CASE pc[c] = "save" /\ stored' = found[c]
    <3>1. stored'.by # NoWorker => stored'.by = WorkerOf[c] /\ phase[c] = "holding"
      BY <2>2 DEF IInv, CallerInv, FoundInv
    <3>2. phase[d] = "holding" /\ phase[c] = "holding" => WorkerOf[c] # WorkerOf[d]
      BY DEF IInv, OneHolder
    <3>3. WorkerOf[d] # NoWorker
      BY WorkerOfCaller, NoSuchValues
    <3> QED
      BY <1>1, <1>2, <3>1, <3>2, <3>3 DEF SearchInv
  <2> QED
    BY <2>1, <2>2 DEF StoredStep
<1> QED
  BY <1>3, <1>4, <1>5 DEF CallerInv

LEMMA LocalStep ==
    ASSUME IInv, NEW c \in Callers, clock' = clock, OthersStay(c), StoredStep(c),
           TypeOK', OneHolder', SharedInv', CallerInv(c)'
    PROVE  IInv'
BY OthersKeep DEF IInv

\* Steps that touch no shared store and no slot.
LEMMA QuietStep ==
    ASSUME IInv, NEW c \in Callers, UNCHANGED <<clock, shared, phase, lastRefusal>>,
           OthersStay(c), TypeOK', CallerInv(c)'
    PROVE  IInv'
<1>1. SharedInv' /\ OneHolder'
  BY DEF IInv, SharedInv, OneHolder, shared
<1> QED
  BY <1>1, LocalStep DEF StoredStep, shared

-----------------------------------------------------------------------------
(* The steps before a search.                                               *)

\* A lookup that is over has nothing left to answer for.
LEMMA OverIsQuiet ==
    ASSUME IInv, NEW c \in Callers, pc'[c] \in {"leave", "done"}, found'[c] = NoSet,
           hadSet'[c] => stored' # NoSet, outcome'[c] = "unreachable" => ~hadSet'[c]
    PROVE  CallerInv(c)'
BY DEF CallerInv, FoundInv, SearchInv, EndInv

LEMMA CacheSteps ==
    ASSUME IInv, NEW c \in Callers, CacheHit(c) \/ CacheMiss(c)
    PROVE  IInv'
<1>1. TypeOK /\ CallerInv(c)
  BY DEF IInv
<1>2. CASE CacheHit(c)
  <2>1. /\ End(c, "set") /\ Goto(c, Out(c))
        /\ UNCHANGED <<clock, shared, phase, since, lastRefusal>>
    BY <1>2 DEF CacheHit
  <2>2. "set" \in Outcomes /\ Out(c) \in PCs
    BY OutFacts DEF Outcomes, PCs
  <2>3. TypeOK' /\ OthersStay(c)
    BY <1>1, <2>1, <2>2, EndFacts, GotoFacts DEF TypeOK, shared, OthersStay
  <2>4. CallerInv(c)'
    BY <1>1, <2>1, <2>2, EndFacts, GotoFacts, OutFacts, OverIsQuiet
  <2> QED
    BY <2>1, <2>3, <2>4, QuietStep
<1>3. CASE CacheMiss(c)
  <2>1. /\ Goto(c, "stored") /\ UNCHANGED <<clock, shared, phase, found, since, outcome, lastRefusal>>
        /\ pc[c] = "cache"
    BY <1>3 DEF CacheMiss
  <2>2. /\ hadSet' \in [Callers -> BOOLEAN]
        /\ hadSet'[c] => stored # NoSet
        /\ \A d \in Callers \ {c} : hadSet'[d] = hadSet[d]
    <3>1. (stored # NoSet) \in BOOLEAN
      OBVIOUS
    <3>2. CASE phase[c] = "out"
      <4>1. hadSet' = [hadSet EXCEPT ![c] = stored # NoSet]
        BY <1>3, <3>2 DEF CacheMiss
      <4>2. hadSet' \in [Callers -> BOOLEAN] /\ \A d \in Callers \ {c} : hadSet'[d] = hadSet[d]
        BY <1>1, <3>1, <4>1 DEF TypeOK
      <4>3. hadSet'[c] <=> stored # NoSet
        BY <1>1, <4>1, Zenon DEF TypeOK
      <4> QED
        BY <4>2, <4>3
    <3>3. CASE phase[c] # "out"
      BY <1>1, <1>3, <3>3 DEF CacheMiss, TypeOK, CallerInv, EndInv
    <3> QED
      BY <3>2, <3>3
  <2>3. "stored" \in PCs
    BY DEF PCs
  <2>4. TypeOK' /\ OthersStay(c) /\ pc'[c] = "stored"
    BY <1>1, <2>1, <2>2, <2>3, GotoFacts DEF TypeOK, shared, OthersStay
  <2>5. CallerInv(c)'
    BY <1>1, <2>1, <2>2, <2>4 DEF CallerInv, FoundInv, SearchInv, EndInv, shared
  <2> QED
    BY <2>1, <2>4, <2>5, QuietStep
<1> QED
  BY <1>2, <1>3

LEMMA StoredCurrentStep ==
    ASSUME IInv, NEW c \in Callers, StoredCurrent(c)
    PROVE  IInv'
<1>1. TypeOK /\ CallerInv(c) /\ SharedInv
  BY DEF IInv
<1>2. /\ Goto(c, "writeback") /\ found' = [found EXCEPT ![c] = stored]
      /\ UNCHANGED <<clock, shared, phase, since, outcome, hadSet, lastRefusal>>
      /\ pc[c] = "stored"
  BY DEF StoredCurrent, history
<1>3. stored # NoSet /\ stored \in CandidateSet /\ "writeback" \in PCs
  BY <1>1 DEF StoredCurrent, Current, TypeOK, PCs
<1>4. TypeOK' /\ OthersStay(c) /\ pc'[c] = "writeback" /\ found'[c] = stored
  BY <1>1, <1>2, <1>3, GotoFacts, FoundFacts DEF TypeOK, shared, OthersStay
<1>5. CallerInv(c)'
  BY <1>1, <1>2, <1>3, <1>4 DEF CallerInv, FoundInv, SearchInv, EndInv, SharedInv, shared
<1> QED
  BY <1>2, <1>4, <1>5, QuietStep

LEMMA WriteBackStep ==
    ASSUME IInv, NEW c \in Callers, WriteBack(c)
    PROVE  IInv'
<1>1. TypeOK /\ CallerInv(c) /\ SharedInv
  BY DEF IInv
<1>2. /\ End(c, "set") /\ Goto(c, Out(c)) /\ cached' \in {found[c], cached}
      /\ UNCHANGED <<clock, stored, refusal, phase, since, lastRefusal>>
      /\ pc[c] = "writeback"
  BY DEF WriteBack, CacheCopy
<1>3. "set" \in Outcomes /\ Out(c) \in PCs
  BY OutFacts DEF Outcomes, PCs
<1>4. stored # NoSet /\ Stamped(found[c], clock)
  BY <1>1, <1>2 DEF CallerInv, FoundInv
<1>5. TypeOK' /\ OthersStay(c)
  BY <1>1, <1>2, <1>3, <1>4, EndFacts, GotoFacts DEF TypeOK, OthersStay, Stamped
<1>6. SharedInv' /\ OneHolder'
  BY <1>1, <1>2, <1>4 DEF IInv, SharedInv, OneHolder
<1>7. CallerInv(c)'
  BY <1>1, <1>2, <1>3, EndFacts, GotoFacts, OutFacts, OverIsQuiet
<1> QED
  BY <1>2, <1>5, <1>6, <1>7, LocalStep DEF StoredStep

-----------------------------------------------------------------------------
(* The slot.                                                                *)

\* Only TakeSlot makes a holder, and it finds none of the same worker.
LEMMA HoldersStay ==
    ASSUME IInv, NEW c \in Callers, NEW p \in {"out", "waiting", "holding", "overdue"},
           phase' = [phase EXCEPT ![c] = p],
           p = "holding" => \A d \in Callers :
                phase[d] = "holding" => WorkerOf[d] # WorkerOf[c]
    PROVE  OneHolder'
BY SlotFacts DEF IInv, OneHolder

LEMMA HoldersAre ==
    ASSUME NEW w \in Workers
    PROVE  Slot!Holders(w) = {d \in Callers : phase[d] = "holding" /\ WorkerOf[d] = w}
BY DEF Slot!Holders

\* A step of a caller that is not searching, with nothing in hand, between the
\* slot's phases.
LEMMA PhaseStep ==
    ASSUME IInv, NEW c \in Callers, NEW p \in {"out", "waiting", "holding", "overdue"},
           NEW time \in Nat, NEW label \in {"wait", "refusal", "done"},
           phase' = [phase EXCEPT ![c] = p], OneHolder',
           since' = [since EXCEPT ![c] = time] \/ since' = since, Goto(c, label),
           label = "done" \/ pc[c] \in {"stored", "wait"},
           UNCHANGED <<clock, shared, found, outcome, history>>
    PROVE  IInv'
<1>1. TypeOK /\ CallerInv(c) /\ SharedInv
  BY DEF IInv
<1>2. label \in PCs
  BY DEF PCs
<1>3. TypeOK' /\ OthersStay(c) /\ pc'[c] = label
  BY <1>1, <1>2, SlotFacts, SinceFacts, GotoFacts DEF TypeOK, OthersStay, shared, history
<1>4. CallerInv(c)'
  BY <1>1, <1>3 DEF CallerInv, FoundInv, SearchInv, EndInv, shared, history
<1>5. SharedInv'
  BY <1>1 DEF SharedInv, shared, history
<1> QED
  BY <1>3, <1>4, <1>5, LocalStep DEF StoredStep, shared

LEMMA SlotSteps ==
    ASSUME IInv, NEW c \in Callers,
           ClaimSlot(c) \/ TakeSlot(c) \/ WaitRunsOut(c) \/ LeaveSlot(c)
    PROVE  IInv'
<1>1. WorkerOf[c] \in Workers /\ WorkerOf[c] # NoWorker /\ clock \in Nat /\ TypeOK
  BY WorkerOfCaller, NoSuchValues, ClockFacts DEF IInv
<1>2. CASE ClaimSlot(c)
  <2>1. /\ phase' = [phase EXCEPT ![c] = "waiting"] /\ since' = [since EXCEPT ![c] = clock]
        /\ Goto(c, "wait") /\ pc[c] = "stored"
        /\ UNCHANGED <<clock, shared, found, outcome, history>>
    BY <1>2 DEF ClaimSlot, Slot!Arrive
  <2>2. OneHolder'
    BY <2>1, HoldersStay
  <2> QED
    BY <1>1, <2>1, <2>2, PhaseStep
<1>3. CASE TakeSlot(c)
  <2>1. /\ phase' = [phase EXCEPT ![c] = "holding"] /\ since' = [since EXCEPT ![c] = 0]
        /\ Goto(c, "refusal") /\ pc[c] = "wait" /\ phase[c] = "waiting"
        /\ UNCHANGED <<clock, shared, found, outcome, history>>
    BY <1>3 DEF TakeSlot, Slot!Take
  <2>2. Slot!Holders(WorkerOf[c]) = {}
    BY <1>3, <2>1 DEF TakeSlot, Slot!Take
  <2>3. OneHolder'
    BY <1>1, <2>1, <2>2, HoldersAre, HoldersStay
  <2> QED
    BY <2>1, <2>3, PhaseStep
<1>4. CASE WaitRunsOut(c)
  <2>1. /\ phase' = [phase EXCEPT ![c] = "overdue"] /\ since' = [since EXCEPT ![c] = 0]
        /\ Goto(c, "refusal") /\ pc[c] = "wait"
        /\ UNCHANGED <<clock, shared, found, outcome, history>>
    BY <1>4 DEF WaitRunsOut, Slot!GoAhead
  <2>2. OneHolder'
    BY <2>1, HoldersStay
  <2> QED
    BY <2>1, <2>2, PhaseStep
<1>5. CASE LeaveSlot(c)
  <2>1. /\ phase' = [phase EXCEPT ![c] = "out"] /\ Goto(c, "done")
        /\ UNCHANGED <<clock, shared, found, since, outcome, history>>
    BY <1>5 DEF LeaveSlot, Slot!Leave
  <2>2. OneHolder'
    BY <2>1, HoldersStay
  <2> QED
    BY <1>1, <2>1, <2>2, PhaseStep
<1> QED
  BY <1>2, <1>3, <1>4, <1>5

-----------------------------------------------------------------------------
(* The resolution.                                                          *)

\* Steps that end a lookup and change no set.
LEMMA EndStep ==
    ASSUME IInv, NEW c \in Callers, NEW why \in Outcomes \ {"none"}, End(c, why),
           NEW label \in {"leave", "done"}, Goto(c, label),
           why = "unreachable" => ~hadSet[c],
           since' = since \/ EndSearch(c),
           UNCHANGED <<clock, stored, cached, phase>>,
           refusal' \in Nat \cup {NoTime}, lastRefusal' \in Nat \cup {NoTime},
           refusal' # NoTime => lastRefusal' # NoTime /\ refusal' <= lastRefusal',
           lastRefusal' # NoTime => lastRefusal' <= clock
    PROVE  IInv'
<1>1. TypeOK /\ CallerInv(c) /\ label \in PCs
  BY DEF IInv, PCs
<1>2. /\ since' \in [Callers -> Nat]
      /\ \A d \in Callers \ {c} : since'[d] = since[d]
  BY <1>1, SinceFacts DEF EndSearch, TypeOK
<1>3. TypeOK' /\ OthersStay(c)
  BY <1>1, <1>2, EndFacts, GotoFacts DEF TypeOK, OthersStay
<1>4. SharedInv' /\ OneHolder'
  BY DEF IInv, SharedInv, OneHolder
<1>5. CallerInv(c)'
  <2>1. hadSet'[c] => hadSet[c] /\ why = "unreachable"
    BY <1>1, EndFacts
  <2>2. pc'[c] = label /\ found'[c] = NoSet
    BY <1>1, EndFacts, GotoFacts
  <2> QED
    BY <2>1, <2>2, OverIsQuiet
<1> QED
  BY <1>3, <1>4, <1>5, LocalStep DEF StoredStep

LEMMA EndSteps ==
    ASSUME IInv, NEW c \in Callers,
           \/ RefuseFromCache(c) \/ SearchRefuses(c) \/ ServeAged(c) \/ Unreachable(c)
           \/ ClearRefusal(c) \/ StoreFails(c)
    PROVE  IInv'
<1>1. TypeOK /\ CallerInv(c) /\ SharedInv /\ clock \in Nat
  BY ClockFacts DEF IInv
<1>2. {"set", "refused", "unreachable", "storage_error"} \subseteq Outcomes \ {"none"}
  BY DEF Outcomes
<1>3. Out(c) \in {"leave", "done"}
  BY OutFacts
<1>4. /\ refusal \in Nat \cup {NoTime} /\ lastRefusal \in Nat \cup {NoTime}
      /\ refusal # NoTime => lastRefusal # NoTime /\ refusal <= lastRefusal
      /\ lastRefusal # NoTime => lastRefusal <= clock
  BY <1>1 DEF TypeOK, SharedInv
<1>5. CASE RefuseFromCache(c)
  BY <1>2, <1>4, <1>5, EndStep DEF RefuseFromCache, shared
<1>6. CASE SearchRefuses(c)
  <2>1. refusal' \in {refusal, clock} /\ lastRefusal' = clock
    BY <1>6 DEF SearchRefuses
  <2>2. lastRefusal' # NoTime /\ lastRefusal' \in Nat
    BY <1>1, <2>1, NoSuchValues
  <2>3. /\ refusal' \in Nat \cup {NoTime}
        /\ refusal' # NoTime => refusal' <= lastRefusal'
    BY <1>1, <1>4, <2>1
  <2> QED
    BY <1>1, <1>2, <1>6, <2>1, <2>2, <2>3, EndStep DEF SearchRefuses
<1>7. CASE ServeAged(c)
  BY <1>2, <1>4, <1>7, EndStep DEF ServeAged, shared
<1>8. CASE Unreachable(c)
  <2>1. ~hadSet[c]
    BY <1>1, <1>8 DEF Unreachable, Fallback, CallerInv, EndInv
  <2> QED
    BY <1>2, <1>4, <1>8, <2>1, EndStep DEF Unreachable, shared
<1>9. CASE ClearRefusal(c)
  <2>1. refusal' \in {NoTime, refusal} /\ lastRefusal' = lastRefusal
    BY <1>9 DEF ClearRefusal
  <2> QED
    BY <1>2, <1>4, <1>9, <2>1, EndStep DEF ClearRefusal
<1>10. CASE StoreFails(c)
  BY <1>2, <1>3, <1>4, <1>10, EndStep DEF StoreFails, shared
<1> QED
  BY <1>5, <1>6, <1>7, <1>8, <1>9, <1>10

LEMMA LookAgainStep ==
    ASSUME IInv, NEW c \in Callers, LookAgain(c) \/ SearchUnreachable(c)
    PROVE  IInv'
<1>1. TypeOK /\ CallerInv(c)
  BY DEF IInv
<1>2. PICK label \in {"cache", "aged"} :
        /\ Goto(c, label) /\ pc[c] \in {"refusal", "search"}
        /\ since' = since \/ EndSearch(c)
        /\ UNCHANGED <<clock, shared, phase, found, outcome, history>>
  BY DEF LookAgain, SearchUnreachable
<1>3. TypeOK' /\ OthersStay(c) /\ pc'[c] = label
  BY <1>1, <1>2, GotoFacts, SinceFacts DEF TypeOK, OthersStay, EndSearch, shared, history, PCs
<1>4. CallerInv(c)'
  BY <1>1, <1>2, <1>3 DEF CallerInv, FoundInv, SearchInv, EndInv, shared, history
<1> QED
  BY <1>2, <1>3, <1>4, QuietStep DEF history

\* A search begins when the stored set is not current.
LEMMA BeginSearchStep ==
    ASSUME IInv, NEW c \in Callers, BeginSearch(c)
    PROVE  IInv'
<1>1. TypeOK /\ CallerInv(c) /\ clock \in Nat /\ "search" \in PCs
  BY ClockFacts DEF IInv, PCs
<1>2. /\ Goto(c, "search") /\ pc[c] = "stored" /\ ~Current(stored)
      /\ since' = [since EXCEPT ![c] = clock]
      /\ UNCHANGED <<clock, shared, phase, found, outcome, history>>
  BY DEF BeginSearch
<1>3. TypeOK' /\ OthersStay(c) /\ pc'[c] = "search" /\ since'[c] = clock
  BY <1>1, <1>2, GotoFacts, SinceFacts DEF TypeOK, OthersStay, shared, history
<1>4. SearchInv(c)'
  BY <1>1, <1>2, <1>3, Durations DEF SearchInv, Current, shared
<1>5. CallerInv(c)'
  BY <1>1, <1>2, <1>3, <1>4 DEF CallerInv, FoundInv, EndInv, shared, history
<1> QED
  BY <1>2, <1>3, <1>5, QuietStep DEF history

\* It ends within the deadline, and stamps what it found.
LEMMA SearchResolvesStep ==
    ASSUME IInv, NEW c \in Callers, SearchResolves(c)
    PROVE  IInv'
<1> DEFINE set == [at |-> clock, asOf |-> since[c],
                   by |-> IF phase[c] = "holding" THEN WorkerOf[c] ELSE NoWorker]
<1>1. TypeOK /\ CallerInv(c) /\ clock \in Nat /\ since[c] \in Nat /\ "save" \in PCs
  BY ClockFacts DEF IInv, PCs, TypeOK
<1>2. /\ found' = [found EXCEPT ![c] = set] /\ Goto(c, "save") /\ pc[c] = "search"
      /\ since' = [since EXCEPT ![c] = 0]
      /\ UNCHANGED <<clock, shared, phase, outcome, history>>
  BY DEF SearchResolves, AfterSearch, EndSearch
<1>3. set \in CandidateSet /\ set # NoSet
  BY <1>1, WorkerOfCaller, NoSuchValues DEF CandidateSet
<1>4. Stamped(set, clock)
  BY <1>1, <1>2, <1>3, Durations DEF Stamped, CallerInv, SearchInv
<1>5. set.by # NoWorker => set.by = WorkerOf[c] /\ phase[c] = "holding"
  OBVIOUS
<1> HIDE DEF set
<1>6. TypeOK' /\ OthersStay(c) /\ pc'[c] = "save" /\ found'[c] = set
  BY <1>1, <1>2, <1>3, GotoFacts, FoundFacts, SinceFacts DEF TypeOK, OthersStay, shared, history
<1>7. CallerInv(c)'
  BY <1>1, <1>2, <1>3, <1>4, <1>5, <1>6 DEF CallerInv, FoundInv, SearchInv, EndInv, shared, history
<1> QED
  BY <1>2, <1>6, <1>7, QuietStep DEF history

LEMMA SaveSteps ==
    ASSUME IInv, NEW c \in Callers, SaveSet(c) \/ CacheSet(c)
    PROVE  IInv'
<1>1. TypeOK /\ CallerInv(c) /\ SharedInv /\ {"cacheset", "clear"} \subseteq PCs
  BY DEF IInv, PCs
<1>2. /\ Stamped(found[c], clock) /\ found[c] # NoSet
      /\ UNCHANGED <<clock, refusal, phase, found, since, outcome, history>>
  BY <1>1 DEF SaveSet, CacheSet, CallerInv, FoundInv
<1>3. OneHolder'
  BY <1>2 DEF IInv, OneHolder
<1>4. CASE SaveSet(c)
  <2>1. stored' = found[c] /\ cached' = cached /\ Goto(c, "cacheset") /\ pc[c] = "save"
    BY <1>4 DEF SaveSet
  <2>2. TypeOK' /\ OthersStay(c) /\ pc'[c] = "cacheset"
    BY <1>1, <1>2, <2>1, GotoFacts DEF TypeOK, OthersStay, Stamped, history
  <2>3. SharedInv' /\ CallerInv(c)'
    BY <1>1, <1>2, <2>1, <2>2 DEF SharedInv, CallerInv, FoundInv, SearchInv, EndInv, history
  <2> QED
    BY <1>2, <1>3, <2>1, <2>2, <2>3, LocalStep DEF StoredStep
<1>5. CASE CacheSet(c)
  <2>1. /\ stored' = stored /\ cached' \in {found[c], cached} /\ Goto(c, "clear")
        /\ pc[c] = "cacheset"
    BY <1>5 DEF CacheSet
  <2>2. TypeOK' /\ OthersStay(c) /\ pc'[c] = "clear"
    BY <1>1, <1>2, <2>1, GotoFacts DEF TypeOK, OthersStay, Stamped, history
  <2>3. SharedInv' /\ CallerInv(c)'
    BY <1>1, <1>2, <2>1, <2>2 DEF SharedInv, CallerInv, FoundInv, SearchInv, EndInv, history
  <2> QED
    BY <1>2, <1>3, <2>1, <2>2, <2>3, LocalStep DEF StoredStep
<1> QED
  BY <1>4, <1>5

-----------------------------------------------------------------------------
(* Time, and the invariant.                                                 *)

\* A set only ages.
LEMMA AgedStaysAged ==
    ASSUME TypeOK, clock' = clock + 1, stored' = stored, ~Current(stored)
    PROVE  ~Current(stored)'
BY ClockFacts, Durations DEF TypeOK, Current, CandidateSet

LEMMA StampedStays ==
    ASSUME NEW now \in Nat, NEW set, Stamped(set, now)
    PROVE  Stamped(set, now + 1)
BY DEF Stamped, CandidateSet

LEMMA TickStep ==
    ASSUME IInv, Tick
    PROVE  IInv'
<1>1. /\ TypeOK /\ clock \in Nat /\ clock' = clock + 1
      /\ UNCHANGED <<stored, cached, refusal, phase, pc, found, since, outcome, hadSet, lastRefusal>>
  BY ClockFacts DEF IInv, Tick, shared, local, history
<1>2. TypeOK'
  BY <1>1, Durations DEF Tick, TypeOK
<1>3. OneHolder'
  BY <1>1 DEF IInv, OneHolder
<1>4. SharedInv'
  <2>1. lastRefusal # NoTime => lastRefusal \in Nat
    BY <1>1 DEF TypeOK
  <2> QED
    BY <1>1, <2>1, StampedStays DEF IInv, SharedInv
<1>5. ASSUME NEW c \in Callers
      PROVE  CallerInv(c)'
  <2>1. FoundInv(c) /\ SearchInv(c) /\ EndInv(c) /\ since[c] \in Nat
    BY <1>1 DEF IInv, CallerInv, TypeOK
  <2>2. FoundInv(c)'
    BY <1>1, <2>1, StampedStays DEF FoundInv
  <2>3. EndInv(c)'
    BY <1>1, <2>1 DEF EndInv
  <2>4. pc[c] = "search" => clock - since[c] < Deadline
    BY DEF Tick
  <2>5. pc[c] = "search" => since[c] <= clock + 1 /\ clock + 1 <= since[c] + Deadline
    BY <1>1, <2>1, <2>4, Durations DEF SearchInv
  <2>6. SearchInv(c)'
    BY <1>1, <2>1, <2>5, AgedStaysAged DEF SearchInv
  <2> QED
    BY <2>2, <2>3, <2>6 DEF CallerInv
<1> QED
  BY <1>2, <1>3, <1>4, <1>5 DEF IInv

LEMMA IInvStep ==
    ASSUME IInv, [Next \/ Terminated]_vars
    PROVE  IInv'
<1>1. ASSUME NEW c \in Callers, Lookup(c)
      PROVE  IInv'
  BY <1>1, CacheSteps, StoredCurrentStep, WriteBackStep, SlotSteps, EndSteps, LookAgainStep,
     BeginSearchStep, SearchResolvesStep, SaveSteps DEF Lookup
<1>2. CASE UNCHANGED vars
  BY <1>2 DEF vars, shared, local, history, IInv, TypeOK, OneHolder, SharedInv, CallerInv,
              FoundInv, SearchInv, EndInv, Current
<1> QED
  BY <1>1, <1>2, TickStep DEF Next, Terminated

LEMMA IInvInit == Init => IInv
<1> SUFFICES ASSUME Init
             PROVE  IInv
  OBVIOUS
<1>1. stored \in CandidateSet \cup {NoSet}
  BY DEF Init, CandidateSet
<1>2. TypeOK
  BY <1>1, Durations DEF Init, TypeOK, PCs, Outcomes
<1>3. stored # NoSet => Stamped(stored, clock)
  BY <1>1, Durations DEF Init, Stamped
<1> QED
  BY <1>2, <1>3 DEF Init, IInv, OneHolder, SharedInv, CallerInv, FoundInv, SearchInv, EndInv

-----------------------------------------------------------------------------
(* The theorems.                                                            *)

\* Whatever the callers of the workers read and write in between, whichever stores
\* fail, every set is as old as its stamp says, and a caller that searches under its
\* worker's slot has no earlier holder's set to find.
THEOREM ResolutionInvariant == Spec => []IInv
BY IInvInit, IInvStep, PTL DEF Spec

\* The types that the runs check.
THEOREM ResolutionTyped == Spec => []TypeOK
<1>1. IInv => TypeOK
  BY DEF IInv
<1> QED
  BY <1>1, ResolutionInvariant, PTL

\* A lookup of a designation with a stored set does not end because WISeREP is
\* unreachable: the row is replaced and never removed, and any age will do.
THEOREM OutageSurvived == Spec => []StoredSetSurvivesOutage
<1>1. IInv => StoredSetSurvivesOutage
  BY DEF IInv, CallerInv, EndInv, StoredSetSurvivesOutage
<1> QED
  BY <1>1, ResolutionInvariant, PTL

\* Who holds the slot of its worker and searches has no set to wait for: the
\* second look comes after the wait.
THEOREM SearchSpared == Spec => []SlotSparesSearch
<1>1. IInv => SlotSparesSearch
  BY DEF IInv, CallerInv, SearchInv, SlotSparesSearch
<1> QED
  BY <1>1, ResolutionInvariant, PTL

\* The cache holds a set only where the database does: the row is written first.
THEOREM CacheFollowsStore == Spec => []CachedIsStored
<1>1. IInv => CachedIsStored
  BY DEF IInv, SharedInv, CachedIsStored
<1> QED
  BY <1>1, ResolutionInvariant, PTL

-----------------------------------------------------------------------------
(* The action properties.                                                   *)

\* A lookup that has not ended has no outcome, and gets one by a step of its own.
LEMMA OwnOutcome ==
    ASSUME IInv, [Next \/ Terminated]_vars, NEW c \in Callers,
           outcome'[c] # outcome[c] \/ pc'[c] # pc[c]
    PROVE  Lookup(c)
<1>1. ASSUME NEW d \in Callers, Lookup(d), c # d
      PROVE  outcome'[c] = outcome[c] /\ pc'[c] = pc[c]
  BY <1>1 DEF Lookup, CacheHit, CacheMiss, StoredCurrent, WriteBack, ClaimSlot, TakeSlot,
     WaitRunsOut, LeaveSlot, RefuseFromCache, LookAgain, BeginSearch, SearchResolves,
     SearchRefuses, SearchUnreachable, ServeAged, Unreachable, SaveSet, CacheSet, ClearRefusal,
     StoreFails, Goto, End, IInv, TypeOK
<1>2. Tick \/ UNCHANGED vars => outcome' = outcome /\ pc' = pc
  BY DEF Tick, vars, local
<1> QED
  BY <1>1, <1>2 DEF Next, Terminated

\* A current set that was stamped in time is fresh.
LEMMA CurrentIsFresh ==
    ASSUME NEW set, Current(set), Stamped(set, clock), clock \in Nat
    PROVE  Fresh(set)
BY Durations DEF Current, Stamped, Fresh, CandidateSet

LEMMA ServedStep ==
    ASSUME IInv, [Next \/ Terminated]_vars, NEW c \in Callers
    PROVE  /\ pc[c] = "cache" /\ outcome'[c] = "set" => Fresh(cached)
           /\ pc[c] = "stored" /\ pc'[c] = "writeback" => Fresh(stored)
<1>1. clock \in Nat /\ SharedInv /\ (pc[c] = "cache" => outcome[c] = "none")
  BY ClockFacts DEF IInv, CallerInv, EndInv
<1>2. ASSUME pc[c] = "cache", outcome'[c] = "set"
      PROVE  Fresh(cached)
  <2>1. Lookup(c)
    BY <1>1, <1>2, OwnOutcome
  <2>2. Current(cached)
    BY <1>1, <1>2, <2>1 DEF Lookup, CacheHit, CacheMiss, StoredCurrent, WriteBack, ClaimSlot,
       TakeSlot, WaitRunsOut, LeaveSlot, RefuseFromCache, LookAgain, BeginSearch,
       SearchResolves, SearchRefuses, SearchUnreachable, ServeAged, Unreachable, SaveSet,
       CacheSet, ClearRefusal, StoreFails
  <2>3. Stamped(cached, clock)
    BY <1>1, <2>2 DEF SharedInv, Current
  <2> QED
    BY <1>1, <2>2, <2>3, CurrentIsFresh
<1>3. ASSUME pc[c] = "stored", pc'[c] = "writeback"
      PROVE  Fresh(stored)
  <2>1. Lookup(c)
    BY <1>3, OwnOutcome
  <2>2. Current(stored)
    BY <1>3, <2>1 DEF Lookup, CacheHit, CacheMiss, StoredCurrent, WriteBack, ClaimSlot,
       TakeSlot, WaitRunsOut, LeaveSlot, RefuseFromCache, LookAgain, BeginSearch,
       SearchResolves, SearchRefuses, SearchUnreachable, ServeAged, Unreachable, SaveSet,
       CacheSet, ClearRefusal, StoreFails, Goto, Out, IInv, TypeOK
  <2>3. Stamped(stored, clock)
    BY <1>1, <2>2 DEF SharedInv, Current
  <2> QED
    BY <1>1, <2>2, <2>3, CurrentIsFresh
<1> QED
  BY <1>2, <1>3

LEMMA RefusalStep ==
    ASSUME IInv, [Next \/ Terminated]_vars, NEW c \in Callers,
           pc[c] = "refusal", outcome'[c] = "refused"
    PROVE  lastRefusal # NoTime /\ clock - lastRefusal < RefusalTTL
<1>1. clock \in Nat /\ SharedInv /\ outcome[c] = "none" /\ TypeOK
  BY ClockFacts DEF IInv, CallerInv, EndInv
<1>2. Lookup(c)
  BY <1>1, OwnOutcome
<1>3. RefusalLive
  BY <1>1, <1>2 DEF Lookup, CacheHit, CacheMiss, StoredCurrent, WriteBack, ClaimSlot,
     TakeSlot, WaitRunsOut, LeaveSlot, RefuseFromCache, LookAgain, BeginSearch,
     SearchResolves, SearchRefuses, SearchUnreachable, ServeAged, Unreachable, SaveSet,
     CacheSet, ClearRefusal, StoreFails
<1>4. lastRefusal \in Nat /\ refusal \in Nat /\ refusal <= lastRefusal
  BY <1>1, <1>3 DEF RefusalLive, SharedInv, TypeOK
<1> QED
  BY <1>1, <1>3, <1>4, Durations DEF RefusalLive, SharedInv

\* A set served as current describes WISeREP no longer ago than its lifetime and one
\* search, whether it came from the cache, from the row, or from the row by the cache.
THEOREM ServedFresh == Spec => ServedSetIsFresh
<1>1. IInv /\ [Next \/ Terminated]_vars =>
        [\A c \in Callers :
            /\ (pc[c] = "cache" /\ outcome'[c] = "set") => Fresh(cached)
            /\ (pc[c] = "stored" /\ pc'[c] = "writeback") => Fresh(stored)]_vars
  BY ServedStep
<1> QED
  BY <1>1, ResolutionInvariant, PTL DEF Spec, ServedSetIsFresh

\* A refusal raised from the cache is one that WISeREP gave within RefusalTTL.
THEOREM RefusalsExpire == Spec => RefusalExpires
<1>1. IInv /\ [Next \/ Terminated]_vars =>
        [\A c \in Callers :
            (pc[c] = "refusal" /\ outcome'[c] = "refused") =>
                lastRefusal # NoTime /\ clock - lastRefusal < RefusalTTL]_vars
  BY RefusalStep
<1> QED
  BY <1>1, ResolutionInvariant, PTL DEF Spec, RefusalExpires
=============================================================================
