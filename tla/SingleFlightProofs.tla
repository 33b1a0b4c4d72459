------------------------- MODULE SingleFlightProofs -------------------------
(***************************************************************************)
(* Proofs about SingleFlight, for any number of threads, designations and  *)
(* locks, with and without a bound on the wait.                            *)
(*                                                                         *)
(* The argument: the reference count of a slot is the number of its        *)
(* claimants and they all refer to the slot's lock (SlotMatchesClaimants), *)
(* so a lock in use is never replaced by a fresh one; distinct slots have  *)
(* distinct locks, and a lock is locked exactly while one thread holds it  *)
(* (LockInv).  Two holders of one designation would then hold one lock.    *)
(***************************************************************************)
EXTENDS SingleFlight, FiniteSetTheorems, TLAPS

\* The lock half of the inductive invariant.
DistinctLocks ==
    \A d, e \in Designations :
        slots[d] # NoSlot /\ slots[d].lock = slots[e].lock => d = e

KeyOfClaimant ==
    \A t \in Threads : pc[t] # "idle" => key[t] \in Designations

HolderLocks ==
    \A t \in Threads : Holding(t) => locked[mine[t]]

LockedIsHeld ==
    \A l \in Locks : locked[l] => \E t \in Threads : Holding(t) /\ mine[t] = l

HeldOnce ==
    \A t, u \in Threads :
        Holding(t) /\ Holding(u) /\ mine[t] = mine[u] => t = u

LockInv ==
    /\ DistinctLocks
    /\ KeyOfClaimant
    /\ HolderLocks
    /\ LockedIsHeld
    /\ HeldOnce

IInv == TypeOK /\ SlotMatchesClaimants /\ LockInv

-----------------------------------------------------------------------------

\* A set of claimants is finite, and its count is a natural number.
LEMMA ClaimantsFinite ==
    ASSUME NEW d
    PROVE  /\ IsFiniteSet(Claimants(d))
           /\ Cardinality(Claimants(d)) \in Nat
           /\ Cardinality(Claimants(d)) = 0 <=> Claimants(d) = {}
BY ThreadsFinite, FS_Subset, FS_CardinalityType, FS_EmptySet DEF Claimants

\* The same of the claimants in the next state.
LEMMA ClaimantsFiniteNext ==
    ASSUME NEW d
    PROVE  IsFiniteSet(Claimants(d)')
BY ThreadsFinite, FS_Subset DEF Claimants

\* Every state reached has variables of the declared types.
LEMMA TypeInit == Init => TypeOK
BY NoValues DEF Init, TypeOK, Slot, NoSlot, PCs

LEMMA TypeStep == TypeOK /\ KeyOfClaimant /\ [Next]_vars => TypeOK'
<1> SUFFICES ASSUME TypeOK, KeyOfClaimant, [Next]_vars
             PROVE  TypeOK'
  OBVIOUS
<1> USE DEF TypeOK, Slot, NoSlot, PCs
<1>1. ASSUME NEW t \in Threads, NEW d \in Designations, ClaimNew(t, d)
      PROVE  TypeOK'
  BY <1>1 DEF ClaimNew
<1>2. ASSUME NEW t \in Threads, NEW d \in Designations, ClaimShared(t, d)
      PROVE  TypeOK'
  <2>1. slots[d] \in Slot
    BY <1>2 DEF ClaimShared
  <2>2. Reference(slots[d]) \in Slot /\ slots[d].lock \in Locks
    BY <2>1 DEF Reference
  <2> QED
    BY <1>2, <2>2 DEF ClaimShared
<1>3. ASSUME NEW t \in Threads, Acquire(t)
      PROVE  TypeOK'
  BY <1>3 DEF Acquire
<1>4. ASSUME NEW t \in Threads, TimeOut(t)
      PROVE  TypeOK'
  BY <1>4 DEF TimeOut
<1>5. ASSUME NEW t \in Threads, Release(t)
      PROVE  TypeOK'
  BY <1>5 DEF Release
<1>6. ASSUME NEW t \in Threads, Discard(t)
      PROVE  TypeOK'
  <2>1. key[t] \in Designations
    BY <1>6 DEF Discard, KeyOfClaimant
  <2>2. Dereference(slots[key[t]]) \in Slot \cup {NoSlot}
    BY <2>1 DEF Dereference
  <2>3. slots' \in [Designations -> Slot \cup {NoSlot}]
    BY <1>6, <2>2 DEF Discard
  <2> QED
    BY <1>6, <2>3 DEF Discard
<1>7. CASE UNCHANGED vars
  BY <1>7 DEF vars
<1> QED
  BY <1>1, <1>2, <1>3, <1>4, <1>5, <1>6, <1>7 DEF Next

-----------------------------------------------------------------------------

\* Nobody refers to a slot at first.
LEMMA SlotInit == Init => SlotMatchesClaimants /\ LockInv
<1> SUFFICES ASSUME Init
             PROVE  SlotMatchesClaimants /\ LockInv
  OBVIOUS
<1>1. \A d : Claimants(d) = {}
  BY DEF Init, Claimants
<1>2. SlotMatchesClaimants
  BY <1>1, FS_EmptySet DEF Init, SlotMatchesClaimants, NoSlot
<1>3. LockInv
  BY NoValues
  DEF Init, LockInv, DistinctLocks, KeyOfClaimant, HolderLocks,
      LockedIsHeld, HeldOnce, Holding, NoSlot
<1> QED
  BY <1>2, <1>3

\* A slot is empty exactly when nobody claims its designation.
LEMMA SlotOrNobody ==
    ASSUME IInv, NEW d \in Designations
    PROVE  slots[d] = NoSlot <=> Claimants(d) = {}
<1>1. slots[d] = NoSlot <=> slots[d].refs = 0
  BY DEF IInv, TypeOK, Slot, NoSlot
<1> QED
  BY <1>1, ClaimantsFinite DEF IInv, SlotMatchesClaimants

\* A step that claims nothing and discards nothing keeps every claimant set.
LEMMA SameClaimants ==
    ASSUME IInv, NEW t \in Threads, Acquire(t) \/ TimeOut(t) \/ Release(t)
    PROVE  \A d : Claimants(d)' = Claimants(d)
<1>1. key' = key /\ \A u \in Threads : pc'[u] # "idle" <=> pc[u] # "idle"
  BY DEF IInv, TypeOK, Acquire, TimeOut, Release
<1> QED
  BY <1>1 DEF Claimants

\* A claim adds its thread to the claimants of one designation.
LEMMA ClaimAddsOne ==
    ASSUME IInv, NEW t \in Threads, NEW d \in Designations,
           ClaimNew(t, d) \/ ClaimShared(t, d)
    PROVE  /\ t \notin Claimants(d)
           /\ Claimants(d)' = Claimants(d) \cup {t}
           /\ \A e \in Designations \ {d} : Claimants(e)' = Claimants(e)
BY DEF IInv, TypeOK, Claimants, ClaimNew, ClaimShared

\* A discard takes its thread out of them.
LEMMA DiscardTakesOne ==
    ASSUME IInv, NEW t \in Threads, NEW d, key[t] = d, Discard(t)
    PROVE  /\ d \in Designations
           /\ t \in Claimants(d)
           /\ Claimants(d)' = Claimants(d) \ {t}
           /\ \A e \in Designations \ {d} : Claimants(e)' = Claimants(e)
<1>1. d \in Designations /\ t \in Claimants(d)
  BY DEF IInv, LockInv, KeyOfClaimant, Claimants, Discard
<1>2. /\ pc'[t] = "idle"
      /\ \A u \in Threads \ {t} : pc'[u] = pc[u] /\ key'[u] = key[u]
  BY DEF IInv, TypeOK, Discard
<1> QED
  BY <1>1, <1>2 DEF Claimants

-----------------------------------------------------------------------------

\* The counting half of the invariant is kept by every step.
LEMMA SlotStep == IInv /\ [Next]_vars => SlotMatchesClaimants'
<1> SUFFICES ASSUME IInv, [Next]_vars
             PROVE  SlotMatchesClaimants'
  OBVIOUS
<1>1. ASSUME NEW t \in Threads, NEW d \in Designations, ClaimNew(t, d)
      PROVE  SlotMatchesClaimants'
  <2>1. Claimants(d) = {}
    BY <1>1, SlotOrNobody DEF ClaimNew
  <2>2. Claimants(d)' = {t}
    BY <1>1, <2>1, ClaimAddsOne
  <2>3. Cardinality(Claimants(d)') = 1
    BY <2>2, FS_Singleton
  <2>4. PICK l \in Locks : /\ slots' = [slots EXCEPT ![d] = [lock |-> l, refs |-> 1]]
                           /\ mine' = [mine EXCEPT ![t] = l]
    BY <1>1 DEF ClaimNew
  <2>5. slots'[d].refs = 1 /\ slots'[d].lock = l /\ mine'[t] = l
    BY <2>4 DEF IInv, TypeOK
  <2>6. slots'[d] # NoSlot
    BY <2>5 DEF NoSlot
  <2>7. ASSUME NEW e \in Designations \ {d}
        PROVE  /\ slots'[e] = slots[e]
               /\ Claimants(e)' = Claimants(e)
               /\ \A u \in Claimants(e) : mine'[u] = mine[u]
    BY <1>1, <2>4, ClaimAddsOne DEF IInv, TypeOK, ClaimNew, Claimants
  <2> QED
    BY <2>2, <2>3, <2>5, <2>6, <2>7 DEF SlotMatchesClaimants, IInv
<1>2. ASSUME NEW t \in Threads, NEW d \in Designations, ClaimShared(t, d)
      PROVE  SlotMatchesClaimants'
  <2>1. slots[d] \in Slot
    BY <1>2 DEF ClaimShared, IInv, TypeOK
  <2>2. Cardinality(Claimants(d)') = Cardinality(Claimants(d)) + 1
    BY <1>2, ClaimAddsOne, ClaimantsFinite, FS_AddElement
  <2>3. /\ slots'[d].refs = slots[d].refs + 1
        /\ slots'[d].lock = slots[d].lock
        /\ mine'[t] = slots[d].lock
    BY <1>2, <2>1 DEF ClaimShared, Reference, Slot, IInv, TypeOK
  <2>4. slots'[d] # NoSlot
    BY <2>1, <2>3 DEF Slot, NoSlot
  <2>5. ASSUME NEW u \in Claimants(d)'
        PROVE  mine'[u] = slots'[d].lock
    <3>1. CASE u = t
      BY <3>1, <2>3
    <3>2. CASE u # t
      <4>1. u \in Claimants(d)
        BY <3>2, <1>2, <2>5, ClaimAddsOne
      <4>2. u \in Threads /\ mine'[u] = mine[u]
        BY <4>1, <3>2, <1>2 DEF Claimants, ClaimShared, IInv, TypeOK
      <4> QED
        BY <4>1, <4>2, <2>3 DEF IInv, SlotMatchesClaimants
    <3> QED
      BY <3>1, <3>2
  <2>6. ASSUME NEW e \in Designations \ {d}
        PROVE  /\ slots'[e] = slots[e]
               /\ Claimants(e)' = Claimants(e)
               /\ \A u \in Claimants(e) : mine'[u] = mine[u]
    BY <1>2, ClaimAddsOne DEF IInv, TypeOK, ClaimShared, Claimants
  <2> QED
    BY <2>2, <2>3, <2>4, <2>5, <2>6 DEF SlotMatchesClaimants, IInv
<1>3. ASSUME NEW t \in Threads, Acquire(t) \/ TimeOut(t) \/ Release(t)
      PROVE  SlotMatchesClaimants'
  <2>1. slots' = slots /\ mine' = mine
    BY <1>3 DEF Acquire, TimeOut, Release
  <2> QED
    BY <1>3, <2>1, SameClaimants DEF SlotMatchesClaimants, IInv
<1>4. ASSUME NEW t \in Threads, Discard(t)
      PROVE  SlotMatchesClaimants'
  <2> PICK d : d = key[t]
    OBVIOUS
  <2>1. d \in Designations /\ t \in Claimants(d)
    BY <1>4, DiscardTakesOne
  <2>2. slots[d] \in Slot /\ slots[d] # NoSlot
    BY <2>1 DEF IInv, TypeOK, SlotMatchesClaimants
  <2>3. slots' = [slots EXCEPT ![d] = Dereference(slots[d])]
    BY <1>4, <2>2 DEF Discard
  <2>4. Cardinality(Claimants(d)') = Cardinality(Claimants(d)) - 1
    BY <1>4, <2>1, DiscardTakesOne, ClaimantsFinite, FS_RemoveElement
  <2>5. slots[d].refs = Cardinality(Claimants(d))
    BY <2>1 DEF IInv, SlotMatchesClaimants
  <2>6. ASSUME NEW e \in Designations \ {d}
        PROVE  /\ slots'[e] = slots[e]
               /\ Claimants(e)' = Claimants(e)
               /\ \A u \in Claimants(e) : mine'[u] = mine[u]
    BY <1>4, <2>1, <2>3, DiscardTakesOne DEF IInv, TypeOK, Discard, Claimants
  <2>7. CASE slots[d].refs > 1
    <3>1. slots'[d].refs = slots[d].refs - 1 /\ slots'[d].lock = slots[d].lock
      BY <2>1, <2>2, <2>3, <2>7 DEF Dereference, Slot, IInv, TypeOK
    <3>2. slots'[d] # NoSlot
      BY <2>2, <2>7, <3>1 DEF Slot, NoSlot
    <3>3. ASSUME NEW u \in Claimants(d)'
          PROVE  mine'[u] = slots'[d].lock
      <4>1. u \in Claimants(d) /\ u # t
        BY <1>4, <3>3, DiscardTakesOne
      <4>2. mine'[u] = mine[u]
        BY <1>4, <4>1 DEF Claimants, Discard, IInv, TypeOK
      <4> QED
        BY <2>1, <3>1, <4>1, <4>2 DEF IInv, SlotMatchesClaimants
    <3> QED
      BY <2>4, <2>5, <2>6, <3>1, <3>2, <3>3 DEF SlotMatchesClaimants, IInv
  <2>8. CASE ~(slots[d].refs > 1)
    <3>1. slots'[d] = NoSlot /\ slots[d].refs = 1
      BY <2>1, <2>2, <2>3, <2>8 DEF Dereference, Slot, IInv, TypeOK
    <3>2. Cardinality(Claimants(d)') = 0
      BY <2>4, <2>5, <3>1
    <3>3. Claimants(d)' = {}
      BY <3>2, ClaimantsFiniteNext, FS_EmptySet
    <3>4. slots'[d].refs = Cardinality(Claimants(d)')
      BY <3>1, <3>2 DEF NoSlot
    <3> QED
      BY <2>6, <3>3, <3>4 DEF SlotMatchesClaimants, IInv
  <2> QED
    BY <2>7, <2>8
<1>5. CASE UNCHANGED vars
  BY <1>5 DEF vars, IInv, SlotMatchesClaimants, Claimants
<1> QED
  BY <1>1, <1>2, <1>3, <1>4, <1>5 DEF Next

-----------------------------------------------------------------------------

\* Claimants of two designations who refer to one lock are of one designation.
LEMMA LockTellsDesignation ==
    ASSUME IInv, NEW t \in Threads, NEW u \in Threads,
           pc[t] # "idle", pc[u] # "idle", mine[t] = mine[u]
    PROVE  key[t] = key[u]
<1>1. /\ key[t] \in Designations /\ t \in Claimants(key[t])
      /\ key[u] \in Designations /\ u \in Claimants(key[u])
  BY DEF IInv, LockInv, KeyOfClaimant, Claimants
<1>2. /\ slots[key[t]] # NoSlot
      /\ slots[key[t]].lock = mine[t] /\ slots[key[u]].lock = mine[u]
  BY <1>1 DEF IInv, SlotMatchesClaimants
<1> QED
  BY <1>1, <1>2 DEF IInv, LockInv, DistinctLocks

\* And claimants of one designation refer to one lock, a real one.
LEMMA DesignationTellsLock ==
    ASSUME IInv, NEW t \in Threads, NEW u \in Threads,
           pc[t] # "idle", pc[u] # "idle", key[t] = key[u]
    PROVE  mine[t] = mine[u] /\ mine[t] \in Locks
<1>1. /\ key[t] \in Designations
      /\ t \in Claimants(key[t]) /\ u \in Claimants(key[t])
  BY DEF IInv, LockInv, KeyOfClaimant, Claimants
<1>2. /\ slots[key[t]] # NoSlot
      /\ slots[key[t]].lock = mine[t] /\ slots[key[t]].lock = mine[u]
  BY <1>1 DEF IInv, SlotMatchesClaimants
<1> QED
  BY <1>1, <1>2 DEF IInv, TypeOK, Slot

\* The locking half of the invariant is kept by every step.
LEMMA LockStep == IInv /\ [Next]_vars => LockInv'
<1> SUFFICES ASSUME IInv, [Next]_vars
             PROVE  LockInv'
  OBVIOUS
<1> USE DEF LockInv
<1>1. ASSUME NEW t \in Threads, NEW d \in Designations, ClaimNew(t, d)
      PROVE  LockInv'
  <2>1. PICK l \in Locks : /\ Fresh(l)
                           /\ slots' = [slots EXCEPT ![d] = [lock |-> l, refs |-> 1]]
                           /\ locked' = [locked EXCEPT ![l] = FALSE]
                           /\ mine' = [mine EXCEPT ![t] = l]
    BY <1>1 DEF ClaimNew
  <2>2. DistinctLocks'
    BY <2>1 DEF Fresh, DistinctLocks, IInv, TypeOK
  <2>3. KeyOfClaimant'
    BY <1>1 DEF ClaimNew, KeyOfClaimant, IInv, TypeOK
  <2>4. \A u \in Threads : Holding(u)' <=> Holding(u)
    BY <1>1 DEF ClaimNew, Holding, IInv, TypeOK
  <2>5. \A u \in Threads : Holding(u) => u # t /\ mine'[u] = mine[u] /\ mine[u] # l
    BY <1>1, <2>1 DEF ClaimNew, Holding, Fresh, IInv, TypeOK
  <2>6. HolderLocks' /\ LockedIsHeld' /\ HeldOnce'
    BY <2>1, <2>4, <2>5 DEF HolderLocks, LockedIsHeld, HeldOnce, IInv, TypeOK
  <2> QED
    BY <2>2, <2>3, <2>6
<1>2. ASSUME NEW t \in Threads, NEW d \in Designations, ClaimShared(t, d)
      PROVE  LockInv'
  <2>1. slots'[d].lock = slots[d].lock /\ slots' = [slots EXCEPT ![d] = slots'[d]]
    BY <1>2 DEF ClaimShared, Reference, IInv, TypeOK, Slot, NoSlot
  <2>2. DistinctLocks'
    BY <1>2, <2>1 DEF DistinctLocks, ClaimShared, IInv, TypeOK
  <2>3. KeyOfClaimant'
    BY <1>2 DEF ClaimShared, KeyOfClaimant, IInv, TypeOK
  <2>4. \A u \in Threads : /\ Holding(u)' <=> Holding(u)
                           /\ Holding(u) => mine'[u] = mine[u]
    BY <1>2 DEF ClaimShared, Holding, IInv, TypeOK
  <2>5. HolderLocks' /\ LockedIsHeld' /\ HeldOnce'
    BY <1>2, <2>4 DEF ClaimShared, HolderLocks, LockedIsHeld, HeldOnce, IInv
  <2> QED
    BY <2>2, <2>3, <2>5
<1>3. ASSUME NEW t \in Threads, Acquire(t)
      PROVE  LockInv'
  <2>1. mine[t] \in Locks
    BY <1>3, DesignationTellsLock DEF Acquire
  <2>2. \A u \in Threads \ {t} : Holding(u)' <=> Holding(u)
    BY <1>3 DEF Acquire, Holding, IInv, TypeOK
  <2>3. ~Holding(t) /\ Holding(t)'
    BY <1>3 DEF Acquire, Holding, IInv, TypeOK
  <2>4. \A u \in Threads : Holding(u) => mine[u] # mine[t]
    BY <1>3 DEF Acquire, HolderLocks, IInv
  <2>5. HolderLocks' /\ LockedIsHeld' /\ HeldOnce'
    BY <1>3, <2>1, <2>2, <2>3, <2>4
    DEF Acquire, HolderLocks, LockedIsHeld, HeldOnce, IInv, TypeOK
  <2>6. DistinctLocks' /\ KeyOfClaimant'
    BY <1>3 DEF Acquire, DistinctLocks, KeyOfClaimant, IInv, TypeOK
  <2> QED
    BY <2>5, <2>6
<1>4. ASSUME NEW t \in Threads, TimeOut(t)
      PROVE  LockInv'
  <2>1. \A u \in Threads : Holding(u)' <=> Holding(u)
    BY <1>4 DEF TimeOut, Holding, IInv, TypeOK
  <2> QED
    BY <1>4, <2>1
    DEF TimeOut, DistinctLocks, KeyOfClaimant, HolderLocks, LockedIsHeld,
        HeldOnce, IInv, TypeOK
<1>5. ASSUME NEW t \in Threads, Release(t)
      PROVE  LockInv'
  <2>1. \A u \in Threads : Holding(u)' <=> Holding(u) /\ u # t
    BY <1>5 DEF Release, Holding, IInv, TypeOK
  <2>2. DistinctLocks' /\ KeyOfClaimant'
    BY <1>5 DEF Release, DistinctLocks, KeyOfClaimant, IInv, TypeOK
  <2>3. CASE held[t]
    <3>1. Holding(t) /\ locked' = [locked EXCEPT ![mine[t]] = FALSE]
      BY <1>5, <2>3 DEF Release, Holding
    <3>2. \A u \in Threads : Holding(u) /\ u # t => mine[u] # mine[t]
      BY <3>1 DEF HeldOnce, IInv
    <3>3. HolderLocks' /\ LockedIsHeld' /\ HeldOnce'
      BY <1>5, <2>1, <3>1, <3>2
      DEF Release, HolderLocks, LockedIsHeld, HeldOnce, IInv, TypeOK
    <3> QED
      BY <2>2, <3>3
  <2>4. CASE ~held[t]
    <3>1. ~Holding(t) /\ locked' = locked
      BY <1>5, <2>4 DEF Release, Holding
    <3>2. HolderLocks' /\ LockedIsHeld' /\ HeldOnce'
      BY <1>5, <2>1, <3>1
      DEF Release, HolderLocks, LockedIsHeld, HeldOnce, IInv, TypeOK
    <3> QED
      BY <2>2, <3>2
  <2> QED
    BY <2>3, <2>4
<1>6. ASSUME NEW t \in Threads, Discard(t)
      PROVE  LockInv'
  <2>1. \A u \in Threads : /\ Holding(u)' <=> Holding(u)
                           /\ Holding(u) => mine'[u] = mine[u]
    BY <1>6 DEF Discard, Holding, IInv, TypeOK
  <2>2. \A d \in Designations :
          slots'[d] # NoSlot => slots[d] # NoSlot /\ slots'[d].lock = slots[d].lock
    BY <1>6 DEF Discard, Dereference, IInv, TypeOK, Slot, NoSlot
  <2>3. \A d \in Designations : slots[d] # NoSlot => slots[d].lock \in Locks
    BY DEF IInv, TypeOK, Slot
  <2>4. \A d \in Designations : slots'[d] = NoSlot => slots'[d].lock \notin Locks
    BY NoValues DEF NoSlot
  <2>5. DistinctLocks'
    BY <2>2, <2>3, <2>4 DEF DistinctLocks, IInv
  <2>6. KeyOfClaimant'
    BY <1>6 DEF Discard, KeyOfClaimant, IInv, TypeOK
  <2>7. HolderLocks' /\ LockedIsHeld' /\ HeldOnce'
    BY <1>6, <2>1 DEF Discard, HolderLocks, LockedIsHeld, HeldOnce, IInv
  <2> QED
    BY <2>5, <2>6, <2>7
<1>7. CASE UNCHANGED vars
  BY <1>7 DEF vars, IInv, DistinctLocks, KeyOfClaimant, HolderLocks,
              LockedIsHeld, HeldOnce, Holding
<1> QED
  BY <1>1, <1>2, <1>3, <1>4, <1>5, <1>6, <1>7 DEF Next

-----------------------------------------------------------------------------

\* The inductive invariant holds of every behaviour of the registry.
THEOREM Inductive == Spec => []IInv
<1>1. Init => IInv
  BY TypeInit, SlotInit DEF IInv
<1>2. IInv /\ [Next]_vars => IInv'
  BY TypeStep, SlotStep, LockStep DEF IInv, LockInv
<1> QED
  BY <1>1, <1>2, PTL DEF Spec

\* The registry's variables keep their types.
THEOREM TypeCorrect == Spec => []TypeOK
BY Inductive, PTL DEF IInv

\* A slot is kept, with its lock and an exact reference count, exactly as long
\* as some thread refers to it.
THEOREM SlotAccounting == Spec => []SlotMatchesClaimants
BY Inductive, PTL DEF IInv

\* At most one thread holds the slot of a designation, whatever waits ran out
\* and however claims and discards interleave.
THEOREM MutualExclusion == Spec => []OneHolder
<1>1. IInv => OneHolder
  BY DesignationTellsLock DEF OneHolder, Holding, IInv, LockInv, HeldOnce
<1> QED
  BY <1>1, Inductive, PTL

-----------------------------------------------------------------------------

\* A thread that changes its own phase and no other's.
LEMMA OthersKeepPhase ==
    ASSUME IInv, NEW t \in Threads,
           \/ \E d \in Designations : ClaimNew(t, d) \/ ClaimShared(t, d)
           \/ Acquire(t) \/ TimeOut(t) \/ Release(t) \/ Discard(t)
    PROVE  \A u \in Threads \ {t} : Phase(u)' = Phase(u) /\ Wanted(u)' = Wanted(u)
<1>1. \A u \in Threads \ {t} :
        pc'[u] = pc[u] /\ key'[u] = key[u] /\ held'[u] = held[u]
  BY DEF IInv, TypeOK, ClaimNew, ClaimShared, Acquire, TimeOut, Release, Discard
<1> QED
  BY <1>1 DEF Phase, Wanted

\* The holders of the abstract slot are the threads that hold its lock.
LEMMA AbstractHolders ==
    ASSUME IInv, NEW d \in Designations
    PROVE  Slots!Holders(d) = {u \in Threads : Holding(u) /\ key[u] = d}
<1>1. \A u \in Threads : Phase(u) = "holding" <=> Holding(u)
  BY DEF Phase, Holding, IInv, TypeOK, PCs
<1>2. \A u \in Threads : Holding(u) => Wanted(u) = key[u]
  BY DEF Phase, Wanted, Holding
<1> QED
  BY <1>1, <1>2 DEF Slots!Holders

\* Every step of the registry is a step of the abstract slots or changes
\* nothing they can see.
LEMMA RefinementStep == IInv /\ [Next]_vars => [Slots!Next]_(Slots!vars)
<1> SUFFICES ASSUME IInv, [Next]_vars
             PROVE  [Slots!Next]_(Slots!vars)
  OBVIOUS
<1> DEFINE ph == [u \in Threads |-> Phase(u)]
           wt == [u \in Threads |-> Wanted(u)]
<1> USE DEF Slots!vars
<1>1. ASSUME NEW t \in Threads, NEW d \in Designations,
             ClaimNew(t, d) \/ ClaimShared(t, d)
      PROVE  Slots!Arrive(t, d)
  <2>1. Phase(t) = "out" /\ Phase(t)' = "waiting" /\ Wanted(t)' = d
    BY <1>1 DEF ClaimNew, ClaimShared, Phase, Wanted, IInv, TypeOK
  <2> QED
    BY <1>1, <2>1, OthersKeepPhase DEF Slots!Arrive
<1>2. ASSUME NEW t \in Threads, Acquire(t)
      PROVE  Slots!Take(t)
  <2>1. /\ Phase(t) = "waiting" /\ Phase(t)' = "holding"
        /\ Wanted(t) = key[t] /\ Wanted(t)' = key[t]
    BY <1>2 DEF Acquire, Phase, Wanted, IInv, TypeOK
  <2>2. key[t] \in Designations
    BY <1>2 DEF Acquire, IInv, LockInv, KeyOfClaimant
  <2>3. \A u \in Threads : Holding(u) => key[u] # key[t]
    BY <1>2, DesignationTellsLock DEF Acquire, Holding, IInv, LockInv, HolderLocks
  <2>4. Slots!Holders(key[t]) = {}
    BY <2>2, <2>3, AbstractHolders
  <2>5. ph' = [ph EXCEPT ![t] = "holding"] /\ wt' = wt
    BY <1>2, <2>1, OthersKeepPhase
  <2> QED
    BY <2>1, <2>4, <2>5 DEF Slots!Take
<1>3. ASSUME NEW t \in Threads, TimeOut(t)
      PROVE  Slots!GoAhead(t)
  <2>1. /\ Phase(t) = "waiting" /\ Phase(t)' = "overdue"
        /\ Wanted(t) = key[t] /\ Wanted(t)' = key[t]
    BY <1>3 DEF TimeOut, Phase, Wanted, IInv, TypeOK
  <2>2. key[t] \in Designations /\ mine[t] \in Locks
    BY <1>3, DesignationTellsLock DEF TimeOut, IInv, LockInv, KeyOfClaimant
  <2>3. PICK u \in Threads : Holding(u) /\ mine[u] = mine[t]
    BY <1>3, <2>2 DEF TimeOut, IInv, LockInv, LockedIsHeld
  <2>4. key[u] = key[t]
    BY <1>3, <2>3, LockTellsDesignation DEF TimeOut, Holding
  <2>5. Slots!Holders(key[t]) # {}
    BY <2>2, <2>3, <2>4, AbstractHolders
  <2>6. ph' = [ph EXCEPT ![t] = "overdue"] /\ wt' = wt
    BY <1>3, <2>1, OthersKeepPhase
  <2> QED
    BY <2>1, <2>5, <2>6 DEF Slots!GoAhead
<1>4. ASSUME NEW t \in Threads, Release(t)
      PROVE  Slots!Leave(t)
  <2>1. /\ Phase(t) \in {"holding", "overdue"} /\ Phase(t)' = "out"
        /\ Wanted(t)' = NoDesignation
    BY <1>4 DEF Release, Phase, Wanted, IInv, TypeOK
  <2> QED
    BY <1>4, <2>1, OthersKeepPhase DEF Slots!Leave
<1>5. ASSUME NEW t \in Threads, Discard(t)
      PROVE  UNCHANGED Slots!vars
  <2>1. /\ Phase(t) = "out" /\ Phase(t)' = "out"
        /\ Wanted(t) = NoDesignation /\ Wanted(t)' = NoDesignation
    BY <1>5 DEF Discard, Phase, Wanted, IInv, TypeOK
  <2> QED
    BY <1>5, <2>1, OthersKeepPhase
<1>6. CASE UNCHANGED vars
  BY <1>6 DEF vars, Phase, Wanted
<1> QED
  BY <1>1, <1>2, <1>3, <1>4, <1>5, <1>6 DEF Next, Slots!Next

\* The registry implements the slots ResolutionSlot promises.
THEOREM Refinement == Spec => SlotsSpec
<1>1. Init => Slots!Init
  BY DEF Init, Slots!Init, Phase, Wanted
<1> QED
  BY <1>1, Inductive, RefinementStep, PTL DEF Spec, SlotsSpec, Slots!Spec
=============================================================================
