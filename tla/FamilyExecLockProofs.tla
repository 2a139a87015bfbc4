------------------------ MODULE FamilyExecLockProofs -------------------------
(***************************************************************************)
(* Mutual exclusion of the drains of one family, for any number of drains, *)
(* families and lock allocations. The invariant says that active drains of *)
(* one family refer to one lock (HandlesCurrent, and no active drain is    *)
(* without a lock), that a waiting drain is in the queue of its lock and   *)
(* that a draining one is at its head.                                     *)
(***************************************************************************)
EXTENDS FamilyExecLock, TLAPS

\* A drain that is not idle holds an Arc.
HandlesHeld == \A d \in Drains : pc[d] # "idle" => handle[d] \in Locks

InQueue(d, q) == \E i \in 1 .. Len(q) : q[i] = d

QueuesOK ==
  /\ \A d \in Drains : pc[d] = "waiting" => InQueue(d, waiters[handle[d]])
  /\ \A d \in Drains : pc[d] = "draining" =>
       waiters[handle[d]] # <<>> /\ Head(waiters[handle[d]]) = d

Inv == TypeOK /\ HandlesHeld /\ HandlesCurrent /\ QueuesOK

-----------------------------------------------------------------------------
\* Appending to a queue keeps its members and, if it is not empty, its head.
LEMMA AppendKeeps ==
  ASSUME NEW S, NEW q \in Seq(S), NEW x \in S
  PROVE  /\ InQueue(x, Append(q, x))
         /\ \A d : InQueue(d, q) => InQueue(d, Append(q, x))
         /\ q # <<>> => Append(q, x) # <<>> /\ Head(Append(q, x)) = Head(q)
BY DEF InQueue

\* Removing the head keeps every other member.
LEMMA TailKeeps ==
  ASSUME NEW S, NEW q \in Seq(S), NEW d, InQueue(d, q), d # Head(q)
  PROVE  InQueue(d, Tail(q))
<1>1. PICK i \in 1 .. Len(q) : q[i] = d
  BY DEF InQueue
<1>2. q # <<>> /\ i # 1
  BY <1>1
<1>3. i - 1 \in 1 .. Len(Tail(q)) /\ Tail(q)[i - 1] = d
  BY <1>1, <1>2
<1> QED BY <1>3 DEF InQueue

-----------------------------------------------------------------------------
\* The invariant holds initially: no drain is active and the map is empty.
LEMMA InvInit == Init => Inv
BY LockAssumption DEF Init, Inv, TypeOK, HandlesHeld, HandlesCurrent, QueuesOK

\* Every step of a drain and of the collector preserves the invariant.
LEMMA InvNext == Inv /\ [Next]_vars => Inv'
<1> SUFFICES ASSUME Inv, [Next]_vars PROVE Inv'
  OBVIOUS
<1> USE LockAssumption DEF Inv
<1>1. ASSUME NEW d \in Drains, NEW F \in Families, Lookup(d, F) PROVE Inv'
  <2>1. PICK l \in Locks :
          /\ IF map[F] = NoLock THEN ~Referenced(l) ELSE l = map[F]
          /\ map' = [map EXCEPT ![F] = l]
          /\ handle' = [handle EXCEPT ![d] = l]
    BY <1>1 DEF Lookup
  <2>2. TypeOK'
    BY <1>1, <2>1 DEF Lookup, TypeOK
  <2>3. HandlesHeld'
    BY <1>1, <2>1 DEF Lookup, TypeOK, HandlesHeld
  <2>4. HandlesCurrent'
    <3>1. \A e \in Drains : (pc[e] # "idle")' => (handle[e] = map[family[e]])'
      BY <1>1, <2>1 DEF Lookup, TypeOK, HandlesHeld, HandlesCurrent
    <3>2. \A H, G \in Families : (map[H] = map[G] /\ map[H] # NoLock)' => H = G
      BY <1>1, <2>1 DEF Lookup, TypeOK, HandlesCurrent, Referenced
    <3> QED BY <3>1, <3>2 DEF HandlesCurrent
  <2>5. QueuesOK'
    BY <1>1, <2>1 DEF Lookup, TypeOK, QueuesOK
  <2> QED BY <2>2, <2>3, <2>4, <2>5
<1>2. ASSUME NEW d \in Drains, Queue(d) PROVE Inv'
  <2>1. handle[d] \in Locks /\ waiters[handle[d]] \in Seq(Drains)
    BY <1>2 DEF Queue, TypeOK, HandlesHeld
  <2>2. waiters' = [waiters EXCEPT ![handle[d]] = Append(waiters[handle[d]], d)]
    BY <1>2 DEF Queue
  <2>3. TypeOK'
    BY <1>2, <2>1, <2>2 DEF Queue, TypeOK
  <2>4. HandlesHeld' /\ HandlesCurrent'
    BY <1>2 DEF Queue, TypeOK, HandlesHeld, HandlesCurrent
  <2>5. ASSUME NEW e \in Drains, pc'[e] = "waiting" PROVE InQueue(e, waiters'[handle'[e]])
    <3>1. CASE e = d
      BY <1>2, <2>1, <2>2, <3>1, AppendKeeps DEF Queue, TypeOK
    <3>2. CASE e # d
      <4>1. InQueue(e, waiters[handle[e]]) /\ handle[e] \in Locks
        BY <1>2, <2>5, <3>2 DEF Queue, TypeOK, HandlesHeld, QueuesOK
      <4> QED BY <1>2, <2>1, <2>2, <4>1, AppendKeeps DEF Queue, TypeOK
    <3> QED BY <3>1, <3>2
  <2>6. ASSUME NEW e \in Drains, pc'[e] = "draining"
        PROVE  waiters'[handle'[e]] # <<>> /\ Head(waiters'[handle'[e]]) = e
    <3>1. /\ waiters[handle[e]] # <<>> /\ Head(waiters[handle[e]]) = e
          /\ handle[e] \in Locks
      BY <1>2, <2>6 DEF Queue, TypeOK, HandlesHeld, QueuesOK
    <3> QED BY <1>2, <2>1, <2>2, <3>1, AppendKeeps DEF Queue, TypeOK
  <2> QED BY <2>3, <2>4, <2>5, <2>6 DEF QueuesOK
<1>3. ASSUME NEW d \in Drains, Acquire(d) PROVE Inv'
  <2>1. TypeOK' /\ HandlesHeld' /\ HandlesCurrent'
    BY <1>3 DEF Acquire, TypeOK, HandlesHeld, HandlesCurrent
  <2>2. waiters[handle[d]] # <<>>
    BY <1>3 DEF Acquire, TypeOK, HandlesHeld, QueuesOK, InQueue
  <2>3. QueuesOK'
    BY <1>3, <2>2 DEF Acquire, TypeOK, QueuesOK
  <2> QED BY <2>1, <2>3
<1>4. ASSUME NEW d \in Drains, Unlock(d) PROVE Inv'
  <2>1. /\ handle[d] \in Locks /\ waiters[handle[d]] \in Seq(Drains)
        /\ waiters[handle[d]] # <<>> /\ Head(waiters[handle[d]]) = d
    BY <1>4 DEF Unlock, TypeOK, HandlesHeld, QueuesOK
  <2>2. waiters' = [waiters EXCEPT ![handle[d]] = Tail(waiters[handle[d]])]
    BY <1>4 DEF Unlock
  <2>3. TypeOK' /\ HandlesHeld' /\ HandlesCurrent'
    BY <1>4, <2>1, <2>2 DEF Unlock, TypeOK, HandlesHeld, HandlesCurrent
  <2>4. ASSUME NEW e \in Drains, pc'[e] = "waiting" PROVE InQueue(e, waiters'[handle'[e]])
    <3>1. e # d /\ InQueue(e, waiters[handle[e]]) /\ handle[e] \in Locks
      BY <1>4, <2>4 DEF Unlock, TypeOK, HandlesHeld, QueuesOK
    <3> QED BY <1>4, <2>1, <2>2, <3>1, TailKeeps DEF Unlock, TypeOK
  <2>5. ASSUME NEW e \in Drains, pc'[e] = "draining"
        PROVE  waiters'[handle'[e]] # <<>> /\ Head(waiters'[handle'[e]]) = e
    <3>1. e # d /\ pc[e] = "draining"
      BY <1>4, <2>5 DEF Unlock, TypeOK
    <3>2. handle[e] # handle[d]
      BY <2>1, <3>1 DEF QueuesOK
    <3> QED BY <1>4, <2>1, <2>2, <3>1, <3>2 DEF Unlock, TypeOK, HandlesHeld, QueuesOK
  <2> QED BY <2>3, <2>4, <2>5 DEF QueuesOK
<1>5. ASSUME NEW d \in Drains, DropHandle(d) PROVE Inv'
  BY <1>5 DEF DropHandle, TypeOK, HandlesHeld, HandlesCurrent, QueuesOK
<1>6. ASSUME Collect PROVE Inv'
  <2>1. TypeOK' /\ HandlesHeld' /\ QueuesOK'
    BY <1>6 DEF Collect, TypeOK, HandlesHeld, QueuesOK
  <2>2. HandlesCurrent'
    BY <1>6 DEF Collect, Kept, TypeOK, HandlesHeld, HandlesCurrent
  <2> QED BY <2>1, <2>2
<1>7. CASE UNCHANGED vars
  BY <1>7 DEF vars, TypeOK, HandlesHeld, HandlesCurrent, QueuesOK
<1> QED BY <1>1, <1>2, <1>3, <1>4, <1>5, <1>6, <1>7 DEF Next, DrainStep

\* The invariant is inductive.
LEMMA Invariance == Spec => []Inv
BY InvInit, InvNext, PTL DEF Spec

\* The lock map, the handles and the queues keep their types.
THEOREM TypeCorrect == Spec => []TypeOK
<1>1. Inv => TypeOK
  BY DEF Inv
<1> QED BY <1>1, Invariance, PTL

\* The Arc an active drain holds is the one the map has for its family, and no
\* lock serves two families: gc_stale_family_state never evicts a lock in use.
THEOREM HandlesStayCurrent == Spec => []HandlesCurrent
<1>1. Inv => HandlesCurrent
  BY DEF Inv
<1> QED BY <1>1, Invariance, PTL

\* Two drains never run in the same family.
THEOREM Exclusion == Spec => []MutualExclusion
<1>1. Inv => MutualExclusion
  BY DEF Inv, HandlesCurrent, QueuesOK, MutualExclusion
<1> QED BY <1>1, Invariance, PTL
=============================================================================
