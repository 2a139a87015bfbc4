--------------------------- MODULE FamilyExecLock ----------------------------
(***************************************************************************)
(* The map of per-family execution locks. Whoever drains a family clones   *)
(* the Arc of its lock out of the map (creating the lock on demand), waits *)
(* for the mutex, drains, and drops first the guard and then the Arc. The  *)
(* garbage collector of the ingest worker removes locks nobody refers to.  *)
(*                                                                         *)
(* A lock is identified by its allocation: an identity is free again when  *)
(* the map and all drains have dropped it, and may then be allocated for   *)
(* another family. The mutex is tokio's, which serves waiters in order.    *)
(***************************************************************************)
EXTENDS Naturals, FiniteSets, Sequences

CONSTANTS Drains,     \* tasks that drain a family: ingest worker, scheduled drains
          Families,   \* repository families
          Locks,      \* identities of lock allocations
          NoLock

ASSUME LockAssumption == NoLock \notin Locks

VARIABLES
  map,        \* side_effect_exec_locks
  pc,         \* where each drain is
  family,     \* the family it is draining, or drained last
  handle,     \* the Arc it holds
  waiters     \* the queue of each mutex; its head holds the mutex

vars == <<map, pc, family, handle, waiters>>

Init ==
  /\ map = [F \in Families |-> NoLock]
  /\ pc = [d \in Drains |-> "idle"]
  /\ family \in [Drains -> Families]
  /\ handle = [d \in Drains |-> NoLock]
  /\ waiters = [l \in Locks |-> <<>>]

Referenced(l) == (\E F \in Families : map[F] = l) \/ (\E d \in Drains : handle[d] = l)

\* side_effect_exec_lock: look up or create, and clone, under the map's mutex.
Lookup(d, F) ==
  /\ pc[d] = "idle"
  /\ \E l \in Locks :
       /\ IF map[F] = NoLock THEN ~Referenced(l) ELSE l = map[F]
       /\ map' = [map EXCEPT ![F] = l]
       /\ handle' = [handle EXCEPT ![d] = l]
  /\ family' = [family EXCEPT ![d] = F]
  /\ pc' = [pc EXCEPT ![d] = "found"]
  /\ UNCHANGED waiters

\* exec_lock.lock().await
Queue(d) ==
  /\ pc[d] = "found"
  /\ waiters' = [waiters EXCEPT ![handle[d]] = Append(@, d)]
  /\ pc' = [pc EXCEPT ![d] = "waiting"]
  /\ UNCHANGED <<map, family, handle>>

Acquire(d) ==
  /\ pc[d] = "waiting"
  /\ Head(waiters[handle[d]]) = d
  /\ pc' = [pc EXCEPT ![d] = "draining"]
  /\ UNCHANGED <<map, family, handle, waiters>>

UnlockLeaking(d) ==
  /\ pc[d] = "draining"
  /\ pc' = [pc EXCEPT ![d] = "dropping"]
  /\ UNCHANGED <<map, family, handle, waiters>>

\* The guard goes out of scope before the Arc does.
Unlock(d) ==
  /\ pc[d] = "draining"
  /\ waiters' = [waiters EXCEPT ![handle[d]] = Tail(@)]
  /\ pc' = [pc EXCEPT ![d] = "dropping"]
  /\ UNCHANGED <<map, family, handle>>

DropHandle(d) ==
  /\ pc[d] = "dropping"
  /\ handle' = [handle EXCEPT ![d] = NoLock]
  /\ pc' = [pc EXCEPT ![d] = "idle"]
  /\ UNCHANGED <<map, family, waiters>>

\* gc_stale_family_state keeps the locks with Arc::strong_count > 1.
KeptWhenLocked(F) == map[F] # NoLock /\ waiters[map[F]] # <<>>
KeptWhenDraining(F) == \E d \in Drains : pc[d] = "draining" /\ handle[d] = map[F]
Kept(F) == \E d \in Drains : handle[d] = map[F]

Collect ==
  /\ map' = [F \in Families |-> IF Kept(F) THEN map[F] ELSE NoLock]
  /\ UNCHANGED <<pc, family, handle, waiters>>

DrainStep(d) == Queue(d) \/ Acquire(d) \/ Unlock(d) \/ DropHandle(d)

Next ==
  \/ \E d \in Drains : DrainStep(d) \/ \E F \in Families : Lookup(d, F)
  \/ Collect

Spec == Init /\ [][Next]_vars

\* A drain that has begun keeps going, and drains come to an end.
FairSpec == Spec /\ \A d \in Drains : WF_vars(DrainStep(d))

-----------------------------------------------------------------------------
(* Properties.                                                              *)

\* Type invariant of the lock map and of the drains.
TypeOK ==
  /\ map \in [Families -> Locks \cup {NoLock}]
  /\ pc \in [Drains -> {"idle", "found", "waiting", "draining", "dropping"}]
  /\ family \in [Drains -> Families]
  /\ handle \in [Drains -> Locks \cup {NoLock}]
  /\ waiters \in [Locks -> Seq(Drains)]

\* Two drains never run in the same family, however the collector's evictions and
\* the creation of fresh locks interleave with drains that hold or await the lock.
MutualExclusion ==
  \A d, e \in Drains :
    pc[d] = "draining" /\ pc[e] = "draining" /\ family[d] = family[e] => d = e

\* What makes it so: the Arc of an active drain is the one the map has for its
\* family, and no lock serves two families.
HandlesCurrent ==
  /\ \A d \in Drains : pc[d] # "idle" => handle[d] = map[family[d]]
  /\ \A F, G \in Families : map[F] = map[G] /\ map[F] # NoLock => F = G

\* Every drain that waits for its family's lock gets it.
DrainsServed == \A d \in Drains : pc[d] = "found" ~> pc[d] = "draining"
=============================================================================
