------------------------ MODULE FamilySequencerProofs ------------------------
(***************************************************************************)
(* Type correctness, the order theorem and the conservation theorem of the *)
(* sequencing core, for any sets of roots, families and checkpoints.       *)
(*                                                                         *)
(* TypeOK is not inductive: a payload about to be sent must be one, the    *)
(* worker must have what its next step needs, an entry must name a         *)
(* checkpoint exactly when it is one, and the admission gate must count    *)
(* the admission queue (Shapes).                                           *)
(*                                                                         *)
(* The order theorem says that a git command that starts after a           *)
(* checkpoint was accepted does not run before it. The property is about   *)
(* the log; the invariant follows a checkpoint from acceptance to the log  *)
(* and a command's start time from the ingress maps to its entry: no       *)
(* insertion overwrites a checkpoint's entry, no entry carries another     *)
(* time than its command's start, and a popped batch that holds a command  *)
(* also holds every earlier checkpoint that has not run yet.               *)
(***************************************************************************)
EXTENDS FamilySequencer, SequenceTheorems, FiniteSetTheorems, TLAPS

ReaderShape ==
  \A r \in Roots :
    /\ reader[r].step \in {"capture", "send"} => reader[r].frame \in Frames
    /\ reader[r].step = "send" => reader[r].payload \in Payloads
    /\ child[r].step = "send" => child[r].payload \in Payloads

WorkerShape ==
  /\ worker.pc \in {"replace", "append", "clear"} => worker.root \in Roots
  /\ worker.pc = "replace" => /\ worker.slot \in SlotType
                              /\ worker.outcome \in {"command", "canceled"}
  /\ worker.pc = "append" => worker.family \in Families

\* Only checkpoints are entered as checkpoints.
WellNamed(es) == \A e \in es : e.what = "checkpoint" <=> e.id \in Checkpoints
EntryShape == \A F \in Families : WellNamed(entries[F]) /\ WellNamed(ready[F])

\* The gate counts the checkpoints accepted and not yet admitted.
GateCounts == unadmitted = Len(admitQ)

Shapes == ReaderShape /\ WorkerShape /\ EntryShape /\ GateCounts

TypeInv == TypeOK /\ Shapes

-----------------------------------------------------------------------------
\* The initial state is well formed.
LEMMA TypeInvInit == Init => TypeInv
<1> SUFFICES ASSUME Init PROVE TypeInv
  OBVIOUS
<1> USE ConstantsAssumption DEF Init
<1>1. EnvOK /\ IngressOK /\ QueueOK
  BY DEF EnvOK, IngressOK, QueueOK
<1>2. SequencerOK
  BY DEF SequencerOK
<1>3. AdmissionOK /\ HistoryOK
  BY DEF AdmissionOK, HistoryOK
<1>4. reader \in [Roots -> ReaderType] /\ child \in [Roots -> ChildType]
  BY DEF ReaderType, ChildType, Frames
<1>5. worker \in WorkerType
  BY DEF IdleWorker, WorkerType
<1>6. normalizer \in [Roots -> {"none", "pending", "completed", "deferred"}]
  OBVIOUS
<1>7. ReaderShape /\ WorkerShape /\ EntryShape /\ GateCounts
  BY DEF ReaderShape, WorkerShape, EntryShape, WellNamed, GateCounts, IdleWorker
<1> QED BY <1>1, <1>2, <1>3, <1>4, <1>5, <1>6, <1>7 DEF TypeInv, TypeOK, Shapes

-----------------------------------------------------------------------------
(* Git processes.                                                           *)

\* Starting and ending git processes.
LEMMA TypeGit ==
  ASSUME TypeInv, NEW r \in Roots, GitStart(r) \/ GitEnd(r)
  PROVE  TypeInv'
<1> USE ConstantsAssumption DEF TypeInv, TypeOK
<1> USE DEF envVars, gitVars, readerVars, ingressVars, queueVars, seqVars, execVars, ckptVars,
            taskVars, histVars
<1>1. UNCHANGED <<kind, home, ckptHome, reader, child, openConns, rootStarted, rootFamily,
                  rootMutating, readOnly, offsets, active, marked, queue, enqueued, processed,
                  normalizer, worker, entries, nextOrdinal, slots, lock, ready, log, ckpt,
                  receipt, ckptAt, ckptTarget, admitQ, unadmitted, spawned, taskWants>>
  BY DEF GitStart, GitEnd
<1>2. EnvOK'
  <2>1. CASE GitStart(r)
    <3>1. PICK t \in {clock + d : d \in Ticks} :
            startedAt' = [startedAt EXCEPT ![r] = t] /\ clock' = t
      BY <2>1 DEF GitStart
    <3>2. t \in Nat
      BY <3>1 DEF EnvOK
    <3> QED BY <1>1, <2>1, <3>1, <3>2 DEF GitStart, EnvOK
  <2>2. CASE GitEnd(r)
    BY <1>1, <2>2 DEF GitEnd, EnvOK
  <2> QED BY <2>1, <2>2
<1>3. HistoryOK'
  BY <1>1 DEF GitStart, GitEnd, HistoryOK, Attributed
<1>4. IngressOK' /\ QueueOK' /\ SequencerOK' /\ AdmissionOK'
  BY <1>1 DEF IngressOK, QueueOK, SequencerOK, AdmissionOK
<1>5. Shapes'
  BY <1>1 DEF Shapes, ReaderShape, WorkerShape, EntryShape, WellNamed, GateCounts
<1> QED BY <1>1, <1>2, <1>3, <1>4, <1>5

-----------------------------------------------------------------------------
(* Reader threads.                                                          *)

\* Forgetting a root and recording a closed connection keep the ingress maps typed.
LEMMA TypeRecordClose ==
  ASSUME IngressOK, NEW r \in Roots, RecordClose(r)
  PROVE  IngressOK'
<1>1. CASE openConns[r] <= 1 /\ ~NeedsCloseMarker(r)
  BY <1>1 DEF IngressOK, RecordClose, ClearRoot, ForgetRoot
<1>2. CASE ~(openConns[r] <= 1 /\ ~NeedsCloseMarker(r))
  <2>1. openConns' = [openConns EXCEPT ![r] = IF @ > 1 THEN @ - 1 ELSE 0]
    BY <1>2 DEF RecordClose
  <2>2. openConns' \in [Roots -> Nat]
    BY <2>1 DEF IngressOK
  <2>3. marked' \subseteq Roots /\ UNCHANGED <<rootStarted, rootFamily, rootMutating, readOnly,
                                               offsets, active>>
    BY <1>2 DEF RecordClose, IngressOK
  <2> QED BY <2>2, <2>3 DEF IngressOK
<1> QED BY <1>1, <1>2

\* The next frame of a frame.
LEMMA NextFrameType == \A f \in Frames : NextFrame(f) \in Frames \cup {"eof"}
BY DEF Frames, NextFrame

\* A payload built from typed parts.
LEMMA PayloadType ==
  ASSUME NEW r \in Roots, NEW e \in Frames \cup {"child", "closed"}, NEW t \in Nat,
         NEW f \in Families \cup {NoFamily}
  PROVE  Payload(r, e, t, f) \in Payloads
BY DEF Payload, Payloads

\* The steps that update the ingress maps for one frame.
LEMMA TypeTracking ==
  ASSUME TypeInv, NEW r \in Roots, OpenRoot(r) \/ Track(r) \/ Capture(r)
  PROVE  TypeInv'
<1> USE ConstantsAssumption DEF TypeInv, TypeOK
<1> USE DEF envVars, gitVars, readerVars, ingressVars, queueVars, seqVars, execVars, ckptVars,
            taskVars, histVars
<1>1. UNCHANGED <<kind, home, ckptHome, git, startedAt, clock, child, marked,
                  queue, enqueued, processed,
                  normalizer, worker, entries, nextOrdinal, slots, lock, ready, log, ckpt,
                  receipt, ckptAt, ckptTarget, admitQ, unadmitted, spawned, taskWants,
                  attributedBefore>>
  BY DEF OpenRoot, Track, Capture
<1>2. EnvOK' /\ QueueOK' /\ SequencerOK' /\ AdmissionOK' /\ HistoryOK'
  BY <1>1 DEF EnvOK, QueueOK, SequencerOK, AdmissionOK, HistoryOK
<1>3. WorkerShape' /\ EntryShape' /\ GateCounts'
  BY <1>1 DEF Shapes, WorkerShape, EntryShape, WellNamed, GateCounts
<1>4. IngressOK'
  <2>1. CASE OpenRoot(r)
    BY <2>1 DEF OpenRoot, IngressOK
  <2>2. CASE Track(r)
    BY <2>2 DEF Track, IngressOK, EnvOK
  <2>3. CASE Capture(r)
    BY <2>3 DEF Capture, IngressOK, KeepOffsets
  <2> QED BY <2>1, <2>2, <2>3
<1>5. /\ reader' \in [Roots -> ReaderType]
      /\ \A q \in Roots :
           /\ reader'[q].step \in {"capture", "send"} => reader'[q].frame \in Frames
           /\ reader'[q].step = "send" => reader'[q].payload \in Payloads
  <2>0. \A q \in Roots :
           /\ reader[q].step \in {"capture", "send"} => reader[q].frame \in Frames
           /\ reader[q].step = "send" => reader[q].payload \in Payloads
    BY DEF Shapes, ReaderShape
  <2>1. CASE OpenRoot(r)
    BY <2>0, <2>1 DEF OpenRoot, ReaderType
  <2>2. CASE Track(r)
    <3>1. reader[r].frame \in Frames
      BY <2>2 DEF Track, FrameAvailable, Frames
    <3>2. NextFrame(reader[r].frame) \in Frames \cup {"eof"}
      BY <3>1, NextFrameType
    <3>3. PICK t \in Nat, f \in Families \cup {NoFamily} :
            \/ reader' = [reader EXCEPT ![r] = [@ EXCEPT !.step = "capture"]]
            \/ reader' = [reader EXCEPT ![r] =
                 [frame |-> NextFrame(reader[r].frame), step |-> "read", payload |-> NoSlot]]
            \/ reader' = [reader EXCEPT ![r] =
                 [frame |-> reader[r].frame, step |-> "send",
                  payload |-> Payload(r, reader[r].frame, t, f)]]
      BY <2>2 DEF Track, IngressOK, EnvOK
    <3>4. Payload(r, reader[r].frame, t, f) \in Payloads
      BY <3>1, PayloadType
    <3> QED BY <2>0, <3>1, <3>2, <3>3, <3>4 DEF ReaderType
  <2>3. CASE Capture(r)
    <3>1. reader[r].frame \in Frames
      BY <2>0, <2>3 DEF Capture
    <3>2. PICK f \in Families \cup {NoFamily} :
            reader' = [reader EXCEPT ![r] =
              [frame |-> reader[r].frame, step |-> "send",
               payload |-> Payload(r, reader[r].frame, rootStarted[r], f)]]
      BY <2>3 DEF Capture, IngressOK, EnvOK
    <3>3. Payload(r, reader[r].frame, rootStarted[r], f) \in Payloads
      BY <3>1, PayloadType DEF IngressOK
    <3> QED BY <2>0, <3>1, <3>2, <3>3 DEF ReaderType
  <2> QED BY <2>1, <2>2, <2>3
<1>6. ReaderShape'
  BY <1>1, <1>5 DEF ReaderShape, Shapes
<1> QED BY <1>1, <1>2, <1>3, <1>4, <1>5, <1>6 DEF Shapes

\* The steps that queue a payload or close the root's connection.
LEMMA TypeSending ==
  ASSUME TypeInv, NEW r \in Roots, Send(r) \/ Close(r) \/ SendMarker(r)
  PROVE  TypeInv'
<1> USE ConstantsAssumption DEF TypeInv, TypeOK
<1> USE DEF envVars, gitVars, readerVars, ingressVars, queueVars, seqVars, execVars, ckptVars,
            taskVars, histVars
<1>1. UNCHANGED <<kind, home, ckptHome, git, startedAt, clock, child, processed,
                  normalizer, worker, entries, nextOrdinal, slots, lock, ready, log, ckpt,
                  receipt, ckptAt, ckptTarget, admitQ, unadmitted, spawned, taskWants,
                  attributedBefore>>
  BY DEF Send, Close, SendMarker
<1>2. EnvOK' /\ SequencerOK' /\ AdmissionOK' /\ HistoryOK'
  BY <1>1 DEF EnvOK, SequencerOK, AdmissionOK, HistoryOK
<1>3. WorkerShape' /\ EntryShape' /\ GateCounts'
  BY <1>1 DEF Shapes, WorkerShape, EntryShape, WellNamed, GateCounts
<1>4. IngressOK'
  <2>1. CASE UNCHANGED ingressVars
    BY <2>1 DEF IngressOK
  <2>2. CASE RecordClose(r)
    BY <2>2, TypeRecordClose
  <2> QED BY <2>1, <2>2 DEF Send, Close, SendMarker
<1>5. QueueOK'
  <2>1. reader[r].step = "send" => reader[r].payload \in Payloads
    BY DEF Shapes, ReaderShape
  <2>2. Marker(r) \in Payloads
    BY PayloadType DEF Marker
  <2>3. CASE UNCHANGED <<queue, enqueued>>
    BY <1>1, <2>3 DEF QueueOK
  <2>4. ASSUME NEW p \in Payloads, Enqueue(p)
        PROVE  QueueOK'
    BY <1>1, <2>4 DEF QueueOK, Enqueue
  <2> QED BY <2>1, <2>2, <2>3, <2>4 DEF Send, Close, SendMarker
<1>6. /\ reader' \in [Roots -> ReaderType]
      /\ \A q \in Roots :
           /\ reader'[q].step \in {"capture", "send"} => reader'[q].frame \in Frames
           /\ reader'[q].step = "send" => reader'[q].payload \in Payloads
  <2>0. \A q \in Roots :
           /\ reader[q].step \in {"capture", "send"} => reader[q].frame \in Frames
           /\ reader[q].step = "send" => reader[q].payload \in Payloads
    BY DEF Shapes, ReaderShape
  <2>1. CASE Send(r)
    <3>1. reader[r].frame \in Frames
      BY <2>0, <2>1 DEF Send
    <3>2. NextFrame(reader[r].frame) \in Frames \cup {"eof"}
      BY <3>1, NextFrameType
    <3> QED BY <2>0, <2>1, <3>2 DEF Send, ReaderType
  <2>2. CASE Close(r)
    <3>1. PICK st \in {"marker", "closed"} : reader' = [reader EXCEPT ![r] = [@ EXCEPT !.step = st]]
      BY <2>2 DEF Close
    <3> QED BY <2>0, <3>1 DEF ReaderType
  <2>3. CASE SendMarker(r)
    BY <2>0, <2>3 DEF SendMarker, ReaderType
  <2> QED BY <2>1, <2>2, <2>3
<1>7. ReaderShape'
  BY <1>1, <1>6 DEF ReaderShape, Shapes
<1> QED BY <1>1, <1>2, <1>3, <1>4, <1>5, <1>6, <1>7 DEF Shapes

\* The connection of a child process.
LEMMA TypeChild ==
  ASSUME TypeInv, NEW r \in Roots, ChildRead(r) \/ ChildStep(r)
  PROVE  TypeInv'
<1> USE ConstantsAssumption DEF TypeInv, TypeOK
<1> USE DEF envVars, gitVars, readerVars, ingressVars, queueVars, seqVars, execVars, ckptVars,
            taskVars, histVars
<1> USE DEF ChildStep
<1>1. UNCHANGED <<kind, home, ckptHome, git, startedAt, clock, reader, processed,
                  normalizer, worker, entries, nextOrdinal, slots, lock, ready, log, ckpt,
                  receipt, ckptAt, ckptTarget, admitQ, unadmitted, spawned, taskWants,
                  attributedBefore>>
  BY DEF ChildRead, ChildTrack, ChildCapture, ChildSend, ChildClose, ChildSendMarker
<1>2. EnvOK' /\ SequencerOK' /\ AdmissionOK' /\ HistoryOK'
  BY <1>1 DEF EnvOK, SequencerOK, AdmissionOK, HistoryOK
<1>3. WorkerShape' /\ EntryShape' /\ GateCounts'
  BY <1>1 DEF Shapes, WorkerShape, EntryShape, WellNamed, GateCounts
<1>4. Payload(r, "child", rootStarted[r], rootFamily[r]) \in Payloads /\ Marker(r) \in Payloads
  BY PayloadType DEF IngressOK, Marker
<1>5. \A q \in Roots : child[q].step = "send" => child[q].payload \in Payloads
  BY DEF Shapes, ReaderShape
<1> DEFINE ChildFine == /\ child' \in [Roots -> ChildType]
                        /\ \A q \in Roots : child'[q].step = "send" => child'[q].payload \in Payloads
<1>6. IngressOK' /\ QueueOK' /\ ChildFine
  <2>1. CASE ChildRead(r)
    <3>1. IngressOK' /\ QueueOK'
      BY <1>1, <2>1 DEF ChildRead, IngressOK, QueueOK
    <3> QED BY <1>5, <2>1, <3>1 DEF ChildRead, ChildType
  <2>2. CASE ChildTrack(r)
    <3>1. IngressOK' /\ QueueOK'
      BY <1>1, <2>2 DEF ChildTrack, IngressOK, QueueOK
    <3>2. \/ child' = [child EXCEPT ![r] = [@ EXCEPT !.step = "capture"]]
          \/ child' = [child EXCEPT ![r] = [@ EXCEPT !.step = "eof"]]
          \/ child' = [child EXCEPT ![r] =
               [step |-> "send", payload |-> Payload(r, "child", rootStarted[r], rootFamily[r])]]
      BY <2>2 DEF ChildTrack
    <3> QED BY <1>4, <1>5, <3>1, <3>2 DEF ChildType
  <2>3. CASE ChildCapture(r)
    <3>1. IngressOK' /\ QueueOK'
      BY <1>1, <2>3 DEF ChildCapture, KeepOffsets, IngressOK, QueueOK
    <3> QED BY <1>4, <1>5, <2>3, <3>1 DEF ChildCapture, ChildType
  <2>4. CASE ChildSend(r)
    <3>1. IngressOK' /\ QueueOK'
      BY <1>1, <1>5, <2>4 DEF ChildSend, Enqueue, IngressOK, QueueOK
    <3> QED BY <1>5, <2>4, <3>1 DEF ChildSend, ChildType
  <2>5. CASE ChildClose(r)
    <3>1. IngressOK'
      BY <2>5, TypeRecordClose DEF ChildClose
    <3>2. QueueOK'
      BY <1>1, <2>5 DEF ChildClose, QueueOK
    <3>3. PICK st \in {"marker", "closed"} : child' = [child EXCEPT ![r] = [@ EXCEPT !.step = st]]
      BY <2>5 DEF ChildClose
    <3> QED BY <1>5, <3>1, <3>2, <3>3 DEF ChildType
  <2>6. CASE ChildSendMarker(r)
    <3>1. IngressOK' /\ QueueOK'
      BY <1>1, <1>4, <2>6 DEF ChildSendMarker, Enqueue, IngressOK, QueueOK
    <3> QED BY <1>5, <2>6, <3>1 DEF ChildSendMarker, ChildType
  <2> QED BY <2>1, <2>2, <2>3, <2>4, <2>5, <2>6
<1>7. ReaderShape'
  BY <1>1, <1>6 DEF ReaderShape, Shapes
<1> QED BY <1>1, <1>2, <1>3, <1>6, <1>7 DEF Shapes

-----------------------------------------------------------------------------
(* Sequencer entries.                                                       *)

\* An entry of a root that is not a checkpoint entry is typed and well named.
LEMMA RootEntryType ==
  ASSUME NEW t \in Nat, NEW o \in Nat, NEW r \in Roots,
         NEW w \in {"pending", "command", "canceled"}
  PROVE  Entry(t, o, w, r) \in EntryType /\ WellNamed({Entry(t, o, w, r)})
BY ConstantsAssumption DEF Entry, EntryType, Whats, WellNamed

\* Inserting an entry keeps a family's entries typed and well named.
LEMMA InsertType ==
  ASSUME SequencerOK, EntryShape, NEW F \in Families, NEW e \in EntryType, WellNamed({e})
  PROVE  Insert(F, e) \in SUBSET EntryType /\ WellNamed(Insert(F, e))
<1>1. entries[F] \in SUBSET EntryType /\ WellNamed(entries[F])
  BY DEF SequencerOK, EntryShape
<1> QED BY <1>1 DEF Insert, WellNamed

\* Taking the ready prefix of typed entries keeps the sequencers typed and named.
LEMMA DrainType ==
  ASSUME SequencerOK, EntryShape, NEW F \in Families, NEW es \in SUBSET EntryType, WellNamed(es),
         NEW owner \in {"worker", "task"}, BeginDrain(F, es, owner),
         nextOrdinal' \in [Families -> Nat], UNCHANGED slots
  PROVE  SequencerOK' /\ EntryShape'
<1> DEFINE b == Batch(F, es)
<1>1. b \subseteq es
  BY DEF Batch
<1>2. /\ entries' = [entries EXCEPT ![F] = es \ b]
      /\ ready' = [ready EXCEPT ![F] = b]
      /\ lock' = [lock EXCEPT ![F] = IF b = {} THEN "free" ELSE owner]
      /\ UNCHANGED log
  BY DEF BeginDrain
<1> HIDE DEF b
<1>3. b \in SUBSET EntryType /\ es \ b \in SUBSET EntryType
  BY <1>1
<1>4. SequencerOK'
  BY <1>2, <1>3 DEF SequencerOK
<1>5. WellNamed(b) /\ WellNamed(es \ b)
  BY <1>1 DEF WellNamed
<1>6. \A G \in Families : WellNamed(entries'[G]) /\ WellNamed(ready'[G])
  BY <1>2, <1>5 DEF SequencerOK, EntryShape
<1>7. EntryShape'
  BY <1>6 DEF EntryShape, WellNamed
<1> QED BY <1>4, <1>7

-----------------------------------------------------------------------------
(* The ingest worker.                                                       *)

\* The worker between two payloads is well formed.
LEMMA FinishedType == Finished \in WorkerType /\ Finished.pc \in {"gc", "idle"}
<1>1. PICK pc \in {"gc", "idle"} : Finished = [IdleWorker EXCEPT !.pc = pc]
  BY DEF Finished
<1> QED BY <1>1 DEF WorkerType, IdleWorker

\* Appending a pending root, or not, keeps the sequencers typed.
LEMMA PendingType ==
  ASSUME SequencerOK, EntryShape, NEW p \in Payloads, AppendPending(p), UNCHANGED execVars,
         slots' = [slots EXCEPT ![p.root] = SlotAfter(p)]
           \/ slots' = [slots EXCEPT ![p.root] = NoSlot]
  PROVE  SequencerOK' /\ EntryShape' /\ SlotAfter(p) \in SlotType \cup {NoSlot}
<1> USE DEF execVars
<1>1. p.root \in Roots /\ p.at \in Nat /\ p.family \in Families \cup {NoFamily}
  BY DEF Payloads
<1>2. CASE AppendsPending(p)
  <2>1. p.family \in Families
    BY <1>1, <1>2 DEF AppendsPending
  <2>2. nextOrdinal[p.family] \in Nat
    BY <2>1 DEF SequencerOK
  <2>3. PendingEntry(p) \in EntryType /\ WellNamed({PendingEntry(p)})
    BY <1>1, <2>2, RootEntryType DEF PendingEntry
  <2>4. Insert(p.family, PendingEntry(p)) \in SUBSET EntryType
          /\ WellNamed(Insert(p.family, PendingEntry(p)))
    BY <2>1, <2>3, InsertType
  <2>5. SlotAfter(p) \in SlotType
    BY <1>2, <2>1, <2>3 DEF SlotAfter, Slot, SlotType, EntryType
  <2>6. /\ entries' = [entries EXCEPT ![p.family] = Insert(p.family, PendingEntry(p))]
        /\ nextOrdinal' = [nextOrdinal EXCEPT ![p.family] = @ + 1]
    BY <1>2 DEF AppendPending
  <2>7. SequencerOK'
    <3>1. entries' \in [Families -> SUBSET EntryType]
      BY <2>1, <2>4, <2>6 DEF SequencerOK
    <3>2. nextOrdinal' \in [Families -> Nat]
      BY <2>1, <2>6 DEF SequencerOK
    <3>3. slots' \in [Roots -> SlotType \cup {NoSlot}]
      BY <1>1, <2>5 DEF SequencerOK
    <3> QED BY <3>1, <3>2, <3>3 DEF SequencerOK
  <2>8. \A G \in Families : WellNamed(entries'[G]) /\ WellNamed(ready'[G])
    BY <2>4, <2>6 DEF SequencerOK, EntryShape
  <2> QED BY <2>5, <2>7, <2>8 DEF EntryShape, WellNamed
<1>3. CASE ~AppendsPending(p)
  <2>1. SlotAfter(p) \in SlotType \cup {NoSlot}
    BY <1>1, <1>3 DEF SlotAfter, SequencerOK
  <2>2. UNCHANGED <<entries, nextOrdinal>>
    BY <1>3 DEF AppendPending
  <2> QED BY <1>1, <2>1, <2>2 DEF SequencerOK, EntryShape, WellNamed
<1> QED BY <1>2, <1>3

\* Applying a payload.
LEMMA TypeIngest ==
  ASSUME TypeInv, IngestStep
  PROVE  TypeInv'
<1> USE ConstantsAssumption DEF TypeInv, TypeOK
<1> USE DEF envVars, gitVars, readerVars, ingressVars, queueVars, seqVars, execVars, ckptVars,
            taskVars, histVars
<1>1. PICK p : /\ p = Head(queue) /\ queue # <<>> /\ queue' = Tail(queue) /\ UNCHANGED enqueued
               /\ IngestFrame(p) \/ IngestAtexit(p) \/ IngestClosed(p)
  BY DEF IngestStep, IngestFrame, IngestAtexit, IngestClosed, TakePayload
<1>2. p \in Payloads
  BY <1>1 DEF QueueOK
<1>3. p.root \in Roots
  BY <1>2 DEF Payloads
<1>4. UNCHANGED <<kind, home, ckptHome, git, startedAt, clock, reader, child, openConns,
                  rootStarted, rootFamily, rootMutating, readOnly, offsets, active, marked,
                  lock, ready, log, ckpt, receipt, ckptAt, ckptTarget, admitQ, unadmitted,
                  spawned, taskWants, attributedBefore>>
  BY <1>1 DEF IngestFrame, IngestAtexit, IngestClosed
<1>5. EnvOK' /\ IngressOK' /\ AdmissionOK' /\ HistoryOK'
  BY <1>4 DEF EnvOK, IngressOK, AdmissionOK, HistoryOK
<1>6. ReaderShape' /\ GateCounts'
  BY <1>4 DEF Shapes, ReaderShape, GateCounts
<1>7. QueueOK'
  <2>1. processed' \in Nat
    BY <1>1 DEF IngestFrame, IngestAtexit, IngestClosed, QueueOK
  <2> QED BY <1>1, <2>1 DEF QueueOK
<1>8. normalizer' \in [Roots -> {"none", "pending", "completed", "deferred"}]
  <2>1. CASE IngestFrame(p)
    BY <1>3, <2>1 DEF IngestFrame
  <2>2. CASE IngestAtexit(p)
    <3>1. PICK n : /\ normalizer' = [normalizer EXCEPT ![p.root] = n]
                   /\ n = CASE normalizer[p.root] = "pending" -> "completed"
                            [] normalizer[p.root] = "none" -> "deferred"
                            [] OTHER -> normalizer[p.root]
      BY <2>2 DEF IngestAtexit
    <3>2. n \in {"none", "pending", "completed", "deferred"}
      BY <1>3, <3>1
    <3> QED BY <1>3, <3>1, <3>2
  <2>3. CASE IngestClosed(p)
    BY <1>3, <2>3 DEF IngestClosed
  <2> QED BY <1>1, <2>1, <2>2, <2>3
<1>9. SequencerOK' /\ EntryShape' /\ worker' \in WorkerType /\ WorkerShape'
  <2>1. CASE IngestFrame(p)
    <3>1. SequencerOK' /\ EntryShape'
      BY <1>2, <1>4, <2>1, PendingType DEF IngestFrame, Shapes
    <3>2. worker' \in WorkerType /\ WorkerShape'
      BY <2>1, FinishedType DEF IngestFrame, WorkerShape
    <3> QED BY <3>1, <3>2
  <2>2. CASE IngestAtexit(p)
    <3>1. SequencerOK' /\ EntryShape' /\ SlotAfter(p) \in SlotType \cup {NoSlot}
      BY <1>2, <1>4, <2>2, PendingType DEF IngestAtexit, Shapes
    <3>2. home[p.root] \in Families
      BY <1>3 DEF EnvOK
    <3>3. PICK o \in {"command", "canceled"} :
            \/ SlotAfter(p) # NoSlot /\ worker' = Working("replace", p.root, o, SlotAfter(p), NoFamily)
            \/ worker' = Working("append", p.root, o, NoSlot, home[p.root])
            \/ worker' = Working("clear", p.root, o, NoSlot, NoFamily)
            \/ worker' = Finished
      BY <2>2 DEF IngestAtexit
    <3>4. worker' \in WorkerType
      BY <1>3, <3>1, <3>2, <3>3, FinishedType DEF Working, WorkerType
    <3>5. WorkerShape'
      BY <1>3, <3>1, <3>2, <3>3, FinishedType DEF WorkerShape, Working
    <3> QED BY <3>1, <3>4, <3>5
  <2>3. CASE IngestClosed(p)
    <3>1. SequencerOK' /\ EntryShape'
      BY <1>3, <1>4, <2>3 DEF IngestClosed, SequencerOK, EntryShape, WellNamed, Shapes
    <3>2. slots[p.root] \in SlotType \cup {NoSlot}
      BY <1>3 DEF SequencerOK
    <3>3. \/ slots[p.root] # NoSlot
              /\ worker' = Working("replace", p.root, "canceled", slots[p.root], NoFamily)
          \/ worker' = Working("clear", p.root, "canceled", NoSlot, NoFamily)
      BY <2>3 DEF IngestClosed
    <3>4. worker' \in WorkerType
      BY <1>3, <3>2, <3>3 DEF Working, WorkerType
    <3>5. WorkerShape'
      BY <1>3, <3>2, <3>3 DEF WorkerShape, Working
    <3> QED BY <3>1, <3>4, <3>5
  <2> QED BY <1>1, <2>1, <2>2, <2>3
<1> QED BY <1>4, <1>5, <1>6, <1>7, <1>8, <1>9 DEF Shapes

\* The steps that place the root's outcome and drain its family.
LEMMA TypePlace ==
  ASSUME TypeInv, WorkerReplace \/ WorkerAppend \/ \E F \in Families : WorkerDrain(F)
  PROVE  TypeInv'
<1> USE ConstantsAssumption DEF TypeInv, TypeOK
<1> USE DEF envVars, gitVars, readerVars, ingressVars, queueVars, seqVars, execVars, ckptVars,
            taskVars, histVars
<1>1. UNCHANGED <<kind, home, ckptHome, git, startedAt, clock, reader, child, openConns,
                  rootStarted, rootFamily, rootMutating, readOnly, offsets, active, marked,
                  queue, enqueued, processed, normalizer, slots, ckpt, receipt, ckptAt,
                  ckptTarget, admitQ, unadmitted, spawned, taskWants, attributedBefore>>
  BY DEF WorkerReplace, WorkerAppend, WorkerDrain
<1>2. EnvOK' /\ IngressOK' /\ QueueOK' /\ AdmissionOK' /\ HistoryOK'
  BY <1>1 DEF EnvOK, IngressOK, QueueOK, AdmissionOK, HistoryOK
<1>3. ReaderShape' /\ GateCounts'
  BY <1>1 DEF Shapes, ReaderShape, GateCounts
<1>4. SequencerOK' /\ EntryShape' /\ worker' \in WorkerType /\ WorkerShape'
  <2>1. CASE WorkerReplace
    <3> DEFINE s == worker.slot
               o == worker.outcome
               e == Entry(s.at, s.ord, o, worker.root)
               es == {d \in entries[s.family] : Key(d) # Key(s)} \cup {e}
    <3>1. /\ worker.root \in Roots /\ worker.slot \in SlotType
          /\ worker.outcome \in {"command", "canceled"}
      BY <2>1 DEF WorkerReplace, Shapes, WorkerShape
    <3>2. s.family \in Families /\ s.at \in Nat /\ s.ord \in Nat
      BY <3>1 DEF SlotType
    <3>3. e \in EntryType /\ WellNamed({e})
      BY <3>1, <3>2, RootEntryType
    <3>4. entries[s.family] \in SUBSET EntryType /\ WellNamed(entries[s.family])
      BY <3>2 DEF SequencerOK, EntryShape, Shapes
    <3>5. BeginDrain(s.family, es, "worker") /\ UNCHANGED nextOrdinal
      BY <2>1 DEF WorkerReplace
    <3>6. es \in SUBSET EntryType /\ WellNamed(es)
      <4> HIDE DEF e
      <4> QED BY <3>3, <3>4 DEF WellNamed
    <3>7. nextOrdinal' \in [Families -> Nat]
      BY <3>5 DEF SequencerOK
    <3> HIDE DEF es, e
    <3>8. SequencerOK' /\ EntryShape'
      BY <1>1, <3>2, <3>5, <3>6, <3>7, DrainType DEF Shapes
    <3>9. worker' = [worker EXCEPT !.pc = "clear", !.slot = NoSlot, !.family = s.family]
      BY <2>1 DEF WorkerReplace
    <3>10. worker' \in WorkerType /\ WorkerShape'
      BY <3>1, <3>2, <3>9 DEF WorkerShape, WorkerType
    <3> QED BY <3>8, <3>10
  <2>2. CASE WorkerAppend
    <3> DEFINE F == worker.family
               e == Entry(startedAt[worker.root], nextOrdinal[F], "command", worker.root)
    <3>1. worker.root \in Roots /\ F \in Families
      BY <2>2 DEF WorkerAppend, Shapes, WorkerShape
    <3>2. startedAt[worker.root] \in Nat /\ nextOrdinal[F] \in Nat
      BY <3>1 DEF EnvOK, SequencerOK
    <3>3. e \in EntryType /\ WellNamed({e})
      BY <3>1, <3>2, RootEntryType
    <3>4. /\ BeginDrain(F, Insert(F, e), "worker")
          /\ nextOrdinal' = [nextOrdinal EXCEPT ![F] = @ + 1]
          /\ worker' = [worker EXCEPT !.pc = "clear"]
      BY <2>2 DEF WorkerAppend
    <3> HIDE DEF e
    <3>5. Insert(F, e) \in SUBSET EntryType /\ WellNamed(Insert(F, e))
      BY <3>1, <3>3, InsertType DEF Shapes
    <3>6. nextOrdinal' \in [Families -> Nat]
      BY <3>1, <3>4 DEF SequencerOK
    <3>7. SequencerOK' /\ EntryShape'
      BY <1>1, <3>1, <3>4, <3>5, <3>6, DrainType DEF Shapes
    <3>8. worker' \in WorkerType /\ WorkerShape'
      BY <3>1, <3>4 DEF WorkerShape, WorkerType
    <3> QED BY <3>7, <3>8
  <2>3. ASSUME NEW F \in Families, WorkerDrain(F)
        PROVE  SequencerOK' /\ EntryShape' /\ worker' \in WorkerType /\ WorkerShape'
    <3>1. /\ BeginDrain(F, entries[F], "worker") /\ UNCHANGED nextOrdinal
          /\ worker.pc = "drain" /\ worker' = [worker EXCEPT !.todo = @ \ {F}]
      BY <2>3 DEF WorkerDrain
    <3>2. entries[F] \in SUBSET EntryType /\ WellNamed(entries[F])
      BY DEF SequencerOK, EntryShape, Shapes
    <3>3. nextOrdinal' \in [Families -> Nat]
      BY <3>1 DEF SequencerOK
    <3>4. SequencerOK' /\ EntryShape'
      BY <1>1, <3>1, <3>2, <3>3, DrainType DEF Shapes
    <3>5. worker' \in WorkerType /\ WorkerShape'
      BY <3>1 DEF WorkerShape, WorkerType
    <3> QED BY <3>4, <3>5
  <2> QED BY <2>1, <2>2, <2>3
<1> QED BY <1>1, <1>2, <1>3, <1>4 DEF Shapes

\* The worker's other steps.
LEMMA TypeFinish ==
  ASSUME TypeInv, WorkerClear \/ WorkerSnapshot \/ WorkerDone \/ WorkerGc
  PROVE  TypeInv'
<1> USE ConstantsAssumption DEF TypeInv, TypeOK
<1> USE DEF envVars, gitVars, readerVars, ingressVars, queueVars, seqVars, execVars, ckptVars,
            taskVars, histVars
<1>1. UNCHANGED <<kind, home, ckptHome, git, startedAt, clock, reader, child, queue, enqueued,
                  normalizer, entries, slots, lock, ready, log, ckpt, receipt, ckptAt,
                  ckptTarget, admitQ, unadmitted, spawned, taskWants, attributedBefore>>
  BY DEF WorkerClear, WorkerSnapshot, WorkerDone, WorkerGc
<1>2. EnvOK' /\ AdmissionOK' /\ HistoryOK'
  BY <1>1 DEF EnvOK, AdmissionOK, HistoryOK
<1>3. ReaderShape' /\ GateCounts' /\ EntryShape'
  BY <1>1 DEF Shapes, ReaderShape, GateCounts, EntryShape, WellNamed
<1>4. CASE WorkerClear
  <2>1. worker.root \in Roots
    BY <1>4 DEF WorkerClear, Shapes, WorkerShape
  <2>2. IngressOK'
    BY <1>4, <2>1 DEF WorkerClear, ClearRoot, ForgetRoot, IngressOK
  <2>3. QueueOK' /\ SequencerOK'
    BY <1>1, <1>4 DEF WorkerClear, QueueOK, SequencerOK
  <2>4. worker' \in WorkerType /\ WorkerShape'
    <3>1. \/ worker' = [worker EXCEPT !.pc = "snapshot"]
          \/ worker.family \in Families
               /\ worker' = [worker EXCEPT !.pc = "drain", !.todo = {worker.family}]
      BY <1>4 DEF WorkerClear, WorkerType
    <3>2. CASE worker' = [worker EXCEPT !.pc = "snapshot"]
      BY <3>2 DEF WorkerType, WorkerShape
    <3>3. CASE worker.family \in Families
                 /\ worker' = [worker EXCEPT !.pc = "drain", !.todo = {worker.family}]
      <4>1. {worker.family} \in SUBSET Families
        BY <3>3
      <4> QED BY <3>3, <4>1 DEF WorkerType, WorkerShape
    <3> QED BY <3>1, <3>2, <3>3
  <2> QED BY <1>1, <1>2, <1>3, <2>2, <2>3, <2>4 DEF Shapes
<1>5. CASE WorkerSnapshot
  <2>1. IngressOK' /\ QueueOK' /\ SequencerOK'
    BY <1>1, <1>5 DEF WorkerSnapshot, IngressOK, QueueOK, SequencerOK
  <2>2. worker' \in WorkerType /\ WorkerShape'
    BY <1>5 DEF WorkerSnapshot, NonemptyFamilies, WorkerType, WorkerShape
  <2> QED BY <1>1, <1>2, <1>3, <2>1, <2>2 DEF Shapes
<1>6. CASE WorkerDone
  <2>1. IngressOK' /\ QueueOK' /\ SequencerOK'
    BY <1>1, <1>6 DEF WorkerDone, IngressOK, QueueOK, SequencerOK
  <2>2. worker' \in WorkerType /\ WorkerShape'
    BY <1>6, FinishedType DEF WorkerDone, WorkerShape
  <2> QED BY <1>1, <1>2, <1>3, <2>1, <2>2 DEF Shapes
<1>7. CASE WorkerGc
  <2>1. IngressOK' /\ QueueOK' /\ SequencerOK'
    BY <1>1, <1>7 DEF WorkerGc, CollectedOrdinals, IngressOK, QueueOK, SequencerOK
  <2>2. worker' \in WorkerType /\ WorkerShape'
    BY <1>7 DEF WorkerGc, IdleWorker, WorkerType, WorkerShape
  <2> QED BY <1>1, <1>2, <1>3, <2>1, <2>2 DEF Shapes
<1> QED BY <1>4, <1>5, <1>6, <1>7

-----------------------------------------------------------------------------
(* Checkpoints and drain tasks.                                             *)

\* Accepting a checkpoint.
LEMMA TypeAccept ==
  ASSUME TypeInv, NEW c \in Checkpoints, AcceptCheckpoint(c)
  PROVE  TypeInv'
<1> USE ConstantsAssumption DEF TypeInv, TypeOK
<1> USE DEF envVars, gitVars, readerVars, ingressVars, queueVars, seqVars, execVars, ckptVars,
            taskVars, histVars
<1>1. UNCHANGED <<kind, home, ckptHome, git, startedAt, reader, child, openConns, rootStarted,
                  rootFamily, rootMutating, readOnly, offsets, active, marked, queue, enqueued,
                  processed, normalizer, worker, entries, nextOrdinal, slots, lock, ready, log,
                  spawned, taskWants>>
  BY DEF AcceptCheckpoint
<1>2. PICK t \in {clock + d : d \in Ticks} : ckptAt' = [ckptAt EXCEPT ![c] = t] /\ clock' = t
  BY DEF AcceptCheckpoint
<1>3. t \in Nat
  BY <1>2 DEF EnvOK
<1>4. EnvOK'
  BY <1>1, <1>2, <1>3 DEF EnvOK
<1>5. IngressOK' /\ QueueOK' /\ SequencerOK'
  BY <1>1 DEF IngressOK, QueueOK, SequencerOK
<1>6. Cardinality({d \in Checkpoints : receipt[d] # 0}) \in Nat
  BY FS_CardinalityType, FS_Subset
<1>7. AdmissionOK'
  <2>1. receipt' \in [Checkpoints -> Nat]
    BY <1>6 DEF AcceptCheckpoint, AdmissionOK
  <2>2. ckptTarget' \in [Checkpoints -> Nat] /\ unadmitted' \in Nat /\ admitQ' \in Seq(Checkpoints)
    BY DEF AcceptCheckpoint, AdmissionOK, QueueOK
  <2>3. ckpt' \in [Checkpoints -> {"unsent", "accepted", "admitted", "executed", "failed"}]
    BY DEF AcceptCheckpoint, AdmissionOK
  <2> QED BY <1>1, <1>2, <1>3, <2>1, <2>2, <2>3 DEF AdmissionOK
<1>8. HistoryOK'
  BY DEF AcceptCheckpoint, HistoryOK, Attributed
<1>9. Shapes'
  <2>1. ReaderShape' /\ WorkerShape' /\ EntryShape'
    BY <1>1 DEF Shapes, ReaderShape, WorkerShape, EntryShape, WellNamed
  <2>2. GateCounts'
    BY DEF AcceptCheckpoint, GateCounts, Shapes, AdmissionOK
  <2> QED BY <2>1, <2>2 DEF Shapes
<1> QED BY <1>1, <1>4, <1>5, <1>7, <1>8, <1>9

\* Admitting the checkpoint at the head of the queue, or failing to.
LEMMA TypeAdmission ==
  ASSUME TypeInv, AdmissionStep
  PROVE  TypeInv'
<1> USE ConstantsAssumption DEF TypeInv, TypeOK
<1> USE DEF envVars, gitVars, readerVars, ingressVars, queueVars, seqVars, execVars, ckptVars,
            taskVars, histVars
<1> USE DEF AdmissionStep
<1> DEFINE c == Head(admitQ)
           F == ckptHome[c]
           e == Entry(ckptAt[c], nextOrdinal[F], "checkpoint", c)
<1>1. UNCHANGED <<kind, home, ckptHome, git, startedAt, clock, reader, child, openConns,
                  rootStarted, rootFamily, rootMutating, readOnly, offsets, active, marked,
                  queue, enqueued, processed, normalizer, worker, slots, lock, ready, log,
                  receipt, ckptAt, ckptTarget, taskWants, attributedBefore>>
  BY DEF AdmitCheckpoint, FailAdmission
<1>2. EnvOK' /\ IngressOK' /\ QueueOK' /\ HistoryOK'
  BY <1>1 DEF EnvOK, IngressOK, QueueOK, HistoryOK
<1>3. ReaderShape' /\ WorkerShape'
  BY <1>1 DEF Shapes, ReaderShape, WorkerShape
<1>4. admitQ # <<>> /\ admitQ' = Tail(admitQ) /\ unadmitted' = unadmitted - 1 /\ ScheduleDrains
  BY DEF AdmitCheckpoint, FailAdmission
<1>5. c \in Checkpoints /\ admitQ' \in Seq(Checkpoints) /\ Len(admitQ') = Len(admitQ) - 1
        /\ Len(admitQ) \in Nat \ {0}
  BY <1>4 DEF AdmissionOK
<1>6. F \in Families
  BY <1>5 DEF EnvOK
<1>7. GateCounts'
  BY <1>4, <1>5 DEF Shapes, GateCounts
<1>8. AdmissionOK'
  <2>1. unadmitted' \in Nat
    BY <1>4, <1>5 DEF Shapes, GateCounts
  <2>2. spawned' \in Nat
    BY <1>4 DEF ScheduleDrains, AdmissionOK
  <2>3. ckpt' \in [Checkpoints -> {"unsent", "accepted", "admitted", "executed", "failed"}]
    BY <1>5 DEF AdmitCheckpoint, FailAdmission, AdmissionOK
  <2> QED BY <1>1, <1>5, <2>1, <2>2, <2>3 DEF AdmissionOK
<1>9. SequencerOK' /\ EntryShape'
  <2>1. CASE AdmitCheckpoint
    <3>1. ckptAt[c] \in Nat /\ nextOrdinal[F] \in Nat
      BY <1>5, <1>6 DEF AdmissionOK, SequencerOK
    <3>2. e \in EntryType /\ WellNamed({e})
      BY <1>5, <3>1 DEF Entry, EntryType, Whats, WellNamed
    <3>3. /\ entries' = [entries EXCEPT ![F] = Insert(F, e)]
          /\ nextOrdinal' = [nextOrdinal EXCEPT ![F] = @ + 1]
      BY <2>1 DEF AdmitCheckpoint
    <3> HIDE DEF e, F
    <3>4. Insert(F, e) \in SUBSET EntryType /\ WellNamed(Insert(F, e))
      BY <1>6, <3>2, InsertType DEF Shapes
    <3>5. SequencerOK'
      BY <1>1, <1>6, <3>3, <3>4 DEF SequencerOK
    <3>6. \A G \in Families : WellNamed(entries'[G]) /\ WellNamed(ready'[G])
      BY <1>1, <3>3, <3>4 DEF SequencerOK, EntryShape, Shapes
    <3> QED BY <3>5, <3>6 DEF EntryShape, WellNamed
  <2>2. CASE FailAdmission
    BY <1>1, <2>2 DEF FailAdmission, SequencerOK, EntryShape, WellNamed, Shapes
  <2> QED BY <2>1, <2>2
<1> QED BY <1>1, <1>2, <1>3, <1>7, <1>8, <1>9 DEF Shapes

\* Drain tasks and the execution of drained entries.
LEMMA TypeExecution ==
  ASSUME TypeInv, TaskSnapshot \/ \E F \in Families : TaskDrain(F) \/ Execute(F)
  PROVE  TypeInv'
<1> USE ConstantsAssumption DEF TypeInv, TypeOK
<1> USE DEF envVars, gitVars, readerVars, ingressVars, queueVars, seqVars, execVars, ckptVars,
            taskVars, histVars
<1>1. UNCHANGED <<kind, home, ckptHome, git, startedAt, clock, reader, child, openConns,
                  rootStarted, rootFamily, rootMutating, readOnly, offsets, active, marked,
                  queue, enqueued, processed, normalizer, worker, nextOrdinal, slots, receipt,
                  ckptAt, ckptTarget, admitQ, unadmitted, attributedBefore>>
  BY DEF TaskSnapshot, TaskDrain, Execute
<1>2. EnvOK' /\ IngressOK' /\ QueueOK' /\ HistoryOK'
  BY <1>1 DEF EnvOK, IngressOK, QueueOK, HistoryOK
<1>3. ReaderShape' /\ WorkerShape' /\ GateCounts'
  BY <1>1 DEF Shapes, ReaderShape, WorkerShape, GateCounts
<1>4. AdmissionOK' /\ SequencerOK' /\ EntryShape'
  <2>1. CASE TaskSnapshot
    <3>1. AdmissionOK'
      BY <1>1, <2>1 DEF TaskSnapshot, AdmissionOK
    <3>2. SequencerOK' /\ EntryShape'
      BY <1>1, <2>1 DEF TaskSnapshot, SequencerOK, EntryShape, WellNamed, Shapes
    <3> QED BY <3>1, <3>2
  <2>2. ASSUME NEW F \in Families, TaskDrain(F)
        PROVE  AdmissionOK' /\ SequencerOK' /\ EntryShape'
    <3>1. BeginDrain(F, entries[F], "task")
      BY <2>2 DEF TaskDrain
    <3>2. entries[F] \in SUBSET EntryType /\ WellNamed(entries[F])
            /\ nextOrdinal' \in [Families -> Nat]
      BY <1>1 DEF SequencerOK, EntryShape, Shapes
    <3>3. SequencerOK' /\ EntryShape'
      BY <1>1, <3>1, <3>2, DrainType DEF Shapes
    <3>4. AdmissionOK'
      BY <1>1, <2>2 DEF TaskDrain, AdmissionOK
    <3> QED BY <3>3, <3>4
  <2>3. ASSUME NEW F \in Families, Execute(F)
        PROVE  AdmissionOK' /\ SequencerOK' /\ EntryShape'
    <3>1. PICK e \in ready[F] :
            /\ log' = [log EXCEPT ![F] = Append(@, [what |-> e.what, id |-> e.id])]
            /\ ready' = [ready EXCEPT ![F] = @ \ {e}]
            /\ lock' = [lock EXCEPT ![F] = IF ready[F] = {e} THEN "free" ELSE @]
            /\ ckpt' = IF e.what = "checkpoint" THEN [ckpt EXCEPT ![e.id] = "executed"] ELSE ckpt
      BY <2>3 DEF Execute
    <3>2. UNCHANGED <<entries, spawned, taskWants>>
      BY <2>3 DEF Execute
    <3>3. e \in EntryType
      BY DEF SequencerOK
    <3>4. [what |-> e.what, id |-> e.id] \in LogType
      BY <3>3 DEF EntryType, LogType
    <3>5. log' \in [Families -> Seq(LogType)]
      BY <3>1, <3>4 DEF SequencerOK
    <3>6. ready' \in [Families -> SUBSET EntryType]
            /\ lock' \in [Families -> {"free", "worker", "task"}]
      BY <3>1 DEF SequencerOK
    <3>7. AdmissionOK'
      BY <1>1, <3>1, <3>2 DEF AdmissionOK
    <3>8. SequencerOK'
      BY <1>1, <3>2, <3>5, <3>6 DEF SequencerOK
    <3>9. EntryShape'
      BY <3>1, <3>2 DEF EntryShape, WellNamed, SequencerOK, Shapes
    <3> QED BY <3>7, <3>8, <3>9
  <2> QED BY <2>1, <2>2, <2>3
<1> QED BY <1>1, <1>2, <1>3, <1>4 DEF Shapes

-----------------------------------------------------------------------------
\* Every step of the daemon and of its environment keeps the state well formed.
LEMMA TypeInvNext == TypeInv /\ [Next]_vars => TypeInv'
<1> SUFFICES ASSUME TypeInv, [Next]_vars PROVE TypeInv'
  OBVIOUS
<1>1. CASE UNCHANGED vars
  BY <1>1 DEF TypeInv, TypeOK, EnvOK, IngressOK, QueueOK, SequencerOK, AdmissionOK, HistoryOK,
     Shapes, ReaderShape, WorkerShape, EntryShape, WellNamed, GateCounts, vars, envVars, gitVars,
     readerVars, ingressVars, queueVars, seqVars, execVars, ckptVars, taskVars, histVars
<1>2. ASSUME NEW r \in Roots,
             GitStart(r) \/ GitEnd(r) \/ ReaderStep(r) \/ ChildRead(r) \/ ChildStep(r)
      PROVE  TypeInv'
  BY <1>2, TypeGit, TypeTracking, TypeSending, TypeChild DEF ReaderStep
<1>3. CASE WorkerStep
  BY <1>3, TypeIngest, TypePlace, TypeFinish DEF WorkerStep
<1>4. ASSUME NEW c \in Checkpoints, AcceptCheckpoint(c)
      PROVE  TypeInv'
  BY <1>4, TypeAccept
<1>5. CASE AdmissionStep
  BY <1>5, TypeAdmission
<1>6. CASE TaskSnapshot \/ \E F \in Families : TaskDrain(F) \/ Execute(F)
  BY <1>6, TypeExecution
<1> QED BY <1>1, <1>2, <1>3, <1>4, <1>5, <1>6 DEF Next

\* The well-formedness invariant holds in every reachable state.
THEOREM WellFormed == Spec => []TypeInv
<1> QED BY TypeInvInit, TypeInvNext, PTL DEF Spec

\* The maps, queues, sequencers and workers stay within their types, whatever the
\* number of git processes, families and checkpoints.
THEOREM TypeCorrect == Spec => []TypeOK
<1>1. TypeInv => TypeOK
  BY DEF TypeInv
<1> QED BY <1>1, WellFormed, PTL

-----------------------------------------------------------------------------
(* The order of commands and checkpoints.                                   *)

\* A time recorded for root r is unknown or the time it started.
Stamp(t, r) == t = 0 \/ t = startedAt[r]

Started(r) == git[r] # "unborn"

\* What was known of started roots stays so.
Aged == \A q \in Roots : Started(q) => Started(q)' /\ startedAt'[q] = startedAt[q]

Clocks ==
  \A r \in Roots : /\ startedAt[r] <= clock
                   /\ ~Started(r) => startedAt[r] = 0

\* The daemon has heard only of roots that have started, and has their start time right.
ReaderStamps ==
  \A r \in Roots :
    /\ Stamp(rootStarted[r], r)
    /\ reader[r].frame # "start" \/ reader[r].step \notin {"read", "closed"} => Started(r)
    /\ reader[r].step = "send" => reader[r].payload.root = r /\ Stamp(reader[r].payload.at, r)
    /\ child[r].step # "read" => Started(r)
    /\ child[r].step = "send" => child[r].payload.root = r /\ Stamp(child[r].payload.at, r)

QueueStamps ==
  \A i \in DOMAIN queue : Started(queue[i].root) /\ Stamp(queue[i].at, queue[i].root)

WorkerStamps ==
  worker.pc \in {"replace", "append"} =>
    /\ Started(worker.root)
    /\ worker.pc = "replace" => worker.slot.at = startedAt[worker.root]

\* An entry of a root carries its start time, one of a checkpoint its time of
\* acceptance, in the checkpoint's family.
TimedIn(F, e) ==
  IF e.id \in Checkpoints
  THEN ckptHome[e.id] = F /\ ckpt[e.id] \in {"admitted", "executed"} /\ e.at = ckptAt[e.id]
  ELSE Started(e.id) /\ e.at = startedAt[e.id]

EntryTimes == \A F \in Families : \A e \in entries[F] \cup ready[F] : TimedIn(F, e)

\* Ordinals are fresh, so keys are unique.
Keys ==
  \A F \in Families : \A e \in entries[F] :
    /\ e.ord < nextOrdinal[F]
    /\ \A d \in entries[F] : Key(d) = Key(e) => d = e

\* The slot s of root r leads to r's pending entry.
Leads(s, r) ==
  \E e \in entries[s.family] : e.id = r /\ e.what = "pending" /\ e.at = s.at /\ e.ord = s.ord

SlotsLead ==
  /\ \A r \in Roots : slots[r] # NoSlot => Leads(slots[r], r) /\ slots[r].at = startedAt[r]
  /\ worker.pc = "replace" => Leads(worker.slot, worker.root) /\ slots[worker.root] = NoSlot

Queued(c) == \E e \in entries[ckptHome[c]] \cup ready[ckptHome[c]] : e.id = c
Ran(F, x) == \E i \in DOMAIN log[F] : RunAt(F, i, x)
Live(c) == ckpt[c] \in {"accepted", "admitted", "executed"}

\* The admission queue holds the accepted checkpoints, each once.
AdmitQueue ==
  \A i \in DOMAIN admitQ :
    /\ ckpt[admitQ[i]] = "accepted"
    /\ \A j \in DOMAIN admitQ : admitQ[i] = admitQ[j] => i = j

Whereabouts ==
  \A c \in Checkpoints :
    /\ ckpt[c] = "accepted" => \E i \in DOMAIN admitQ : admitQ[i] = c
    /\ ckpt[c] = "admitted" => Queued(c)
    /\ ckpt[c] = "executed" => Ran(ckptHome[c], c)

LockReady == \A F \in Families : lock[F] = "free" => ready[F] = {}

\* A batch that holds a command holds every earlier checkpoint that has not run.
ReadyGate ==
  \A F \in Families : \A e \in ready[F] : e.what = "command" =>
    \A c \in Checkpoints :
      ckptHome[c] = F /\ Live(c) /\ ckptAt[c] < startedAt[e.id] =>
        Ran(F, c) \/ \E d \in ready[F] : d.id = c

LogStarted ==
  \A F \in Families : \A i \in DOMAIN log[F] : log[F][i].id \in Roots => Started(log[F][i].id)

Heard   == Clocks /\ ReaderStamps /\ QueueStamps /\ WorkerStamps
Placed  == EntryTimes /\ Keys /\ SlotsLead
Tracked == /\ AdmitQueue /\ Whereabouts /\ LockReady /\ ReadyGate /\ LogStarted
           /\ LaterCommandWaits

OrderInv == TypeInv /\ Heard /\ Placed /\ Tracked

-----------------------------------------------------------------------------
\* Nothing has been heard, placed or run initially.
LEMMA OrderInvInit == Init => OrderInv
<1> SUFFICES ASSUME Init PROVE OrderInv
  OBVIOUS
<1> USE ConstantsAssumption DEF Init
<1>1. TypeInv
  BY TypeInvInit
<1>2. Heard
  BY DEF Heard, Clocks, ReaderStamps, QueueStamps, WorkerStamps, Stamp, Started, IdleWorker
<1>3. Placed
  BY DEF Placed, EntryTimes, Keys, SlotsLead, IdleWorker
<1>4. Tracked
  BY DEF Tracked, AdmitQueue, Whereabouts, LockReady, ReadyGate, LogStarted, LaterCommandWaits
<1> QED BY <1>1, <1>2, <1>3, <1>4 DEF OrderInv

-----------------------------------------------------------------------------
(* What the daemon has heard.                                               *)

\* A git process starts or ends: an unborn root is known nowhere.
LEMMA HeardGit ==
  ASSUME OrderInv, NEW r \in Roots, GitStart(r) \/ GitEnd(r)
  PROVE  Heard' /\ Aged
<1> USE ConstantsAssumption DEF OrderInv, TypeInv, TypeOK, EnvOK, Started, Aged
<1>1. UNCHANGED <<reader, child, rootStarted, queue, worker>>
  BY DEF GitStart, GitEnd, readerVars, ingressVars, queueVars
<1>2. Aged
  BY DEF GitStart, GitEnd
<1>3. Clocks'
  <2>1. CASE GitStart(r)
    <3>1. PICK t \in {clock + d : d \in Ticks} :
            startedAt' = [startedAt EXCEPT ![r] = t] /\ clock' = t
      BY <2>1 DEF GitStart
    <3>2. t \in Nat /\ clock <= t /\ git' = [git EXCEPT ![r] = "running"]
      BY <2>1 DEF GitStart
    <3> QED BY <3>1, <3>2 DEF Heard, Clocks
  <2>2. CASE GitEnd(r)
    BY <2>2 DEF GitEnd, Heard, Clocks
  <2> QED BY <2>1, <2>2
<1>4. ReaderStamps'
  <2> SUFFICES ASSUME NEW q \in Roots
               PROVE  /\ Stamp(rootStarted[q], q)'
                      /\ reader[q].frame # "start" \/ reader[q].step \notin {"read", "closed"}
                           => Started(q)'
                      /\ reader[q].step = "send" =>
                           reader[q].payload.root = q /\ Stamp(reader[q].payload.at, q)'
                      /\ child[q].step # "read" => Started(q)'
                      /\ child[q].step = "send" =>
                           child[q].payload.root = q /\ Stamp(child[q].payload.at, q)'
    BY <1>1 DEF ReaderStamps
  <2>1. rootStarted[q] = 0 \/ Started(q)
    BY DEF Heard, Clocks, ReaderStamps, Stamp
  <2> QED BY <1>1, <1>2, <2>1 DEF Heard, ReaderStamps, Stamp
<1>5. QueueStamps'
  <2>1. \A i \in DOMAIN queue : queue[i] \in Payloads
    BY DEF QueueOK
  <2>2. \A i \in DOMAIN queue : queue[i].root \in Roots
    BY <2>1 DEF Payloads
  <2> QED BY <1>1, <1>2, <2>2 DEF Heard, QueueStamps, Stamp
<1>6. WorkerStamps'
  <2>1. worker.pc \in {"replace", "append"} => worker.root \in Roots
    BY DEF Shapes, WorkerShape
  <2> QED BY <1>1, <1>2, <2>1 DEF Heard, WorkerStamps
<1> QED BY <1>2, <1>3, <1>4, <1>5, <1>6 DEF Heard

\* Recording a closed connection forgets a start time or keeps it.
LEMMA StampRecordClose ==
  ASSUME TypeInv, NEW r \in Roots, RecordClose(r) \/ ClearRoot(r), NEW q \in Roots
  PROVE  rootStarted'[q] \in {0, rootStarted[q]}
BY DEF TypeInv, TypeOK, IngressOK, RecordClose, ClearRoot, ForgetRoot

\* Queueing a payload of a started root with the right time.
LEMMA StampEnqueue ==
  ASSUME OrderInv, UNCHANGED <<git, startedAt>>, NEW p, Enqueue(p),
         Started(p.root), Stamp(p.at, p.root)
  PROVE  QueueStamps'
<1> DEFINE Fine(x) == Started(x.root) /\ Stamp(x.at, x.root)
<1>1. \A i \in DOMAIN queue : Fine(queue[i])
  BY DEF OrderInv, Heard, QueueStamps
<1>2. Fine(p) /\ queue' = Append(queue, p) /\ queue \in Seq(Payloads)
  BY DEF Enqueue, OrderInv, TypeInv, TypeOK, QueueOK
<1>3. \A i \in DOMAIN queue' : Fine(queue'[i])
  <2> HIDE DEF Fine
  <2> QED BY <1>1, <1>2
<1> QED BY <1>3 DEF QueueStamps, Stamp, Started

\* The steps of the root's reader thread.
LEMMA HeardReader ==
  ASSUME OrderInv, NEW r \in Roots, ReaderStep(r)
  PROVE  Heard'
<1> USE ConstantsAssumption DEF OrderInv, TypeInv, TypeOK, Started
<1> USE DEF envVars, gitVars, readerVars, ingressVars, queueVars, ReaderStep
<1>1. UNCHANGED <<git, startedAt, clock, child, worker>>
  BY DEF OpenRoot, Track, Capture, Send, Close, SendMarker
<1>2. Clocks' /\ WorkerStamps'
  BY <1>1 DEF Heard, Clocks, WorkerStamps
<1>3. \A q \in Roots : Stamp(rootStarted[q], q)'
  <2>1. \A q \in Roots : Stamp(rootStarted[q], q)
    BY DEF Heard, ReaderStamps
  <2>2. CASE Track(r)
    BY <1>1, <2>1, <2>2 DEF Track, Stamp, IngressOK
  <2>3. CASE Close(r)
    BY <1>1, <2>1, <2>3, StampRecordClose DEF Close, Stamp
  <2>4. CASE OpenRoot(r) \/ Capture(r) \/ Send(r) \/ SendMarker(r)
    BY <1>1, <2>1, <2>4 DEF OpenRoot, Capture, Send, SendMarker, Stamp
  <2> QED BY <2>2, <2>3, <2>4
<1> DEFINE Known(x, q) == /\ x.frame # "start" \/ x.step \notin {"read", "closed"} => Started(q)
                          /\ x.step = "send" => x.payload.root = q /\ Stamp(x.payload.at, q)
<1>4. \A q \in Roots : Known(reader[q], q)
  BY DEF Heard, ReaderStamps
<1>5. Known(reader'[r], r) /\ \A q \in Roots \ {r} : reader'[q] = reader[q]
  <2>1. CASE OpenRoot(r)
    BY <1>4, <2>1 DEF OpenRoot, FrameAvailable, ReaderType
  <2>2. CASE Track(r)
    <3>1. Started(r)
      BY <2>2 DEF Track, FrameAvailable
    <3>2. PICK t \in {0, rootStarted[r], startedAt[r]}, f \in Families \cup {NoFamily} :
            \/ reader' = [reader EXCEPT ![r] = [@ EXCEPT !.step = "capture"]]
            \/ reader' = [reader EXCEPT ![r] =
                 [frame |-> NextFrame(reader[r].frame), step |-> "read", payload |-> NoSlot]]
            \/ reader' = [reader EXCEPT ![r] =
                 [frame |-> reader[r].frame, step |-> "send",
                  payload |-> Payload(r, reader[r].frame, t, f)]]
      BY <2>2 DEF Track, IngressOK, EnvOK
    <3>3. Stamp(t, r)
      BY DEF Heard, ReaderStamps, Stamp
    <3> QED BY <3>1, <3>2, <3>3 DEF Payload, ReaderType
  <2>3. CASE Capture(r)
    <3>1. Stamp(rootStarted[r], r) /\ Started(r)
      BY <1>4, <2>3 DEF Capture, Heard, ReaderStamps
    <3> QED BY <2>3, <3>1 DEF Capture, Payload
  <2>4. CASE Send(r)
    BY <1>4, <2>4 DEF Send
  <2>5. CASE Close(r)
    <3>1. PICK st \in {"marker", "closed"} : reader' = [reader EXCEPT ![r] = [@ EXCEPT !.step = st]]
      BY <2>5 DEF Close
    <3>2. reader[r].frame = "start" => reader' = [reader EXCEPT ![r].step = "closed"]
      BY <2>5 DEF Close
    <3> QED BY <1>4, <3>1, <3>2 DEF ReaderType
  <2>6. CASE SendMarker(r)
    BY <1>4, <2>6 DEF SendMarker, ReaderType
  <2> QED BY <2>1, <2>2, <2>3, <2>4, <2>5, <2>6
<1>6. ReaderStamps'
  <2>1. \A q \in Roots : Known(reader'[q], q)
    BY <1>4, <1>5
  <2> QED BY <1>1, <1>3, <2>1 DEF ReaderStamps, Heard, Stamp
<1>7. QueueStamps'
  <2>1. CASE Send(r)
    BY <1>1, <1>4, <2>1, StampEnqueue DEF Send
  <2>2. CASE SendMarker(r)
    <3>1. Started(r)
      BY <1>4, <2>2 DEF SendMarker
    <3>2. Marker(r).root = r /\ Stamp(Marker(r).at, r)
      BY DEF Marker, Payload, Stamp
    <3> QED BY <1>1, <2>2, <3>1, <3>2, StampEnqueue DEF SendMarker
  <2>3. CASE UNCHANGED queue
    BY <1>1, <2>3 DEF Heard, QueueStamps, Stamp
  <2> QED BY <2>1, <2>2, <2>3 DEF OpenRoot, Track, Capture, Close
<1> QED BY <1>2, <1>6, <1>7 DEF Heard

\* The steps of the child's reader thread.
LEMMA HeardChild ==
  ASSUME OrderInv, NEW r \in Roots, ChildRead(r) \/ ChildStep(r)
  PROVE  Heard'
<1> USE ConstantsAssumption DEF OrderInv, TypeInv, TypeOK, Started
<1> USE DEF envVars, gitVars, readerVars, ingressVars, queueVars, ChildStep
<1>1. UNCHANGED <<git, startedAt, clock, reader, worker>>
  BY DEF ChildRead, ChildTrack, ChildCapture, ChildSend, ChildClose, ChildSendMarker
<1>2. Clocks' /\ WorkerStamps'
  BY <1>1 DEF Heard, Clocks, WorkerStamps
<1>3. \A q \in Roots : Stamp(rootStarted[q], q)'
  <2>1. \A q \in Roots : Stamp(rootStarted[q], q)
    BY DEF Heard, ReaderStamps
  <2>2. CASE ChildClose(r)
    BY <1>1, <2>1, <2>2, StampRecordClose DEF ChildClose, Stamp
  <2>3. CASE UNCHANGED rootStarted
    BY <1>1, <2>1, <2>3 DEF Stamp
  <2> QED BY <2>2, <2>3 DEF ChildRead, ChildTrack, ChildCapture, ChildSend, ChildSendMarker
<1> DEFINE Known(x, q) == /\ x.step # "read" => Started(q)
                          /\ x.step = "send" => x.payload.root = q /\ Stamp(x.payload.at, q)
<1>4. \A q \in Roots : Known(child[q], q)
  BY DEF Heard, ReaderStamps
<1>5. Stamp(rootStarted[r], r)
  BY DEF Heard, ReaderStamps
<1>6. Known(child'[r], r) /\ \A q \in Roots \ {r} : child'[q] = child[q]
  <2>1. CASE ChildRead(r)
    BY <2>1 DEF ChildRead, ChildType
  <2>2. CASE ChildTrack(r)
    <3>1. Started(r)
      BY <1>4, <2>2 DEF ChildTrack
    <3>2. \/ child' = [child EXCEPT ![r] = [@ EXCEPT !.step = "capture"]]
          \/ child' = [child EXCEPT ![r] = [@ EXCEPT !.step = "eof"]]
          \/ child' = [child EXCEPT ![r] =
               [step |-> "send", payload |-> Payload(r, "child", rootStarted[r], rootFamily[r])]]
      BY <2>2 DEF ChildTrack
    <3> QED BY <1>5, <3>1, <3>2 DEF Payload, ChildType
  <2>3. CASE ChildCapture(r)
    BY <1>4, <1>5, <2>3 DEF ChildCapture, Payload
  <2>4. CASE ChildSend(r)
    BY <1>4, <2>4 DEF ChildSend, ChildType
  <2>5. CASE ChildClose(r)
    <3>1. PICK st \in {"marker", "closed"} : child' = [child EXCEPT ![r] = [@ EXCEPT !.step = st]]
      BY <2>5 DEF ChildClose
    <3> QED BY <1>4, <2>5, <3>1 DEF ChildClose, ChildType
  <2>6. CASE ChildSendMarker(r)
    BY <1>4, <2>6 DEF ChildSendMarker, ChildType
  <2> QED BY <2>1, <2>2, <2>3, <2>4, <2>5, <2>6
<1>7. ReaderStamps'
  <2>1. \A q \in Roots : Known(child'[q], q)
    BY <1>4, <1>6
  <2> QED BY <1>1, <1>3, <2>1 DEF ReaderStamps, Heard, Stamp
<1>8. QueueStamps'
  <2>1. CASE ChildSend(r)
    BY <1>1, <1>4, <2>1, StampEnqueue DEF ChildSend
  <2>2. CASE ChildSendMarker(r)
    <3>1. Started(r)
      BY <1>4, <2>2 DEF ChildSendMarker
    <3>2. Marker(r).root = r /\ Stamp(Marker(r).at, r)
      BY DEF Marker, Payload, Stamp
    <3> QED BY <1>1, <2>2, <3>1, <3>2, StampEnqueue DEF ChildSendMarker
  <2>3. CASE UNCHANGED queue
    BY <1>1, <2>3 DEF Heard, QueueStamps, Stamp
  <2> QED BY <2>1, <2>2, <2>3 DEF ChildRead, ChildTrack, ChildCapture, ChildClose
<1> QED BY <1>2, <1>7, <1>8 DEF Heard

\* Steps of the other actors hear nothing new.
LEMMA HeardQuiet ==
  ASSUME OrderInv, UNCHANGED <<git, startedAt, reader, child, queue>>,
         clock' \in Nat, clock <= clock',
         \A q \in Roots : rootStarted'[q] \in {0, rootStarted[q]},
         UNCHANGED worker \/ worker'.pc \notin {"replace", "append"}
  PROVE  Heard'
<1> USE DEF OrderInv, Heard, TypeInv, TypeOK, EnvOK, Started
<1>1. Clocks'
  BY DEF Clocks
<1>2. ReaderStamps'
  BY DEF ReaderStamps, Stamp
<1>3. QueueStamps' /\ WorkerStamps'
  BY DEF QueueStamps, WorkerStamps, Stamp
<1> QED BY <1>1, <1>2, <1>3

-----------------------------------------------------------------------------
(* Steps that move no entry.                                                *)

\* Steps that move no entry and no checkpoint keep the places of all of them; an
\* empty sequencer may count its ordinals anew.
LEMMA PlacedQuiet ==
  ASSUME OrderInv, Aged,
         UNCHANGED <<ckptHome, ckpt, ckptAt, entries, slots, admitQ, lock, ready, log>>,
         UNCHANGED worker \/ worker'.pc # "replace",
         \A F \in Families : entries[F] # {} => nextOrdinal'[F] = nextOrdinal[F]
  PROVE  Placed' /\ Tracked'
<1> USE ConstantsAssumption DEF OrderInv, TypeInv, TypeOK, EnvOK
<1>1. \A F \in Families : \A e \in entries[F] \cup ready[F] :
        e \in EntryType /\ (e.id \notin Checkpoints => e.id \in Roots)
  BY DEF SequencerOK, EntryType
<1>2. EntryTimes'
  BY <1>1 DEF Aged, Placed, EntryTimes, TimedIn
<1>3. Keys'
  BY DEF Placed, Keys, Key
<1>4. SlotsLead'
  <2>1. \A q \in Roots : slots[q] # NoSlot => Started(q)
    <3> SUFFICES ASSUME NEW q \in Roots, slots[q] # NoSlot PROVE Started(q)
      OBVIOUS
    <3>1. slots[q].family \in Families
      BY DEF SequencerOK, SlotType
    <3>2. PICK e \in entries[slots[q].family] : e.id = q
      BY DEF Placed, SlotsLead, Leads
    <3> QED BY <3>1, <3>2 DEF Placed, EntryTimes, TimedIn
  <2> QED BY <2>1 DEF Placed, SlotsLead, Leads, Aged
<1>5. AdmitQueue' /\ Whereabouts' /\ LockReady'
  BY DEF Tracked, AdmitQueue, Whereabouts, Queued, Ran, RunAt, LockReady
<1>6. ReadyGate'
  <2>1. \A F \in Families : \A e \in ready[F] : e.what = "command" =>
          e.id \in Roots /\ startedAt'[e.id] = startedAt[e.id]
    BY <1>1 DEF Placed, EntryTimes, TimedIn, Aged, Shapes, EntryShape, WellNamed
  <2> QED BY <2>1 DEF Tracked, ReadyGate, Live, Ran, RunAt
<1>7. LogStarted'
  BY DEF Tracked, LogStarted, Aged
<1>8. LaterCommandWaits'
  <2>1. \A F \in Families : \A i \in DOMAIN log[F] : \A r \in Roots :
          RunAt(F, i, r) => startedAt'[r] = startedAt[r]
    BY DEF Tracked, LogStarted, Aged, RunAt
  <2> QED BY <2>1 DEF Tracked, LaterCommandWaits, RunAt, RanBefore
<1> QED BY <1>2, <1>3, <1>4, <1>5, <1>6, <1>7, <1>8 DEF Placed, Tracked

-----------------------------------------------------------------------------
(* Steps that insert an entry or drain a family.                            *)

\* A fresh ordinal overwrites nothing.
LEMMA FreshInsert ==
  ASSUME OrderInv, NEW F \in Families, NEW e, e.ord = nextOrdinal[F]
  PROVE  Insert(F, e) = entries[F] \cup {e}
<1>1. \A d \in entries[F] : d.ord < nextOrdinal[F] /\ d.ord \in Nat
  BY DEF OrderInv, Placed, Keys, TypeInv, TypeOK, SequencerOK, EntryType
<1>2. \A d \in entries[F] : Key(d) # Key(e)
  BY <1>1 DEF Key
<1> QED BY <1>2 DEF Insert

\* Inserting an entry with a fresh ordinal adds it and keeps the keys unique.
LEMMA InsertOrder ==
  ASSUME OrderInv, NEW F \in Families, NEW e, e.ord = nextOrdinal[F],
         entries' = [entries EXCEPT ![F] = Insert(F, e)],
         nextOrdinal' = [nextOrdinal EXCEPT ![F] = @ + 1]
  PROVE  /\ entries'[F] = entries[F] \cup {e}
         /\ \A G \in Families \ {F} : entries'[G] = entries[G]
         /\ Keys'
<1> USE DEF OrderInv, TypeInv, TypeOK
<1>1. Insert(F, e) = entries[F] \cup {e}
  BY FreshInsert
<1>2. /\ entries'[F] = entries[F] \cup {e} /\ nextOrdinal'[F] = nextOrdinal[F] + 1
      /\ \A G \in Families \ {F} : entries'[G] = entries[G] /\ nextOrdinal'[G] = nextOrdinal[G]
  BY <1>1 DEF SequencerOK
<1>3. nextOrdinal[F] \in Nat /\ \A d \in entries[F] : d.ord < nextOrdinal[F] /\ d.ord \in Nat
  BY DEF Placed, Keys, SequencerOK, EntryType
<1>4. \A d \in entries[F] : Key(d) # Key(e)
  BY <1>3 DEF Key
<1>5. \A d \in entries'[F] : /\ d.ord < nextOrdinal'[F]
                             /\ \A x \in entries'[F] : Key(x) = Key(d) => x = d
  BY <1>2, <1>3, <1>4 DEF Placed, Keys
<1>6. \A G \in Families \ {F} : \A d \in entries'[G] :
        d.ord < nextOrdinal'[G] /\ \A x \in entries'[G] : Key(x) = Key(d) => x = d
  BY <1>2 DEF Placed, Keys
<1>7. Keys'
  BY <1>5, <1>6 DEF Keys, Key
<1> QED BY <1>2, <1>7

\* The ready prefix is closed downwards: an entry before one in it is in it.
LEMMA BatchPrefix ==
  ASSUME NEW F, NEW es \in SUBSET EntryType, NEW e \in Batch(F, es), NEW d \in es, d.at < e.at
  PROVE  d \in Batch(F, es)
<1>1. e \in es /\ ~(unadmitted > 0)
  BY DEF Batch
<1>2. d.at \in Nat /\ e.at \in Nat /\ \A x \in es : x.at \in Nat /\ x.ord \in Nat
  BY <1>1 DEF EntryType
<1>3. \A x \in es : x = d \/ Before(x, d) => Before(x, e)
  BY <1>2 DEF Before
<1>4. \A x \in es : x = e \/ Before(x, e) => ~Stuck(F, x)
  BY DEF Batch
<1>5. \A x \in es : x = d \/ Before(x, d) => ~Stuck(F, x)
  BY <1>3, <1>4
<1> QED BY <1>1, <1>5 DEF Batch

\* Draining family F from the entries es, which hold all its checkpoints and the
\* pending entries the slots lead to.
LEMMA DrainOrder ==
  ASSUME OrderInv, NEW F \in Families, NEW es \in SUBSET EntryType, WellNamed(es),
         NEW owner \in {"worker", "task"}, BeginDrain(F, es, owner),
         UNCHANGED <<ckptHome, git, startedAt, ckpt, ckptAt, slots, admitQ>>,
         \A G \in Families \ {F} : nextOrdinal'[G] = nextOrdinal[G],
         \A e \in es : /\ TimedIn(F, e)
                       /\ e.ord < nextOrdinal'[F]
                       /\ \A d \in es : Key(d) = Key(e) => d = e,
         \A d \in entries[F] : d.id \in Checkpoints => d \in es,
         \A r \in Roots : slots[r] # NoSlot /\ slots[r].family = F =>
           \A d \in entries[F] : d.id = r => d \in es,
         worker'.pc = "replace" => UNCHANGED worker /\ es = entries[F]
  PROVE  Placed' /\ Tracked'
<1> USE ConstantsAssumption DEF OrderInv, TypeInv, TypeOK, EnvOK
<1> DEFINE b == Batch(F, es)
<1>1. b \subseteq es /\ (b # {} => ~(unadmitted > 0)) /\ \A e \in b : e.what # "pending"
  BY DEF Batch, Stuck
<1>2. /\ lock[F] = "free"
      /\ entries' = [entries EXCEPT ![F] = es \ b]
      /\ ready' = [ready EXCEPT ![F] = b]
      /\ lock' = [lock EXCEPT ![F] = IF b = {} THEN "free" ELSE owner]
      /\ UNCHANGED log
  BY DEF BeginDrain
<1>3. \A e \in b, d \in es : d.at < e.at => d \in b
  BY BatchPrefix
<1> HIDE DEF b
<1>4. entries'[F] = es \ b /\ ready'[F] = b /\ lock'[F] = (IF b = {} THEN "free" ELSE owner)
  BY <1>2 DEF SequencerOK
<1>5. \A G \in Families \ {F} : /\ entries'[G] = entries[G]
                                /\ ready'[G] = ready[G] /\ lock'[G] = lock[G]
  BY <1>2 DEF SequencerOK
<1>6. ready[F] = {}
  BY <1>2 DEF Tracked, LockReady
<1>7. EntryTimes'
  <2>1. \A e \in es : TimedIn(F, e)'
    BY DEF TimedIn, Started
  <2>2. \A G \in Families \ {F} : \A e \in entries[G] \cup ready[G] : TimedIn(G, e)'
    BY DEF Placed, EntryTimes, TimedIn, Started
  <2> QED BY <1>1, <1>4, <1>5, <2>1, <2>2 DEF EntryTimes
<1>8. Keys'
  <2>1. \A e \in entries'[F] : /\ e.ord < nextOrdinal'[F]
                               /\ \A d \in entries'[F] : Key(d) = Key(e) => d = e
    BY <1>4
  <2>2. \A G \in Families \ {F} : \A e \in entries'[G] :
          /\ e.ord < nextOrdinal'[G]
          /\ \A d \in entries'[G] : Key(d) = Key(e) => d = e
    BY <1>5 DEF Placed, Keys
  <2> QED BY <2>1, <2>2 DEF Keys, Key
<1>9. SlotsLead'
  <2>1. ASSUME NEW s \in SlotType, NEW r \in Roots, Leads(s, r),
               s.family = F => \A d \in entries[F] : d.id = r => d \in es
        PROVE  Leads(s, r)'
    <3>1. PICK e \in entries[s.family] :
            e.id = r /\ e.what = "pending" /\ e.at = s.at /\ e.ord = s.ord
      BY <2>1 DEF Leads
    <3>2. s.family \in Families
      BY DEF SlotType
    <3>3. e \in entries'[s.family]
      BY <1>1, <1>4, <1>5, <2>1, <3>1, <3>2
    <3> QED BY <3>1, <3>3 DEF Leads
  <2>2. \A r \in Roots : slots[r] # NoSlot =>
          slots[r] \in SlotType /\ Leads(slots[r], r) /\ slots[r].at = startedAt[r]
    BY DEF SequencerOK, Placed, SlotsLead
  <2>3. worker'.pc = "replace" =>
          /\ worker.slot \in SlotType /\ worker.root \in Roots /\ UNCHANGED worker
          /\ Leads(worker.slot, worker.root) /\ slots[worker.root] = NoSlot /\ es = entries[F]
    BY DEF Shapes, WorkerShape, Placed, SlotsLead
  <2>4. \A r \in Roots : slots[r] # NoSlot => Leads(slots[r], r)'
    BY <2>1, <2>2
  <2>5. worker'.pc = "replace" => Leads(worker.slot, worker.root)'
    BY <2>1, <2>3
  <2> QED BY <2>2, <2>3, <2>4, <2>5 DEF SlotsLead, Leads
<1>10. AdmitQueue' /\ LogStarted' /\ LaterCommandWaits'
  BY <1>2 DEF Tracked, AdmitQueue, LogStarted, Started, LaterCommandWaits, RunAt, RanBefore
<1>11. Whereabouts'
  <2>1. \A c \in Checkpoints : Queued(c) => Queued(c)'
    BY <1>1, <1>4, <1>5, <1>6 DEF Queued
  <2> QED BY <1>2, <2>1 DEF Tracked, Whereabouts, Ran, RunAt
<1>12. LockReady'
  BY <1>4, <1>5 DEF Tracked, LockReady
<1>13. ReadyGate'
  <2> SUFFICES ASSUME NEW G \in Families, NEW e \in ready'[G], e.what = "command",
                      NEW c \in Checkpoints, ckptHome[c] = G, Live(c), ckptAt[c] < startedAt[e.id]
               PROVE  Ran(G, c) \/ \E d \in ready'[G] : d.id = c
    BY <1>2 DEF ReadyGate, Live, Ran, RunAt
  <2>1. CASE G # F
    BY <1>5, <2>1 DEF Tracked, ReadyGate
  <2>2. CASE G = F
    <3>1. e \in b /\ e \in es
      BY <1>1, <1>4, <2>2
    <3>2. e.at = startedAt[e.id]
      BY <3>1 DEF WellNamed, TimedIn
    <3>3. admitQ = <<>>
      BY <1>1, <3>1 DEF Shapes, GateCounts, AdmissionOK
    <3>4. ckpt[c] # "accepted"
      BY <3>3 DEF Tracked, Whereabouts
    <3>5. CASE ckpt[c] = "executed"
      BY <3>5 DEF Tracked, Whereabouts
    <3>6. CASE ckpt[c] = "admitted"
      <4>1. PICK d \in entries[F] : d.id = c
        BY <1>6, <2>2, <3>6 DEF Tracked, Whereabouts, Queued
      <4>2. d \in es /\ d.at = ckptAt[c]
        BY <4>1 DEF TimedIn
      <4>3. d \in b
        BY <1>3, <3>1, <3>2, <4>2
      <4> QED BY <1>4, <2>2, <4>1, <4>3
    <3> QED BY <3>4, <3>5, <3>6 DEF Live
  <2> QED BY <2>1, <2>2
<1> QED BY <1>7, <1>8, <1>9, <1>10, <1>11, <1>12, <1>13 DEF Placed, Tracked

\* Draining a family as it is.
LEMMA OrderDrain ==
  ASSUME OrderInv, NEW F \in Families, WorkerDrain(F) \/ TaskDrain(F)
  PROVE  Placed' /\ Tracked'
<1> USE DEF OrderInv, TypeInv, TypeOK
<1>1. PICK owner \in {"worker", "task"} : BeginDrain(F, entries[F], owner)
  BY DEF WorkerDrain, TaskDrain
<1>2. UNCHANGED <<ckptHome, git, startedAt, ckpt, ckptAt, slots, admitQ, nextOrdinal>>
  BY DEF WorkerDrain, TaskDrain, envVars, gitVars, ckptVars
<1>3. worker'.pc = "replace" => UNCHANGED worker
  BY DEF WorkerDrain, TaskDrain, WorkerType
<1>4. entries[F] \in SUBSET EntryType /\ WellNamed(entries[F])
  BY DEF SequencerOK, Shapes, EntryShape
<1>5. \A e \in entries[F] : /\ TimedIn(F, e)
                            /\ e.ord < nextOrdinal'[F]
                            /\ \A d \in entries[F] : Key(d) = Key(e) => d = e
  BY <1>2 DEF Placed, EntryTimes, Keys
<1> QED BY <1>1, <1>2, <1>3, <1>4, <1>5, DrainOrder

\* Appending the command of a root that had no pending entry.
LEMMA OrderAppend ==
  ASSUME OrderInv, WorkerAppend
  PROVE  Placed' /\ Tracked'
<1> USE ConstantsAssumption DEF OrderInv, TypeInv, TypeOK
<1> DEFINE F == worker.family
           e == Entry(startedAt[worker.root], nextOrdinal[F], "command", worker.root)
           es == entries[F] \cup {e}
<1>1. worker.root \in Roots /\ F \in Families /\ Started(worker.root)
  BY DEF WorkerAppend, Shapes, WorkerShape, Heard, WorkerStamps
<1>2. startedAt[worker.root] \in Nat /\ nextOrdinal[F] \in Nat
  BY <1>1 DEF EnvOK, SequencerOK
<1>3. e \in EntryType /\ WellNamed({e})
  BY <1>1, <1>2, RootEntryType
<1>4. e.ord = nextOrdinal[F] /\ TimedIn(F, e)
  BY <1>1 DEF Entry, TimedIn
<1>5. /\ BeginDrain(F, Insert(F, e), "worker")
      /\ nextOrdinal' = [nextOrdinal EXCEPT ![F] = @ + 1]
      /\ worker' = [worker EXCEPT !.pc = "clear"]
      /\ UNCHANGED <<ckptHome, git, startedAt, ckpt, ckptAt, slots, admitQ>>
  BY DEF WorkerAppend, envVars, gitVars, ckptVars
<1> HIDE DEF e
<1>6. Insert(F, e) = es
  BY <1>1, <1>4, FreshInsert
<1>7. entries[F] \in SUBSET EntryType /\ WellNamed(entries[F])
  BY <1>1 DEF SequencerOK, Shapes, EntryShape
<1>8. es \in SUBSET EntryType /\ WellNamed(es)
  BY <1>3, <1>7 DEF WellNamed
<1>9. /\ nextOrdinal'[F] = nextOrdinal[F] + 1
      /\ \A G \in Families \ {F} : nextOrdinal'[G] = nextOrdinal[G]
  BY <1>1, <1>5 DEF SequencerOK
<1>10. \A d \in es : /\ TimedIn(F, d)
                     /\ d.ord < nextOrdinal'[F]
                     /\ \A x \in es : Key(x) = Key(d) => x = d
  <2>1. \A d \in entries[F] : /\ TimedIn(F, d) /\ d.ord < nextOrdinal[F] /\ d.ord \in Nat
                              /\ \A x \in entries[F] : Key(x) = Key(d) => x = d
    BY <1>1, <1>7 DEF Placed, EntryTimes, Keys, EntryType
  <2>2. \A d \in entries[F] : Key(d) # Key(e)
    BY <1>2, <1>4, <2>1 DEF Key
  <2> QED BY <1>2, <1>4, <1>9, <2>1, <2>2
<1>11. worker'.pc # "replace"
  BY <1>5 DEF WorkerType
<1> HIDE DEF es
<1>12. entries[F] \subseteq es
  BY DEF es
<1> QED BY <1>1, <1>5, <1>6, <1>8, <1>9, <1>10, <1>11, <1>12, DrainOrder

\* Replacing a root's pending entry by its outcome: the slot's key is the key of
\* that entry and of no other.
LEMMA OrderReplace ==
  ASSUME OrderInv, WorkerReplace
  PROVE  Placed' /\ Tracked'
<1> USE ConstantsAssumption DEF OrderInv, TypeInv, TypeOK
<1> DEFINE s == worker.slot
           F == s.family
           r == worker.root
           e == Entry(s.at, s.ord, worker.outcome, r)
           es == {d \in entries[F] : Key(d) # Key(s)} \cup {e}
<1>1. /\ worker.pc = "replace" /\ r \in Roots /\ s \in SlotType
      /\ worker.outcome \in {"command", "canceled"}
  BY DEF WorkerReplace, Shapes, WorkerShape
<1>2. F \in Families /\ s.at \in Nat /\ s.ord \in Nat
  BY <1>1 DEF SlotType
<1>3. e \in EntryType /\ WellNamed({e})
  BY <1>1, <1>2, RootEntryType
<1>4. TimedIn(F, e) /\ Key(e) = Key(s)
  BY <1>1 DEF Entry, TimedIn, Heard, WorkerStamps, Key
<1>5. BeginDrain(F, es, "worker")
  BY DEF WorkerReplace
<1>6. UNCHANGED <<ckptHome, git, startedAt, ckpt, ckptAt, slots, admitQ, nextOrdinal>>
        /\ worker'.pc # "replace"
  BY DEF WorkerReplace, envVars, gitVars, ckptVars, WorkerType
<1>7. PICK x \in entries[F] : x.id = r /\ x.what = "pending" /\ Key(x) = Key(s) /\ e.ord = x.ord
  BY <1>1 DEF Placed, SlotsLead, Leads, Key, Entry
<1> HIDE DEF e
<1>8. entries[F] \in SUBSET EntryType /\ WellNamed(entries[F])
  BY <1>2 DEF SequencerOK, Shapes, EntryShape
<1>9. es \in SUBSET EntryType /\ WellNamed(es)
  BY <1>3, <1>8 DEF WellNamed
<1>10. \A d \in entries[F] : /\ TimedIn(F, d) /\ d.ord < nextOrdinal[F]
                             /\ \A y \in entries[F] : Key(y) = Key(d) => y = d
  BY <1>2 DEF Placed, EntryTimes, Keys
<1>11. \A d \in es : /\ TimedIn(F, d)
                     /\ d.ord < nextOrdinal'[F]
                     /\ \A y \in es : Key(y) = Key(d) => y = d
  BY <1>4, <1>6, <1>7, <1>10
<1>12. \A d \in entries[F] : d # x => d \in es
  BY <1>7, <1>10
<1>13. r \notin Checkpoints /\ slots[r] = NoSlot
  BY <1>1 DEF Placed, SlotsLead
<1> HIDE DEF es
<1>14. \A d \in entries[F] : d.id \in Checkpoints => d \in es
  BY <1>7, <1>12, <1>13
<1>15. \A q \in Roots : slots[q] # NoSlot /\ slots[q].family = F =>
         \A d \in entries[F] : d.id = q => d \in es
  BY <1>7, <1>12, <1>13
<1> QED BY <1>2, <1>5, <1>6, <1>9, <1>11, <1>14, <1>15, DrainOrder

\* A checkpoint stays where it is when entries are only added.
LEMMA TrackedGrow ==
  ASSUME OrderInv, UNCHANGED <<ckptHome, git, startedAt, ckpt, ckptAt, admitQ, lock, ready, log>>,
         \A F \in Families : entries[F] \subseteq entries'[F]
  PROVE  Tracked'
<1> USE DEF OrderInv, Tracked, TypeInv, TypeOK, EnvOK
<1>1. AdmitQueue' /\ LockReady' /\ ReadyGate'
  BY DEF AdmitQueue, LockReady, ReadyGate, Live, Ran, RunAt
<1>2. Whereabouts'
  <2>1. \A c \in Checkpoints : Queued(c) => Queued(c)'
    BY DEF Queued
  <2> QED BY <2>1 DEF Whereabouts, Ran, RunAt
<1>3. LogStarted' /\ LaterCommandWaits'
  BY DEF LogStarted, Started, LaterCommandWaits, RunAt, RanBefore
<1> QED BY <1>1, <1>2, <1>3

\* After the step, the slot s leads to the pending entry of root r.
LeadsNext(s, r) ==
  \E e \in entries'[s.family] : e.id = r /\ e.what = "pending" /\ e.at = s.at /\ e.ord = s.ord

\* Appending a pending root with the start time of its payload.
LEMMA OrderPending ==
  ASSUME OrderInv, NEW p \in Payloads, Started(p.root), Stamp(p.at, p.root), AppendPending(p),
         UNCHANGED <<ckptHome, git, startedAt, ckpt, ckptAt, ready>>
  PROVE  /\ EntryTimes' /\ Keys'
         /\ \A F \in Families : entries[F] \subseteq entries'[F]
         /\ SlotAfter(p) # NoSlot => /\ SlotAfter(p) \in SlotType
                                     /\ LeadsNext(SlotAfter(p), p.root)
                                     /\ SlotAfter(p).at = startedAt[p.root]
<1> USE ConstantsAssumption DEF OrderInv, TypeInv, TypeOK
<1>1. p.root \in Roots /\ p.at \in Nat /\ p.family \in Families \cup {NoFamily}
  BY DEF Payloads
<1>2. CASE ~AppendsPending(p)
  <2>1. UNCHANGED <<entries, nextOrdinal>> /\ SlotAfter(p) = slots[p.root]
    BY <1>2 DEF AppendPending, SlotAfter
  <2>2. EntryTimes' /\ Keys'
    BY <2>1 DEF Placed, EntryTimes, TimedIn, Started, Keys, Key
  <2>3. slots[p.root] # NoSlot => /\ slots[p.root] \in SlotType
                                  /\ Leads(slots[p.root], p.root)
                                  /\ slots[p.root].at = startedAt[p.root]
    BY <1>1 DEF Placed, SlotsLead, SequencerOK
  <2> QED BY <2>1, <2>2, <2>3 DEF Leads, LeadsNext
<1>3. CASE AppendsPending(p)
  <2> DEFINE F == p.family
             e == PendingEntry(p)
  <2>1. F \in Families /\ p.at = startedAt[p.root]
    BY <1>1, <1>3 DEF AppendsPending, Stamp
  <2>2. nextOrdinal[F] \in Nat
    BY <2>1 DEF SequencerOK
  <2>3. e = [at |-> p.at, ord |-> nextOrdinal[F], what |-> "pending", id |-> p.root]
    BY DEF PendingEntry, Entry
  <2>4. TimedIn(F, e)
    BY <1>1, <2>1, <2>3 DEF TimedIn
  <2>5. /\ entries' = [entries EXCEPT ![F] = Insert(F, e)]
        /\ nextOrdinal' = [nextOrdinal EXCEPT ![F] = @ + 1]
        /\ SlotAfter(p) = [family |-> F, at |-> p.at, ord |-> nextOrdinal[F]]
    BY <1>3, <2>3 DEF AppendPending, SlotAfter, Slot
  <2>6. e.ord = nextOrdinal[F]
    BY <2>3
  <2> HIDE DEF e
  <2>7. /\ entries'[F] = entries[F] \cup {e}
        /\ \A G \in Families \ {F} : entries'[G] = entries[G]
        /\ Keys'
    BY <2>1, <2>5, <2>6, InsertOrder
  <2>8. EntryTimes'
    <3>1. \A G \in Families : \A d \in entries'[G] \cup ready[G] : TimedIn(G, d)
      BY <2>4, <2>7 DEF Placed, EntryTimes
    <3> QED BY <3>1 DEF EntryTimes, TimedIn, Started
  <2>9. SlotAfter(p) \in SlotType /\ SlotAfter(p).at = startedAt[p.root]
    BY <1>1, <2>1, <2>2, <2>5 DEF SlotType
  <2>10. LeadsNext(SlotAfter(p), p.root)
    <3>1. /\ e \in entries'[F] /\ e.id = p.root /\ e.what = "pending"
          /\ e.at = p.at /\ e.ord = nextOrdinal[F]
      BY <2>3, <2>7 DEF e
    <3>2. \E d \in entries'[F] : /\ d.id = p.root /\ d.what = "pending"
                                 /\ d.at = p.at /\ d.ord = nextOrdinal[F]
      BY <3>1
    <3> QED BY <2>5, <3>2 DEF LeadsNext
  <2> QED BY <2>7, <2>8, <2>9, <2>10
<1> QED BY <1>2, <1>3

\* Applying a payload.
LEMMA OrderIngest ==
  ASSUME OrderInv, IngestStep
  PROVE  Heard' /\ Placed' /\ Tracked'
<1> USE ConstantsAssumption DEF OrderInv, TypeInv, TypeOK
<1> USE DEF envVars, gitVars, readerVars, ingressVars, queueVars, seqVars, execVars, ckptVars
<1>0. \A q \in Roots : slots[q] # NoSlot =>
        /\ slots[q] \in SlotType /\ slots[q].family \in Families
        /\ Leads(slots[q], q) /\ slots[q].at = startedAt[q]
  BY DEF Placed, SlotsLead, SequencerOK, SlotType
<1>1. PICK p : /\ p = Head(queue) /\ queue # <<>> /\ queue' = Tail(queue)
               /\ IngestFrame(p) \/ IngestAtexit(p) \/ IngestClosed(p)
  BY DEF IngestStep, IngestFrame, IngestAtexit, IngestClosed, TakePayload
<1>2. p \in Payloads /\ p = queue[1] /\ 1 \in DOMAIN queue
  BY <1>1 DEF QueueOK
<1>3. p.root \in Roots /\ Started(p.root) /\ Stamp(p.at, p.root)
  BY <1>2 DEF Payloads, Heard, QueueStamps
<1>4. UNCHANGED <<ckptHome, git, startedAt, clock, reader, child, rootStarted, lock, ready, log,
                  ckpt, ckptAt, admitQ>>
  BY <1>1 DEF IngestFrame, IngestAtexit, IngestClosed
<1>5. Clocks' /\ ReaderStamps'
  BY <1>4 DEF Heard, Clocks, ReaderStamps, Stamp, Started
<1>6. QueueStamps'
  <2>1. \A i \in DOMAIN queue' : i + 1 \in DOMAIN queue /\ queue'[i] = queue[i + 1]
    BY <1>1 DEF QueueOK
  <2> QED BY <1>4, <2>1 DEF Heard, QueueStamps, Stamp, Started
<1> DEFINE Given(s) == /\ s \in SlotType /\ LeadsNext(s, p.root) /\ s.at = startedAt[p.root]
<1>7. PICK s \in {SlotAfter(p), slots[p.root]} :
        /\ EntryTimes' /\ Keys' /\ \A F \in Families : entries[F] \subseteq entries'[F]
        /\ s # NoSlot => Given(s)
        /\ \/ slots' = [slots EXCEPT ![p.root] = s] /\ worker'.pc \notin {"replace", "append"}
           \/ /\ slots' = [slots EXCEPT ![p.root] = NoSlot]
              /\ worker'.root = p.root \/ worker'.pc \notin {"replace", "append"}
              /\ worker'.pc = "replace" => s # NoSlot /\ worker'.slot = s
  <2>1. CASE IngestFrame(p)
    <3>1. AppendPending(p) /\ slots' = [slots EXCEPT ![p.root] = SlotAfter(p)] /\ worker' = Finished
      BY <2>1 DEF IngestFrame
    <3> QED BY <1>2, <1>3, <1>4, <3>1, OrderPending, FinishedType
  <2>2. CASE IngestAtexit(p)
    <3>1. AppendPending(p) /\ slots' = [slots EXCEPT ![p.root] = NoSlot]
      BY <2>2 DEF IngestAtexit
    <3>2. PICK o :
            \/ SlotAfter(p) # NoSlot /\ worker' = Working("replace", p.root, o, SlotAfter(p), NoFamily)
            \/ worker' = Working("append", p.root, o, NoSlot, home[p.root])
            \/ worker' = Working("clear", p.root, o, NoSlot, NoFamily)
            \/ worker' = Finished
      BY <2>2 DEF IngestAtexit
    <3>3. /\ worker'.root = p.root \/ worker'.pc \notin {"replace", "append"}
          /\ worker'.pc = "replace" => SlotAfter(p) # NoSlot /\ worker'.slot = SlotAfter(p)
      BY <3>2, FinishedType DEF Working
    <3> QED BY <1>2, <1>3, <1>4, <3>1, <3>3, OrderPending
  <2>3. CASE IngestClosed(p)
    <3>1. UNCHANGED <<entries, nextOrdinal>> /\ slots' = [slots EXCEPT ![p.root] = NoSlot]
      BY <2>3 DEF IngestClosed
    <3>2. EntryTimes' /\ Keys'
      BY <1>4, <3>1 DEF Placed, EntryTimes, TimedIn, Started, Keys, Key
    <3>3. slots[p.root] # NoSlot => Given(slots[p.root])
      BY <1>0, <1>3, <3>1 DEF Leads, LeadsNext
    <3>4. \/ slots[p.root] # NoSlot
              /\ worker' = Working("replace", p.root, "canceled", slots[p.root], NoFamily)
          \/ worker' = Working("clear", p.root, "canceled", NoSlot, NoFamily)
      BY <2>3 DEF IngestClosed
    <3>5. /\ worker'.root = p.root
          /\ worker'.pc = "replace" => slots[p.root] # NoSlot /\ worker'.slot = slots[p.root]
      BY <3>4 DEF Working
    <3> QED BY <3>1, <3>2, <3>3, <3>5
  <2> QED BY <1>1, <2>1, <2>2, <2>3
<1>8. WorkerStamps'
  BY <1>3, <1>4, <1>7 DEF WorkerStamps, Started
<1>9. SlotsLead'
  <2>1. \A q \in Roots \ {p.root} : slots'[q] = slots[q]
    BY <1>7 DEF SequencerOK
  <2>2. \A q \in Roots : slots[q] # NoSlot =>
          LeadsNext(slots[q], q) /\ slots[q].at = startedAt[q]
    BY <1>0, <1>7 DEF Leads, LeadsNext
  <2>3. slots'[p.root] \in {s, NoSlot} /\ (worker'.pc = "replace" => slots'[p.root] = NoSlot)
    BY <1>3, <1>7 DEF SequencerOK
  <2>4. \A q \in Roots : slots'[q] # NoSlot =>
          LeadsNext(slots'[q], q) /\ slots'[q].at = startedAt[q]
    BY <1>7, <2>1, <2>2, <2>3
  <2>5. worker'.pc = "replace" =>
          LeadsNext(worker'.slot, worker'.root) /\ slots'[worker'.root] = NoSlot
    BY <1>7, <2>3
  <2> QED BY <1>4, <2>4, <2>5 DEF SlotsLead, Leads, LeadsNext
<1>10. Tracked'
  BY <1>4, <1>7, TrackedGrow
<1> QED BY <1>5, <1>6, <1>7, <1>8, <1>9, <1>10 DEF Heard, Placed

-----------------------------------------------------------------------------
(* Checkpoints.                                                             *)

\* Accepting a checkpoint: its time is not before the start of any root.
LEMMA OrderAccept ==
  ASSUME OrderInv, NEW c \in Checkpoints, AcceptCheckpoint(c)
  PROVE  Heard' /\ Placed' /\ Tracked'
<1> USE ConstantsAssumption DEF OrderInv, TypeInv, TypeOK
<1> USE DEF envVars, gitVars, readerVars, ingressVars, queueVars, seqVars, execVars
<1>1. UNCHANGED <<ckptHome, git, startedAt, reader, child, rootStarted, queue, worker, entries,
                  nextOrdinal, slots, lock, ready, log>>
  BY DEF AcceptCheckpoint
<1>2. PICK t \in {clock + d : d \in Ticks} : ckptAt' = [ckptAt EXCEPT ![c] = t] /\ clock' = t
  BY DEF AcceptCheckpoint
<1>3. t \in Nat /\ clock <= t /\ \A r \in Roots : startedAt[r] <= t /\ startedAt[r] \in Nat
  BY <1>2 DEF EnvOK, Heard, Clocks
<1>4. Heard'
  BY <1>1, <1>2, <1>3, HeardQuiet
<1>5. ckpt[c] = "unsent" /\ ckpt' = [ckpt EXCEPT ![c] = "accepted"] /\ admitQ' = Append(admitQ, c)
  BY DEF AcceptCheckpoint
<1>6. /\ \A d \in Checkpoints \ {c} : ckpt'[d] = ckpt[d] /\ ckptAt'[d] = ckptAt[d]
      /\ ckpt'[c] = "accepted" /\ ckptAt'[c] = t
  BY <1>2, <1>5 DEF AdmissionOK
<1>7. Placed'
  <2>1. EntryTimes'
    BY <1>1, <1>5, <1>6 DEF Placed, EntryTimes, TimedIn, Started
  <2>2. Keys' /\ SlotsLead'
    BY <1>1 DEF Placed, Keys, Key, SlotsLead, Leads
  <2> QED BY <2>1, <2>2 DEF Placed
<1>8. /\ Len(admitQ) \in Nat /\ DOMAIN admitQ = 1 .. Len(admitQ)
      /\ DOMAIN admitQ' = 1 .. Len(admitQ) + 1 /\ admitQ'[Len(admitQ) + 1] = c
      /\ \A i \in DOMAIN admitQ : admitQ'[i] = admitQ[i]
  BY <1>5 DEF AdmissionOK
<1>9. AdmitQueue'
  <2>1. \A i \in DOMAIN admitQ : admitQ[i] # c /\ admitQ[i] \in Checkpoints
    BY <1>5 DEF Tracked, AdmitQueue, AdmissionOK
  <2> QED BY <1>6, <1>8, <2>1 DEF Tracked, AdmitQueue
<1>10. Whereabouts'
  <2>1. (\E i \in DOMAIN admitQ' : admitQ'[i] = c)
          /\ \A i \in DOMAIN admitQ : i \in DOMAIN admitQ' /\ admitQ'[i] = admitQ[i]
    BY <1>8
  <2>2. \A d \in Checkpoints : (Queued(d) => Queued(d)') /\ (Ran(ckptHome[d], d) => Ran(ckptHome[d], d)')
    BY <1>1 DEF Queued, Ran, RunAt
  <2> QED BY <1>1, <1>6, <2>1, <2>2 DEF Tracked, Whereabouts
<1>11. LockReady' /\ LogStarted'
  BY <1>1 DEF Tracked, LockReady, LogStarted, Started
<1>12. ReadyGate'
  <2>1. \A F \in Families : \A e \in ready[F] : e.what = "command" => e.id \in Roots
    BY DEF Shapes, EntryShape, WellNamed, SequencerOK, EntryType
  <2> QED BY <1>1, <1>3, <1>6, <2>1 DEF Tracked, ReadyGate, Live, Ran, RunAt
<1>13. LaterCommandWaits'
  BY <1>1, <1>3, <1>6 DEF Tracked, LaterCommandWaits, RunAt, RanBefore
<1> QED BY <1>4, <1>7, <1>9, <1>10, <1>11, <1>12, <1>13 DEF Tracked

\* Admitting the checkpoint at the head of the queue, or failing to.
LEMMA OrderAdmission ==
  ASSUME OrderInv, AdmissionStep
  PROVE  Heard' /\ Placed' /\ Tracked'
<1> USE ConstantsAssumption DEF OrderInv, TypeInv, TypeOK, AdmissionStep
<1> USE DEF envVars, gitVars, readerVars, ingressVars, queueVars, execVars, seqVars
<1>1. UNCHANGED <<ckptHome, git, startedAt, clock, reader, child, rootStarted, queue, worker,
                  slots, lock, ready, log, ckptAt>>
  BY DEF AdmitCheckpoint, FailAdmission
<1>2. Heard'
  BY <1>1, HeardQuiet DEF EnvOK
<1>3. admitQ # <<>> /\ admitQ' = Tail(admitQ)
  BY DEF AdmitCheckpoint, FailAdmission
<1>4. PICK c \in Checkpoints : c = Head(admitQ) /\ c = admitQ[1] /\ 1 \in DOMAIN admitQ
  BY <1>3 DEF AdmissionOK
<1>5. PICK F \in Families : F = ckptHome[c] /\ ckpt[c] = "accepted"
  BY <1>4 DEF Tracked, AdmitQueue, EnvOK
<1>6. \A G \in Families : \A d \in entries[G] \cup ready[G] : d.id # c
  BY <1>4, <1>5 DEF Placed, EntryTimes, TimedIn
<1>7. \A d \in Checkpoints \ {c} : ckpt'[d] = ckpt[d]
  BY <1>4 DEF AdmitCheckpoint, FailAdmission, AdmissionOK
<1>8. \/ AdmitCheckpoint /\ ckpt'[c] = "admitted"
      \/ FailAdmission /\ ckpt'[c] = "failed"
  BY <1>4 DEF AdmitCheckpoint, FailAdmission, AdmissionOK
<1>9. /\ EntryTimes' /\ Keys' /\ \A G \in Families : entries[G] \subseteq entries'[G]
      /\ AdmitCheckpoint => \E d \in entries'[F] : d.id = c
  <2>1. \A G \in Families : \A d \in entries[G] \cup ready[G] : TimedIn(G, d)'
    BY <1>1, <1>6, <1>7 DEF Placed, EntryTimes, TimedIn, Started
  <2>2. CASE AdmitCheckpoint
    <3> DEFINE e == Entry(ckptAt[c], nextOrdinal[F], "checkpoint", c)
    <3>1. /\ entries' = [entries EXCEPT ![F] = Insert(F, e)]
          /\ nextOrdinal' = [nextOrdinal EXCEPT ![F] = @ + 1]
          /\ ckpt' = [ckpt EXCEPT ![c] = "admitted"]
      BY <1>4, <1>5, <2>2 DEF AdmitCheckpoint
    <3>2. e.ord = nextOrdinal[F] /\ e.id = c /\ e.at = ckptAt[c]
      BY DEF Entry
    <3> HIDE DEF e
    <3>3. /\ entries'[F] = entries[F] \cup {e}
          /\ \A G \in Families \ {F} : entries'[G] = entries[G]
          /\ Keys'
      BY <1>5, <3>1, <3>2, InsertOrder
    <3>4. ckpt'[c] = "admitted"
      BY <1>4, <3>1 DEF AdmissionOK
    <3>5. \A d \in {e} : TimedIn(F, d)'
      BY <1>1, <1>5, <3>2, <3>4 DEF TimedIn
    <3>6. \A G \in Families : \A d \in entries'[G] \cup ready'[G] : TimedIn(G, d)'
      BY <1>1, <2>1, <3>3, <3>5
    <3> QED BY <3>2, <3>3, <3>6 DEF EntryTimes
  <2>3. CASE FailAdmission
    <3>1. UNCHANGED <<entries, nextOrdinal>> /\ ~(ckpt'[c] = "admitted")
      BY <1>8, <2>3, <1>4 DEF FailAdmission, AdmissionOK
    <3>2. EntryTimes' /\ Keys'
      BY <1>1, <2>1, <3>1 DEF EntryTimes, Placed, Keys, Key
    <3>3. ~AdmitCheckpoint
      BY <1>4, <3>1 DEF AdmitCheckpoint, AdmissionOK
    <3> QED BY <3>1, <3>2, <3>3
  <2> QED BY <2>2, <2>3
<1>10. SlotsLead'
  <2>1. /\ \A r \in Roots : slots[r] # NoSlot => slots[r].family \in Families
        /\ worker.pc = "replace" => worker.slot.family \in Families
    BY DEF SequencerOK, SlotType, Shapes, WorkerShape
  <2> QED BY <1>1, <1>9, <2>1 DEF Placed, SlotsLead, Leads
<1>11. AdmitQueue'
  <2>1. /\ DOMAIN admitQ = 1 .. Len(admitQ) /\ Len(admitQ) \in Nat
        /\ DOMAIN admitQ' = 1 .. Len(admitQ) - 1
        /\ \A i \in 1 .. Len(admitQ) - 1 : admitQ'[i] = admitQ[i + 1]
    BY <1>3 DEF AdmissionOK
  <2>2. \A i \in DOMAIN admitQ' : i + 1 \in DOMAIN admitQ /\ admitQ'[i] = admitQ[i + 1]
          /\ i + 1 # 1 /\ i \in Nat
    BY <2>1
  <2>3. \A i \in DOMAIN admitQ' : admitQ'[i] # c /\ admitQ'[i] \in Checkpoints
    BY <1>4, <2>2 DEF Tracked, AdmitQueue, AdmissionOK
  <2>4. \A i, j \in DOMAIN admitQ' : admitQ'[i] = admitQ'[j] => i = j
    BY <2>2 DEF Tracked, AdmitQueue
  <2>5. \A i \in DOMAIN admitQ' : ckpt'[admitQ'[i]] = "accepted"
    BY <1>7, <2>2, <2>3 DEF Tracked, AdmitQueue
  <2> QED BY <2>4, <2>5 DEF AdmitQueue
<1>12. Whereabouts'
  <2>1. \A d \in Checkpoints : (Queued(d) => Queued(d)') /\ (Ran(ckptHome[d], d) => Ran(ckptHome[d], d)')
    BY <1>1, <1>9 DEF Queued, Ran, RunAt, EnvOK
  <2>2. \A i \in DOMAIN admitQ : admitQ[i] # c => \E j \in DOMAIN admitQ' : admitQ'[j] = admitQ[i]
    <3> SUFFICES ASSUME NEW i \in DOMAIN admitQ, admitQ[i] # c
                 PROVE  \E j \in DOMAIN admitQ' : admitQ'[j] = admitQ[i]
      OBVIOUS
    <3>1. /\ DOMAIN admitQ = 1 .. Len(admitQ) /\ Len(admitQ) \in Nat
          /\ DOMAIN admitQ' = 1 .. Len(admitQ) - 1
          /\ \A k \in 1 .. Len(admitQ) - 1 : admitQ'[k] = admitQ[k + 1]
      BY <1>3 DEF AdmissionOK
    <3>2. i # 1
      BY <1>4
    <3>3. i - 1 \in 1 .. Len(admitQ) - 1 /\ (i - 1) + 1 = i
      BY <3>1, <3>2
    <3> QED BY <3>1, <3>3
  <2>3. ckpt'[c] = "admitted" => Queued(c)'
    BY <1>1, <1>5, <1>8, <1>9 DEF Queued
  <2> QED BY <1>1, <1>7, <1>8, <2>1, <2>2, <2>3 DEF Tracked, Whereabouts
<1>13. LockReady' /\ LogStarted'
  BY <1>1 DEF Tracked, LockReady, LogStarted, Started
<1>14. \A d \in Checkpoints : Live(d)' => Live(d)
  BY <1>5, <1>7 DEF Live
<1>15. ReadyGate' /\ LaterCommandWaits'
  <2>1. ReadyGate'
    BY <1>1, <1>14 DEF Tracked, ReadyGate, Ran, RunAt
  <2>2. LaterCommandWaits'
    BY <1>1, <1>14 DEF Tracked, LaterCommandWaits, RunAt, RanBefore, Live
  <2> QED BY <2>1, <2>2
<1> QED BY <1>2, <1>9, <1>10, <1>11, <1>12, <1>13, <1>15 DEF Placed, Tracked

\* Running the first entry of a popped batch: a checkpoint earlier than a command
\* that runs now has run, since it would come before the command in the batch.
LEMMA OrderExecute ==
  ASSUME OrderInv, NEW F \in Families, Execute(F)
  PROVE  Heard' /\ Placed' /\ Tracked'
<1> USE ConstantsAssumption DEF OrderInv, TypeInv, TypeOK
<1> USE DEF envVars, gitVars, readerVars, ingressVars, queueVars, seqVars
<1>1. UNCHANGED <<ckptHome, git, startedAt, clock, reader, child, rootStarted, queue, worker,
                  entries, nextOrdinal, slots, ckptAt, admitQ>>
  BY DEF Execute
<1>2. Heard'
  BY <1>1, HeardQuiet DEF EnvOK
<1>3. PICK e \in ready[F] :
        /\ \A d \in ready[F] : d = e \/ Before(e, d)
        /\ log' = [log EXCEPT ![F] = Append(@, [what |-> e.what, id |-> e.id])]
        /\ ready' = [ready EXCEPT ![F] = @ \ {e}]
        /\ lock' = [lock EXCEPT ![F] = IF ready[F] = {e} THEN "free" ELSE @]
        /\ ckpt' = IF e.what = "checkpoint" THEN [ckpt EXCEPT ![e.id] = "executed"] ELSE ckpt
  BY DEF Execute
<1>4. /\ ready'[F] = ready[F] \ {e}
      /\ \A G \in Families \ {F} : ready'[G] = ready[G] /\ log'[G] = log[G] /\ lock'[G] = lock[G]
  BY <1>3 DEF SequencerOK
<1>5. PICK n \in Nat :
        /\ DOMAIN log[F] = 1 .. n /\ DOMAIN log'[F] = 1 .. n + 1
        /\ log'[F][n + 1] = [what |-> e.what, id |-> e.id]
        /\ \A i \in 1 .. n : log'[F][i] = log[F][i]
  <2>1. log[F] \in Seq(LogType) /\ log'[F] = Append(log[F], [what |-> e.what, id |-> e.id])
    BY <1>3 DEF SequencerOK
  <2>2. /\ Len(log[F]) \in Nat /\ DOMAIN log[F] = 1 .. Len(log[F])
        /\ DOMAIN log'[F] = 1 .. Len(log[F]) + 1
        /\ log'[F][Len(log[F]) + 1] = [what |-> e.what, id |-> e.id]
        /\ \A i \in 1 .. Len(log[F]) : log'[F][i] = log[F][i]
    BY <2>1
  <2> QED BY <2>2
<1>6. /\ TimedIn(F, e) /\ e \in EntryType /\ (e.what = "checkpoint" <=> e.id \in Checkpoints)
      /\ (e.id \in Roots <=> e.id \notin Checkpoints)
  BY DEF Placed, EntryTimes, SequencerOK, Shapes, EntryShape, WellNamed, EntryType
<1>7. /\ \A c \in Checkpoints : c # e.id => ckpt'[c] = ckpt[c]
      /\ \A c \in Checkpoints : c = e.id => ckpt'[c] = "executed" /\ ckpt[c] \in {"admitted", "executed"}
  BY <1>3, <1>6 DEF TimedIn, AdmissionOK
<1>8. Placed'
  <2>1. \A G \in Families : \A d \in entries[G] \cup ready[G] : TimedIn(G, d)'
    BY <1>1, <1>7 DEF Placed, EntryTimes, TimedIn, Started
  <2>2. EntryTimes'
    BY <1>1, <1>4, <2>1 DEF EntryTimes
  <2> QED BY <1>1, <2>2 DEF Placed, Keys, Key, SlotsLead, Leads
<1>9. AdmitQueue'
  <2>1. \A i \in DOMAIN admitQ : admitQ[i] \in Checkpoints /\ admitQ[i] # e.id
    BY <1>7 DEF Tracked, AdmitQueue, AdmissionOK
  <2> QED BY <1>1, <1>7, <2>1 DEF Tracked, AdmitQueue
<1>10. \A G \in Families : \A c \in Checkpoints : Ran(G, c) \/ (G = F /\ c = e.id) => Ran(G, c)'
  <2>1. \A G \in Families \ {F} : \A c \in Checkpoints : Ran(G, c) => Ran(G, c)'
    BY <1>4 DEF Ran, RunAt
  <2>2. \A c \in Checkpoints : Ran(F, c) \/ c = e.id => Ran(F, c)'
    BY <1>5 DEF Ran, RunAt
  <2> QED BY <2>1, <2>2
<1>11. Whereabouts'
  <2>1. \A c \in Checkpoints : c # e.id /\ Queued(c) => Queued(c)'
    <3> SUFFICES ASSUME NEW c \in Checkpoints, c # e.id, Queued(c) PROVE Queued(c)'
      OBVIOUS
    <3>1. PICK d \in entries[ckptHome[c]] \cup ready[ckptHome[c]] : d.id = c
      BY DEF Queued
    <3>2. ckptHome[c] \in Families
      BY DEF EnvOK
    <3>3. d \in entries'[ckptHome[c]] \cup ready'[ckptHome[c]]
      BY <1>1, <1>4, <3>1, <3>2
    <3> QED BY <1>1, <3>1, <3>3 DEF Queued
  <2>2. \A c \in Checkpoints : c = e.id => ckptHome[c] = F
    BY <1>6 DEF TimedIn
  <2>3. \A c \in Checkpoints : ckptHome[c] \in Families
    BY DEF EnvOK
  <2>4. \A c \in Checkpoints : ckpt'[c] = "executed" => Ran(ckptHome[c], c)'
    BY <1>1, <1>7, <1>10, <2>2, <2>3 DEF Tracked, Whereabouts
  <2> QED BY <1>1, <1>7, <2>1, <2>4 DEF Tracked, Whereabouts
<1>12. LockReady'
  <2>1. lock'[F] = IF ready[F] = {e} THEN "free" ELSE lock[F]
    BY <1>3 DEF SequencerOK
  <2>2. lock[F] # "free"
    BY DEF Execute
  <2> QED BY <1>4, <2>1, <2>2 DEF Tracked, LockReady
<1>13. \A c \in Checkpoints : Live(c)' => Live(c)
  BY <1>7 DEF Live
<1>14. ReadyGate'
  <2> SUFFICES ASSUME NEW G \in Families, NEW x \in ready'[G], x.what = "command",
                      NEW c \in Checkpoints, ckptHome[c] = G, Live(c), ckptAt[c] < startedAt[x.id]
               PROVE  Ran(G, c)' \/ \E d \in ready'[G] : d.id = c
    BY <1>1, <1>13 DEF ReadyGate
  <2>1. x \in ready[G]
    BY <1>4
  <2>2. CASE Ran(G, c)
    BY <1>10, <2>2
  <2>3. CASE \E d \in ready[G] : d.id = c
    BY <1>4, <1>10, <2>3
  <2> QED BY <2>1, <2>2, <2>3 DEF Tracked, ReadyGate
<1>15. LogStarted'
  <2>1. e.id \in Roots => Started(e.id)
    BY <1>6 DEF TimedIn
  <2>2. \A i \in DOMAIN log'[F] : log'[F][i].id \in Roots => Started(log'[F][i].id)
    BY <1>5, <2>1 DEF Tracked, LogStarted
  <2> QED BY <1>1, <1>4, <2>2 DEF Tracked, LogStarted, Started
<1>16. LaterCommandWaits'
  <2> SUFFICES ASSUME NEW G \in Families, NEW i \in DOMAIN log'[G], NEW r \in Roots,
                      log'[G][i].id = r, log'[G][i].what = "command",
                      NEW c \in Checkpoints, ckptHome[c] = G, Live(c), ckptAt[c] < startedAt[r]
               PROVE  \E j \in 1 .. i - 1 : log'[G][j].id = c
    BY <1>1, <1>13 DEF LaterCommandWaits, RunAt, RanBefore, Live
  <2>1. CASE G # F
    BY <1>4, <2>1 DEF Tracked, LaterCommandWaits, RunAt, RanBefore, Live
  <2>2. CASE G = F /\ i \in 1 .. n
    <3>1. \E j \in 1 .. i - 1 : log[F][j].id = c
      BY <1>5, <2>2 DEF Tracked, LaterCommandWaits, RunAt, RanBefore, Live
    <3> QED BY <1>5, <2>2, <3>1
  <2>3. CASE G = F /\ i = n + 1
    <3>1. e.what = "command" /\ e.id = r /\ e.at = startedAt[r]
      BY <1>5, <1>6, <2>3 DEF TimedIn
    <3>2. Ran(F, c) \/ \E d \in ready[F] : d.id = c
      BY <2>3, <3>1 DEF Tracked, ReadyGate
    <3>3. ASSUME NEW d \in ready[F], d.id = c
          PROVE  FALSE
      <4>1. d.at = ckptAt[c] /\ d.at \in Nat /\ e.at \in Nat
        BY <1>6, <3>3 DEF Placed, EntryTimes, TimedIn, SequencerOK, EntryType
      <4>2. d.at < e.at /\ d # e
        BY <3>1, <3>3, <4>1
      <4> QED BY <1>3, <4>1, <4>2 DEF Before
    <3>4. PICK j \in 1 .. n : log[F][j].id = c
      BY <1>5, <3>2, <3>3 DEF Ran, RunAt
    <3> QED BY <1>5, <2>3, <3>4
  <2> QED BY <1>5, <2>1, <2>2, <2>3
<1> QED BY <1>2, <1>8, <1>9, <1>11, <1>12, <1>14, <1>15, <1>16 DEF Tracked

-----------------------------------------------------------------------------
\* Every step keeps what was heard true, the entries placed and the checkpoints tracked.
LEMMA OrderInvNext == OrderInv /\ [Next]_vars => OrderInv'
<1> SUFFICES ASSUME OrderInv, [Next]_vars PROVE OrderInv'
  OBVIOUS
<1> USE DEF envVars, gitVars, readerVars, ingressVars, queueVars, seqVars, execVars, ckptVars
<1>1. TypeInv'
  BY TypeInvNext DEF OrderInv
<1>2. ASSUME UNCHANGED <<git, startedAt>> PROVE Aged
  BY <1>2 DEF Aged, Started
<1> SUFFICES Heard' /\ Placed' /\ Tracked'
  BY <1>1 DEF OrderInv
<1>3. clock \in Nat /\ (UNCHANGED clock => clock' \in Nat /\ clock <= clock')
  BY DEF OrderInv, TypeInv, TypeOK, EnvOK
<1>4. CASE UNCHANGED vars
  <2>1. Heard'
    BY <1>3, <1>4, HeardQuiet DEF vars
  <2> QED BY <1>2, <1>4, <2>1, PlacedQuiet DEF vars
<1>5. ASSUME NEW r \in Roots, GitStart(r) \/ GitEnd(r)
      PROVE  Heard' /\ Placed' /\ Tracked'
  <2>1. Heard' /\ Aged
    BY <1>5, HeardGit
  <2>2. UNCHANGED <<ckptHome, ckpt, ckptAt, entries, slots, admitQ, lock, ready, log, worker,
                    nextOrdinal>>
    BY <1>5 DEF GitStart, GitEnd
  <2> QED BY <2>1, <2>2, PlacedQuiet
<1>6. ASSUME NEW r \in Roots, ReaderStep(r) \/ ChildRead(r) \/ ChildStep(r)
      PROVE  Heard' /\ Placed' /\ Tracked'
  <2>1. Heard'
    BY <1>6, HeardReader, HeardChild
  <2>2. UNCHANGED <<git, startedAt, ckptHome, ckpt, ckptAt, entries, slots, admitQ, lock, ready,
                    log, worker, nextOrdinal>>
    BY <1>6 DEF ReaderStep, OpenRoot, Track, Capture, Send, Close, SendMarker, ChildRead, ChildStep,
         ChildTrack, ChildCapture, ChildSend, ChildClose, ChildSendMarker
  <2> QED BY <1>2, <2>1, <2>2, PlacedQuiet
<1>7. CASE IngestStep
  BY <1>7, OrderIngest
<1>8. CASE WorkerReplace \/ WorkerAppend
  <2>1. Heard'
    <3>1. worker'.pc = "clear"
      BY <1>8 DEF WorkerReplace, WorkerAppend, OrderInv, TypeInv, TypeOK, WorkerType
    <3> QED BY <1>3, <1>8, <3>1, HeardQuiet DEF WorkerReplace, WorkerAppend
  <2> QED BY <1>8, <2>1, OrderReplace, OrderAppend
<1>9. ASSUME NEW F \in Families, WorkerDrain(F) \/ TaskDrain(F)
      PROVE  Heard' /\ Placed' /\ Tracked'
  <2>1. Heard'
    <3>1. UNCHANGED worker \/ worker'.pc = "drain"
      BY <1>9 DEF WorkerDrain, TaskDrain, OrderInv, TypeInv, TypeOK, WorkerType
    <3> QED BY <1>3, <1>9, <3>1, HeardQuiet DEF WorkerDrain, TaskDrain
  <2> QED BY <1>9, <2>1, OrderDrain
<1>10. CASE WorkerClear \/ WorkerSnapshot \/ WorkerDone \/ WorkerGc \/ TaskSnapshot
  <2>1. UNCHANGED worker \/ worker'.pc \in {"snapshot", "drain", "gc", "idle"}
    <3>1. CASE WorkerClear \/ WorkerSnapshot
      BY <3>1 DEF WorkerClear, WorkerSnapshot, OrderInv, TypeInv, TypeOK, WorkerType
    <3>2. CASE WorkerDone
      BY <3>2, FinishedType DEF WorkerDone
    <3>3. CASE WorkerGc \/ TaskSnapshot
      BY <3>3 DEF WorkerGc, IdleWorker, TaskSnapshot
    <3> QED BY <1>10, <3>1, <3>2, <3>3
  <2>2. UNCHANGED <<git, startedAt, clock, reader, child, queue, ckptHome, ckpt, ckptAt, entries,
                    slots, admitQ, lock, ready, log>>
    BY <1>10 DEF WorkerClear, WorkerSnapshot, WorkerDone, WorkerGc, TaskSnapshot
  <2>3. \A q \in Roots : rootStarted'[q] \in {0, rootStarted[q]}
    <3>1. CASE WorkerClear
      <4>1. worker.root \in Roots /\ ClearRoot(worker.root) /\ TypeInv
        BY <3>1 DEF WorkerClear, OrderInv, TypeInv, Shapes, WorkerShape
      <4> QED BY <4>1, StampRecordClose
    <3>2. CASE UNCHANGED rootStarted
      BY <3>2
    <3> QED BY <1>10, <3>1, <3>2 DEF WorkerSnapshot, WorkerDone, WorkerGc, TaskSnapshot
  <2>4. \A F \in Families : entries[F] # {} => nextOrdinal'[F] = nextOrdinal[F]
    BY <1>10 DEF WorkerClear, WorkerSnapshot, WorkerDone, WorkerGc, TaskSnapshot, CollectedOrdinals
  <2>5. Heard'
    BY <1>3, <2>1, <2>2, <2>3, HeardQuiet
  <2> QED BY <1>2, <2>1, <2>2, <2>4, <2>5, PlacedQuiet
<1>11. ASSUME NEW c \in Checkpoints, AcceptCheckpoint(c)
       PROVE  Heard' /\ Placed' /\ Tracked'
  BY <1>11, OrderAccept
<1>12. CASE AdmissionStep
  BY <1>12, OrderAdmission
<1>13. ASSUME NEW F \in Families, Execute(F)
       PROVE  Heard' /\ Placed' /\ Tracked'
  BY <1>13, OrderExecute
<1> QED BY <1>4, <1>5, <1>6, <1>7, <1>8, <1>9, <1>10, <1>11, <1>12, <1>13 DEF Next, WorkerStep

\* A git command that starts after a checkpoint was accepted does not run before it,
\* whatever the number of git processes, families, checkpoints and pending drains.
THEOREM LaterCommandsWait == Spec => []LaterCommandWaits
<1>1. OrderInv => LaterCommandWaits
  BY DEF OrderInv, Tracked
<1> QED BY <1>1, OrderInvInit, OrderInvNext, PTL DEF Spec

-----------------------------------------------------------------------------
(***************************************************************************)
(* The conservation theorem of the sequencing core: an admitted checkpoint *)
(* and a completed ordered command are in exactly one of sequencer, ready  *)
(* batch and execution log, and the checkpoints of a family run in the     *)
(* order of their receipts.                                                *)
(*                                                                         *)
(* For checkpoints the invariant orders the receipts: log before ready     *)
(* batch before sequencer before admission queue. For roots it follows the *)
(* frames through the queue (in order, behind the frame the reader is at), *)
(* so that a root starts once and ends once, and keeps its one entry where *)
(* its slot says until the worker replaces it.                             *)
(***************************************************************************)

(* Checkpoints.                                                             *)

IsCkpt(e) == e.id \in Checkpoints

\* Receipts number the accepted checkpoints, in the order of their times.
Receipts ==
  \A c \in Checkpoints :
    /\ receipt[c] = 0 <=> ckpt[c] = "unsent"
    /\ receipt[c] <= Cardinality({d \in Checkpoints : receipt[d] # 0})
    /\ ckptAt[c] <= clock
    /\ \A d \in Checkpoints :
         /\ receipt[c] # 0 /\ receipt[c] = receipt[d] => c = d
         /\ receipt[c] # 0 /\ receipt[c] < receipt[d] => ckptAt[c] <= ckptAt[d]

\* The admission queue is in receipt order, after everything admitted before.
AdmitsInOrder ==
  \A i \in DOMAIN admitQ :
    /\ \A j \in DOMAIN admitQ : i < j => receipt[admitQ[i]] < receipt[admitQ[j]]
    /\ \A c \in Checkpoints :
         ckpt[c] \in {"admitted", "executed"} => receipt[c] < receipt[admitQ[i]]

\* Of two checkpoint entries the one with the smaller receipt comes first.
Sorted(S) ==
  \A e, d \in S : IsCkpt(e) /\ IsCkpt(d) /\ e # d =>
    \/ Before(e, d) /\ receipt[e.id] < receipt[d.id]
    \/ Before(d, e) /\ receipt[d.id] < receipt[e.id]

\* The checkpoint entries of S have smaller receipts than those of T.
Precede(S, T) ==
  \A e \in S, d \in T : IsCkpt(e) /\ IsCkpt(d) => receipt[e.id] < receipt[d.id]

InSequence ==
  \A F \in Families :
    Sorted(entries[F]) /\ Sorted(ready[F]) /\ Precede(ready[F], entries[F])

\* What has run has smaller receipts than what is waiting.
RanFirst ==
  \A F \in Families : \A c \in Checkpoints : Ran(F, c) =>
    /\ ckpt[c] = "executed" /\ ckptHome[c] = F
    /\ \A e \in entries[F] \cup ready[F] : IsCkpt(e) => receipt[c] < receipt[e.id]

ReceiptInv ==
  Receipts /\ AdmitsInOrder /\ InSequence /\ RanFirst /\ CheckpointsInReceiptOrder

-----------------------------------------------------------------------------
(* Roots.                                                                   *)

Rank(f) == CASE f = "start" -> 1 [] f = "def_repo" -> 2 [] f = "atexit" -> 3 [] OTHER -> 4

OfFamily(f, r) == f \in {NoFamily, home[r]}

\* Whatever names a family for a root names its own.
RightFamily ==
  /\ \A r \in Roots :
       /\ OfFamily(rootFamily[r], r)
       /\ reader[r].step = "send" => /\ OfFamily(reader[r].payload.family, r)
                                     /\ reader[r].payload.event = reader[r].frame
       /\ child[r].step = "send" => /\ OfFamily(child[r].payload.family, r)
                                    /\ child[r].payload.event = "child"
       /\ slots[r] # NoSlot => slots[r].family = home[r]
  /\ \A i \in DOMAIN queue : OfFamily(queue[i].family, queue[i].root)
  /\ worker.pc = "replace" => worker.slot.family = home[worker.root]
  /\ worker.pc = "append" => worker.family = home[worker.root]

\* Payload i of the queue is a frame of root r.
FrameAt(i, r) == queue[i].root = r /\ queue[i].event \in Frames

\* The frames of a root are queued in order, behind the one its reader is at.
FramesInOrder ==
  \A r \in Roots : \A i \in DOMAIN queue : FrameAt(i, r) =>
    /\ Rank(queue[i].event) < Rank(reader[r].frame)
    /\ \A j \in DOMAIN queue : i < j /\ FrameAt(j, r) =>
         Rank(queue[i].event) < Rank(queue[j].event)

\* The start of root r has not been ingested and may yet be.
StartAhead(r) ==
  \/ reader[r].frame = "start"
  \/ \E i \in DOMAIN queue : queue[i].root = r /\ queue[i].event = "start"

NoneIn(S, x) == \A e \in S : e.id # x
OneIn(S, x)  == \E e \in S : e.id = x /\ \A d \in S : d.id = x => d = e
RanOnce(F, x) == Ran(F, x) /\ \A i, j \in DOMAIN log[F] : RunAt(F, i, x) /\ RunAt(F, j, x) => i = j

Nowhere(F, x) == NoneIn(entries[F], x) /\ NoneIn(ready[F], x) /\ ~Ran(F, x)
Once(F, x) ==
  \/ OneIn(entries[F], x) /\ NoneIn(ready[F], x) /\ ~Ran(F, x)
  \/ NoneIn(entries[F], x) /\ OneIn(ready[F], x) /\ ~Ran(F, x)
  \/ NoneIn(entries[F], x) /\ NoneIn(ready[F], x) /\ RanOnce(F, x)

Appending(r) == worker.pc = "append" /\ worker.root = r

\* Before its start a root is nowhere.
UnheardRoots ==
  \A r \in Roots : StartAhead(r) =>
    normalizer[r] = "none" /\ slots[r] = NoSlot /\ Nowhere(home[r], r)

\* A started root has at most one entry, and its slot leads there.
Led(r) ==
  /\ NoneIn(ready[home[r]], r) /\ ~Ran(home[r], r)
  /\ \A e \in entries[home[r]] : e.id = r => slots[r] = Slot(home[r], e)

PendingRoots == \A r \in Roots : normalizer[r] = "pending" => Led(r)

\* No frame of root r will be ingested any more.
Over(r) == reader[r].frame = "eof" /\ \A i \in DOMAIN queue : ~FrameAt(i, r)

\* A completed root gets no more frames; its command has one entry or is about to.
CompletedRoots ==
  \A r \in Roots : normalizer[r] = "completed" =>
    /\ Over(r) /\ slots[r] = NoSlot
    /\ ParticipatesAtExit(kind[r]) =>
         IF Appending(r) THEN Nowhere(home[r], r) ELSE Once(home[r], r)

\* What the worker is placing belongs to a root that has started and ended.
WorkerRoot ==
  /\ worker.pc = "append" => normalizer[worker.root] = "completed"
  /\ worker.pc = "replace" => normalizer[worker.root] # "pending" /\ ~StartAhead(worker.root)

RootInv ==
  RightFamily /\ FramesInOrder /\ UnheardRoots /\ PendingRoots /\ CompletedRoots /\ WorkerRoot

OnceInv == OrderInv /\ ReceiptInv /\ RootInv

-----------------------------------------------------------------------------
(* Draining and running, as seen from the entries.                          *)

\* What a drain does to its family: the batch is a prefix of the entries, free of
\* pending roots, and all of it goes from the sequencer to the ready batch.
Drains(F, es, b) ==
  /\ ready[F] = {} /\ b \subseteq es
  /\ entries'[F] = es \ b /\ ready'[F] = b
  /\ \A G \in Families \ {F} : entries'[G] = entries[G] /\ ready'[G] = ready[G]
  /\ log' = log
  /\ \A e \in b : e.what # "pending"
  /\ \A e \in b, d \in es : Before(d, e) => d \in b

\* Nothing that comes before an entry of the batch is left behind.
LEMMA BatchClosed ==
  ASSUME NEW F, NEW es \in SUBSET EntryType, NEW e \in Batch(F, es), NEW d \in es, Before(d, e)
  PROVE  d \in Batch(F, es)
<1>1. e \in es /\ ~(unadmitted > 0)
  BY DEF Batch
<1>2. \A x \in es : x.at \in Nat /\ x.ord \in Nat
  BY DEF EntryType
<1>3. \A x \in es : x = d \/ Before(x, d) => Before(x, e)
  BY <1>1, <1>2 DEF Before
<1>4. \A x \in es : x = e \/ Before(x, e) => ~Stuck(F, x)
  BY DEF Batch
<1>5. \A x \in es : x = d \/ Before(x, d) => ~Stuck(F, x)
  BY <1>3, <1>4
<1> QED BY <1>1, <1>5 DEF Batch

\* BeginDrain drains: the lock was free, so no batch was left.
LEMMA DrainMoves ==
  ASSUME OrderInv, NEW F \in Families, NEW es \in SUBSET EntryType, NEW owner,
         BeginDrain(F, es, owner)
  PROVE  Drains(F, es, Batch(F, es))
<1> DEFINE b == Batch(F, es)
<1>1. b \subseteq es /\ \A e \in b : e.what # "pending"
  BY DEF Batch, Stuck
<1>2. \A e \in b, d \in es : Before(d, e) => d \in b
  BY BatchClosed
<1>3. /\ lock[F] = "free" /\ log' = log
      /\ entries' = [entries EXCEPT ![F] = es \ b] /\ ready' = [ready EXCEPT ![F] = b]
  BY DEF BeginDrain
<1> HIDE DEF b
<1>4. /\ entries'[F] = es \ b /\ ready'[F] = b
      /\ \A G \in Families \ {F} : entries'[G] = entries[G] /\ ready'[G] = ready[G]
  BY <1>3 DEF OrderInv, TypeInv, TypeOK, SequencerOK
<1>5. ready[F] = {}
  BY <1>3 DEF OrderInv, Tracked, LockReady
<1>6. Drains(F, es, b)
  BY <1>1, <1>2, <1>3, <1>4, <1>5 DEF Drains
<1> QED BY <1>6 DEF b

\* The worker puts e in the place of the pending entry x; after all entries of F.
Replaces(e, x) ==
  /\ e.at = x.at /\ e.ord = x.ord /\ e.what # "pending"
  /\ worker.slot.at = x.at /\ worker.slot.ord = x.ord
Appends(F, e) == e.at = startedAt[worker.root] /\ e.ord = nextOrdinal[F] /\ e.what # "pending"

\* The four steps that drain: of what, and how it differs from the sequencer.
LEMMA DrainSteps ==
  ASSUME OrderInv,
         WorkerReplace \/ WorkerAppend \/ \E F \in Families : WorkerDrain(F) \/ TaskDrain(F)
  PROVE  \E F \in Families, es \in SUBSET EntryType : \E b \in SUBSET es :
           /\ Drains(F, es, b)
           /\ \/ es = entries[F] /\ ~WorkerReplace /\ ~WorkerAppend
              \/ /\ WorkerReplace /\ worker.root \in Roots /\ F = worker.slot.family
                 /\ \E x \in entries[F], e \in EntryType :
                      /\ x.id = worker.root /\ e.id = worker.root
                      /\ es = (entries[F] \ {x}) \cup {e}
                      /\ Replaces(e, x)
              \/ /\ WorkerAppend /\ worker.root \in Roots /\ F = worker.family
                 /\ \E e \in EntryType :
                      /\ e.id = worker.root /\ es = entries[F] \cup {e}
                      /\ Appends(F, e)
<1> USE ConstantsAssumption DEF OrderInv, TypeInv, TypeOK
<1>1. CASE WorkerReplace
  <2> DEFINE s == worker.slot
             F == s.family
             e == Entry(s.at, s.ord, worker.outcome, worker.root)
             es == {d \in entries[F] : Key(d) # Key(s)} \cup {e}
  <2>1. /\ worker.pc = "replace" /\ worker.root \in Roots /\ s \in SlotType
        /\ worker.outcome \in {"command", "canceled"}
    BY <1>1 DEF WorkerReplace, Shapes, WorkerShape
  <2>2. F \in Families /\ s.at \in Nat /\ s.ord \in Nat
    BY <2>1 DEF SlotType
  <2>3. /\ e \in EntryType /\ e.id = worker.root
        /\ e.at = s.at /\ e.ord = s.ord /\ e.what # "pending"
    BY <2>1, <2>2, RootEntryType DEF Entry
  <2>4. BeginDrain(F, es, "worker")
    BY <1>1 DEF WorkerReplace
  <2>5. PICK x \in entries[F] : x.id = worker.root /\ Key(x) = Key(s)
    BY <2>1 DEF Placed, SlotsLead, Leads, Key
  <2>6. \A d \in entries[F] : Key(d) = Key(s) => d = x
    BY <2>2, <2>5 DEF Placed, Keys
  <2> HIDE DEF e
  <2>7. es = (entries[F] \ {x}) \cup {e}
    BY <2>5, <2>6
  <2>8. entries[F] \in SUBSET EntryType
    BY <2>2 DEF SequencerOK
  <2>9. es \in SUBSET EntryType
    BY <2>3, <2>8
  <2> HIDE DEF es
  <2>10. Drains(F, es, Batch(F, es)) /\ Batch(F, es) \in SUBSET es
    BY <2>2, <2>4, <2>9, DrainMoves DEF Drains
  <2>11. Replaces(e, x)
    BY <2>3, <2>5 DEF Replaces, Key
  <2> QED BY <1>1, <2>1, <2>2, <2>3, <2>5, <2>7, <2>9, <2>10, <2>11
<1>2. CASE WorkerAppend
  <2> DEFINE F == worker.family
             e == Entry(startedAt[worker.root], nextOrdinal[F], "command", worker.root)
             es == entries[F] \cup {e}
  <2>1. worker.root \in Roots /\ F \in Families
    BY <1>2 DEF WorkerAppend, Shapes, WorkerShape
  <2>2. startedAt[worker.root] \in Nat /\ nextOrdinal[F] \in Nat
    BY <2>1 DEF EnvOK, SequencerOK
  <2>3. /\ e \in EntryType /\ e.id = worker.root /\ e.ord = nextOrdinal[F]
        /\ e.at = startedAt[worker.root] /\ e.what = "command"
    BY <2>1, <2>2, RootEntryType DEF Entry
  <2>4. BeginDrain(F, Insert(F, e), "worker")
    BY <1>2 DEF WorkerAppend
  <2> HIDE DEF e
  <2>5. Insert(F, e) = es
    BY <2>1, <2>3, FreshInsert
  <2>6. es \in SUBSET EntryType
    BY <2>1, <2>3 DEF SequencerOK
  <2>7. BeginDrain(F, es, "worker")
    BY <2>4, <2>5, Zenon
  <2>8. es = entries[F] \cup {e}
    OBVIOUS
  <2> HIDE DEF es
  <2>9. Drains(F, es, Batch(F, es)) /\ Batch(F, es) \in SUBSET es
    BY <2>1, <2>6, <2>7, DrainMoves DEF Drains
  <2>10. Appends(F, e)
    BY <2>3 DEF Appends
  <2> QED BY <1>2, <2>1, <2>3, <2>6, <2>8, <2>9, <2>10
<1>3. ASSUME NEW F \in Families, WorkerDrain(F) \/ TaskDrain(F)
      PROVE  \E es \in SUBSET EntryType : \E b \in SUBSET es :
               Drains(F, es, b) /\ es = entries[F] /\ ~WorkerReplace /\ ~WorkerAppend
  <2>1. entries[F] \in SUBSET EntryType
    BY DEF SequencerOK
  <2>2. PICK owner : BeginDrain(F, entries[F], owner)
    BY <1>3 DEF WorkerDrain, TaskDrain
  <2>3. Drains(F, entries[F], Batch(F, entries[F])) /\ Batch(F, entries[F]) \in SUBSET entries[F]
    BY <2>1, <2>2, DrainMoves DEF Drains
  <2>4. ~WorkerReplace /\ ~WorkerAppend
    <3>1. CASE WorkerDrain(F)
      BY <3>1 DEF WorkerDrain, WorkerReplace, WorkerAppend
    <3>2. CASE TaskDrain(F)
      <4>1. UNCHANGED worker
        BY <3>2 DEF TaskDrain
      <4> QED BY <4>1 DEF WorkerReplace, WorkerAppend, WorkerType
    <3> QED BY <1>3, <3>1, <3>2
  <2> QED BY <2>1, <2>3, <2>4
<1> QED BY <1>1, <1>2, <1>3

-----------------------------------------------------------------------------
(* Receipts.                                                                *)

\* Init and steps that neither move nor number a checkpoint.
LEMMA ReceiptsInit == Init => ReceiptInv
<1> SUFFICES ASSUME Init PROVE ReceiptInv
  OBVIOUS
<1> USE ConstantsAssumption DEF Init
<1>1. {d \in Checkpoints : receipt[d] # 0} = {}
  OBVIOUS
<1>2. Cardinality({d \in Checkpoints : receipt[d] # 0}) = 0
  BY <1>1, FS_EmptySet, Zenon
<1>3. Receipts
  BY <1>2 DEF Receipts
<1>4. AdmitsInOrder /\ InSequence /\ RanFirst /\ CheckpointsInReceiptOrder
  BY DEF AdmitsInOrder, InSequence, Sorted, Precede, RanFirst, Ran, CheckpointsInReceiptOrder
<1> QED BY <1>3, <1>4 DEF ReceiptInv

\* The numbers, the admission queue and the log are as they were.
NumbersKept ==
  /\ UNCHANGED <<ckptHome, ckpt, receipt, ckptAt, admitQ, log>>
  /\ clock' \in Nat /\ clock <= clock'

\* Then the parts of the invariant about them are too.
LEMMA NumbersStay ==
  ASSUME OrderInv, ReceiptInv, NumbersKept
  PROVE  Receipts' /\ AdmitsInOrder' /\ CheckpointsInReceiptOrder'
<1> USE DEF NumbersKept, ReceiptInv
<1>1. Receipts'
  <2>1. clock \in Nat /\ \A c \in Checkpoints : ckptAt[c] \in Nat
    BY DEF OrderInv, TypeInv, TypeOK, EnvOK, AdmissionOK
  <2> QED BY <2>1 DEF Receipts
<1>2. AdmitsInOrder' /\ CheckpointsInReceiptOrder'
  BY DEF AdmitsInOrder, CheckpointsInReceiptOrder, RunAt
<1> QED BY <1>1, <1>2

\* Steps that add entries of roots only.
LEMMA ReceiptsQuiet ==
  ASSUME OrderInv, ReceiptInv, NumbersKept, UNCHANGED ready,
         \A F \in Families : \A e \in entries'[F] : IsCkpt(e) => e \in entries[F]
  PROVE  ReceiptInv'
<1>1. Receipts' /\ AdmitsInOrder' /\ CheckpointsInReceiptOrder'
  BY NumbersStay
<1>2. InSequence'
  BY DEF ReceiptInv, NumbersKept, InSequence, Sorted, Precede, IsCkpt
<1>3. RanFirst'
  BY DEF ReceiptInv, NumbersKept, RanFirst, Ran, RunAt, IsCkpt
<1> QED BY <1>1, <1>2, <1>3 DEF ReceiptInv

\* Draining: the batch is a prefix, so it has the smaller receipts.
LEMMA ReceiptsDrain ==
  ASSUME OrderInv, ReceiptInv, NumbersKept, NEW F \in Families, NEW es \in SUBSET EntryType,
         NEW b, Drains(F, es, b), \A e \in es : IsCkpt(e) => e \in entries[F]
  PROVE  ReceiptInv'
<1>1. Receipts' /\ AdmitsInOrder' /\ CheckpointsInReceiptOrder'
  BY NumbersStay
<1>2. Sorted(es)
  BY DEF ReceiptInv, InSequence, Sorted
<1>3. Sorted(es \ b) /\ Sorted(b)
  BY <1>2 DEF Sorted, Drains
<1>4. Precede(b, es \ b)
  <2> SUFFICES ASSUME NEW e \in b, NEW d \in es \ b, IsCkpt(e), IsCkpt(d)
               PROVE  receipt[e.id] < receipt[d.id]
    BY DEF Precede
  <2>1. e \in es /\ e # d /\ ~Before(d, e)
    BY DEF Drains
  <2> QED BY <1>2, <2>1 DEF Sorted
<1>5. InSequence'
  <2>1. (Sorted(entries[F]) /\ Sorted(ready[F]) /\ Precede(ready[F], entries[F]))'
    BY <1>3, <1>4 DEF Drains, NumbersKept, Sorted, Precede, IsCkpt
  <2>2. \A G \in Families \ {F} :
          (Sorted(entries[G]) /\ Sorted(ready[G]) /\ Precede(ready[G], entries[G]))'
    BY DEF ReceiptInv, InSequence, Drains, NumbersKept, Sorted, Precede, IsCkpt
  <2> QED BY <2>1, <2>2 DEF InSequence
<1>6. RanFirst'
  <2>1. \A G \in Families : \A e \in entries'[G] \cup ready'[G] :
          IsCkpt(e) => e \in entries[G] \cup ready[G]
    BY DEF Drains
  <2>2. \A G \in Families, c \in Checkpoints : Ran(G, c)' <=> Ran(G, c)
    BY DEF NumbersKept, Ran, RunAt
  <2> QED BY <2>1, <2>2 DEF ReceiptInv, NumbersKept, RanFirst, IsCkpt
<1> QED BY <1>1, <1>5, <1>6 DEF ReceiptInv

\* A new receipt is larger than all the others, and its time not earlier.
LEMMA ReceiptsAccept ==
  ASSUME OrderInv, ReceiptInv, NEW c \in Checkpoints, AcceptCheckpoint(c)
  PROVE  ReceiptInv'
<1> USE ConstantsAssumption DEF OrderInv, TypeInv, TypeOK
<1> USE DEF envVars, seqVars, execVars
<1> DEFINE Given == {d \in Checkpoints : receipt[d] # 0}
           n == Cardinality(Given)
<1>1. UNCHANGED <<ckptHome, entries, ready, log>> /\ ckpt[c] = "unsent" /\ receipt[c] = 0
  BY DEF AcceptCheckpoint, ReceiptInv, Receipts
<1>2. PICK t \in {clock + d : d \in Ticks} : ckptAt' = [ckptAt EXCEPT ![c] = t] /\ clock' = t
  BY DEF AcceptCheckpoint
<1>3. /\ t \in Nat /\ clock <= t /\ clock \in Nat
      /\ \A d \in Checkpoints : ckptAt[d] <= t /\ ckptAt[d] \in Nat
  <2>1. \A d \in Checkpoints : ckptAt[d] <= clock
    BY DEF ReceiptInv, Receipts
  <2>2. clock \in Nat /\ \A d \in Checkpoints : ckptAt[d] \in Nat
    BY DEF EnvOK, AdmissionOK
  <2>3. t \in Nat /\ clock <= t
    <3>1. PICK d \in Ticks : t = clock + d
      BY <1>2
    <3>2. d \in Nat
      OBVIOUS
    <3> QED BY <2>2, <3>1, <3>2
  <2> QED BY <2>1, <2>2, <2>3
<1>4. IsFiniteSet(Given) /\ n \in Nat
  BY FS_Subset, FS_CardinalityType
<1>5. /\ receipt' = [receipt EXCEPT ![c] = n + 1]
      /\ ckpt' = [ckpt EXCEPT ![c] = "accepted"] /\ admitQ' = Append(admitQ, c)
  BY DEF AcceptCheckpoint
<1>6. {d \in Checkpoints : receipt'[d] # 0} = Given \cup {c}
  <2> HIDE DEF n
  <2> QED BY <1>4, <1>5 DEF AdmissionOK
<1>7. c \notin Given /\ Cardinality(Given \cup {c}) = n + 1
  <2>1. c \notin Given
    BY <1>1
  <2> QED BY <1>4, <2>1, FS_AddElement
<1>8. Cardinality({d \in Checkpoints : receipt'[d] # 0}) = n + 1
  BY <1>6, <1>7, Zenon
<1>9. \A d \in Checkpoints : receipt[d] <= n /\ receipt[d] \in Nat
  BY DEF ReceiptInv, Receipts, AdmissionOK
<1> HIDE DEF n
<1>10. /\ receipt'[c] = n + 1 /\ ckpt'[c] = "accepted" /\ ckptAt'[c] = t
       /\ \A d \in Checkpoints \ {c} : /\ receipt'[d] = receipt[d] /\ ckpt'[d] = ckpt[d]
                                       /\ ckptAt'[d] = ckptAt[d]
  BY <1>2, <1>5 DEF AdmissionOK
<1>11. Receipts'
  <2> SUFFICES ASSUME NEW x \in Checkpoints
               PROVE  /\ receipt'[x] = 0 <=> ckpt'[x] = "unsent"
                      /\ receipt'[x] <= n + 1
                      /\ ckptAt'[x] <= t
                      /\ \A d \in Checkpoints :
                           /\ receipt'[x] # 0 /\ receipt'[x] = receipt'[d] => x = d
                           /\ receipt'[x] # 0 /\ receipt'[x] < receipt'[d] =>
                                ckptAt'[x] <= ckptAt'[d]
    BY <1>2, <1>8 DEF Receipts
  <2>1. receipt'[x] = 0 <=> ckpt'[x] = "unsent"
    <3>1. receipt[x] = 0 <=> ckpt[x] = "unsent"
      BY DEF ReceiptInv, Receipts
    <3> QED BY <1>4, <1>10, <3>1
  <2>2. receipt'[x] <= n + 1 /\ ckptAt'[x] <= t
    BY <1>3, <1>4, <1>9, <1>10
  <2>3. ASSUME NEW d \in Checkpoints
        PROVE  /\ receipt'[x] # 0 /\ receipt'[x] = receipt'[d] => x = d
               /\ receipt'[x] # 0 /\ receipt'[x] < receipt'[d] => ckptAt'[x] <= ckptAt'[d]
    <3>1. CASE x = c
      BY <1>3, <1>4, <1>9, <1>10, <3>1
    <3>2. CASE x # c /\ d = c
      BY <1>3, <1>4, <1>9, <1>10, <3>2
    <3>3. CASE x # c /\ d # c
      BY <1>10, <3>3 DEF ReceiptInv, Receipts
    <3> QED BY <3>1, <3>2, <3>3
  <2> QED BY <2>1, <2>2, <2>3
<1>12. AdmitsInOrder'
  <2>1. /\ Len(admitQ) \in Nat /\ DOMAIN admitQ = 1 .. Len(admitQ)
        /\ DOMAIN admitQ' = 1 .. Len(admitQ) + 1 /\ admitQ'[Len(admitQ) + 1] = c
        /\ \A i \in DOMAIN admitQ : admitQ'[i] = admitQ[i]
    BY <1>5 DEF AdmissionOK
  <2>2. \A i \in DOMAIN admitQ : admitQ[i] \in Checkpoints \ {c}
    BY <1>1 DEF Tracked, AdmitQueue, AdmissionOK
  <2>3. \A i \in DOMAIN admitQ' : i \in DOMAIN admitQ \/ i = Len(admitQ) + 1
    BY <2>1
  <2>4. \A i \in DOMAIN admitQ : receipt'[admitQ'[i]] = receipt[admitQ[i]]
          /\ receipt[admitQ[i]] < n + 1
    BY <1>4, <1>9, <1>10, <2>1, <2>2
  <2>5. receipt'[admitQ'[Len(admitQ) + 1]] = n + 1
    BY <1>10, <2>1
  <2>6. \A i, j \in DOMAIN admitQ' : i < j => receipt'[admitQ'[i]] < receipt'[admitQ'[j]]
    <3> SUFFICES ASSUME NEW i \in DOMAIN admitQ', NEW j \in DOMAIN admitQ', i < j
                 PROVE  receipt'[admitQ'[i]] < receipt'[admitQ'[j]]
      OBVIOUS
    <3>1. i \in DOMAIN admitQ
      BY <2>1
    <3>2. CASE j \in DOMAIN admitQ
      BY <2>4, <3>1, <3>2 DEF ReceiptInv, AdmitsInOrder
    <3>3. CASE j = Len(admitQ) + 1
      BY <2>4, <2>5, <3>1, <3>3
    <3> QED BY <2>3, <3>2, <3>3
  <2>7. \A i \in DOMAIN admitQ' : \A d \in Checkpoints :
          ckpt'[d] \in {"admitted", "executed"} => receipt'[d] < receipt'[admitQ'[i]]
    <3> SUFFICES ASSUME NEW i \in DOMAIN admitQ', NEW d \in Checkpoints,
                        ckpt'[d] \in {"admitted", "executed"}
                 PROVE  receipt'[d] < receipt'[admitQ'[i]]
      OBVIOUS
    <3>1. d # c /\ receipt'[d] = receipt[d] /\ ckpt[d] \in {"admitted", "executed"}
      BY <1>10
    <3>2. CASE i \in DOMAIN admitQ
      BY <2>4, <3>1, <3>2 DEF ReceiptInv, AdmitsInOrder
    <3>3. CASE i = Len(admitQ) + 1
      BY <1>4, <1>9, <2>5, <3>1, <3>3
    <3> QED BY <2>3, <3>2, <3>3
  <2> QED BY <2>6, <2>7 DEF AdmitsInOrder
<1>13. \A G \in Families : \A e \in entries[G] \cup ready[G] :
         IsCkpt(e) => e.id # c /\ receipt'[e.id] = receipt[e.id]
  BY <1>1, <1>10 DEF Placed, EntryTimes, TimedIn, IsCkpt
<1>14. \A G \in Families : ~Ran(G, c)
  BY <1>1 DEF ReceiptInv, RanFirst
<1>15. InSequence'
  BY <1>1, <1>13 DEF ReceiptInv, InSequence, Sorted, Precede, IsCkpt
<1>16. RanFirst'
  <2>1. \A G \in Families, d \in Checkpoints : Ran(G, d)' <=> Ran(G, d)
    BY <1>1 DEF Ran, RunAt
  <2> QED BY <1>1, <1>10, <1>13, <1>14, <2>1 DEF ReceiptInv, RanFirst, IsCkpt
<1>17. CheckpointsInReceiptOrder'
  <2>1. \A G \in Families : \A i \in DOMAIN log[G] : log[G][i].id # c
    BY <1>14 DEF Ran, RunAt
  <2> QED BY <1>1, <1>10, <2>1 DEF ReceiptInv, CheckpointsInReceiptOrder, RunAt
<1> QED BY <1>11, <1>12, <1>15, <1>16, <1>17 DEF ReceiptInv

\* Admitting the head of the queue: its receipt is the largest so far, and its entry
\* comes after the other checkpoints of its family.
LEMMA ReceiptsAdmission ==
  ASSUME OrderInv, ReceiptInv, AdmissionStep
  PROVE  ReceiptInv'
<1> USE ConstantsAssumption DEF OrderInv, TypeInv, TypeOK, AdmissionStep
<1> USE DEF envVars, gitVars, seqVars, execVars
<1>1. UNCHANGED <<ckptHome, clock, ready, log, ckptAt, receipt>>
  BY DEF AdmitCheckpoint, FailAdmission
<1>2. admitQ # <<>> /\ admitQ' = Tail(admitQ)
  BY DEF AdmitCheckpoint, FailAdmission
<1>3. PICK c \in Checkpoints : c = Head(admitQ) /\ c = admitQ[1] /\ 1 \in DOMAIN admitQ
  BY <1>2 DEF AdmissionOK
<1>4. PICK F \in Families : F = ckptHome[c] /\ ckpt[c] = "accepted"
  BY <1>3 DEF Tracked, AdmitQueue, EnvOK
<1>5. /\ \A d \in Checkpoints \ {c} : ckpt'[d] = ckpt[d]
      /\ ckpt'[c] \in {"admitted", "failed"}
  BY <1>3 DEF AdmitCheckpoint, FailAdmission, AdmissionOK
<1>6. \A d \in Checkpoints : ckpt[d] \in {"admitted", "executed"} => receipt[d] < receipt[c]
  BY <1>3 DEF ReceiptInv, AdmitsInOrder
<1>7. Receipts'
  BY <1>1, <1>4, <1>5 DEF ReceiptInv, Receipts
<1>8. AdmitsInOrder'
  <2>1. /\ DOMAIN admitQ = 1 .. Len(admitQ) /\ Len(admitQ) \in Nat
        /\ DOMAIN admitQ' = 1 .. Len(admitQ) - 1
        /\ \A i \in 1 .. Len(admitQ) - 1 : admitQ'[i] = admitQ[i + 1]
    BY <1>2 DEF AdmissionOK
  <2>2. \A i \in DOMAIN admitQ' :
          i \in Nat /\ i + 1 \in DOMAIN admitQ /\ admitQ'[i] = admitQ[i + 1] /\ 1 < i + 1
    BY <2>1
  <2>3. \A i \in DOMAIN admitQ' : receipt[c] < receipt[admitQ'[i]]
    BY <1>3, <2>2 DEF ReceiptInv, AdmitsInOrder
  <2>4. \A i, j \in DOMAIN admitQ' : i < j => receipt[admitQ'[i]] < receipt[admitQ'[j]]
    <3>1. \A i, j \in DOMAIN admitQ' : i < j => i + 1 < j + 1
      BY <2>2
    <3> QED BY <2>2, <3>1 DEF ReceiptInv, AdmitsInOrder
  <2>5. \A i \in DOMAIN admitQ' : \A d \in Checkpoints :
          ckpt'[d] \in {"admitted", "executed"} => receipt[d] < receipt[admitQ'[i]]
    BY <1>5, <2>2, <2>3 DEF ReceiptInv, AdmitsInOrder
  <2> QED BY <1>1, <2>4, <2>5 DEF AdmitsInOrder
<1>9. CheckpointsInReceiptOrder'
  BY <1>1 DEF ReceiptInv, CheckpointsInReceiptOrder, RunAt
<1>10. \A G \in Families, d \in Checkpoints : Ran(G, d)' <=> Ran(G, d)
  BY <1>1 DEF Ran, RunAt
<1>11. \A G \in Families, d \in Checkpoints : Ran(G, d) => ckpt'[d] = "executed"
  BY <1>4, <1>5 DEF ReceiptInv, RanFirst
<1>12. CASE AdmitCheckpoint
  <2> DEFINE e == Entry(ckptAt[c], nextOrdinal[F], "checkpoint", c)
  <2>1. /\ entries' = [entries EXCEPT ![F] = Insert(F, e)]
        /\ nextOrdinal' = [nextOrdinal EXCEPT ![F] = @ + 1]
    BY <1>3, <1>4, <1>12 DEF AdmitCheckpoint
  <2>2. e.ord = nextOrdinal[F] /\ e.id = c /\ e.at = ckptAt[c]
    BY DEF Entry
  <2> HIDE DEF e
  <2>3. /\ entries'[F] = entries[F] \cup {e}
        /\ \A G \in Families \ {F} : entries'[G] = entries[G]
    BY <2>1, <2>2, InsertOrder
  <2>4. \A d \in entries[F] \cup ready[F] : IsCkpt(d) => receipt[d.id] < receipt[c]
    BY <1>6 DEF Placed, EntryTimes, TimedIn, IsCkpt
  <2>5. \A d \in entries[F] : IsCkpt(d) => Before(d, e)
    <3> SUFFICES ASSUME NEW d \in entries[F], IsCkpt(d) PROVE Before(d, e)
      OBVIOUS
    <3>1. d.at = ckptAt[d.id] /\ ckpt[d.id] \in {"admitted", "executed"}
      BY DEF Placed, EntryTimes, TimedIn, IsCkpt
    <3>2. receipt[d.id] # 0 /\ receipt[d.id] < receipt[c]
      BY <2>4, <3>1 DEF ReceiptInv, Receipts, IsCkpt
    <3>3. ckptAt[d.id] <= ckptAt[c] /\ ckptAt[d.id] \in Nat /\ ckptAt[c] \in Nat
      <4>1. ckptAt[d.id] <= ckptAt[c]
        BY <3>2 DEF ReceiptInv, Receipts, IsCkpt
      <4> QED BY <4>1 DEF AdmissionOK, IsCkpt
    <3>4. d.ord < nextOrdinal[F]
      BY DEF Placed, Keys
    <3> QED BY <2>2, <3>1, <3>3, <3>4 DEF Before
  <2>6. InSequence'
    <3>1. Sorted(entries'[F])
      BY <2>2, <2>3, <2>4, <2>5 DEF ReceiptInv, InSequence, Sorted, IsCkpt
    <3>2. Precede(ready[F], entries'[F])
      BY <2>2, <2>3, <2>4 DEF ReceiptInv, InSequence, Precede, IsCkpt
    <3>3. (Sorted(entries[F]) /\ Sorted(ready[F]) /\ Precede(ready[F], entries[F]))'
      BY <1>1, <3>1, <3>2 DEF ReceiptInv, InSequence, Sorted, Precede, IsCkpt
    <3>4. \A G \in Families \ {F} :
            (Sorted(entries[G]) /\ Sorted(ready[G]) /\ Precede(ready[G], entries[G]))'
      BY <1>1, <2>3 DEF ReceiptInv, InSequence, Sorted, Precede, IsCkpt
    <3> QED BY <3>3, <3>4 DEF InSequence
  <2>7. RanFirst'
    <3>1. \A d \in Checkpoints : Ran(F, d) => receipt[d] < receipt[c]
      BY <1>6 DEF ReceiptInv, RanFirst
    <3> QED BY <1>1, <1>10, <1>11, <2>2, <2>3, <3>1 DEF ReceiptInv, RanFirst, IsCkpt
  <2> QED BY <1>7, <1>8, <1>9, <2>6, <2>7 DEF ReceiptInv
<1>13. CASE FailAdmission
  <2>1. UNCHANGED entries
    BY <1>13 DEF FailAdmission
  <2>2. InSequence'
    BY <1>1, <2>1 DEF ReceiptInv, InSequence, Sorted, Precede, IsCkpt
  <2>3. RanFirst'
    BY <1>1, <1>10, <1>11, <2>1 DEF ReceiptInv, RanFirst, IsCkpt
  <2> QED BY <1>7, <1>8, <1>9, <2>2, <2>3 DEF ReceiptInv
<1> QED BY <1>12, <1>13

\* Running the first entry of the batch, as seen from the batch and the log.
Runs(F, e) ==
  /\ e \in ready[F] /\ \A d \in ready[F] : d = e \/ Before(e, d)
  /\ ready'[F] = ready[F] \ {e}
  /\ \A G \in Families \ {F} : ready'[G] = ready[G] /\ log'[G] = log[G]
  /\ entries' = entries
  /\ \A x : Ran(F, x)' <=> Ran(F, x) \/ x = e.id
  /\ \E n \in Nat : /\ DOMAIN log[F] = 1 .. n /\ DOMAIN log'[F] = 1 .. n + 1
                    /\ log'[F][n + 1].id = e.id
                    /\ \A i \in 1 .. n : log'[F][i] = log[F][i]

\* Execute runs an entry.
LEMMA ExecuteRuns ==
  ASSUME OrderInv, NEW F \in Families, Execute(F)
  PROVE  \E e \in ready[F] :
           /\ Runs(F, e) /\ e \in EntryType /\ (e.what = "checkpoint" <=> IsCkpt(e))
           /\ ckpt' = IF e.what = "checkpoint" THEN [ckpt EXCEPT ![e.id] = "executed"] ELSE ckpt
<1> USE DEF OrderInv, TypeInv, TypeOK, seqVars
<1>1. PICK e \in ready[F] :
        /\ \A d \in ready[F] : d = e \/ Before(e, d)
        /\ log' = [log EXCEPT ![F] = Append(@, [what |-> e.what, id |-> e.id])]
        /\ ready' = [ready EXCEPT ![F] = @ \ {e}]
        /\ ckpt' = IF e.what = "checkpoint" THEN [ckpt EXCEPT ![e.id] = "executed"] ELSE ckpt
  BY DEF Execute
<1>2. /\ ready'[F] = ready[F] \ {e}
      /\ \A G \in Families \ {F} : ready'[G] = ready[G] /\ log'[G] = log[G]
  BY <1>1 DEF SequencerOK
<1>3. PICK n \in Nat :
        /\ DOMAIN log[F] = 1 .. n /\ DOMAIN log'[F] = 1 .. n + 1
        /\ log'[F][n + 1].id = e.id
        /\ \A i \in 1 .. n : log'[F][i] = log[F][i]
  <2>1. log[F] \in Seq(LogType) /\ log'[F] = Append(log[F], [what |-> e.what, id |-> e.id])
    BY <1>1 DEF SequencerOK
  <2>2. /\ Len(log[F]) \in Nat /\ DOMAIN log[F] = 1 .. Len(log[F])
        /\ DOMAIN log'[F] = 1 .. Len(log[F]) + 1
        /\ log'[F][Len(log[F]) + 1].id = e.id
        /\ \A i \in 1 .. Len(log[F]) : log'[F][i] = log[F][i]
    BY <2>1
  <2> QED BY <2>2
<1>4. \A x : Ran(F, x)' <=> Ran(F, x) \/ x = e.id
  BY <1>3 DEF Ran, RunAt
<1>5. entries' = entries
  BY DEF Execute
<1>6. e \in EntryType /\ (e.what = "checkpoint" <=> IsCkpt(e))
  BY DEF SequencerOK, Shapes, EntryShape, WellNamed, IsCkpt
<1> QED BY <1>1, <1>2, <1>3, <1>4, <1>5, <1>6 DEF Runs

\* The first entry of the batch has the smallest receipt of all that wait.
LEMMA ReceiptsExecute ==
  ASSUME OrderInv, ReceiptInv, NEW F \in Families, Execute(F)
  PROVE  ReceiptInv'
<1> USE ConstantsAssumption DEF OrderInv, TypeInv, TypeOK, envVars, gitVars
<1>1. UNCHANGED <<ckptHome, clock, ckptAt, receipt, admitQ>>
  BY DEF Execute
<1>2. PICK e \in ready[F] :
        /\ Runs(F, e) /\ e \in EntryType /\ (e.what = "checkpoint" <=> IsCkpt(e))
        /\ ckpt' = IF e.what = "checkpoint" THEN [ckpt EXCEPT ![e.id] = "executed"] ELSE ckpt
  BY ExecuteRuns
<1>3. IsCkpt(e) => ckpt[e.id] \in {"admitted", "executed"} /\ ckptHome[e.id] = F
  BY DEF Placed, EntryTimes, TimedIn, IsCkpt
<1>4. /\ \A c \in Checkpoints : c # e.id => ckpt'[c] = ckpt[c]
      /\ \A c \in Checkpoints : c = e.id => ckpt'[c] = "executed" /\ ckpt[c] \in {"admitted", "executed"}
  BY <1>2, <1>3 DEF AdmissionOK, IsCkpt
<1>5. Receipts' /\ AdmitsInOrder'
  <2>1. Receipts'
    BY <1>1, <1>4 DEF ReceiptInv, Receipts
  <2>2. AdmitsInOrder'
    BY <1>1, <1>4 DEF ReceiptInv, AdmitsInOrder
  <2> QED BY <2>1, <2>2
<1>6. IsCkpt(e) => \A d \in entries[F] \cup (ready[F] \ {e}) :
        IsCkpt(d) => receipt[e.id] < receipt[d.id]
  <2> SUFFICES ASSUME IsCkpt(e), NEW d \in entries[F] \cup (ready[F] \ {e}), IsCkpt(d)
               PROVE  receipt[e.id] < receipt[d.id]
    OBVIOUS
  <2>1. CASE d \in entries[F]
    BY <2>1 DEF ReceiptInv, InSequence, Precede
  <2>2. CASE d \in ready[F] \ {e}
    <3>1. Before(e, d) /\ e # d
      BY <1>2, <2>2 DEF Runs
    <3>2. e.at \in Nat /\ e.ord \in Nat /\ d.at \in Nat /\ d.ord \in Nat
      BY <1>2, <2>2 DEF SequencerOK, EntryType
    <3>3. ~Before(d, e)
      BY <3>1, <3>2 DEF Before
    <3>4. Sorted(ready[F])
      BY DEF ReceiptInv, InSequence
    <3> QED BY <2>2, <3>1, <3>3, <3>4 DEF Sorted
  <2> QED BY <2>1, <2>2
<1>7. InSequence'
  BY <1>1, <1>2 DEF ReceiptInv, InSequence, Sorted, Precede, IsCkpt, Runs
<1>8. RanFirst'
  <2> SUFFICES ASSUME NEW G \in Families, NEW c \in Checkpoints, Ran(G, c)'
               PROVE  /\ ckpt'[c] = "executed" /\ ckptHome[c] = G
                      /\ \A d \in entries'[G] \cup ready'[G] :
                           IsCkpt(d) => receipt[c] < receipt[d.id]
    BY <1>1 DEF RanFirst, IsCkpt
  <2>1. CASE Ran(G, c)
    <3>1. entries'[G] \cup ready'[G] \subseteq entries[G] \cup ready[G]
      BY <1>2 DEF Runs
    <3> QED BY <1>4, <2>1, <3>1 DEF ReceiptInv, RanFirst
  <2>2. CASE ~Ran(G, c)
    <3>1. G = F /\ c = e.id
      BY <1>2, <2>2 DEF Runs, Ran, RunAt
    <3> QED BY <1>2, <1>3, <1>4, <1>6, <3>1 DEF Runs, IsCkpt
  <2> QED BY <2>1, <2>2
<1>9. CheckpointsInReceiptOrder'
  <2> SUFFICES ASSUME NEW G \in Families, NEW i \in DOMAIN log'[G], NEW j \in DOMAIN log'[G],
                      NEW c \in Checkpoints, NEW d \in Checkpoints,
                      i < j, log'[G][i].id = c, log'[G][j].id = d
               PROVE  receipt[c] < receipt[d]
    BY <1>1 DEF CheckpointsInReceiptOrder, RunAt
  <2>1. CASE G # F
    BY <1>2, <2>1 DEF Runs, ReceiptInv, CheckpointsInReceiptOrder, RunAt
  <2>2. CASE G = F
    <3>1. PICK n \in Nat : /\ DOMAIN log[F] = 1 .. n /\ DOMAIN log'[F] = 1 .. n + 1
                           /\ log'[F][n + 1].id = e.id
                           /\ \A k \in 1 .. n : log'[F][k] = log[F][k]
      BY <1>2 DEF Runs
    <3>2. i \in 1 .. n /\ log[F][i].id = c
      <4>1. i \in 1 .. n + 1 /\ j \in 1 .. n + 1
        BY <2>2, <3>1
      <4>2. i \in 1 .. n
        BY <3>1, <4>1
      <4> QED BY <2>2, <3>1, <4>2
    <3>3. CASE j \in 1 .. n
      <4>1. i \in DOMAIN log[F] /\ j \in DOMAIN log[F] /\ log[F][j].id = d
        BY <2>2, <3>1, <3>2, <3>3
      <4> QED BY <3>2, <4>1 DEF ReceiptInv, CheckpointsInReceiptOrder, RunAt
    <3>4. CASE j = n + 1
      <4>1. Ran(F, c) /\ d = e.id
        BY <2>2, <3>1, <3>2, <3>4 DEF Ran, RunAt
      <4> QED BY <4>1 DEF ReceiptInv, RanFirst, IsCkpt
    <3> QED BY <2>2, <3>1, <3>3, <3>4
  <2> QED BY <2>1, <2>2
<1> QED BY <1>5, <1>7, <1>8, <1>9 DEF ReceiptInv

\* A pending root is added to its payload's family, overwriting nothing.
LEMMA PendingAdds ==
  ASSUME OrderInv, NEW p \in Payloads, AppendPending(p)
  PROVE  /\ AppendsPending(p) =>
              /\ p.family \in Families
              /\ entries'[p.family] = entries[p.family] \cup {PendingEntry(p)}
              /\ \A G \in Families \ {p.family} : entries'[G] = entries[G]
         /\ ~AppendsPending(p) => entries' = entries
         /\ PendingEntry(p).id = p.root /\ PendingEntry(p).what = "pending"
<1>1. PendingEntry(p).ord = nextOrdinal[p.family] /\ PendingEntry(p).id = p.root
        /\ PendingEntry(p).what = "pending"
  BY DEF PendingEntry, Entry
<1>2. CASE AppendsPending(p)
  <2>1. p.family \in Families
    BY <1>2 DEF AppendsPending, Payloads
  <2>2. /\ entries' = [entries EXCEPT ![p.family] = Insert(p.family, PendingEntry(p))]
        /\ nextOrdinal' = [nextOrdinal EXCEPT ![p.family] = @ + 1]
    BY <1>2 DEF AppendPending
  <2> QED BY <1>1, <1>2, <2>1, <2>2, InsertOrder
<1>3. CASE ~AppendsPending(p)
  BY <1>1, <1>3 DEF AppendPending
<1> QED BY <1>2, <1>3

\* The payload that an ingest step takes.
LEMMA Taken ==
  ASSUME OrderInv, IngestStep
  PROVE  \E p \in Payloads :
           /\ queue # <<>> /\ p = queue[1] /\ 1 \in DOMAIN queue /\ queue' = Tail(queue)
           /\ worker.pc = "idle" /\ p.root \in Roots /\ p.root \notin Checkpoints
           /\ \/ IngestFrame(p) /\ AppendPending(p)
              \/ IngestAtexit(p) /\ AppendPending(p)
              \/ IngestClosed(p) /\ entries' = entries
<1>1. PICK p : /\ p = Head(queue) /\ queue # <<>> /\ queue' = Tail(queue) /\ worker.pc = "idle"
               /\ \/ IngestFrame(p) /\ AppendPending(p)
                  \/ IngestAtexit(p) /\ AppendPending(p)
                  \/ IngestClosed(p) /\ entries' = entries
  BY DEF IngestStep, IngestFrame, IngestAtexit, IngestClosed, TakePayload, seqVars
<1>2. p \in Payloads /\ p = queue[1] /\ 1 \in DOMAIN queue
  BY <1>1 DEF OrderInv, TypeInv, TypeOK, QueueOK
<1>3. p.root \in Roots /\ p.root \notin Checkpoints
  BY <1>2, ConstantsAssumption DEF Payloads
<1> QED BY <1>1, <1>2, <1>3

\* Every step keeps the receipts in order.
LEMMA ReceiptsNext == OrderInv /\ ReceiptInv /\ [Next]_vars => ReceiptInv'
<1> SUFFICES ASSUME OrderInv, ReceiptInv, [Next]_vars PROVE ReceiptInv'
  OBVIOUS
<1> USE DEF envVars, gitVars, seqVars, execVars, ckptVars
<1>1. clock \in Nat
  BY DEF OrderInv, TypeInv, TypeOK, EnvOK
<1>2. ASSUME UNCHANGED <<ckptHome, ckpt, receipt, ckptAt, admitQ, log, clock>> PROVE NumbersKept
  BY <1>1, <1>2 DEF NumbersKept
<1>3. CASE UNCHANGED vars
  BY <1>2, <1>3, ReceiptsQuiet DEF vars
<1>4. ASSUME NEW r \in Roots, GitStart(r) PROVE ReceiptInv'
  <2>1. PICK t \in {clock + d : d \in Ticks} : clock' = t
    BY <1>4 DEF GitStart
  <2>2. PICK d \in Ticks : t = clock + d
    BY <2>1
  <2>3. d \in Nat
    BY ConstantsAssumption
  <2>4. clock' \in Nat /\ clock <= clock'
    BY <1>1, <2>1, <2>2, <2>3
  <2>5. UNCHANGED <<ckptHome, ckpt, receipt, ckptAt, admitQ, log, entries, ready>>
    BY <1>4 DEF GitStart
  <2>6. NumbersKept
    BY <2>4, <2>5 DEF NumbersKept
  <2> QED BY <2>5, <2>6, ReceiptsQuiet
<1>5. ASSUME NEW r \in Roots, GitEnd(r) \/ ReaderStep(r) \/ ChildRead(r) \/ ChildStep(r)
      PROVE  ReceiptInv'
  <2>1. UNCHANGED <<ckptHome, ckpt, receipt, ckptAt, admitQ, log, clock, entries, ready>>
    BY <1>5 DEF GitEnd, ReaderStep, OpenRoot, Track, Capture, Send, Close, SendMarker, ChildRead,
         ChildStep, ChildTrack, ChildCapture, ChildSend, ChildClose, ChildSendMarker
  <2> QED BY <1>2, <2>1, ReceiptsQuiet
<1>6. CASE IngestStep
  <2>1. PICK p \in Payloads :
          /\ p.root \notin Checkpoints
          /\ \/ IngestFrame(p) /\ AppendPending(p)
             \/ IngestAtexit(p) /\ AppendPending(p)
             \/ IngestClosed(p) /\ entries' = entries
    BY <1>6, Taken
  <2>2. UNCHANGED <<ckptHome, ckpt, receipt, ckptAt, admitQ, log, clock, ready>>
    BY <2>1 DEF IngestFrame, IngestAtexit, IngestClosed
  <2>3. \A F \in Families : \A e \in entries'[F] : IsCkpt(e) => e \in entries[F]
    BY <2>1, PendingAdds DEF IsCkpt
  <2> QED BY <1>2, <2>2, <2>3, ReceiptsQuiet
<1>7. CASE WorkerReplace \/ WorkerAppend \/ \E F \in Families : WorkerDrain(F) \/ TaskDrain(F)
  <2>1. PICK F \in Families, es \in SUBSET EntryType, b \in SUBSET EntryType :
          /\ Drains(F, es, b)
          /\ \/ es = entries[F]
             \/ /\ worker.root \in Roots
                /\ \E x \in entries[F], e \in EntryType :
                     e.id = worker.root /\ es = (entries[F] \ {x}) \cup {e}
             \/ /\ worker.root \in Roots
                /\ \E e \in EntryType : e.id = worker.root /\ es = entries[F] \cup {e}
    BY <1>7, DrainSteps DEF Drains
  <2>2. \A e \in es : IsCkpt(e) => e \in entries[F]
    BY <2>1, ConstantsAssumption DEF IsCkpt
  <2>3. UNCHANGED <<ckptHome, ckpt, receipt, ckptAt, admitQ, clock>>
    BY <1>7 DEF WorkerReplace, WorkerAppend, WorkerDrain, TaskDrain
  <2>4. UNCHANGED log
    BY <2>1 DEF Drains
  <2> QED BY <1>2, <2>1, <2>2, <2>3, <2>4, ReceiptsDrain
<1>8. CASE WorkerClear \/ WorkerSnapshot \/ WorkerDone \/ WorkerGc \/ TaskSnapshot
  <2>1. UNCHANGED <<ckptHome, ckpt, receipt, ckptAt, admitQ, log, clock, entries, ready>>
    BY <1>8 DEF WorkerClear, WorkerSnapshot, WorkerDone, WorkerGc, TaskSnapshot
  <2> QED BY <1>2, <2>1, ReceiptsQuiet
<1>9. ASSUME NEW c \in Checkpoints, AcceptCheckpoint(c) PROVE ReceiptInv'
  BY <1>9, ReceiptsAccept
<1>10. CASE AdmissionStep
  BY <1>10, ReceiptsAdmission
<1>11. ASSUME NEW F \in Families, Execute(F) PROVE ReceiptInv'
  BY <1>11, ReceiptsExecute
<1> QED BY <1>3, <1>4, <1>5, <1>6, <1>7, <1>8, <1>9, <1>10, <1>11 DEF Next, WorkerStep

\* The checkpoints of one family run in the order of their receipts, for any number of
\* checkpoints, families and git processes, with equal clock readings and collections.
THEOREM ReceiptOrder == Spec => []CheckpointsInReceiptOrder
<1>1. Init => OrderInv /\ ReceiptInv
  BY OrderInvInit, ReceiptsInit
<1>2. OrderInv /\ ReceiptInv /\ [Next]_vars => (OrderInv /\ ReceiptInv)'
  BY OrderInvNext, ReceiptsNext
<1>3. OrderInv /\ ReceiptInv => CheckpointsInReceiptOrder
  BY DEF ReceiptInv
<1> QED BY <1>1, <1>2, <1>3, PTL DEF Spec

-----------------------------------------------------------------------------
(* Counting.                                                                *)

\* The copies of something that is nowhere, or in one place once.
LEMMA CountCopies ==
  ASSUME NEW F, NEW x
  PROVE  /\ Nowhere(F, x) => Copies(F, x) = 0
         /\ Once(F, x) => Copies(F, x) = 1
<1> DEFINE In(S) == {e \in S : e.id = x}
           At == {i \in DOMAIN log[F] : RunAt(F, i, x)}
<1>1. ASSUME NEW S, NoneIn(S, x) PROVE Cardinality(In(S)) = 0
  <2>1. In(S) = {}
    BY <1>1 DEF NoneIn
  <2> QED BY <2>1, FS_EmptySet, Zenon
<1>2. ASSUME NEW S, OneIn(S, x) PROVE Cardinality(In(S)) = 1
  <2>1. PICK e \in S : e.id = x /\ \A d \in S : d.id = x => d = e
    BY <1>2 DEF OneIn
  <2>2. In(S) = {e}
    BY <2>1
  <2> QED BY <2>2, FS_Singleton, Zenon
<1>3. ~Ran(F, x) => Cardinality(At) = 0
  <2> SUFFICES ASSUME ~Ran(F, x) PROVE Cardinality(At) = 0
    OBVIOUS
  <2>1. At = {}
    BY DEF Ran
  <2> QED BY <2>1, FS_EmptySet, Zenon
<1>4. RanOnce(F, x) => Cardinality(At) = 1
  <2> SUFFICES ASSUME RanOnce(F, x) PROVE Cardinality(At) = 1
    OBVIOUS
  <2>1. PICK i \in DOMAIN log[F] : RunAt(F, i, x)
    BY DEF RanOnce, Ran
  <2>2. At = {i}
    BY <2>1 DEF RanOnce
  <2> QED BY <2>2, FS_Singleton, Zenon
<1>5. Copies(F, x) = Cardinality(In(entries[F])) + Cardinality(In(ready[F])) + Cardinality(At)
  BY DEF Copies
<1> HIDE DEF In, At
<1> QED BY <1>1, <1>2, <1>3, <1>4, <1>5 DEF Nowhere, Once

\* An admitted checkpoint is in one place, any other nowhere.
LEMMA CheckpointOnce ==
  ASSUME OrderInv, ReceiptInv, NEW c \in Checkpoints
  PROVE  IF ckpt[c] \in {"admitted", "executed"} THEN Once(ckptHome[c], c)
         ELSE Nowhere(ckptHome[c], c)
<1> USE DEF OrderInv, TypeInv, TypeOK, ReceiptInv
<1> DEFINE F == ckptHome[c]
<1>1. F \in Families /\ receipt[c] \in Nat
  BY DEF EnvOK, AdmissionOK
<1>2. Ran(F, c) => /\ ckpt[c] = "executed"
                   /\ NoneIn(entries[F], c) /\ NoneIn(ready[F], c)
  BY <1>1 DEF RanFirst, NoneIn, IsCkpt
<1>3. Ran(F, c) => RanOnce(F, c)
  <2> SUFFICES ASSUME Ran(F, c), NEW i \in DOMAIN log[F], NEW j \in DOMAIN log[F],
                      RunAt(F, i, c), RunAt(F, j, c)
               PROVE  i = j
    BY DEF RanOnce
  <2>1. ~(i < j) /\ ~(j < i)
    BY <1>1 DEF CheckpointsInReceiptOrder
  <2>2. i \in Int /\ j \in Int
    BY <1>1 DEF SequencerOK
  <2> QED BY <2>1, <2>2
<1>4. ASSUME NEW S, Sorted(S), ~NoneIn(S, c) PROVE OneIn(S, c)
  <2>1. PICK e \in S : e.id = c
    BY <1>4 DEF NoneIn
  <2>2. \A d \in S : d.id = c => d = e
    BY <1>1, <1>4, <2>1 DEF Sorted, IsCkpt
  <2> QED BY <2>1, <2>2 DEF OneIn
<1>5. Sorted(entries[F]) /\ Sorted(ready[F])
  BY <1>1 DEF InSequence
<1>6. NoneIn(entries[F], c) \/ NoneIn(ready[F], c)
  BY <1>1 DEF InSequence, Precede, NoneIn, IsCkpt
<1>7. ckpt[c] \notin {"admitted", "executed"} => NoneIn(entries[F], c) /\ NoneIn(ready[F], c)
  BY <1>1 DEF Placed, EntryTimes, TimedIn, NoneIn
<1>8. CASE ckpt[c] = "executed"
  <2>1. Ran(F, c)
    BY <1>8 DEF Tracked, Whereabouts
  <2> QED BY <1>2, <1>3, <1>8, <2>1 DEF Once
<1>9. CASE ckpt[c] = "admitted"
  <2>1. ~NoneIn(entries[F], c) \/ ~NoneIn(ready[F], c)
    BY <1>9 DEF Tracked, Whereabouts, Queued, NoneIn
  <2>2. ~Ran(F, c)
    BY <1>2, <1>9
  <2> QED BY <1>4, <1>5, <1>6, <1>9, <2>1, <2>2 DEF Once
<1>10. CASE ckpt[c] \notin {"admitted", "executed"}
  BY <1>2, <1>7, <1>10 DEF Nowhere
<1> QED BY <1>8, <1>9, <1>10

-----------------------------------------------------------------------------
(* The frames of a root.                                                    *)

\* Initially no root has been heard of.
LEMMA RootsInit == Init => RootInv
<1> SUFFICES ASSUME Init PROVE RootInv
  OBVIOUS
<1> USE ConstantsAssumption DEF Init, IdleWorker
<1>1. RightFamily /\ FramesInOrder /\ WorkerRoot
  BY DEF RightFamily, OfFamily, FramesInOrder, FrameAt, WorkerRoot
<1>2. UnheardRoots
  BY DEF UnheardRoots, Nowhere, NoneIn, Ran, RunAt
<1>3. PendingRoots /\ CompletedRoots
  BY DEF PendingRoots, CompletedRoots
<1> QED BY <1>1, <1>2, <1>3 DEF RootInv

\* Frames are numbered in the order in which a connection delivers them.
LEMMA RankNext ==
  /\ \A f : Rank(f) \in Nat /\ Rank(f) <= 4 /\ 1 <= Rank(f)
  /\ \A f \in Frames : Rank(f) < Rank(NextFrame(f)) /\ NextFrame(f) # "start" /\ Rank(f) < 4
  /\ Rank("start") = 1 /\ Rank("atexit") = 3 /\ Rank("eof") = 4
<1>1. \A f : Rank(f) \in Nat /\ Rank(f) <= 4 /\ 1 <= Rank(f)
  BY DEF Rank
<1>2. Rank("start") = 1 /\ Rank("def_repo") = 2 /\ Rank("atexit") = 3 /\ Rank("eof") = 4
  BY DEF Rank
<1>3. /\ NextFrame("start") = "def_repo" /\ NextFrame("def_repo") = "atexit"
      /\ NextFrame("atexit") = "eof"
  BY DEF NextFrame
<1> QED BY <1>1, <1>2, <1>3 DEF Frames

\* A step that queues and takes no start again and no frame of a root that is over.
FramesKept ==
  /\ FramesInOrder'
  /\ \A r \in Roots : (StartAhead(r)' => StartAhead(r)) /\ (Over(r) => Over(r)')

\* The queue after a payload was added.
LEMMA QueueGrows ==
  ASSUME TypeInv, NEW p, Enqueue(p)
  PROVE  \E n \in Nat : /\ DOMAIN queue = 1 .. n /\ DOMAIN queue' = 1 .. n + 1
                        /\ queue'[n + 1] = p /\ \A i \in 1 .. n : queue'[i] = queue[i]
<1>1. queue \in Seq(Payloads) /\ queue' = Append(queue, p)
  BY DEF TypeInv, TypeOK, QueueOK, Enqueue
<1>2. /\ Len(queue) \in Nat /\ DOMAIN queue = 1 .. Len(queue)
      /\ DOMAIN queue' = 1 .. Len(queue) + 1
      /\ queue'[Len(queue) + 1] = p /\ \A i \in 1 .. Len(queue) : queue'[i] = queue[i]
  BY <1>1
<1> QED BY <1>2

\* A reader moves on at most one frame and queues nothing, or some payload that is no frame.
LEMMA FramesAside ==
  ASSUME TypeInv, FramesInOrder,
         \A q \in Roots : \/ reader'[q].frame = reader[q].frame
                          \/ /\ reader[q].frame \in Frames
                             /\ reader'[q].frame = NextFrame(reader[q].frame),
         \/ UNCHANGED queue
         \/ \E p \in Payloads : p.event \notin Frames /\ Enqueue(p)
  PROVE  FramesKept
<1>1. \A q \in Roots : /\ Rank(reader[q].frame) <= Rank(reader'[q].frame)
                       /\ reader'[q].frame = "start" => reader[q].frame = "start"
                       /\ reader[q].frame = "eof" => reader'[q].frame = "eof"
  BY RankNext DEF Frames
<1>2. \A q \in Roots : \A i \in DOMAIN queue' : FrameAt(i, q)' =>
        i \in DOMAIN queue /\ FrameAt(i, q) /\ queue'[i] = queue[i]
  <2>1. CASE UNCHANGED queue
    BY <2>1 DEF FrameAt
  <2>2. ASSUME NEW p \in Payloads, p.event \notin Frames, Enqueue(p)
        PROVE  \A q \in Roots : \A i \in DOMAIN queue' : FrameAt(i, q)' =>
                 i \in DOMAIN queue /\ FrameAt(i, q) /\ queue'[i] = queue[i]
    <3>1. PICK n \in Nat : /\ DOMAIN queue = 1 .. n /\ DOMAIN queue' = 1 .. n + 1
                           /\ queue'[n + 1] = p /\ \A i \in 1 .. n : queue'[i] = queue[i]
      BY <2>2, QueueGrows
    <3>2. \A i \in DOMAIN queue' : i \in 1 .. n \/ i = n + 1
      BY <3>1
    <3> QED BY <2>2, <3>1, <3>2 DEF FrameAt
  <2> QED BY <2>1, <2>2
<1>3. FramesInOrder'
  <2> SUFFICES ASSUME NEW q \in Roots, NEW i \in DOMAIN queue', FrameAt(i, q)'
               PROVE  /\ Rank(queue'[i].event) < Rank(reader'[q].frame)
                      /\ \A j \in DOMAIN queue' : i < j /\ FrameAt(j, q)' =>
                           Rank(queue'[i].event) < Rank(queue'[j].event)
    BY DEF FramesInOrder, Rank
  <2>1. Rank(queue[i].event) < Rank(reader[q].frame) /\ queue'[i] = queue[i]
    BY <1>2 DEF FramesInOrder
  <2>2. Rank(queue'[i].event) < Rank(reader'[q].frame)
    BY <1>1, <2>1, RankNext
  <2> QED BY <1>2, <2>2 DEF FramesInOrder
<1>4. \A q \in Roots : (StartAhead(q)' => StartAhead(q)) /\ (Over(q) => Over(q)')
  BY <1>1, <1>2 DEF StartAhead, Over, FrameAt, Frames
<1> QED BY <1>3, <1>4 DEF FramesKept

\* A reader queues the frame it is at and moves on.
LEMMA FramesSend ==
  ASSUME OrderInv, RightFamily, FramesInOrder, NEW r \in Roots, Send(r)
  PROVE  FramesKept
<1> USE DEF OrderInv, TypeInv, TypeOK
<1> DEFINE p == reader[r].payload
           f == reader[r].frame
<1>1. reader[r].step = "send" /\ Enqueue(p) /\ p.root = r /\ p.event = f
  BY DEF Send, Heard, ReaderStamps, RightFamily
<1>2. f \in Frames
  <2>1. p \in Payloads /\ f \in Frames \cup {"eof"}
    BY <1>1 DEF Shapes, ReaderShape, ReaderType
  <2>2. p.event \in Frames \cup {"child", "closed"}
    BY <2>1 DEF Payloads
  <2> QED BY <1>1, <2>1, <2>2
<1>3. reader'[r].frame = NextFrame(f) /\ \A q \in Roots \ {r} : reader'[q] = reader[q]
  BY DEF Send
<1>4. PICK n \in Nat : /\ DOMAIN queue = 1 .. n /\ DOMAIN queue' = 1 .. n + 1
                       /\ queue'[n + 1] = p /\ \A i \in 1 .. n : queue'[i] = queue[i]
  BY <1>1, QueueGrows
<1> HIDE DEF p, f
<1>5. \A i \in DOMAIN queue' : (i \in DOMAIN queue /\ queue'[i] = queue[i] /\ i # n + 1) \/ i = n + 1
  BY <1>4
<1>6. Rank(f) < Rank(NextFrame(f)) /\ NextFrame(f) # "start"
  BY <1>2, RankNext
<1>7. \A q \in Roots : \A i \in DOMAIN queue : FrameAt(i, q) =>
        Rank(queue[i].event) < Rank(reader'[q].frame)
  BY <1>3, <1>6, RankNext DEF FramesInOrder, f
<1>8. FramesInOrder'
  <2> SUFFICES ASSUME NEW q \in Roots, NEW i \in DOMAIN queue', FrameAt(i, q)'
               PROVE  /\ Rank(queue'[i].event) < Rank(reader'[q].frame)
                      /\ \A j \in DOMAIN queue' : i < j /\ FrameAt(j, q)' =>
                           Rank(queue'[i].event) < Rank(queue'[j].event)
    BY DEF FramesInOrder, Rank
  <2>1. CASE i = n + 1
    <3>1. q = r /\ Rank(queue'[i].event) < Rank(reader'[q].frame)
      BY <1>1, <1>3, <1>4, <1>6, <2>1 DEF FrameAt
    <3>2. \A j \in DOMAIN queue' : ~(i < j)
      BY <1>4, <2>1
    <3> QED BY <3>1, <3>2
  <2>2. CASE i \in DOMAIN queue /\ queue'[i] = queue[i]
    <3>1. FrameAt(i, q)
      BY <2>2 DEF FrameAt
    <3>2. Rank(queue'[i].event) < Rank(reader'[q].frame)
      BY <1>7, <2>2, <3>1
    <3>3. ASSUME NEW j \in DOMAIN queue', i < j, FrameAt(j, q)'
          PROVE  Rank(queue'[i].event) < Rank(queue'[j].event)
      <4>1. CASE j \in DOMAIN queue /\ queue'[j] = queue[j]
        BY <2>2, <3>1, <3>3, <4>1 DEF FramesInOrder, FrameAt
      <4>2. CASE j = n + 1
        <5>1. q = r /\ queue'[j].event = f
          BY <1>1, <1>4, <3>3, <4>2 DEF FrameAt
        <5>2. Rank(queue[i].event) < Rank(reader[r].frame)
          BY <2>2, <3>1, <5>1 DEF FramesInOrder
        <5> QED BY <2>2, <5>1, <5>2 DEF f
      <4> QED BY <1>5, <4>1, <4>2
    <3> QED BY <3>2, <3>3
  <2> QED BY <1>5, <2>1, <2>2
<1>9. \A q \in Roots : StartAhead(q)' => StartAhead(q)
  <2>1. \A q \in Roots : reader'[q].frame = "start" => reader[q].frame = "start"
    BY <1>3, <1>6
  <2>2. \A q \in Roots : \A i \in DOMAIN queue' : queue'[i].root = q /\ queue'[i].event = "start" =>
          StartAhead(q)
    BY <1>1, <1>4, <1>5 DEF StartAhead, f
  <2> QED BY <2>1, <2>2 DEF StartAhead
<1>10. \A q \in Roots : Over(q) => Over(q)'
  <2> SUFFICES ASSUME NEW q \in Roots, Over(q) PROVE Over(q)'
    OBVIOUS
  <2>1. q # r
    BY <1>2 DEF Over, Frames, f
  <2>2. \A i \in DOMAIN queue' : ~FrameAt(i, q)'
    BY <1>1, <1>4, <1>5, <2>1 DEF Over, FrameAt
  <2> QED BY <1>3, <2>1, <2>2 DEF Over
<1> QED BY <1>8, <1>9, <1>10 DEF FramesKept

\* Taking the first payload. A frame at the head is never followed by the root's start,
\* and an atexit frame by no frame at all.
LEMMA FramesTake ==
  ASSUME TypeInv, FramesInOrder, UNCHANGED reader, queue # <<>>, queue' = Tail(queue),
         NEW p, p = queue[1], p.root \in Roots
  PROVE  /\ FramesKept
         /\ p.event \in Frames => ~StartAhead(p.root)'
         /\ p.event = "atexit" => Over(p.root)'
<1> USE DEF TypeInv, TypeOK
<1>1. /\ 1 \in DOMAIN queue
      /\ \A i \in DOMAIN queue' : /\ i \in Nat /\ i + 1 \in DOMAIN queue /\ 1 < i + 1
                                  /\ queue'[i] = queue[i + 1]
  BY DEF QueueOK
<1>2. \A q \in Roots : \A i \in DOMAIN queue' : FrameAt(i, q)' <=> FrameAt(i + 1, q)
  BY <1>1 DEF FrameAt
<1>3. FramesInOrder'
  <2>1. \A i, j \in DOMAIN queue' : i < j => i + 1 < j + 1
    BY <1>1
  <2> QED BY <1>1, <1>2, <2>1 DEF FramesInOrder
<1>4. \A q \in Roots : (StartAhead(q)' => StartAhead(q)) /\ (Over(q) => Over(q)')
  <2>1. \A q \in Roots : StartAhead(q)' => StartAhead(q)
    BY <1>1 DEF StartAhead
  <2>2. \A q \in Roots : Over(q) => Over(q)'
    BY <1>1, <1>2 DEF Over
  <2> QED BY <2>1, <2>2
<1>5. p.event \in Frames => ~StartAhead(p.root)'
  <2> SUFFICES ASSUME p.event \in Frames PROVE ~StartAhead(p.root)'
    OBVIOUS
  <2>1. FrameAt(1, p.root)
    BY DEF FrameAt
  <2>2. Rank(p.event) < Rank(reader[p.root].frame)
    BY <1>1, <2>1 DEF FramesInOrder
  <2>3. \A i \in DOMAIN queue' : FrameAt(i, p.root)' => Rank(p.event) < Rank(queue'[i].event)
    BY <1>1, <1>2, <2>1 DEF FramesInOrder
  <2>4. ~(Rank(p.event) < Rank("start"))
    BY RankNext
  <2> QED BY <2>2, <2>3, <2>4 DEF StartAhead, FrameAt, Frames
<1>6. p.event = "atexit" => Over(p.root)'
  <2> SUFFICES ASSUME p.event = "atexit" PROVE Over(p.root)'
    OBVIOUS
  <2>1. FrameAt(1, p.root)
    BY DEF FrameAt, Frames
  <2>2. Rank(p.event) < Rank(reader[p.root].frame)
    BY <1>1, <2>1 DEF FramesInOrder
  <2>3. \A i \in DOMAIN queue' : FrameAt(i, p.root)' => Rank(p.event) < Rank(queue'[i].event)
    BY <1>1, <1>2, <2>1 DEF FramesInOrder
  <2>4. \A f \in Frames : ~(Rank("atexit") < Rank(f))
    BY DEF Frames, Rank
  <2>5. reader[p.root].frame \in Frames \cup {"eof"}
    BY DEF ReaderType
  <2> QED BY <2>2, <2>3, <2>4, <2>5 DEF Over, FrameAt
<1> QED BY <1>3, <1>4, <1>5, <1>6 DEF FramesKept

-----------------------------------------------------------------------------
(* The family of a root.                                                    *)

\* Recording a closed connection forgets the family or keeps it.
LEMMA FamilyRecordClose ==
  ASSUME TypeInv, NEW r \in Roots, RecordClose(r) \/ ClearRoot(r), NEW q \in Roots
  PROVE  rootFamily'[q] \in {NoFamily, rootFamily[q]}
BY DEF TypeInv, TypeOK, IngressOK, RecordClose, ClearRoot, ForgetRoot

\* The payload that a reader is about to send.
SendsRight(x, r) ==
  x.step = "send" => OfFamily(x.payload.family, r) /\ x.payload.event = x.frame
ChildSendsRight(x, r) ==
  x.step = "send" => OfFamily(x.payload.family, r) /\ x.payload.event = "child"

\* A step of a reader thread or of none: everything still names the right family.
LEMMA FamiliesStay ==
  ASSUME TypeInv, RightFamily, UNCHANGED <<home, slots, worker>>,
         \A q \in Roots : OfFamily(rootFamily'[q], q),
         \A q \in Roots : SendsRight(reader'[q], q) /\ ChildSendsRight(child'[q], q),
         \/ UNCHANGED queue
         \/ \E p : Enqueue(p) /\ OfFamily(p.family, p.root)
  PROVE  RightFamily'
<1>1. \A i \in DOMAIN queue' : OfFamily(queue'[i].family, queue'[i].root)
  <2>1. CASE UNCHANGED queue
    BY <2>1 DEF RightFamily
  <2>2. ASSUME NEW p, Enqueue(p), OfFamily(p.family, p.root)
        PROVE  \A i \in DOMAIN queue' : OfFamily(queue'[i].family, queue'[i].root)
    <3>1. PICK n \in Nat : /\ DOMAIN queue = 1 .. n /\ DOMAIN queue' = 1 .. n + 1
                           /\ queue'[n + 1] = p /\ \A i \in 1 .. n : queue'[i] = queue[i]
      BY <2>2, QueueGrows
    <3>2. \A i \in DOMAIN queue' : i \in 1 .. n \/ i = n + 1
      BY <3>1
    <3> QED BY <2>2, <3>1, <3>2 DEF RightFamily
  <2> QED BY <2>1, <2>2
<1> QED BY <1>1 DEF RightFamily, OfFamily, SendsRight, ChildSendsRight

\* The steps of the root's reader thread.
LEMMA FlowReader ==
  ASSUME OrderInv, RightFamily, FramesInOrder, NEW r \in Roots, ReaderStep(r)
  PROVE  RightFamily' /\ FramesKept
<1> USE ConstantsAssumption DEF OrderInv, TypeInv, TypeOK
<1> USE DEF envVars, gitVars, readerVars, ingressVars, queueVars, ReaderStep
<1>1. UNCHANGED <<home, slots, worker, child>>
  BY DEF OpenRoot, Track, Capture, Send, Close, SendMarker
<1>2. \A q \in Roots : /\ OfFamily(rootFamily[q], q)
                       /\ SendsRight(reader[q], q) /\ ChildSendsRight(child'[q], q)
  BY <1>1 DEF RightFamily, SendsRight, ChildSendsRight
<1>3. CASE OpenRoot(r)
  <2>1. UNCHANGED <<rootFamily, queue>>
    BY <1>3 DEF OpenRoot
  <2>2. reader' = [reader EXCEPT ![r].step = "track"]
    BY <1>3 DEF OpenRoot
  <2>3. \A q \in Roots : reader'[q].frame = reader[q].frame /\ SendsRight(reader'[q], q)
    BY <1>2, <2>2 DEF SendsRight, ReaderType
  <2>4. FramesKept
    BY <2>1, <2>3, FramesAside
  <2> QED BY <1>1, <1>2, <2>1, <2>3, <2>4, FamiliesStay
<1>4. CASE Track(r)
  <2> DEFINE f == reader[r].frame
             g == IF f = "def_repo" THEN home[r] ELSE rootFamily[r]
  <2>1. f \in Frames /\ UNCHANGED queue
    <3>1. f \in Frames \cup {"eof"} /\ FrameAvailable(r) /\ UNCHANGED queue
      BY <1>4 DEF Track, ReaderType
    <3>2. f # "eof"
      BY <3>1 DEF FrameAvailable
    <3> QED BY <3>1, <3>2
  <2>2. OfFamily(g, r)
    BY <1>2 DEF OfFamily
  <2>3. \A q \in Roots : rootFamily'[q] \in {NoFamily, rootFamily[q], IF q = r THEN g ELSE NoFamily}
    <3>1. PICK h \in {NoFamily, g} : rootFamily' = [rootFamily EXCEPT ![r] = h]
      BY <1>4 DEF Track
    <3>2. rootFamily'[r] = h /\ \A q \in Roots \ {r} : rootFamily'[q] = rootFamily[q]
      BY <3>1 DEF IngressOK
    <3> HIDE DEF g
    <3> QED BY <3>2
  <2>4. PICK t :
          \/ reader' = [reader EXCEPT ![r] = [@ EXCEPT !.step = "capture"]]
          \/ reader' = [reader EXCEPT ![r] =
               [frame |-> NextFrame(f), step |-> "read", payload |-> NoSlot]]
          \/ reader' = [reader EXCEPT ![r] =
               [frame |-> f, step |-> "send", payload |-> Payload(r, f, t, g)]]
    BY <1>4 DEF Track
  <2>5. OfFamily(Payload(r, f, t, g).family, r) /\ Payload(r, f, t, g).event = f
    BY <2>2 DEF Payload
  <2> HIDE DEF g
  <2>6. SendsRight(reader'[r], r) /\ (reader'[r].frame = f \/ reader'[r].frame = NextFrame(f))
    <3>1. CASE reader' = [reader EXCEPT ![r] = [@ EXCEPT !.step = "capture"]]
      BY <3>1 DEF SendsRight, ReaderType
    <3>2. CASE reader' = [reader EXCEPT ![r] =
                 [frame |-> NextFrame(f), step |-> "read", payload |-> NoSlot]]
      BY <3>2 DEF SendsRight
    <3>3. CASE reader' = [reader EXCEPT ![r] =
                 [frame |-> f, step |-> "send", payload |-> Payload(r, f, t, g)]]
      BY <2>5, <3>3 DEF SendsRight
    <3> QED BY <2>4, <3>1, <3>2, <3>3
  <2>7. \A q \in Roots \ {r} : reader'[q] = reader[q]
    BY <2>4
  <2>8. \A q \in Roots : SendsRight(reader'[q], q) /\ OfFamily(rootFamily'[q], q)
    BY <1>2, <2>2, <2>3, <2>6, <2>7 DEF OfFamily
  <2>9. FramesKept
    BY <2>1, <2>6, <2>7, FramesAside
  <2> QED BY <1>1, <1>2, <2>1, <2>8, <2>9, FamiliesStay
<1>5. CASE Capture(r)
  <2> DEFINE f == reader[r].frame
             g == IF f = "def_repo" THEN home[r] ELSE rootFamily[r]
             p == Payload(r, f, rootStarted[r], g)
  <2>1. UNCHANGED <<rootFamily, queue>>
          /\ reader' = [reader EXCEPT ![r] = [frame |-> f, step |-> "send", payload |-> p]]
    BY <1>5 DEF Capture
  <2>2. OfFamily(p.family, r) /\ p.event = f
    BY <1>2 DEF OfFamily, Payload
  <2> HIDE DEF p
  <2>3. \A q \in Roots : reader'[q].frame = reader[q].frame /\ SendsRight(reader'[q], q)
    BY <1>2, <2>1, <2>2 DEF SendsRight
  <2>4. FramesKept
    BY <2>1, <2>3, FramesAside
  <2> QED BY <1>1, <1>2, <2>1, <2>3, <2>4, FamiliesStay
<1>6. CASE Send(r)
  <2>1. /\ Enqueue(reader[r].payload) /\ reader[r].step = "send" /\ UNCHANGED rootFamily
        /\ reader' = [reader EXCEPT ![r] =
             [frame |-> NextFrame(@.frame), step |-> "read", payload |-> NoSlot]]
    BY <1>6 DEF Send
  <2>2. reader[r].payload.root = r /\ OfFamily(reader[r].payload.family, r)
    BY <1>2, <2>1 DEF Heard, ReaderStamps, SendsRight
  <2>3. \A q \in Roots : SendsRight(reader'[q], q)
    BY <1>2, <2>1 DEF SendsRight
  <2>4. FramesKept
    BY <1>6, FramesSend
  <2> QED BY <1>1, <1>2, <2>1, <2>2, <2>3, <2>4, FamiliesStay
<1>7. CASE Close(r)
  <2>1. \A q \in Roots : rootFamily'[q] \in {NoFamily, rootFamily[q]}
    BY <1>7, FamilyRecordClose DEF Close
  <2>2. PICK st \in {"marker", "closed"} : reader' = [reader EXCEPT ![r] = [@ EXCEPT !.step = st]]
    BY <1>7 DEF Close
  <2>3. \A q \in Roots : reader'[q].frame = reader[q].frame /\ SendsRight(reader'[q], q)
    BY <1>2, <2>2 DEF SendsRight, ReaderType
  <2>4. UNCHANGED queue /\ \A q \in Roots : OfFamily(rootFamily'[q], q)
    BY <1>2, <1>7, <2>1 DEF Close, OfFamily
  <2>5. FramesKept
    BY <2>3, <2>4, FramesAside
  <2> QED BY <1>1, <1>2, <2>3, <2>4, <2>5, FamiliesStay
<1>8. CASE SendMarker(r)
  <2>1. /\ Enqueue(Marker(r)) /\ UNCHANGED rootFamily
        /\ reader' = [reader EXCEPT ![r].step = "closed"]
    BY <1>8 DEF SendMarker
  <2>2. /\ Marker(r) \in Payloads /\ Marker(r).event \notin Frames
        /\ OfFamily(Marker(r).family, Marker(r).root)
    BY DEF Marker, Payload, Payloads, Frames, OfFamily
  <2>3. \A q \in Roots : reader'[q].frame = reader[q].frame /\ SendsRight(reader'[q], q)
    BY <1>2, <2>1 DEF SendsRight, ReaderType
  <2>4. FramesKept
    BY <2>1, <2>2, <2>3, FramesAside
  <2> QED BY <1>1, <1>2, <2>1, <2>2, <2>3, <2>4, FamiliesStay
<1> QED BY <1>3, <1>4, <1>5, <1>6, <1>7, <1>8

\* The steps of the child's reader thread.
LEMMA FlowChild ==
  ASSUME OrderInv, RightFamily, FramesInOrder, NEW r \in Roots, ChildRead(r) \/ ChildStep(r)
  PROVE  RightFamily' /\ FramesKept
<1> USE ConstantsAssumption DEF OrderInv, TypeInv, TypeOK
<1> USE DEF envVars, gitVars, readerVars, ingressVars, queueVars, ChildStep
<1>1. UNCHANGED <<home, slots, worker, reader>>
  BY DEF ChildRead, ChildTrack, ChildCapture, ChildSend, ChildClose, ChildSendMarker
<1>2. \A q \in Roots : /\ OfFamily(rootFamily[q], q)
                       /\ SendsRight(reader'[q], q) /\ ChildSendsRight(child[q], q)
  BY <1>1 DEF RightFamily, SendsRight, ChildSendsRight
<1>3. \A q \in Roots : OfFamily(rootFamily'[q], q)
  <2>1. \A q \in Roots : rootFamily'[q] \in {NoFamily, rootFamily[q]}
    <3>1. CASE ChildClose(r)
      BY <3>1, FamilyRecordClose DEF ChildClose
    <3>2. CASE UNCHANGED rootFamily
      BY <3>2
    <3> QED BY <3>1, <3>2 DEF ChildRead, ChildTrack, ChildCapture, ChildSend, ChildSendMarker
  <2> QED BY <1>2, <2>1 DEF OfFamily
<1> DEFINE p == Payload(r, "child", rootStarted[r], rootFamily[r])
<1>4. OfFamily(p.family, r) /\ p.event = "child"
  BY <1>2 DEF Payload
<1>5. \/ \E st \in {"track", "capture", "eof", "marker", "closed"} :
            child' = [child EXCEPT ![r] = [@ EXCEPT !.step = st]]
      \/ child' = [child EXCEPT ![r] = [step |-> "send", payload |-> p]]
      \/ child' = [child EXCEPT ![r] = [step |-> "eof", payload |-> NoSlot]]
  <2>1. CASE ChildRead(r)
    BY <2>1 DEF ChildRead
  <2>2. CASE ChildTrack(r)
    BY <2>2 DEF ChildTrack
  <2>3. CASE ChildCapture(r)
    BY <2>3 DEF ChildCapture
  <2>4. CASE ChildSend(r)
    BY <2>4 DEF ChildSend
  <2>5. CASE ChildClose(r)
    BY <2>5 DEF ChildClose
  <2>6. CASE ChildSendMarker(r)
    BY <2>6 DEF ChildSendMarker
  <2> QED BY <2>1, <2>2, <2>3, <2>4, <2>5, <2>6
<1> HIDE DEF p
<1>6. \A q \in Roots : ChildSendsRight(child'[q], q)
  <2>1. ChildSendsRight(child'[r], r)
    BY <1>4, <1>5 DEF ChildSendsRight, ChildType
  <2>2. \A q \in Roots \ {r} : child'[q] = child[q]
    BY <1>5
  <2> QED BY <1>2, <2>1, <2>2
<1>7. \/ UNCHANGED queue
      \/ \E x \in Payloads : x.event \notin Frames /\ Enqueue(x) /\ OfFamily(x.family, x.root)
  <2>1. CASE ChildSend(r)
    <3>1. child[r].step = "send" /\ Enqueue(child[r].payload)
      BY <2>1 DEF ChildSend
    <3>2. child[r].payload \in Payloads /\ child[r].payload.root = r
      BY <3>1 DEF Shapes, ReaderShape, Heard, ReaderStamps
    <3>3. child[r].payload.event = "child" /\ OfFamily(child[r].payload.family, r)
      BY <1>2, <3>1 DEF ChildSendsRight
    <3> QED BY <3>1, <3>2, <3>3 DEF Frames
  <2>2. CASE ChildSendMarker(r)
    <3>1. Enqueue(Marker(r))
      BY <2>2 DEF ChildSendMarker
    <3>2. /\ Marker(r) \in Payloads /\ Marker(r).event \notin Frames
          /\ OfFamily(Marker(r).family, Marker(r).root)
      BY DEF Marker, Payload, Payloads, Frames, OfFamily
    <3> QED BY <3>1, <3>2
  <2>3. CASE UNCHANGED queue
    BY <2>3
  <2> QED BY <2>1, <2>2, <2>3 DEF ChildRead, ChildTrack, ChildCapture, ChildClose
<1>8. FramesKept
  BY <1>1, <1>7, FramesAside
<1> QED BY <1>1, <1>2, <1>3, <1>6, <1>7, <1>8, FamiliesStay

\* Steps of the other actors.
LEMMA FlowQuiet ==
  ASSUME TypeInv, RightFamily, FramesInOrder, UNCHANGED <<home, reader, child, queue, slots>>,
         \A q \in Roots : rootFamily'[q] \in {NoFamily, rootFamily[q]},
         UNCHANGED worker \/ worker'.pc \notin {"replace", "append"}
  PROVE  RightFamily' /\ FramesKept
<1>1. FramesKept
  BY FramesAside
<1> QED BY <1>1 DEF RightFamily, OfFamily

-----------------------------------------------------------------------------
(* The place of a root.                                                     *)

\* The step leaves root r where it is.
KeepsPlace(r) ==
  /\ Nowhere(home[r], r) => Nowhere(home[r], r)'
  /\ Once(home[r], r) => Once(home[r], r)'
  /\ Led(r) => Led(r)'
  /\ Appending(r)' <=> Appending(r)

\* The step gives the completed root r its place.
GetsPlace(r) ==
  /\ normalizer[r] # "pending" /\ ~StartAhead(r)
  /\ ~Appending(r)'
  /\ normalizer[r] = "completed" /\ ParticipatesAtExit(kind[r]) => Once(home[r], r)'

\* Steps that end no root.
LEMMA RootsKeep ==
  ASSUME RootInv, UNCHANGED <<kind, home, normalizer, slots>>, RightFamily', FramesKept,
         UNCHANGED worker \/ worker'.pc \notin {"replace", "append"},
         \A r \in Roots : KeepsPlace(r) \/ GetsPlace(r),
         worker.pc = "replace" => worker.root \in Roots
  PROVE  RootInv'
<1> USE DEF RootInv, FramesKept
<1>1. \A r \in Roots : StartAhead(r)' => StartAhead(r)
  OBVIOUS
<1>2. UnheardRoots'
  <2> SUFFICES ASSUME NEW r \in Roots, StartAhead(r)'
               PROVE  normalizer[r] = "none" /\ slots[r] = NoSlot /\ Nowhere(home[r], r)'
    BY DEF UnheardRoots
  <2>1. normalizer[r] = "none" /\ slots[r] = NoSlot /\ Nowhere(home[r], r)
    BY <1>1 DEF UnheardRoots
  <2> QED BY <1>1, <2>1 DEF KeepsPlace, GetsPlace
<1>3. PendingRoots'
  BY DEF PendingRoots, KeepsPlace, GetsPlace
<1>4. CompletedRoots'
  <2> SUFFICES ASSUME NEW r \in Roots, normalizer[r] = "completed"
               PROVE  /\ Over(r)' /\ slots[r] = NoSlot
                      /\ ParticipatesAtExit(kind[r]) =>
                           IF Appending(r)' THEN Nowhere(home[r], r)' ELSE Once(home[r], r)'
    BY DEF CompletedRoots
  <2>1. Over(r)' /\ slots[r] = NoSlot
    BY DEF CompletedRoots
  <2>2. CASE KeepsPlace(r)
    BY <2>1, <2>2 DEF CompletedRoots, KeepsPlace
  <2>3. CASE GetsPlace(r)
    BY <2>1, <2>3 DEF GetsPlace
  <2> QED BY <2>2, <2>3
<1>5. WorkerRoot'
  BY <1>1 DEF WorkerRoot
<1> QED BY <1>2, <1>3, <1>4, <1>5

\* Entries of others, and nothing else of a root, have changed.
LEMMA PlaceUntouched ==
  ASSUME NEW r \in Roots, UNCHANGED <<home, ready, log>>, slots'[r] = slots[r],
         \A e : e.id = r => (e \in entries'[home[r]] <=> e \in entries[home[r]]),
         Appending(r)' <=> Appending(r)
  PROVE  KeepsPlace(r)
<1> DEFINE F == home[r]
<1>1. /\ NoneIn(entries[F], r)' <=> NoneIn(entries[F], r)
      /\ OneIn(entries[F], r)' <=> OneIn(entries[F], r)
  BY DEF NoneIn, OneIn
<1>2. /\ NoneIn(ready[F], r)' <=> NoneIn(ready[F], r)
      /\ OneIn(ready[F], r)' <=> OneIn(ready[F], r)
      /\ Ran(F, r)' <=> Ran(F, r)
      /\ RanOnce(F, r)' <=> RanOnce(F, r)
  BY DEF NoneIn, OneIn, Ran, RanOnce, RunAt
<1>3. (Nowhere(F, r) => Nowhere(F, r)') /\ (Once(F, r) => Once(F, r)')
  BY <1>1, <1>2 DEF Nowhere, Once
<1>4. Led(r) => Led(r)'
  BY <1>2 DEF Led, Slot
<1> QED BY <1>3, <1>4 DEF KeepsPlace

\* A drain moves the one entry of x, if any, or leaves it.
LEMMA DrainKeepsOne ==
  ASSUME NEW F \in Families, NEW es, NEW b, Drains(F, es, b), NEW x, ~Ran(F, x)
  PROVE  /\ NoneIn(es, x) => Nowhere(F, x)'
         /\ OneIn(es, x) => Once(F, x)'
<1>1. entries'[F] = es \ b /\ ready'[F] = b /\ b \subseteq es /\ ~Ran(F, x)'
  BY DEF Drains, Ran, RunAt
<1>2. NoneIn(es, x) => Nowhere(F, x)'
  BY <1>1 DEF Nowhere, NoneIn
<1>3. ASSUME OneIn(es, x) PROVE Once(F, x)'
  <2>1. PICK e \in es : e.id = x /\ \A d \in es : d.id = x => d = e
    BY <1>3 DEF OneIn
  <2>2. CASE e \in b
    <3>1. NoneIn(es \ b, x) /\ OneIn(b, x)
      BY <1>1, <2>1, <2>2 DEF NoneIn, OneIn
    <3> QED BY <1>1, <3>1 DEF Once, NoneIn, OneIn
  <2>3. CASE e \notin b
    <3>1. OneIn(es \ b, x) /\ NoneIn(b, x)
      BY <1>1, <2>1, <2>3 DEF NoneIn, OneIn
    <3> QED BY <1>1, <3>1 DEF Once, NoneIn, OneIn
  <2> QED BY <2>2, <2>3
<1> QED BY <1>2, <1>3

\* A drain does not touch a pending root, nor a root of another family.
LEMMA DrainKeeps ==
  ASSUME OrderInv, RightFamily, NEW F \in Families, NEW es, NEW b, Drains(F, es, b),
         NEW r \in Roots, UNCHANGED <<home, slots>>,
         \A e : e.id = r => (e \in es <=> e \in entries[F]),
         Appending(r)' <=> Appending(r)
  PROVE  KeepsPlace(r)
<1> USE DEF OrderInv, TypeInv, TypeOK
<1>1. home[r] \in Families
  BY DEF EnvOK
<1>2. CASE home[r] # F
  <2>1. /\ entries'[home[r]] = entries[home[r]] /\ ready'[home[r]] = ready[home[r]]
        /\ log' = log
    BY <1>1, <1>2 DEF Drains
  <2>2. (Nowhere(home[r], r) => Nowhere(home[r], r)') /\ (Once(home[r], r) => Once(home[r], r)')
    BY <2>1 DEF Nowhere, Once, NoneIn, OneIn, Ran, RanOnce, RunAt
  <2>3. Led(r) => Led(r)'
    BY <2>1 DEF Led, NoneIn, Ran, RunAt, Slot
  <2> QED BY <2>2, <2>3 DEF KeepsPlace
<1>3. CASE home[r] = F
  <2>1. /\ NoneIn(es, r) <=> NoneIn(entries[F], r)
        /\ OneIn(es, r) <=> OneIn(entries[F], r)
    BY DEF NoneIn, OneIn
  <2>2. ready[F] = {} /\ log' = log
    BY DEF Drains
  <2>3. Nowhere(F, r) => Nowhere(F, r)'
    BY <2>1, DrainKeepsOne DEF Nowhere
  <2>4. Once(F, r) => Once(F, r)'
    <3>1. CASE OneIn(entries[F], r) /\ ~Ran(F, r)
      BY <2>1, <3>1, DrainKeepsOne
    <3>2. CASE NoneIn(entries[F], r) /\ RanOnce(F, r)
      <4>1. NoneIn(entries'[F], r) /\ NoneIn(ready'[F], r)
        BY <2>1, <3>2 DEF Drains, NoneIn
      <4>2. RanOnce(F, r)'
        BY <2>2, <3>2 DEF RanOnce, Ran, RunAt
      <4> QED BY <4>1, <4>2 DEF Once, NoneIn
    <3>3. ~OneIn(ready[F], r)
      BY <2>2 DEF OneIn
    <3> QED BY <3>1, <3>2, <3>3 DEF Once
  <2>5. ASSUME Led(r) PROVE Led(r)'
    <3>1. \A e \in entries[F] : e.id = r => e.what = "pending"
      <4> SUFFICES ASSUME NEW e \in entries[F], e.id = r PROVE e.what = "pending"
        OBVIOUS
      <4>1. slots[r] = Slot(F, e) /\ e \in EntryType
        BY <1>3, <2>5 DEF Led, SequencerOK
      <4>2. slots[r] \in SlotType
        BY <4>1 DEF Slot, SlotType, EntryType
      <4>3. slots[r] # NoSlot
        BY <4>2, ConstantsAssumption DEF SlotType
      <4>4. PICK x \in entries[slots[r].family] :
              x.what = "pending" /\ x.at = slots[r].at /\ x.ord = slots[r].ord
        BY <4>3 DEF Placed, SlotsLead, Leads
      <4>5. x \in entries[F] /\ Key(x) = Key(e)
        BY <4>1, <4>4 DEF Slot, Key
      <4>6. x = e
        BY <4>5 DEF Placed, Keys
      <4> QED BY <4>4, <4>6
    <3>2. NoneIn(ready'[F], r)
      BY <3>1 DEF Drains, NoneIn
    <3>3. \A e \in entries'[F] : e.id = r => e \in entries[F]
      BY DEF Drains
    <3>4. ~Ran(F, r)'
      BY <1>3, <2>2, <2>5 DEF Led, Ran, RunAt
    <3> QED BY <1>3, <2>5, <3>2, <3>3, <3>4 DEF Led, NoneIn, Slot
  <2> QED BY <1>3, <2>3, <2>4, <2>5 DEF KeepsPlace
<1> QED BY <1>2, <1>3

\* Drains, with or without the entry that the worker places first.
LEMMA RootsDrain ==
  ASSUME OrderInv, RootInv,
         WorkerReplace \/ WorkerAppend \/ \E F \in Families : WorkerDrain(F) \/ TaskDrain(F)
  PROVE  RootInv'
<1> USE DEF RootInv, OrderInv, TypeInv, TypeOK
<1> USE DEF envVars, readerVars, ingressVars, queueVars
<1>0. PICK q : q = worker.root
  OBVIOUS
<1>1. UNCHANGED <<kind, home, normalizer, slots, reader, child, queue, rootFamily>>
  BY DEF WorkerReplace, WorkerAppend, WorkerDrain, TaskDrain
<1>2. /\ WorkerReplace \/ WorkerAppend => worker'.pc = "clear"
      /\ \/ UNCHANGED worker
         \/ worker'.pc \in {"clear", "drain"}
      /\ ~WorkerReplace /\ ~WorkerAppend =>
           UNCHANGED worker \/ (worker.pc = "drain" /\ worker'.pc = "drain")
  BY DEF WorkerReplace, WorkerAppend, WorkerDrain, TaskDrain, WorkerType
<1>3. RightFamily' /\ FramesKept
  BY <1>1, <1>2, FlowQuiet
<1>4. worker.pc \in {"replace", "append"} => q \in Roots
  BY <1>0 DEF Shapes, WorkerShape
<1>5. PICK F \in Families, es \in SUBSET EntryType, b \in SUBSET EntryType :
        /\ Drains(F, es, b)
        /\ \/ es = entries[F] /\ ~WorkerReplace /\ ~WorkerAppend
           \/ /\ WorkerReplace /\ F = worker.slot.family
              /\ \E x \in entries[F], e \in EntryType :
                   /\ x.id = worker.root /\ e.id = worker.root
                   /\ es = (entries[F] \ {x}) \cup {e}
           \/ /\ WorkerAppend /\ F = worker.family
              /\ \E e \in EntryType : e.id = worker.root /\ es = entries[F] \cup {e}
  BY DrainSteps DEF Drains
<1>6. CASE es = entries[F] /\ ~WorkerReplace /\ ~WorkerAppend
  <2>1. \A r \in Roots : Appending(r)' <=> Appending(r)
    BY <1>2, <1>6 DEF Appending
  <2>2. \A r \in Roots : KeepsPlace(r)
    BY <1>1, <1>5, <1>6, <2>1, DrainKeeps
  <2> QED BY <1>0, <1>1, <1>2, <1>3, <1>4, <2>2, RootsKeep
<1>7. ASSUME WorkerReplace \/ WorkerAppend, \A e : e.id # q => (e \in es <=> e \in entries[F]),
             GetsPlace(q)
      PROVE  RootInv'
  <2>1. ASSUME NEW r \in Roots, r # q PROVE KeepsPlace(r)
    <3>1. ~Appending(r) /\ ~Appending(r)'
      BY <1>0, <1>2, <1>7, <2>1 DEF Appending, WorkerReplace, WorkerAppend
    <3>2. \A e : e.id = r => (e \in es <=> e \in entries[F])
      BY <1>7, <2>1
    <3> QED BY <1>1, <1>5, <3>1, <3>2, DrainKeeps
  <2> QED BY <1>0, <1>1, <1>2, <1>3, <1>4, <1>7, <2>1, RootsKeep
<1>8. CASE WorkerReplace
  <2>1. worker.pc = "replace" /\ F = worker.slot.family /\ q \in Roots
    BY <1>4, <1>5, <1>8 DEF WorkerReplace, WorkerAppend
  <2>2. PICK x \in entries[F], e \in EntryType :
          x.id = q /\ e.id = q /\ es = (entries[F] \ {x}) \cup {e}
    BY <1>0, <1>5, <1>8, <2>1 DEF WorkerReplace, WorkerAppend
  <2>3. F = home[q]
    BY <1>0, <2>1 DEF RightFamily
  <2>4. ~Appending(q) /\ ~Appending(q)'
    BY <1>0, <1>2, <1>8, <2>1 DEF Appending
  <2>5. ASSUME normalizer[q] = "completed", ParticipatesAtExit(kind[q]) PROVE Once(home[q], q)'
    <3>1. Once(F, q)
      BY <2>1, <2>3, <2>4, <2>5 DEF CompletedRoots
    <3>2. OneIn(entries[F], q) /\ ~Ran(F, q)
      BY <2>2, <3>1 DEF Once, NoneIn
    <3>3. OneIn(es, q)
      BY <2>2, <3>2 DEF OneIn
    <3>4. Once(F, q)'
      BY <1>5, <3>2, <3>3, DrainKeepsOne
    <3> QED BY <1>1, <2>3, <3>4
  <2>6. GetsPlace(q)
    BY <1>0, <2>1, <2>4, <2>5 DEF WorkerRoot, GetsPlace
  <2>7. \A d : d.id # q => (d \in es <=> d \in entries[F])
    BY <2>2
  <2> QED BY <1>7, <1>8, <2>6, <2>7
<1>9. CASE WorkerAppend
  <2>1. worker.pc = "append" /\ F = worker.family /\ q \in Roots
    BY <1>4, <1>5, <1>9 DEF WorkerReplace, WorkerAppend
  <2>2. PICK e \in EntryType : e.id = q /\ es = entries[F] \cup {e}
    BY <1>0, <1>5, <1>9, <2>1 DEF WorkerReplace, WorkerAppend
  <2>3. F = home[q] /\ normalizer[q] = "completed"
    BY <1>0, <2>1 DEF RightFamily, WorkerRoot
  <2>4. Appending(q) /\ ~Appending(q)'
    BY <1>0, <1>2, <1>9, <2>1 DEF Appending
  <2>5. ~StartAhead(q)
    BY <2>1, <2>3 DEF UnheardRoots
  <2>6. ASSUME ParticipatesAtExit(kind[q]) PROVE Once(home[q], q)'
    <3>1. Nowhere(F, q)
      BY <2>1, <2>3, <2>4, <2>6 DEF CompletedRoots
    <3>2. OneIn(es, q) /\ ~Ran(F, q)
      BY <2>2, <3>1 DEF Nowhere, NoneIn, OneIn
    <3>3. Once(F, q)'
      BY <1>5, <3>2, DrainKeepsOne
    <3> QED BY <1>1, <2>3, <3>3
  <2>7. GetsPlace(q)
    BY <2>3, <2>4, <2>5, <2>6 DEF GetsPlace
  <2>8. \A d : d.id # q => (d \in es <=> d \in entries[F])
    BY <2>2
  <2> QED BY <1>7, <1>9, <2>7, <2>8
<1> QED BY <1>5, <1>6, <1>8, <1>9

\* An entry that runs goes from the batch to the log.
LEMMA ExecuteKeeps ==
  ASSUME OrderInv, NEW F \in Families, NEW e, Runs(F, e), NEW r \in Roots,
         UNCHANGED <<home, slots, worker>>
  PROVE  KeepsPlace(r)
<1> USE DEF OrderInv, TypeInv, TypeOK
<1>1. home[r] \in Families /\ entries' = entries /\ (Appending(r)' <=> Appending(r))
  BY DEF EnvOK, Runs, Appending
<1>2. CASE home[r] # F
  <2>1. ready'[home[r]] = ready[home[r]] /\ log'[home[r]] = log[home[r]]
    BY <1>1, <1>2 DEF Runs
  <2>2. (Nowhere(home[r], r) => Nowhere(home[r], r)') /\ (Once(home[r], r) => Once(home[r], r)')
    BY <1>1, <2>1 DEF Nowhere, Once, NoneIn, OneIn, Ran, RanOnce, RunAt
  <2>3. Led(r) => Led(r)'
    BY <1>1, <2>1 DEF Led, NoneIn, Ran, RunAt, Slot
  <2> QED BY <1>1, <2>2, <2>3 DEF KeepsPlace
<1>3. CASE home[r] = F
  <2>1. e \in ready[F] /\ ready'[F] = ready[F] \ {e} /\ (Ran(F, r)' <=> Ran(F, r) \/ r = e.id)
    BY DEF Runs
  <2>2. PICK n \in Nat : /\ DOMAIN log[F] = 1 .. n /\ DOMAIN log'[F] = 1 .. n + 1
                         /\ log'[F][n + 1].id = e.id
                         /\ \A i \in 1 .. n : log'[F][i] = log[F][i]
    BY DEF Runs
  <2>3. \A i \in DOMAIN log'[F] : i = n + 1 \/ (i \in DOMAIN log[F] /\ log'[F][i] = log[F][i])
    BY <2>2
  <2>4. Nowhere(F, r) => Nowhere(F, r)'
    BY <1>1, <2>1 DEF Nowhere, NoneIn
  <2>5. ASSUME Once(F, r) PROVE Once(F, r)'
    <3>1. CASE OneIn(entries[F], r) /\ NoneIn(ready[F], r) /\ ~Ran(F, r)
      <4>1. e.id # r /\ OneIn(entries'[F], r) /\ NoneIn(ready'[F], r)
        BY <1>1, <2>1, <3>1 DEF NoneIn
      <4> QED BY <2>1, <3>1, <4>1 DEF Once, NoneIn, OneIn
    <3>2. CASE NoneIn(entries[F], r) /\ OneIn(ready[F], r) /\ ~Ran(F, r)
      <4>1. CASE e.id = r
        <5>1. NoneIn(ready'[F], r) /\ NoneIn(entries'[F], r) /\ Ran(F, r)'
          BY <1>1, <2>1, <3>2, <4>1 DEF NoneIn, OneIn
        <5>2. \A i \in DOMAIN log'[F] : log'[F][i].id = r => i = n + 1
          BY <2>3, <3>2 DEF Ran, RunAt
        <5>3. RanOnce(F, r)'
          BY <5>1, <5>2 DEF RanOnce, RunAt
        <5> QED BY <5>1, <5>3 DEF Once, NoneIn
      <4>2. CASE e.id # r
        <5>1. NoneIn(entries'[F], r) /\ OneIn(ready'[F], r)
          BY <1>1, <2>1, <3>2, <4>2 DEF OneIn
        <5> QED BY <2>1, <3>2, <4>2, <5>1 DEF Once, NoneIn, OneIn
      <4> QED BY <4>1, <4>2
    <3>3. CASE NoneIn(entries[F], r) /\ NoneIn(ready[F], r) /\ RanOnce(F, r)
      <4>1. e.id # r /\ NoneIn(entries'[F], r) /\ NoneIn(ready'[F], r)
        BY <1>1, <2>1, <3>3 DEF NoneIn
      <4>2. \A i \in DOMAIN log'[F] : log'[F][i].id = r => i \in DOMAIN log[F] /\ log[F][i].id = r
        BY <2>2, <2>3, <4>1
      <4>3. RanOnce(F, r)'
        BY <2>1, <3>3, <4>2 DEF RanOnce, RunAt
      <4> QED BY <4>1, <4>3 DEF Once, NoneIn
    <3> QED BY <2>5, <3>1, <3>2, <3>3 DEF Once
  <2>6. ASSUME Led(r) PROVE Led(r)'
    <3>1. e.id # r /\ NoneIn(ready'[F], r) /\ ~Ran(F, r)'
      BY <1>3, <2>1, <2>6 DEF Led, NoneIn
    <3> QED BY <1>1, <1>3, <2>6, <3>1 DEF Led, NoneIn, Slot
  <2> QED BY <1>1, <1>3, <2>4, <2>5, <2>6 DEF KeepsPlace
<1> QED BY <1>2, <1>3

\* What a pending root's slot leads to after a payload of it was applied: its only entry.
LEMMA LedPending ==
  ASSUME OrderInv, RightFamily, NEW p \in Payloads, NEW r \in Roots, r = p.root, Led(r),
         AppendPending(p), OfFamily(p.family, r), UNCHANGED <<home, ready, log>>
  PROVE  /\ NoneIn(ready[home[r]], r)' /\ ~Ran(home[r], r)'
         /\ \A e \in entries'[home[r]] : e.id = r => SlotAfter(p) = Slot(home[r], e)
         /\ SlotAfter(p) # NoSlot => OneIn(entries'[home[r]], r) /\ SlotAfter(p).family = home[r]
         /\ SlotAfter(p) = NoSlot => NoneIn(entries'[home[r]], r)
<1> USE DEF OrderInv, TypeInv, TypeOK
<1> DEFINE F == home[r]
           e == PendingEntry(p)
<1>1. NoneIn(ready[home[r]], r)' /\ ~Ran(home[r], r)'
  BY DEF Led, NoneIn, Ran, RunAt
<1>2. F \in Families /\ F = home[r]
  BY DEF EnvOK
<1>3. \A d \in entries[F] : d.id = r => slots[r] = Slot(F, d) /\ Slot(F, d) # NoSlot
  <2> SUFFICES ASSUME NEW d \in entries[F], d.id = r
               PROVE  slots[r] = Slot(F, d) /\ Slot(F, d) # NoSlot
    OBVIOUS
  <2>1. d \in EntryType
    BY <1>2 DEF SequencerOK
  <2>2. Slot(F, d) \in SlotType
    BY <1>2, <2>1 DEF Slot, SlotType, EntryType
  <2> QED BY <2>2, ConstantsAssumption DEF Led, SlotType
<1>4. CASE AppendsPending(p)
  <2>1. p.family = F /\ slots[r] = NoSlot
    BY <1>4 DEF AppendsPending, OfFamily
  <2>2. SlotAfter(p) = Slot(F, e) /\ e.id = r /\ e.at = p.at /\ e.ord = nextOrdinal[F]
    BY <1>4, <2>1 DEF SlotAfter, PendingEntry, Entry
  <2>3. entries'[F] = entries[F] \cup {e}
    BY <1>4, <2>1, PendingAdds
  <2>4. SlotAfter(p) \in SlotType
    <3>1. p.at \in Nat /\ nextOrdinal[F] \in Nat
      BY <1>2 DEF Payloads, SequencerOK
    <3> QED BY <1>2, <2>2, <3>1 DEF Slot, SlotType
  <2>5. SlotAfter(p) # NoSlot /\ SlotAfter(p).family = F
    BY <2>2, <2>4, ConstantsAssumption DEF Slot, SlotType
  <2> HIDE DEF e
  <2>6. \A d \in entries'[F] : d.id = r => d = e
    BY <1>3, <2>1, <2>3
  <2>7. OneIn(entries'[F], r)
    BY <2>2, <2>3, <2>6 DEF OneIn
  <2> QED BY <1>1, <2>2, <2>5, <2>6, <2>7
<1>5. CASE ~AppendsPending(p)
  <2>1. entries' = entries /\ SlotAfter(p) = slots[r]
    BY <1>5, PendingAdds DEF SlotAfter
  <2>2. slots[r] = NoSlot => NoneIn(entries[F], r)
    BY <1>3 DEF NoneIn
  <2>3. ASSUME slots[r] # NoSlot PROVE OneIn(entries[F], r) /\ slots[r].family = F
    <3>1. slots[r].family = F
      BY <2>3 DEF RightFamily
    <3>2. PICK x \in entries[F] : x.id = r /\ x.at = slots[r].at /\ x.ord = slots[r].ord
      BY <2>3, <3>1 DEF Placed, SlotsLead, Leads
    <3>3. ASSUME NEW d \in entries[F], d.id = r PROVE d = x
      <4>1. slots[r] = Slot(F, d)
        BY <1>3, <3>3
      <4>2. x.at = d.at /\ x.ord = d.ord
        BY <3>2, <4>1 DEF Slot
      <4> QED BY <1>2, <4>2 DEF Placed, Keys, Key
    <3>4. \A d \in entries[F] : d.id = r => d = x
      BY <3>3
    <3> QED BY <3>1, <3>2, <3>4 DEF OneIn
  <2> QED BY <1>1, <1>3, <2>1, <2>2, <2>3
<1> QED BY <1>4, <1>5

\* Applying a payload: what becomes of its root r, given what became of its slot, its
\* normalizer state and the worker.
LEMMA RootsTake ==
  ASSUME OrderInv, RootInv, NEW p \in Payloads, NEW r \in Roots, r = p.root,
         p.event \in Frames => AppendPending(p), p.event \notin Frames => entries' = entries,
         UNCHANGED <<kind, home, ready, log, reader, child, rootFamily>>, worker.pc = "idle",
         NEW s, NEW m, slots' = [slots EXCEPT ![r] = s], normalizer' = [normalizer EXCEPT ![r] = m],
         FramesKept, p.event \in Frames => ~StartAhead(r)',
         \A i \in DOMAIN queue' : OfFamily(queue'[i].family, queue'[i].root),
         OfFamily(p.family, r),
         worker'.pc \in {"replace", "append"} => worker'.root = r,
         s # NoSlot => s.family = home[r],
         worker'.pc = "replace" => worker'.slot.family = home[r] /\ m # "pending" /\ ~StartAhead(r)',
         worker'.pc = "append" => worker'.family = home[r] /\ m = "completed",
         StartAhead(r)' => m = "none" /\ s = NoSlot /\ Nowhere(home[r], r)',
         m = "pending" => Led(r)',
         m = "completed" =>
           /\ Over(r)' /\ s = NoSlot
           /\ ParticipatesAtExit(kind[r]) =>
                IF worker'.pc = "append" THEN Nowhere(home[r], r)' ELSE Once(home[r], r)'
  PROVE  RootInv'
<1> USE DEF RootInv, OrderInv, TypeInv, TypeOK
<1>1. /\ slots'[r] = s /\ normalizer'[r] = m
      /\ \A q \in Roots \ {r} : slots'[q] = slots[q] /\ normalizer'[q] = normalizer[q]
  BY DEF SequencerOK
<1>2. RightFamily'
  BY <1>1 DEF RightFamily, OfFamily
<1>3. \A q \in Roots \ {r} : KeepsPlace(q)
  <2> SUFFICES ASSUME NEW q \in Roots \ {r} PROVE KeepsPlace(q)
    OBVIOUS
  <2>1. ~Appending(q) /\ ~Appending(q)'
    BY DEF Appending
  <2>2. home[q] \in Families
    BY DEF EnvOK
  <2>3. \A e : e.id = q => (e \in entries'[home[q]] <=> e \in entries[home[q]])
    <3>1. CASE p.event \notin Frames
      BY <3>1
    <3>2. CASE p.event \in Frames
      <4>1. CASE AppendsPending(p)
        BY <2>2, <3>2, <4>1, PendingAdds
      <4>2. CASE ~AppendsPending(p)
        BY <3>2, <4>2, PendingAdds
      <4> QED BY <4>1, <4>2
    <3> QED BY <3>1, <3>2
  <2> QED BY <1>1, <2>1, <2>3, PlaceUntouched
<1>4. UnheardRoots'
  <2>1. ASSUME NEW q \in Roots \ {r}, StartAhead(q)'
        PROVE  normalizer'[q] = "none" /\ slots'[q] = NoSlot /\ Nowhere(home[q], q)'
    BY <1>1, <1>3, <2>1 DEF FramesKept, UnheardRoots, KeepsPlace
  <2> QED BY <1>1, <2>1 DEF UnheardRoots
<1>5. PendingRoots'
  <2>1. ASSUME NEW q \in Roots \ {r}, normalizer'[q] = "pending" PROVE Led(q)'
    BY <1>1, <1>3, <2>1 DEF PendingRoots, KeepsPlace
  <2> QED BY <1>1, <2>1 DEF PendingRoots
<1>6. CompletedRoots'
  <2>1. ASSUME NEW q \in Roots \ {r}, normalizer'[q] = "completed"
        PROVE  /\ Over(q)' /\ slots'[q] = NoSlot
               /\ ParticipatesAtExit(kind[q]) =>
                    IF Appending(q)' THEN Nowhere(home[q], q)' ELSE Once(home[q], q)'
    <3>1. Over(q)' /\ slots'[q] = NoSlot
      BY <1>1, <2>1 DEF CompletedRoots, FramesKept
    <3>2. ~Appending(q) /\ ~Appending(q)'
      BY DEF Appending
    <3> QED BY <1>1, <1>3, <2>1, <3>1, <3>2 DEF CompletedRoots, KeepsPlace
  <2>2. Appending(r)' <=> worker'.pc = "append"
    BY DEF Appending
  <2> QED BY <1>1, <2>1, <2>2 DEF CompletedRoots
<1>7. WorkerRoot'
  BY <1>1 DEF WorkerRoot
<1> QED BY <1>2, <1>4, <1>5, <1>6, <1>7 DEF FramesKept

\* The payload at the head of the queue is applied.
LEMMA RootsIngest ==
  ASSUME OrderInv, RootInv, IngestStep
  PROVE  RootInv'
<1> USE DEF envVars, readerVars, ingressVars, execVars, seqVars
<1>1. PICK p \in Payloads :
        /\ queue # <<>> /\ p = queue[1] /\ 1 \in DOMAIN queue /\ queue' = Tail(queue)
        /\ worker.pc = "idle" /\ p.root \in Roots
        /\ \/ IngestFrame(p) /\ AppendPending(p)
           \/ IngestAtexit(p) /\ AppendPending(p)
           \/ IngestClosed(p) /\ entries' = entries
  BY Taken
<1>2. PICK r \in Roots : r = p.root
  BY <1>1
<1>3. UNCHANGED <<kind, home, ready, log, reader, child, rootFamily>>
  BY <1>1 DEF IngestFrame, IngestAtexit, IngestClosed
<1>4. TypeInv /\ RightFamily /\ FramesInOrder /\ home[r] \in Families
  BY DEF OrderInv, RootInv, TypeInv, TypeOK, EnvOK
<1>5. /\ FramesKept
      /\ p.event \in Frames => ~StartAhead(r)'
      /\ p.event = "atexit" => Over(r)'
  BY <1>1, <1>2, <1>3, <1>4, FramesTake
<1>6. /\ StartAhead(r)' => StartAhead(r)
      /\ Over(r) => Over(r)'
  BY <1>5 DEF FramesKept
<1>7. OfFamily(p.family, r)
  BY <1>1, <1>2, <1>4 DEF RightFamily
<1>8. \A i \in DOMAIN queue' : OfFamily(queue'[i].family, queue'[i].root)
  <2>1. \A i \in DOMAIN queue' : i + 1 \in DOMAIN queue /\ queue'[i] = queue[i + 1]
    BY <1>1, <1>4 DEF TypeInv, TypeOK, QueueOK
  <2> QED BY <1>4, <2>1 DEF RightFamily
<1>9. normalizer[r] = "completed" => p.event \notin Frames
  <2>1. p.event \in Frames => FrameAt(1, r)
    BY <1>1, <1>2 DEF FrameAt
  <2> QED BY <1>1, <2>1 DEF RootInv, CompletedRoots, Over
<1>10. p.event = "start" => StartAhead(r)
  BY <1>1, <1>2 DEF StartAhead
<1>11. StartAhead(r) => /\ normalizer[r] = "none" /\ slots[r] = NoSlot
                        /\ Nowhere(home[r], r) /\ Led(r)
  BY DEF RootInv, UnheardRoots, Nowhere, Led, NoneIn
<1>12. normalizer[r] = "pending" => Led(r)
  BY DEF RootInv, PendingRoots
<1>13. normalizer[r] = "completed" =>
         /\ Over(r) /\ slots[r] = NoSlot
         /\ ParticipatesAtExit(kind[r]) => Once(home[r], r)
  BY <1>1 DEF RootInv, CompletedRoots, Appending
<1>14. ASSUME entries' = entries
       PROVE  /\ Nowhere(home[r], r) => Nowhere(home[r], r)'
              /\ Once(home[r], r) => Once(home[r], r)'
              /\ Led(r) /\ slots'[r] = slots[r] => Led(r)'
  BY <1>3, <1>14 DEF Nowhere, Once, Led, NoneIn, OneIn, Ran, RanOnce, RunAt, Slot
<1>15. ASSUME Led(r), AppendPending(p)
       PROVE  /\ NoneIn(ready'[home[r]], r) /\ ~Ran(home[r], r)'
              /\ \A e \in entries'[home[r]] : e.id = r => SlotAfter(p) = Slot(home[r], e)
              /\ SlotAfter(p) # NoSlot => OneIn(entries'[home[r]], r)
              /\ SlotAfter(p) = NoSlot => NoneIn(entries'[home[r]], r)
  <2>1. /\ NoneIn(ready[home[r]], r)' /\ ~Ran(home[r], r)'
        /\ \A e \in entries'[home[r]] : e.id = r => SlotAfter(p) = Slot(home[r], e)
        /\ SlotAfter(p) # NoSlot => OneIn(entries'[home[r]], r) /\ SlotAfter(p).family = home[r]
        /\ SlotAfter(p) = NoSlot => NoneIn(entries'[home[r]], r)
    BY <1>2, <1>3, <1>4, <1>7, <1>15, LedPending
  <2> QED BY <1>3, <2>1 DEF NoneIn
<1>16. SlotAfter(p) # NoSlot => SlotAfter(p).family = home[r]
  <2>1. CASE AppendsPending(p)
    <3>1. p.family = home[r]
      BY <1>7, <2>1 DEF AppendsPending, OfFamily
    <3> QED BY <2>1, <3>1 DEF SlotAfter, Slot
  <2>2. CASE ~AppendsPending(p)
    BY <1>2, <1>4, <2>2 DEF SlotAfter, RightFamily
  <2> QED BY <2>1, <2>2
<1>17. slots \in [Roots -> SlotType \cup {NoSlot}]
  BY <1>4 DEF TypeInv, TypeOK, SequencerOK
<1>18. CASE IngestFrame(p)
  <2> DEFINE m == IF p.event = "start" /\ normalizer[r] = "none" THEN "pending" ELSE normalizer[r]
             s == SlotAfter(p)
  <2>1. /\ AppendPending(p) /\ slots' = [slots EXCEPT ![r] = s] /\ worker' = Finished
        /\ normalizer' = [normalizer EXCEPT ![r] = m]
        /\ p.event \in {"start", "def_repo", "child"}
    BY <1>2, <1>18 DEF IngestFrame
  <2>2. worker'.pc \notin {"replace", "append"}
    BY <2>1, FinishedType
  <2>3. p.event \notin Frames => entries' = entries /\ s = slots[r]
    BY <1>2, <2>1, PendingAdds DEF AppendsPending, SlotAfter
  <2>4. slots'[r] = s
    BY <1>17, <2>1
  <2>5. StartAhead(r)' => m = "none" /\ s = NoSlot /\ Nowhere(home[r], r)'
    BY <1>5, <1>6, <1>11, <1>14, <2>3 DEF Frames
  <2>6. ASSUME m = "pending" PROVE Led(r)'
    <3>1. Led(r)
      BY <1>10, <1>11, <1>12, <2>6
    <3>2. CASE p.event \in Frames
      BY <1>3, <1>15, <2>1, <2>4, <3>1 DEF Led, NoneIn, Slot
    <3>3. CASE p.event \notin Frames
      BY <1>14, <2>3, <2>4, <3>1, <3>3
    <3> QED BY <3>2, <3>3
  <2>7. m = "completed" => /\ Over(r)' /\ s = NoSlot
                           /\ ParticipatesAtExit(kind[r]) => Once(home[r], r)'
    BY <1>6, <1>9, <1>13, <1>14, <2>3
  <2>8. s # NoSlot => s.family = home[r]
    BY <1>16
  <2> HIDE DEF m, s
  <2> QED BY <1>1, <1>2, <1>3, <1>5, <1>7, <1>8, <2>1, <2>2, <2>3, <2>5, <2>6, <2>7, <2>8, RootsTake
<1>19. CASE IngestAtexit(p)
  <2> DEFINE m == CASE normalizer[r] = "pending" -> "completed"
                    [] normalizer[r] = "none" -> "deferred" [] OTHER -> normalizer[r]
             s == SlotAfter(p)
  <2>1. /\ AppendPending(p) /\ slots' = [slots EXCEPT ![r] = NoSlot]
        /\ normalizer' = [normalizer EXCEPT ![r] = m]
        /\ p.event = "atexit" /\ p.event \in Frames
    BY <1>2, <1>19 DEF IngestAtexit, Frames
  <2>2. m # "pending" /\ (m = "completed" <=> normalizer[r] = "pending")
    BY <1>9, <2>1
  <2>3. PICK o :
          \/ s # NoSlot /\ worker' = Working("replace", r, o, s, NoFamily)
          \/ /\ s = NoSlot /\ normalizer[r] = "pending"
             /\ worker' = Working("append", r, o, NoSlot, home[r])
          \/ /\ s = NoSlot /\ (normalizer[r] = "pending" => ~ParticipatesAtExit(kind[r]))
             /\ worker' = Working("clear", r, o, NoSlot, NoFamily) \/ worker' = Finished
    BY <1>2, <1>19 DEF IngestAtexit
  <2>4. /\ worker'.pc \in {"replace", "append"} => worker'.root = r
        /\ worker'.pc = "replace" => s # NoSlot /\ worker'.slot = s
        /\ worker'.pc = "append" =>
             s = NoSlot /\ normalizer[r] = "pending" /\ worker'.family = home[r]
        /\ normalizer[r] = "pending" /\ ParticipatesAtExit(kind[r]) =>
             worker'.pc = (IF s = NoSlot THEN "append" ELSE "replace")
    <3> HIDE DEF s, m
    <3> QED BY <2>3, FinishedType DEF Working
  <2>5. ~StartAhead(r)' /\ Over(r)'
    BY <1>5, <2>1
  <2>6. ASSUME m = "completed", ParticipatesAtExit(kind[r])
        PROVE  IF worker'.pc = "append" THEN Nowhere(home[r], r)' ELSE Once(home[r], r)'
    <3>1. Led(r) /\ worker'.pc = (IF s = NoSlot THEN "append" ELSE "replace")
      BY <1>12, <2>2, <2>4, <2>6
    <3>2. CASE s = NoSlot
      <4>1. Nowhere(home[r], r)'
        BY <1>3, <1>15, <2>1, <3>1, <3>2 DEF Nowhere, NoneIn
      <4> QED BY <3>1, <3>2, <4>1
    <3>3. CASE s # NoSlot
      <4>1. OneIn(entries'[home[r]], r) /\ NoneIn(ready'[home[r]], r) /\ ~Ran(home[r], r)'
        BY <1>15, <2>1, <3>1, <3>3
      <4>2. Once(home[r], r)'
        BY <1>3, <4>1 DEF Once, OneIn, NoneIn
      <4> QED BY <3>1, <3>3, <4>2
    <3> QED BY <3>2, <3>3
  <2>7. /\ worker'.pc = "replace" => worker'.slot.family = home[r]
        /\ worker'.pc = "append" => worker'.family = home[r] /\ m = "completed"
    BY <1>16, <2>2, <2>4
  <2> HIDE DEF m, s
  <2> QED BY <1>1, <1>2, <1>3, <1>5, <1>7, <1>8, <2>1, <2>2, <2>4, <2>5, <2>6, <2>7, RootsTake
<1>20. CASE IngestClosed(p)
  <2> DEFINE m == IF normalizer[r] = "completed" THEN normalizer[r] ELSE "none"
  <2>1. /\ slots' = [slots EXCEPT ![r] = NoSlot] /\ normalizer' = [normalizer EXCEPT ![r] = m]
        /\ p.event = "closed" /\ entries' = entries
        /\ \/ slots[r] # NoSlot /\ worker' = Working("replace", r, "canceled", slots[r], NoFamily)
           \/ worker' = Working("clear", r, "canceled", NoSlot, NoFamily)
    BY <1>2, <1>20 DEF IngestClosed
  <2>2. p.event \notin Frames /\ m # "pending" /\ (m = "completed" => normalizer[r] = "completed")
    BY <2>1 DEF Frames
  <2>3. /\ worker'.root = r /\ worker'.pc \in {"replace", "clear"}
        /\ worker'.pc = "replace" => slots[r] # NoSlot /\ worker'.slot = slots[r]
    BY <2>1 DEF Working
  <2>4. worker'.pc = "replace" => worker'.slot.family = home[r] /\ ~StartAhead(r)'
    BY <1>4, <1>6, <1>11, <2>3 DEF RightFamily
  <2>5. StartAhead(r)' => m = "none" /\ Nowhere(home[r], r)'
    BY <1>6, <1>11, <1>14, <2>1
  <2>6. m = "completed" => /\ Over(r)'
                           /\ ParticipatesAtExit(kind[r]) => Once(home[r], r)'
    BY <1>6, <1>13, <1>14, <2>1, <2>2
  <2> HIDE DEF m
  <2> QED BY <1>1, <1>2, <1>3, <1>5, <1>7, <1>8, <2>1, <2>2, <2>3, <2>4, <2>5, <2>6, RootsTake
<1> QED BY <1>1, <1>18, <1>19, <1>20

\* Every step keeps the roots in their places.
LEMMA RootsNext == OrderInv /\ RootInv /\ [Next]_vars => RootInv'
<1> SUFFICES ASSUME OrderInv, RootInv, [Next]_vars PROVE RootInv'
  OBVIOUS
<1> USE DEF envVars, gitVars, readerVars, ingressVars, queueVars, seqVars, execVars
<1>1. /\ TypeInv /\ RightFamily /\ FramesInOrder
      /\ worker.pc = "replace" => worker.root \in Roots
      /\ home \in [Roots -> Families]
  BY DEF OrderInv, RootInv, TypeInv, TypeOK, EnvOK, Shapes, WorkerShape
<1>2. ASSUME UNCHANGED <<kind, home, normalizer, slots, entries, ready, log>>,
             UNCHANGED worker \/ (worker.pc # "append" /\ worker'.pc \notin {"replace", "append"}),
             RightFamily', FramesKept
      PROVE  RootInv'
  <2>1. \A r \in Roots : Appending(r)' <=> Appending(r)
    BY <1>2 DEF Appending
  <2>2. \A r \in Roots : KeepsPlace(r)
    BY <1>2, <2>1, PlaceUntouched
  <2> QED BY <1>1, <1>2, <2>2, RootsKeep
<1>3. ASSUME UNCHANGED <<kind, home, normalizer, slots, entries, ready, log, reader, child, queue>>,
             UNCHANGED worker \/ (worker.pc # "append" /\ worker'.pc \notin {"replace", "append"}),
             \A q \in Roots : rootFamily'[q] \in {NoFamily, rootFamily[q]}
      PROVE  RootInv'
  BY <1>1, <1>2, <1>3, FlowQuiet
<1>4. CASE UNCHANGED vars
  BY <1>3, <1>4 DEF vars
<1>5. ASSUME NEW r \in Roots, GitStart(r) \/ GitEnd(r) PROVE RootInv'
  BY <1>3, <1>5 DEF GitStart, GitEnd
<1>6. ASSUME NEW r \in Roots, ReaderStep(r) PROVE RootInv'
  <2>1. UNCHANGED <<kind, home, normalizer, slots, entries, ready, log, worker>>
    BY <1>6 DEF ReaderStep, OpenRoot, Track, Capture, Send, Close, SendMarker
  <2> QED BY <1>1, <1>2, <1>6, <2>1, FlowReader
<1>7. ASSUME NEW r \in Roots, ChildRead(r) \/ ChildStep(r) PROVE RootInv'
  <2>1. UNCHANGED <<kind, home, normalizer, slots, entries, ready, log, worker>>
    BY <1>7 DEF ChildRead, ChildStep, ChildTrack, ChildCapture, ChildSend, ChildClose,
         ChildSendMarker
  <2> QED BY <1>1, <1>2, <1>7, <2>1, FlowChild
<1>8. CASE IngestStep
  BY <1>8, RootsIngest
<1>9. CASE WorkerReplace \/ WorkerAppend \/ \E F \in Families : WorkerDrain(F) \/ TaskDrain(F)
  BY <1>9, RootsDrain
<1>10. CASE WorkerClear \/ WorkerSnapshot \/ WorkerDone \/ WorkerGc \/ TaskSnapshot
  <2>1. UNCHANGED <<kind, home, normalizer, slots, entries, ready, log, reader, child, queue>>
    BY <1>10 DEF WorkerClear, WorkerSnapshot, WorkerDone, WorkerGc, TaskSnapshot
  <2>2. UNCHANGED worker \/ (worker.pc # "append" /\ worker'.pc \notin {"replace", "append"})
    <3>1. worker \in WorkerType
      BY <1>1 DEF TypeInv, TypeOK
    <3>2. CASE WorkerClear
      BY <3>1, <3>2 DEF WorkerClear, WorkerType
    <3>3. CASE WorkerSnapshot
      BY <3>1, <3>3 DEF WorkerSnapshot, WorkerType
    <3>4. CASE WorkerDone
      BY <3>4, FinishedType DEF WorkerDone
    <3>5. CASE WorkerGc
      BY <3>5 DEF WorkerGc, IdleWorker
    <3>6. CASE TaskSnapshot
      BY <3>6 DEF TaskSnapshot
    <3> QED BY <1>10, <3>2, <3>3, <3>4, <3>5, <3>6
  <2>3. \A q \in Roots : rootFamily'[q] \in {NoFamily, rootFamily[q]}
    <3>1. CASE WorkerClear
      <4>1. worker.pc = "clear" /\ ClearRoot(worker.root)
        BY <3>1 DEF WorkerClear
      <4>2. worker.root \in Roots
        BY <1>1, <4>1 DEF TypeInv, Shapes, WorkerShape
      <4> QED BY <1>1, <4>1, <4>2, FamilyRecordClose
    <3>2. CASE UNCHANGED rootFamily
      BY <3>2
    <3> QED BY <1>10, <3>1, <3>2 DEF WorkerSnapshot, WorkerDone, WorkerGc, TaskSnapshot
  <2> QED BY <1>3, <2>1, <2>2, <2>3
<1>11. ASSUME NEW c \in Checkpoints, AcceptCheckpoint(c) PROVE RootInv'
  BY <1>3, <1>11 DEF AcceptCheckpoint
<1>12. CASE AdmissionStep
  <2>1. /\ UNCHANGED <<kind, home, normalizer, slots, ready, log, reader, child, queue, worker>>
        /\ UNCHANGED rootFamily
    BY <1>12 DEF AdmissionStep, AdmitCheckpoint, FailAdmission
  <2>2. \A r \in Roots : \A e : e.id = r => (e \in entries'[home[r]] <=> e \in entries[home[r]])
    <3>1. CASE FailAdmission
      BY <3>1 DEF FailAdmission
    <3>2. CASE AdmitCheckpoint
      <4>1. PICK c : c = Head(admitQ)
        OBVIOUS
      <4> DEFINE F == ckptHome[c]
                 x == Entry(ckptAt[c], nextOrdinal[F], "checkpoint", c)
      <4>2. /\ admitQ # <<>> /\ entries' = [entries EXCEPT ![F] = Insert(F, x)]
            /\ nextOrdinal' = [nextOrdinal EXCEPT ![F] = @ + 1]
        BY <3>2, <4>1 DEF AdmitCheckpoint
      <4>3. c \in Checkpoints /\ F \in Families
        BY <1>1, <4>1, <4>2 DEF TypeInv, TypeOK, AdmissionOK, EnvOK
      <4>4. x.ord = nextOrdinal[F] /\ x.id = c
        BY DEF Entry
      <4> HIDE DEF x
      <4>5. /\ entries'[F] = entries[F] \cup {x}
            /\ \A G \in Families \ {F} : entries'[G] = entries[G]
        BY <4>2, <4>3, <4>4, InsertOrder
      <4>6. \A r \in Roots : x.id # r
        BY <4>3, <4>4, ConstantsAssumption
      <4> QED BY <1>1, <4>5, <4>6
    <3> QED BY <1>12, <3>1, <3>2 DEF AdmissionStep
  <2>3. RightFamily' /\ FramesKept
    BY <1>1, <2>1, FlowQuiet
  <2>4. \A r \in Roots : Appending(r)' <=> Appending(r)
    BY <2>1 DEF Appending
  <2>5. \A r \in Roots : KeepsPlace(r)
    BY <2>1, <2>2, <2>4, PlaceUntouched
  <2> QED BY <1>1, <2>1, <2>3, <2>5, RootsKeep
<1>13. ASSUME NEW F \in Families, Execute(F) PROVE RootInv'
  <2>1. UNCHANGED <<kind, home, normalizer, slots, reader, child, queue, worker, rootFamily>>
    BY <1>13 DEF Execute
  <2>2. PICK e \in ready[F] : Runs(F, e)
    BY <1>13, ExecuteRuns
  <2>3. \A r \in Roots : KeepsPlace(r)
    BY <2>1, <2>2, ExecuteKeeps
  <2>4. RightFamily' /\ FramesKept
    BY <1>1, <2>1, FlowQuiet
  <2> QED BY <1>1, <2>1, <2>3, <2>4, RootsKeep
<1> QED BY <1>4, <1>5, <1>6, <1>7, <1>8, <1>9, <1>10, <1>11, <1>12, <1>13 DEF Next, WorkerStep

-----------------------------------------------------------------------------
(* The theorem.                                                             *)

\* Nothing is overwritten, dropped or run twice: at every moment an admitted checkpoint
\* and a completed ordered command have one place in sequencer, batch and log, for any
\* number of git processes, children, checkpoints and families.
THEOREM PlacedOnce == Spec => []ExactlyOnce
<1>1. Init => OnceInv
  BY OrderInvInit, ReceiptsInit, RootsInit DEF OnceInv
<1>2. OnceInv /\ [Next]_vars => OnceInv'
  BY OrderInvNext, ReceiptsNext, RootsNext DEF OnceInv
<1>3. OnceInv => ExactlyOnce
  <2> SUFFICES ASSUME OnceInv PROVE ExactlyOnce
    OBVIOUS
  <2>1. OrderInv /\ ReceiptInv /\ CompletedRoots /\ TypeInv
    BY DEF OnceInv, RootInv, OrderInv
  <2>2. ASSUME NEW c \in Checkpoints
        PROVE  Copies(ckptHome[c], c) = IF ckpt[c] \in {"admitted", "executed"} THEN 1 ELSE 0
    <3>1. ckptHome[c] \in Families
      BY <2>1 DEF TypeInv, TypeOK, EnvOK
    <3> QED BY <2>1, <3>1, CheckpointOnce, CountCopies
  <2>3. ASSUME NEW r \in Roots, normalizer[r] = "completed", ParticipatesAtExit(kind[r])
        PROVE  \/ Copies(home[r], r) = 1
               \/ worker.pc = "append" /\ worker.root = r /\ Copies(home[r], r) = 0
    <3>1. home[r] \in Families
      BY <2>1 DEF TypeInv, TypeOK, EnvOK
    <3>2. CASE Appending(r)
      <4>1. Nowhere(home[r], r)
        BY <2>1, <2>3, <3>2 DEF CompletedRoots
      <4> QED BY <2>1, <3>1, <3>2, <4>1, CountCopies DEF Appending
    <3>3. CASE ~Appending(r)
      <4>1. Once(home[r], r)
        BY <2>1, <2>3, <3>3 DEF CompletedRoots
      <4> QED BY <2>1, <3>1, <4>1, CountCopies
    <3> QED BY <3>2, <3>3
  <2> QED BY <2>2, <2>3 DEF ExactlyOnce
<1> QED BY <1>1, <1>2, <1>3, PTL DEF Spec
=============================================================================
