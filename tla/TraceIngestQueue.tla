-------------------------- MODULE TraceIngestQueue ---------------------------
(***************************************************************************)
(* The bounded queue between the trace reader threads and the one ingest   *)
(* worker. A reader reserves a slot of the channel, then takes a sequence  *)
(* number, then sends: two readers may send in the other order than they   *)
(* took numbers, so the worker keeps a reorder buffer and applies frames   *)
(* in number order, publishing the number it has processed. A checkpoint   *)
(* admission remembers the last number taken when it was accepted and      *)
(* sleeps until the worker has got there.                                  *)
(*                                                                         *)
(* The channel and Notify are tokio's: a reserved slot counts against the  *)
(* capacity, a send into a channel whose receiver is gone is dropped, and  *)
(* notify_waiters wakes the waiters that are enrolled at that moment.      *)
(***************************************************************************)
EXTENDS Naturals, Sequences, FiniteSets

CONSTANTS Readers,     \* reader threads
          Fences,      \* checkpoint admissions that wait for the worker
          Capacity,    \* TRACE_INGEST_QUEUE_CAPACITY
          MaxFrames    \* bound: frames of one reader

ASSUME QueueAssumption ==
  /\ IsFiniteSet(Readers)
  /\ Capacity \in Nat \ {0}
  /\ MaxFrames \in Nat

VARIABLES
  left,       \* frames each reader still has to enqueue
  reader,     \* where each reader is in enqueue_trace_payload
  number,     \* the sequence number it holds
  nextSeq,    \* next_trace_ingest_seq
  channel,    \* the mpsc channel
  pending,    \* pending_by_seq
  worker,     \* where the worker is in its loop
  workerSeq,  \* next_seq of the worker
  processed,  \* processed_trace_ingest_seq
  shutdown,   \* shutting_down
  fence,      \* where each admission is in wait_for_trace_ingest_seq
  target,     \* the number it waits for
  woken,      \* whether its enrolment has been notified
  accepted,   \* history: the frames in the order of their numbers
  applied     \* history: the frames in the order the worker applied them

readerVars == <<left, reader, number, nextSeq, accepted>>
workerVars == <<pending, worker, workerSeq, processed, applied>>
fenceVars  == <<fence, target, woken>>
vars == <<readerVars, channel, workerVars, shutdown, fenceVars>>

Frames == [from : Readers, k : 0 .. MaxFrames]
Message(n, f) == [seq |-> n, frame |-> f]
FrameOf(s) == [from |-> s, k |-> left[s]]

FirstSeqZero == 0
FirstSeq == 1

Init ==
  /\ left = [s \in Readers |-> MaxFrames]
  /\ reader = [s \in Readers |-> "idle"]
  /\ number = [s \in Readers |-> 0]
  /\ nextSeq = 0
  /\ channel = <<>>
  /\ pending = {}
  /\ worker = "receive"
  /\ workerSeq = FirstSeq
  /\ processed = 0
  /\ shutdown = FALSE
  /\ fence = [w \in Fences |-> "unset"]
  /\ target = [w \in Fences |-> 0]
  /\ woken = [w \in Fences |-> FALSE]
  /\ accepted = <<>>
  /\ applied = <<>>

-----------------------------------------------------------------------------
(* enqueue_trace_payload                                                    *)

SlotsTaken == Len(channel) + Cardinality({s \in Readers : reader[s] # "idle"})

Reserve(s) ==
  /\ reader[s] = "idle" /\ left[s] > 0
  /\ worker # "stopped" /\ SlotsTaken < Capacity
  /\ reader' = [reader EXCEPT ![s] = "reserved"]
  /\ UNCHANGED <<left, number, nextSeq, accepted, channel, workerVars, shutdown, fenceVars>>

RefuseNumbered(s) ==
  /\ reader[s] = "idle" /\ left[s] > 0
  /\ worker = "stopped" \/ SlotsTaken >= Capacity
  /\ left' = [left EXCEPT ![s] = IF @ > 1 THEN 1 ELSE 0]
  /\ nextSeq' = nextSeq + 1
  /\ accepted' = Append(accepted, FrameOf(s))
  /\ shutdown' = TRUE
  /\ UNCHANGED <<reader, number, channel, workerVars, fenceVars>>

\* try_reserve fails, full or closed: the payload is dropped and the daemon
\* shuts down. The reader stops reading; its root's close marker may follow.
Refuse(s) ==
  /\ reader[s] = "idle" /\ left[s] > 0
  /\ worker = "stopped" \/ SlotsTaken >= Capacity
  /\ left' = [left EXCEPT ![s] = IF @ > 1 THEN 1 ELSE 0]
  /\ shutdown' = TRUE
  /\ UNCHANGED <<reader, number, nextSeq, accepted, channel, workerVars, fenceVars>>

TakeNumber(s) ==
  /\ reader[s] = "reserved"
  /\ reader' = [reader EXCEPT ![s] = "numbered"]
  /\ nextSeq' = nextSeq + 1
  /\ number' = [number EXCEPT ![s] = nextSeq + 1]
  /\ accepted' = Append(accepted, FrameOf(s))
  /\ UNCHANGED <<left, channel, workerVars, shutdown, fenceVars>>

Send(s) ==
  /\ reader[s] = "numbered"
  /\ reader' = [reader EXCEPT ![s] = "idle"]
  /\ left' = [left EXCEPT ![s] = @ - 1]
  /\ channel' = IF worker = "stopped" THEN channel
                ELSE Append(channel, Message(number[s], FrameOf(s)))
  /\ UNCHANGED <<number, nextSeq, accepted, workerVars, shutdown, fenceVars>>

-----------------------------------------------------------------------------
(* start_trace_ingest_worker                                                *)

BufferOverflow  == Cardinality(pending) >= Capacity
DuplicateNumber == \E m \in pending : m.seq = Head(channel).seq

\* The receive arm comes first (biased). Overflow of the reorder buffer and a
\* duplicate number are fatal.
Receive ==
  /\ worker = "receive" /\ channel # <<>>
  /\ channel' = Tail(channel)
  /\ IF BufferOverflow \/ DuplicateNumber
     THEN /\ worker' = "stopped"
          /\ shutdown' = TRUE
          /\ UNCHANGED pending
     ELSE /\ worker' = "drain"
          /\ pending' = pending \cup {Head(channel)}
          /\ UNCHANGED shutdown
  /\ UNCHANGED <<readerVars, workerSeq, processed, applied, fenceVars>>

ApplicableInAnyOrder(m) == m \in pending
Applicable(m) == m \in pending /\ m.seq = workerSeq

\* ingest_trace_payload_fast; its errors and panics are logged and passed over.
Ingest ==
  /\ worker = "drain"
  /\ \E m \in pending :
       /\ Applicable(m)
       /\ pending' = pending \ {m}
       /\ applied' = Append(applied, m.frame)
  /\ worker' = "publish"
  /\ UNCHANGED <<readerVars, channel, workerSeq, processed, shutdown, fenceVars>>

Publish ==
  /\ worker = "publish"
  /\ processed' = workerSeq
  /\ workerSeq' = workerSeq + 1
  /\ worker' = "notify"
  /\ UNCHANGED <<readerVars, channel, pending, applied, shutdown, fenceVars>>

\* trace_ingest_progress_notify.notify_waiters
EnrolledOnceAsleep(w) == fence[w] = "asleep"
Enrolled(w) == fence[w] \in {"enrolled", "checked", "asleep"}

Notify ==
  /\ worker = "notify"
  /\ woken' = [w \in Fences |-> woken[w] \/ Enrolled(w)]
  /\ worker' = "drain"
  /\ UNCHANGED <<readerVars, channel, pending, workerSeq, processed, applied, shutdown,
                 fence, target>>

ReceiveNext ==
  /\ worker = "drain"
  /\ \A m \in pending : ~Applicable(m)
  /\ worker' = "receive"
  /\ UNCHANGED <<readerVars, channel, pending, workerSeq, processed, applied, shutdown,
                 fenceVars>>

Stop ==
  /\ worker = "receive" /\ channel = <<>> /\ shutdown
  /\ worker' = "stopped"
  /\ UNCHANGED <<readerVars, channel, pending, workerSeq, processed, applied, shutdown,
                 fenceVars>>

\* request_shutdown from another part of the daemon.
RequestShutdown ==
  /\ ~shutdown
  /\ shutdown' = TRUE
  /\ UNCHANGED <<readerVars, channel, workerVars, fenceVars>>

-----------------------------------------------------------------------------
(* Acceptance of a checkpoint reads the last number; its admission waits    *)
(* for that number in wait_for_trace_ingest_seq.                            *)

SetFence(w) ==
  /\ fence[w] = "unset"
  /\ fence' = [fence EXCEPT ![w] = "set"]
  /\ target' = [target EXCEPT ![w] = nextSeq]
  /\ UNCHANGED <<readerVars, channel, workerVars, shutdown, woken>>

\* A fresh notification is enrolled before the condition is read.
Enroll(w) ==
  /\ fence[w] = "set"
  /\ fence' = [fence EXCEPT ![w] = "enrolled"]
  /\ woken' = [woken EXCEPT ![w] = FALSE]
  /\ UNCHANGED <<readerVars, channel, workerVars, shutdown, target>>

Check(w) ==
  /\ fence[w] = "enrolled"
  /\ fence' = [fence EXCEPT ![w] = IF processed >= target[w] THEN "released" ELSE "checked"]
  /\ UNCHANGED <<readerVars, channel, workerVars, shutdown, target, woken>>

Sleep(w) ==
  /\ fence[w] = "checked"
  /\ fence' = [fence EXCEPT ![w] = "asleep"]
  /\ UNCHANGED <<readerVars, channel, workerVars, shutdown, target, woken>>

Wake(w) ==
  /\ fence[w] = "asleep"
  /\ \/ woken[w] /\ fence' = [fence EXCEPT ![w] = "set"]
     \/ shutdown /\ fence' = [fence EXCEPT ![w] = "abandoned"]
  /\ UNCHANGED <<readerVars, channel, workerVars, shutdown, target, woken>>

-----------------------------------------------------------------------------
ReaderStep(s) == Reserve(s) \/ Refuse(s) \/ TakeNumber(s) \/ Send(s)
WorkerStep == Receive \/ Ingest \/ Publish \/ Notify \/ ReceiveNext \/ Stop
FenceStep(w) == Enroll(w) \/ Check(w) \/ Sleep(w) \/ Wake(w)

Next ==
  \/ \E s \in Readers : ReaderStep(s)
  \/ WorkerStep
  \/ RequestShutdown
  \/ \E w \in Fences : SetFence(w) \/ FenceStep(w)

Spec == Init /\ [][Next]_vars

\* Threads and tasks keep running; nobody has to shut the daemon down, and a
\* reader has to finish only the enqueue it has started.
Fairness ==
  /\ \A s \in Readers : WF_vars(TakeNumber(s)) /\ WF_vars(Send(s))
  /\ WF_vars(WorkerStep)
  /\ \A w \in Fences : WF_vars(FenceStep(w))

FairSpec == Spec /\ Fairness

-----------------------------------------------------------------------------
(* Properties.                                                              *)

Messages == [seq : Nat, frame : Frames]

\* Type invariant of the readers, the channel, the worker and the fences.
TypeOK ==
  /\ left \in [Readers -> 0 .. MaxFrames]
  /\ reader \in [Readers -> {"idle", "reserved", "numbered"}]
  /\ number \in [Readers -> Nat]
  /\ nextSeq \in Nat
  /\ channel \in Seq(Messages)
  /\ pending \in SUBSET Messages
  /\ worker \in {"receive", "drain", "publish", "notify", "stopped"}
  /\ workerSeq \in Nat \ {0}
  /\ processed \in Nat
  /\ shutdown \in BOOLEAN
  /\ fence \in [Fences -> {"unset", "set", "enrolled", "checked", "asleep",
                          "released", "abandoned"}]
  /\ target \in [Fences -> Nat]
  /\ woken \in [Fences -> BOOLEAN]
  /\ accepted \in Seq(Frames)
  /\ applied \in Seq(Frames)

\* The numbers on their way to the worker: sent, buffered, or taken and not yet sent.
Unsent   == {s \in Readers : reader[s] = "numbered"}
InFlight == {channel[i].seq : i \in DOMAIN channel} \cup {m.seq : m \in pending}
              \cup {number[s] : s \in Unsent}

NoGap == worker # "stopped" => \A n \in Len(applied) + 1 .. nextSeq : n \in InFlight

NoDuplicate ==
  /\ \A i, j \in DOMAIN channel : channel[i].seq = channel[j].seq => i = j
  /\ \A m, n \in pending : m.seq = n.seq => m = n
  /\ \A s, t \in Unsent : number[s] = number[t] => s = t
  /\ \A i \in DOMAIN channel : \A m \in pending : channel[i].seq # m.seq
  /\ \A i \in DOMAIN channel : \A s \in Unsent : channel[i].seq # number[s]
  /\ \A m \in pending : \A s \in Unsent : m.seq # number[s]

\* While the worker runs no number is missing, and none ever occurs twice:
\* everything taken is applied or still on its way, so the worker cannot wait for
\* a gap that nobody fills and never stops for a duplicate number.
NoGapNoDuplicate == NoGap /\ NoDuplicate

\* Refinement mapping: a fence that is enrolled, checked or asleep is still set.
Order == INSTANCE IngestOrder WITH
           fence <- [w \in Fences |-> IF Enrolled(w) THEN "set" ELSE fence[w]]

\* Frames are applied in number order whatever order they were sent in, and no
\* admission is let through before every frame numbered at its acceptance is applied.
ImplementsIngestOrder == Order!Spec

\* No wake-up is lost: an admission that waits for the ingest worker gets through,
\* or gives up because the daemon shuts down.
FenceReleased ==
  \A w \in Fences : fence[w] = "set" ~> fence[w] \in {"released", "abandoned"}
=============================================================================
