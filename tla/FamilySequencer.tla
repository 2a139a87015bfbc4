--------------------------- MODULE FamilySequencer ---------------------------
(***************************************************************************)
(* The daemon's ordering core: trace2 connections of git processes are     *)
(* read by one thread each, their frames are tracked in the shared ingress *)
(* state and queued for one ingest worker; checkpoints are accepted on the *)
(* control socket and admitted by one ingress worker; both end up as       *)
(* entries of the sequencer of a repository family, which is drained in    *)
(* (started_at, ordinal) order under the family's execution lock.          *)
(*                                                                         *)
(* A git root sends the frames start, def_repo, atexit on its own          *)
(* connection and may have one child process (same root sid) on another.   *)
(* The ingest queue is taken here to deliver in sequence order, which      *)
(* TraceIngestQueue shows of the reorder buffer, and the execution lock to *)
(* be exclusive, which FamilyExecLock shows of the lock map.               *)
(***************************************************************************)
EXTENDS Naturals, Sequences, FiniteSets

CONSTANTS Roots,        \* root session ids of the traced git processes
          Children,     \* the roots that may have a child git process
          Families,     \* repository families (common git directories)
          Checkpoints,  \* checkpoint requests
          Kinds,        \* the classes of git command that occur
          Killable,     \* the roots that may die without an atexit frame
          Ticks,        \* by how much the clock may advance between two events
          GcInterval,   \* payloads between two garbage collections
          NoFamily,     \* no family attribution yet
          NoSlot        \* no pending-root slot

AllKinds == {"commit", "pull", "clone", "alias", "status", "add"}

ASSUME ConstantsAssumption ==
  /\ IsFiniteSet(Roots) /\ IsFiniteSet(Checkpoints) /\ IsFiniteSet(Families)
  /\ Roots \cap Checkpoints = {}
  /\ Children \subseteq Roots /\ Killable \subseteq Roots
  /\ Ticks \subseteq Nat
  /\ GcInterval \in Nat \ {0}
  /\ Kinds \subseteq AllKinds
  /\ NoFamily \notin Families
  /\ NoSlot \notin [family : Families, at : Nat, ord : Nat]

VARIABLES
  kind, home, ckptHome,     \* environment: command class and family of each actor
  git, startedAt, clock,    \* environment: git processes and the wall clock
  reader, child,            \* the reader threads of the root and child connections
  openConns, rootStarted, rootFamily, rootMutating,   \* TraceIngressState
  readOnly, offsets, active, marked,                  \* TraceIngressState, continued
  queue, enqueued, processed,                         \* the ingest queue
  normalizer, worker,                                 \* the ingest worker
  entries, nextOrdinal, slots,                        \* the family sequencers
  lock, ready, log,                                   \* execution of drained entries
  ckpt, receipt, ckptAt, ckptTarget, admitQ, unadmitted,  \* checkpoint admission
  spawned, taskWants,                                 \* scheduled drain tasks
  attributedBefore  \* history, set when a command starts or a checkpoint is accepted

envVars     == <<kind, home, ckptHome>>
gitVars     == <<git, startedAt, clock>>
readerVars  == <<reader, child>>
ingressVars == <<openConns, rootStarted, rootFamily, rootMutating,
                 readOnly, offsets, active, marked>>
queueVars   == <<queue, enqueued>>
seqVars     == <<entries, nextOrdinal>>
execVars    == <<lock, ready, log>>
ckptVars    == <<ckpt, receipt, ckptAt, ckptTarget, admitQ, unadmitted>>
histVars    == <<attributedBefore>>
taskVars    == <<spawned, taskWants>>

vars == <<envVars, gitVars, readerVars, ingressVars, queueVars, processed,
          normalizer, worker, seqVars, slots, execVars, ckptVars, taskVars, histVars>>

-----------------------------------------------------------------------------
(* Command classification (git/command_classification.rs): "commit" and     *)
(* "pull" stand for commands ordered in their family (pull runs mutating    *)
(* children), "clone" for mutating commands that are not, "alias" for an    *)
(* alias of a commit (recognised only at exit), "status" for definitely     *)
(* read-only ones, "add" for all the others.                                *)
MutatesRefs(k)        == k \in {"commit", "pull", "clone"}
DefinitelyReadOnly(k) == k = "status"
ParticipatesByArgv(k) == k \in {"commit", "pull"}
ParticipatesAtExit(k) == k \in {"commit", "pull", "alias"}
ChildMutatesRefs(k)   == k \in {"pull", "alias"}

Frames       == {"start", "def_repo", "atexit"}
NextFrame(f) == CASE f = "start" -> "def_repo"
                  [] f = "def_repo" -> "atexit"
                  [] f = "atexit" -> "eof"

Payloads == [root : Roots, event : Frames \cup {"child", "closed"},
             at : Nat, family : Families \cup {NoFamily}]

Payload(r, e, t, f) == [root |-> r, event |-> e, at |-> t, family |-> f]

\* FamilySequencerOrder: lexicographic on (started_at_ns, ordinal).
KeyWithoutOrdinal(e) == <<e.at>>
Key(e) == <<e.at, e.ord>>

BeforeTiesSwapped(d, e) == d.at < e.at \/ (d.at = e.at /\ d.ord > e.ord)
Before(d, e) == d.at < e.at \/ (d.at = e.at /\ d.ord < e.ord)

Entry(t, o, w, i) == [at |-> t, ord |-> o, what |-> w, id |-> i]

\* BTreeMap::insert: an entry with the same key would be overwritten.
Insert(F, e) == {d \in entries[F] : Key(d) # Key(e)} \cup {e}

IdleWorker == [pc |-> "idle", root |-> NoSlot, outcome |-> "none",
               slot |-> NoSlot, family |-> NoFamily, todo |-> {}]

-----------------------------------------------------------------------------
Init ==
  /\ kind \in [Roots -> Kinds]
  /\ home \in [Roots -> Families]
  /\ ckptHome \in [Checkpoints -> Families]
  /\ git = [r \in Roots |-> "unborn"]
  /\ startedAt = [r \in Roots |-> 0]
  /\ clock = 1
  /\ reader = [r \in Roots |-> [frame |-> "start", step |-> "read", payload |-> NoSlot]]
  /\ child = [r \in Roots |-> [step |-> "read", payload |-> NoSlot]]
  /\ openConns = [r \in Roots |-> 0]
  /\ rootStarted = [r \in Roots |-> 0]
  /\ rootFamily = [r \in Roots |-> NoFamily]
  /\ rootMutating = [r \in Roots |-> "unknown"]
  /\ readOnly = {} /\ offsets = {} /\ active = {} /\ marked = {}
  /\ queue = <<>> /\ enqueued = 0 /\ processed = 0
  /\ normalizer = [r \in Roots |-> "none"]
  /\ worker = IdleWorker
  /\ entries = [F \in Families |-> {}]
  /\ nextOrdinal = [F \in Families |-> 1]
  /\ slots = [r \in Roots |-> NoSlot]
  /\ lock = [F \in Families |-> "free"]
  /\ ready = [F \in Families |-> {}]
  /\ log = [F \in Families |-> <<>>]
  /\ ckpt = [c \in Checkpoints |-> "unsent"]
  /\ receipt = [c \in Checkpoints |-> 0]
  /\ ckptAt = [c \in Checkpoints |-> 0]
  /\ ckptTarget = [c \in Checkpoints |-> 0]
  /\ admitQ = <<>> /\ unadmitted = 0
  /\ spawned = 0
  /\ taskWants = [F \in Families |-> 0]
  /\ attributedBefore = [x \in Roots \cup Checkpoints |-> {}]

-----------------------------------------------------------------------------
(* Git processes: they start, write their frames and exit, or are killed    *)
(* and close the socket without an atexit frame.                            *)

\* The roots whose def_repo frame has been queued.
Attributed == {r \in Roots : reader[r].frame \in {"atexit", "eof"}}

\* If the clock may advance by 0, two events may carry the same timestamp.
GitStart(r) ==
  /\ git[r] = "unborn"
  /\ \E t \in {clock + d : d \in Ticks} :
        /\ startedAt' = [startedAt EXCEPT ![r] = t]
        /\ clock' = t
  /\ git' = [git EXCEPT ![r] = "running"]
  /\ attributedBefore' = [attributedBefore EXCEPT ![r] = Attributed]
  /\ UNCHANGED <<envVars, readerVars, ingressVars, queueVars, processed, normalizer,
                 worker, seqVars, slots, execVars, ckptVars, taskVars>>

GitEnd(r) ==
  /\ git[r] = "running"
  /\ \/ git' = [git EXCEPT ![r] = "exited"]
     \/ r \in Killable /\ git' = [git EXCEPT ![r] = "killed"]
  /\ UNCHANGED <<envVars, startedAt, clock, readerVars, ingressVars, queueVars,
                 processed, normalizer, worker, seqVars, slots, execVars, ckptVars,
                 taskVars, histVars>>

-----------------------------------------------------------------------------
(* Reader threads (process_trace_connection_line): for each frame the root  *)
(* is registered as open if it is new on this connection, then the ingress  *)
(* state is updated, then the payload is queued: three lock acquisitions.   *)

\* Frames are read in order; def_repo may be in the socket while git runs,
\* atexit only after it exited.
FrameAvailable(r) ==
  CASE reader[r].frame = "start"    -> git[r] # "unborn"
    [] reader[r].frame = "def_repo" -> git[r] # "unborn"
    [] reader[r].frame = "atexit"   -> git[r] = "exited"
    [] OTHER -> FALSE

\* The first frame of the connection: trace_root_connection_opened.
OpenRoot(r) ==
  /\ reader[r].step = "read" /\ reader[r].frame = "start"
  /\ FrameAvailable(r)
  /\ openConns' = [openConns EXCEPT ![r] = @ + 1]
  /\ reader' = [reader EXCEPT ![r].step = "track"]
  /\ UNCHANGED <<envVars, gitVars, child, rootStarted, rootFamily, rootMutating,
                 readOnly, offsets, active, marked, queueVars, processed, normalizer,
                 worker, seqVars, slots, execVars, ckptVars, taskVars, histVars>>

\* track_trace_payload_for_ingest up to the reflog walk. The argv of the root
\* is known as long as its start time is: both are set and removed together.
Track(r) ==
  LET f        == reader[r].frame
      started  == IF f = "start" /\ rootStarted[r] = 0 THEN startedAt[r] ELSE rootStarted[r]
      family   == IF f = "def_repo" THEN home[r] ELSE rootFamily[r]
      ro       == readOnly \cup {x \in {r} : f = "start" /\ DefinitelyReadOnly(kind[r])}
      argv     == started # 0
      mutating == IF rootMutating[r] = "unknown" /\ argv
                  THEN IF MutatesRefs(kind[r]) THEN "yes" ELSE "no"
                  ELSE rootMutating[r]
      terminal == f = "atexit"
      capture  == ~terminal /\ MutatesRefs(kind[r]) /\ argv /\ r \notin offsets
                    /\ family # NoFamily
  IN
  /\ reader[r].step = IF f = "start" THEN "track" ELSE "read"
  /\ FrameAvailable(r)
  /\ reader' = [reader EXCEPT ![r] =
       IF capture THEN [@ EXCEPT !.step = "capture"]
       ELSE IF r \in ro
       THEN [frame |-> NextFrame(f), step |-> "read", payload |-> NoSlot]
       ELSE [frame |-> f, step |-> "send", payload |-> Payload(r, f, started, family)]]
  /\ rootStarted'  = [rootStarted EXCEPT ![r] = IF terminal THEN 0 ELSE started]
  /\ rootFamily'   = [rootFamily EXCEPT ![r] = IF terminal THEN NoFamily ELSE family]
  /\ rootMutating' = [rootMutating EXCEPT ![r] = IF terminal THEN "unknown" ELSE mutating]
  /\ readOnly' = IF terminal THEN ro \ {r} ELSE ro
  /\ offsets'  = IF terminal THEN offsets \ {r} ELSE offsets
  /\ active'   = IF terminal THEN active \ {r} ELSE active \cup {r}
  /\ UNCHANGED <<envVars, gitVars, child, openConns, marked, queueVars, processed,
                 normalizer, worker, seqVars, slots, execVars, ckptVars, taskVars, histVars>>

\* The lock is released for the reflog walk and taken again: offsets are kept
\* only for a root that is still live, and the payload inherits what is then
\* recorded for the root.
KeepOffsets(r) == IF r \in active THEN offsets \cup {r} ELSE offsets

Capture(r) ==
  /\ reader[r].step = "capture"
  /\ offsets' = KeepOffsets(r)
  /\ reader' = [reader EXCEPT ![r] =
       [frame |-> @.frame, step |-> "send",
        payload |-> Payload(r, @.frame, rootStarted[r],
                            IF @.frame = "def_repo" THEN home[r] ELSE rootFamily[r])]]
  /\ UNCHANGED <<envVars, gitVars, child, openConns, rootStarted, rootFamily, rootMutating,
                 readOnly, active, marked, queueVars, processed, normalizer, worker,
                 seqVars, slots, execVars, ckptVars, taskVars, histVars>>

\* enqueue_trace_payload: the sequence number is the position in the queue.
Enqueue(p) ==
  /\ queue' = Append(queue, p)
  /\ enqueued' = enqueued + 1

Send(r) ==
  /\ reader[r].step = "send"
  /\ Enqueue(reader[r].payload)
  /\ reader' = [reader EXCEPT ![r] =
       [frame |-> NextFrame(@.frame), step |-> "read", payload |-> NoSlot]]
  /\ UNCHANGED <<envVars, gitVars, child, ingressVars, processed, normalizer, worker,
                 seqVars, slots, execVars, ckptVars, taskVars, histVars>>

\* The child connection: one frame naming the child's command.
ChildRead(r) ==
  /\ r \in Children
  /\ child[r].step = "read"
  /\ git[r] # "unborn"
  /\ openConns' = [openConns EXCEPT ![r] = @ + 1]
  /\ child' = [child EXCEPT ![r].step = "track"]
  /\ UNCHANGED <<envVars, gitVars, reader, rootStarted, rootFamily, rootMutating,
                 readOnly, offsets, active, marked, queueVars, processed, normalizer,
                 worker, seqVars, slots, execVars, ckptVars, taskVars, histVars>>

ChildTrack(r) ==
  /\ child[r].step = "track"
  /\ active' = active \cup {r}
  /\ rootMutating' = [rootMutating EXCEPT ![r] =
       IF @ # "unknown" THEN @ ELSE IF ChildMutatesRefs(kind[r]) THEN "yes" ELSE "no"]
  /\ child' = [child EXCEPT ![r] =
       IF ChildMutatesRefs(kind[r]) /\ r \notin offsets /\ rootFamily[r] # NoFamily
       THEN [@ EXCEPT !.step = "capture"]
       ELSE IF r \in readOnly THEN [@ EXCEPT !.step = "eof"]
       ELSE [step |-> "send", payload |-> Payload(r, "child", rootStarted[r], rootFamily[r])]]
  /\ UNCHANGED <<envVars, gitVars, reader, openConns, rootStarted, rootFamily, readOnly,
                 offsets, marked, queueVars, processed, normalizer, worker, seqVars,
                 slots, execVars, ckptVars, taskVars, histVars>>

ChildCapture(r) ==
  /\ child[r].step = "capture"
  /\ offsets' = KeepOffsets(r)
  /\ child' = [child EXCEPT ![r] =
       [step |-> "send", payload |-> Payload(r, "child", rootStarted[r], rootFamily[r])]]
  /\ UNCHANGED <<envVars, gitVars, reader, openConns, rootStarted, rootFamily, rootMutating,
                 readOnly, active, marked, queueVars, processed, normalizer, worker,
                 seqVars, slots, execVars, ckptVars, taskVars, histVars>>

ChildSend(r) ==
  /\ child[r].step = "send"
  /\ Enqueue(child[r].payload)
  /\ child' = [child EXCEPT ![r] = [step |-> "eof", payload |-> NoSlot]]
  /\ UNCHANGED <<envVars, gitVars, reader, ingressVars, processed, normalizer, worker,
                 seqVars, slots, execVars, ckptVars, taskVars, histVars>>

-----------------------------------------------------------------------------
(* Connection close (finalize_trace_connection_roots).                      *)

NeedsCloseMarker(r) ==
  r \notin readOnly /\ (rootMutating[r] = "yes" \/ r \in offsets)

ForgetRoot(r) ==
  /\ rootStarted'  = [rootStarted EXCEPT ![r] = 0]
  /\ rootFamily'   = [rootFamily EXCEPT ![r] = NoFamily]
  /\ rootMutating' = [rootMutating EXCEPT ![r] = "unknown"]
  /\ readOnly' = readOnly \ {r}
  /\ offsets'  = offsets \ {r}
  /\ active'   = active \ {r}
  /\ marked'   = marked \ {r}

ClearRootCounting(r) ==
  /\ openConns' = [openConns EXCEPT ![r] = @ - 1]
  /\ ForgetRoot(r)

\* clear_trace_ingress_root_locked
ClearRoot(r) ==
  /\ openConns' = [openConns EXCEPT ![r] = 0]
  /\ ForgetRoot(r)

\* record_trace_connection_close: the last connection either clears the root
\* at once or leaves it for a close marker, which is queued at most once.
EnqueuesMarkerAtZero(r) == openConns[r] < 1 /\ NeedsCloseMarker(r) /\ r \notin marked
EnqueuesMarker(r) == openConns[r] <= 1 /\ NeedsCloseMarker(r) /\ r \notin marked

RecordClose(r) ==
  IF openConns[r] <= 1 /\ ~NeedsCloseMarker(r) THEN ClearRoot(r)
  ELSE /\ openConns' = [openConns EXCEPT ![r] = IF @ > 1 THEN @ - 1 ELSE 0]
       /\ marked' = IF EnqueuesMarker(r) THEN marked \cup {r} ELSE marked
       /\ UNCHANGED <<rootStarted, rootFamily, rootMutating, readOnly, offsets, active>>

Marker(r) == Payload(r, "closed", 0, NoFamily)

\* EOF of the root's connection: after atexit, or wherever a kill cut it off.
Close(r) ==
  /\ reader[r].step = "read"
  /\ git[r] = "killed" \/ reader[r].frame = "eof"
  /\ IF reader[r].frame = "start"
     THEN /\ reader' = [reader EXCEPT ![r].step = "closed"]
          /\ UNCHANGED ingressVars
     ELSE /\ RecordClose(r)
          /\ reader' = [reader EXCEPT ![r] =
               [@ EXCEPT !.step = IF EnqueuesMarker(r) THEN "marker" ELSE "closed"]]
  /\ UNCHANGED <<envVars, gitVars, child, queueVars, processed, normalizer, worker,
                 seqVars, slots, execVars, ckptVars, taskVars, histVars>>

SendMarker(r) ==
  /\ reader[r].step = "marker"
  /\ Enqueue(Marker(r))
  /\ reader' = [reader EXCEPT ![r].step = "closed"]
  /\ UNCHANGED <<envVars, gitVars, child, ingressVars, processed, normalizer, worker,
                 seqVars, slots, execVars, ckptVars, taskVars, histVars>>

ChildClose(r) ==
  /\ child[r].step = "eof"
  /\ RecordClose(r)
  /\ child' = [child EXCEPT ![r].step = IF EnqueuesMarker(r) THEN "marker" ELSE "closed"]
  /\ UNCHANGED <<envVars, gitVars, reader, queueVars, processed, normalizer, worker,
                 seqVars, slots, execVars, ckptVars, taskVars, histVars>>

ChildSendMarker(r) ==
  /\ child[r].step = "marker"
  /\ Enqueue(Marker(r))
  /\ child' = [child EXCEPT ![r].step = "closed"]
  /\ UNCHANGED <<envVars, gitVars, reader, ingressVars, processed, normalizer, worker,
                 seqVars, slots, execVars, ckptVars, taskVars, histVars>>

-----------------------------------------------------------------------------
(* Draining a family (drain_ready_family_sequencer_entries_locked).         *)

\* family_entry_blocked_by_prior_open_trace_root
BlockedByOpenRoot(F, e) ==
  \E r \in Roots :
    /\ openConns[r] > 0
    /\ ~(e.what = "command" /\ e.id = r)
    /\ r \notin readOnly
    /\ rootMutating[r] # "no"
    /\ rootStarted[r] <= e.at      \* 0, an unknown start time, blocks as well
    /\ rootFamily[r] \in {NoFamily, F}

Stuck(F, e) == e.what = "pending" \/ BlockedByOpenRoot(F, e)

\* The longest prefix of the sequencer that may run now; nothing runs while
\* an accepted checkpoint has not been admitted.
BatchUngated(F, es) == {e \in es : \A d \in es : d = e \/ Before(d, e) => ~Stuck(F, d)}

Batch(F, es) ==
  IF unadmitted > 0 THEN {}
  ELSE {e \in es : \A d \in es : d = e \/ Before(d, e) => ~Stuck(F, d)}

\* With the execution lock of F free: take it and remove the ready prefix of
\* the entries es, to be run one by one before the lock is released.
BeginDrain(F, es, owner) ==
  LET b == Batch(F, es) IN
  /\ lock[F] = "free"
  /\ entries' = [entries EXCEPT ![F] = es \ b]
  /\ ready'   = [ready EXCEPT ![F] = b]
  /\ lock'    = [lock EXCEPT ![F] = IF b = {} THEN "free" ELSE owner]
  /\ UNCHANGED log

\* One iteration of the execution loop: entries run in sequencer order.
Execute(F) ==
  /\ lock[F] # "free"
  /\ \E e \in ready[F] :
       /\ \A d \in ready[F] : d = e \/ Before(e, d)
       /\ log' = [log EXCEPT ![F] = Append(@, [what |-> e.what, id |-> e.id])]
       /\ ready' = [ready EXCEPT ![F] = @ \ {e}]
       /\ lock' = [lock EXCEPT ![F] = IF ready[F] = {e} THEN "free" ELSE @]
       /\ ckpt' = IF e.what = "checkpoint" THEN [ckpt EXCEPT ![e.id] = "executed"] ELSE ckpt
  /\ UNCHANGED <<envVars, gitVars, readerVars, ingressVars, queueVars, processed, normalizer,
                 worker, seqVars, slots, receipt, ckptAt, ckptTarget, admitQ, unadmitted,
                 taskVars, histVars>>

-----------------------------------------------------------------------------
(* The ingest worker (apply_trace_payload_to_state).                        *)

\* maybe_append_pending_root_from_trace_payload
AppendsPending(p) ==
  /\ p.event \in Frames
  /\ ParticipatesByArgv(kind[p.root]) /\ p.at # 0
  /\ p.family # NoFamily
  /\ slots[p.root] = NoSlot

Slot(F, e) == [family |-> F, at |-> e.at, ord |-> e.ord]

PendingEntry(p) == Entry(p.at, nextOrdinal[p.family], "pending", p.root)

SlotAfter(p) == IF AppendsPending(p) THEN Slot(p.family, PendingEntry(p)) ELSE slots[p.root]

AppendPending(p) ==
  IF AppendsPending(p)
  THEN /\ entries' = [entries EXCEPT ![p.family] = Insert(p.family, PendingEntry(p))]
       /\ nextOrdinal' = [nextOrdinal EXCEPT ![p.family] = @ + 1]
  ELSE UNCHANGED <<entries, nextOrdinal>>

\* A payload is done: the processed sequence number advances, and the garbage
\* collection follows every GcInterval payloads.
Finished == [IdleWorker EXCEPT !.pc = IF (processed + 1) % GcInterval = 0 THEN "gc" ELSE "idle"]

TakePayload(p) ==
  /\ worker.pc = "idle"
  /\ queue # <<>>
  /\ p = Head(queue)
  /\ queue' = Tail(queue)
  /\ UNCHANGED enqueued

\* A frame that does not end its root.
IngestFrame(p) ==
  /\ TakePayload(p)
  /\ p.event \in {"start", "def_repo", "child"}
  /\ AppendPending(p)
  /\ slots' = [slots EXCEPT ![p.root] = SlotAfter(p)]
  /\ normalizer' = [normalizer EXCEPT ![p.root] =
       IF p.event = "start" /\ @ = "none" THEN "pending" ELSE @]
  /\ worker' = Finished
  /\ processed' = processed + 1
  /\ UNCHANGED <<envVars, gitVars, readerVars, ingressVars, execVars, ckptVars, taskVars, histVars>>

Working(pc, r, outcome, slot, F) ==
  [pc |-> pc, root |-> r, outcome |-> outcome, slot |-> slot, family |-> F, todo |-> {}]

\* atexit: the normalizer completes a root whose start it has; otherwise the
\* exit is remembered and a pending entry, if any, is cancelled.
IngestAtexit(p) ==
  LET r       == p.root
      command == normalizer[r] = "pending"
      result  == IF command THEN "command" ELSE "canceled"
      slot    == SlotAfter(p)
      next    == IF slot # NoSlot THEN Working("replace", r, result, slot, NoFamily)
                 ELSE IF command /\ ParticipatesAtExit(kind[r])
                 THEN Working("append", r, result, NoSlot, home[r])
                 ELSE IF command THEN Working("clear", r, result, NoSlot, NoFamily)
                 ELSE Finished
  IN
  /\ TakePayload(p)
  /\ p.event = "atexit"
  /\ AppendPending(p)
  /\ normalizer' = [normalizer EXCEPT ![r] =
       CASE @ = "pending" -> "completed" [] @ = "none" -> "deferred" [] OTHER -> @]
  /\ slots' = [slots EXCEPT ![r] = NoSlot]
  /\ worker' = next
  /\ processed' = IF next = Finished THEN processed + 1 ELSE processed
  /\ UNCHANGED <<envVars, gitVars, readerVars, ingressVars, execVars, ckptVars, taskVars, histVars>>

\* A connection-close marker: orphan the root, cancel its pending entry.
IngestClosed(p) ==
  LET r == p.root IN
  /\ TakePayload(p)
  /\ p.event = "closed"
  /\ normalizer' = [normalizer EXCEPT ![r] = IF @ = "completed" THEN @ ELSE "none"]
  /\ slots' = [slots EXCEPT ![r] = NoSlot]
  /\ worker' = IF slots[r] # NoSlot
               THEN Working("replace", r, "canceled", slots[r], NoFamily)
               ELSE Working("clear", r, "canceled", NoSlot, NoFamily)
  /\ UNCHANGED <<envVars, gitVars, readerVars, ingressVars, processed, seqVars, execVars,
                 ckptVars, taskVars, histVars>>

\* replace_pending_root_entry, under the execution lock, and the drain in it.
WorkerReplace ==
  LET s == worker.slot
      F == s.family
      es == {d \in entries[F] : Key(d) # Key(s)}
              \cup {Entry(s.at, s.ord, worker.outcome, worker.root)}
  IN
  /\ worker.pc = "replace"
  /\ BeginDrain(F, es, "worker")
  /\ worker' = [worker EXCEPT !.pc = "clear", !.slot = NoSlot, !.family = F]
  /\ UNCHANGED <<envVars, gitVars, readerVars, ingressVars, queueVars, processed, normalizer,
                 nextOrdinal, slots, ckptVars, taskVars, histVars>>

\* append_ready_command_entry
WorkerAppend ==
  LET F == worker.family
      e == Entry(startedAt[worker.root], nextOrdinal[F], "command", worker.root)
  IN
  /\ worker.pc = "append"
  /\ BeginDrain(F, Insert(F, e), "worker")
  /\ nextOrdinal' = [nextOrdinal EXCEPT ![F] = @ + 1]
  /\ worker' = [worker EXCEPT !.pc = "clear"]
  /\ UNCHANGED <<envVars, gitVars, readerVars, ingressVars, queueVars, processed, normalizer,
                 slots, ckptVars, taskVars, histVars>>

WorkerHoldsLock == \E F \in Families : lock[F] = "worker"

\* clear_trace_root_tracking
WorkerClear ==
  /\ worker.pc = "clear" /\ ~WorkerHoldsLock
  /\ ClearRoot(worker.root)
  /\ worker' = IF worker.family = NoFamily THEN [worker EXCEPT !.pc = "snapshot"]
               ELSE [worker EXCEPT !.pc = "drain", !.todo = {worker.family}]
  /\ UNCHANGED <<envVars, gitVars, readerVars, queueVars, processed, normalizer, seqVars,
                 slots, execVars, ckptVars, taskVars, histVars>>

\* drain_ready_family_sequencers_after_root_cleared: the root's family, or
\* every family with entries when the root had none.
NonemptyFamilies == {F \in Families : entries[F] # {}}

WorkerSnapshot ==
  /\ worker.pc = "snapshot"
  /\ worker' = [worker EXCEPT !.pc = "drain", !.todo = NonemptyFamilies]
  /\ UNCHANGED <<envVars, gitVars, readerVars, ingressVars, queueVars, processed, normalizer,
                 seqVars, slots, execVars, ckptVars, taskVars, histVars>>

WorkerDrain(F) ==
  /\ worker.pc = "drain" /\ F \in worker.todo
  /\ BeginDrain(F, entries[F], "worker")
  /\ worker' = [worker EXCEPT !.todo = @ \ {F}]
  /\ UNCHANGED <<envVars, gitVars, readerVars, ingressVars, queueVars, processed, normalizer,
                 nextOrdinal, slots, ckptVars, taskVars, histVars>>

WorkerDone ==
  /\ worker.pc = "drain" /\ worker.todo = {} /\ ~WorkerHoldsLock
  /\ worker' = Finished
  /\ processed' = processed + 1
  /\ UNCHANGED <<envVars, gitVars, readerVars, ingressVars, queueVars, normalizer, seqVars,
                 slots, execVars, ckptVars, taskVars, histVars>>

\* gc_stale_family_state: an empty sequencer is dropped, its ordinals start again.
CollectedOrdinalsOfAll == [F \in Families |-> 1]
CollectedOrdinals == [F \in Families |-> IF entries[F] = {} THEN 1 ELSE nextOrdinal[F]]

WorkerGc ==
  /\ worker.pc = "gc"
  /\ nextOrdinal' = CollectedOrdinals
  /\ worker' = IdleWorker
  /\ UNCHANGED <<envVars, gitVars, readerVars, ingressVars, queueVars, processed, normalizer,
                 entries, slots, execVars, ckptVars, taskVars, histVars>>

-----------------------------------------------------------------------------
(* Checkpoints.                                                             *)

\* Acceptance, under the sequencer map lock (handle_control_connection_actor_reader).
AcceptCheckpoint(c) ==
  /\ ckpt[c] = "unsent"
  /\ \E t \in {clock + d : d \in Ticks} :
       /\ ckptAt' = [ckptAt EXCEPT ![c] = t]
       /\ clock' = t
  /\ receipt' = [receipt EXCEPT ![c] = Cardinality({d \in Checkpoints : receipt[d] # 0}) + 1]
  /\ ckptTarget' = [ckptTarget EXCEPT ![c] = enqueued]
  /\ ckpt' = [ckpt EXCEPT ![c] = "accepted"]
  /\ admitQ' = Append(admitQ, c)
  /\ unadmitted' = unadmitted + 1
  /\ attributedBefore' = [attributedBefore EXCEPT ![c] = Attributed]
  /\ UNCHANGED <<envVars, git, startedAt, readerVars, ingressVars, queueVars, processed,
                 normalizer, worker, seqVars, slots, execVars, taskVars>>

\* The last outstanding admission schedules a drain of every family.
ScheduleDrainsAtZero == spawned' = IF unadmitted = 0 THEN spawned + 1 ELSE spawned
ScheduleDrains == spawned' = IF unadmitted = 1 THEN spawned + 1 ELSE spawned

\* wait_for_trace_ingest_seq
FencePassedEarly(c) == processed + 1 >= ckptTarget[c]
FencePassed(c) == processed >= ckptTarget[c]

\* complete_checkpoint_admission, once the ingest worker has passed the target.
AdmitCheckpoint ==
  LET c == Head(admitQ)
      F == ckptHome[c]
      e == Entry(ckptAt[c], nextOrdinal[F], "checkpoint", c)
  IN
  /\ admitQ # <<>>
  /\ FencePassed(c)
  /\ entries' = [entries EXCEPT ![F] = Insert(F, e)]
  /\ nextOrdinal' = [nextOrdinal EXCEPT ![F] = @ + 1]
  /\ ckpt' = [ckpt EXCEPT ![c] = "admitted"]
  /\ admitQ' = Tail(admitQ)
  /\ unadmitted' = unadmitted - 1
  /\ ScheduleDrains
  /\ UNCHANGED <<envVars, gitVars, readerVars, ingressVars, queueVars, processed, normalizer,
                 worker, slots, execVars, receipt, ckptAt, ckptTarget, taskWants,
                 histVars>>

\* complete_failed_checkpoint_admission: the gate is released all the same.
FailAdmission ==
  /\ admitQ # <<>>
  /\ ckpt' = [ckpt EXCEPT ![Head(admitQ)] = "failed"]
  /\ admitQ' = Tail(admitQ)
  /\ unadmitted' = unadmitted - 1
  /\ ScheduleDrains
  /\ UNCHANGED <<envVars, gitVars, readerVars, ingressVars, queueVars, processed, normalizer,
                 worker, seqVars, slots, execVars, receipt, ckptAt, ckptTarget, taskWants,
                 histVars>>

\* drain_all_ready_family_sequencers of a spawned task.
TaskSnapshot ==
  /\ spawned > 0
  /\ spawned' = spawned - 1
  /\ taskWants' = [F \in Families |->
       IF F \in NonemptyFamilies THEN taskWants[F] + 1 ELSE taskWants[F]]
  /\ UNCHANGED <<envVars, gitVars, readerVars, ingressVars, queueVars, processed, normalizer,
                 worker, seqVars, slots, execVars, ckptVars, histVars>>

TaskDrain(F) ==
  /\ taskWants[F] > 0
  /\ BeginDrain(F, entries[F], "task")
  /\ taskWants' = [taskWants EXCEPT ![F] = @ - 1]
  /\ UNCHANGED <<envVars, gitVars, readerVars, ingressVars, queueVars, processed, normalizer,
                 worker, nextOrdinal, slots, ckptVars, spawned, histVars>>

-----------------------------------------------------------------------------
ReaderStep(r) == \/ OpenRoot(r) \/ Track(r) \/ Capture(r) \/ Send(r)
                 \/ Close(r) \/ SendMarker(r)

ChildStep(r) == \/ ChildTrack(r) \/ ChildCapture(r) \/ ChildSend(r)
                \/ ChildClose(r) \/ ChildSendMarker(r)

IngestStep == \E p \in {queue[i] : i \in DOMAIN queue} :
                 IngestFrame(p) \/ IngestAtexit(p) \/ IngestClosed(p)

WorkerStep == \/ IngestStep
              \/ WorkerReplace \/ WorkerAppend \/ WorkerClear \/ WorkerSnapshot
              \/ (\E F \in Families : WorkerDrain(F))
              \/ WorkerDone \/ WorkerGc

AdmissionStep == AdmitCheckpoint \/ FailAdmission

Next ==
  \/ \E r \in Roots : \/ GitStart(r) \/ GitEnd(r) \/ ReaderStep(r)
                      \/ ChildRead(r) \/ ChildStep(r)
  \/ WorkerStep
  \/ \E c \in Checkpoints : AcceptCheckpoint(c)
  \/ AdmissionStep
  \/ TaskSnapshot
  \/ \E F \in Families : TaskDrain(F) \/ Execute(F)

Spec == Init /\ [][Next]_vars

\* Every thread and task of the daemon keeps running, and a started git
\* process ends. Starting git, connecting a child and sending a checkpoint are
\* left to the environment.
Fairness ==
  /\ \A r \in Roots : WF_vars(GitEnd(r)) /\ WF_vars(ReaderStep(r)) /\ WF_vars(ChildStep(r))
  /\ WF_vars(WorkerStep)
  /\ WF_vars(AdmissionStep)
  /\ WF_vars(TaskSnapshot)
  /\ \A F \in Families : WF_vars(TaskDrain(F)) /\ WF_vars(Execute(F))

FairSpec == Spec /\ Fairness

-----------------------------------------------------------------------------
(* Properties.                                                              *)

Whats     == {"pending", "command", "canceled", "checkpoint"}
EntryType == [at : Nat, ord : Nat, what : Whats, id : Roots \cup Checkpoints]
LogType   == [what : Whats, id : Roots \cup Checkpoints]
SlotType  == [family : Families, at : Nat, ord : Nat]

ReaderType == [frame : Frames \cup {"eof"},
               step : {"read", "track", "capture", "send", "marker", "closed"},
               payload : Payloads \cup {NoSlot}]
ChildType  == [step : {"read", "track", "capture", "send", "eof", "marker", "closed"},
               payload : Payloads \cup {NoSlot}]
WorkerType == [pc : {"idle", "replace", "append", "clear", "snapshot", "drain", "gc"},
               root : Roots \cup {NoSlot}, outcome : {"none", "command", "canceled"},
               slot : SlotType \cup {NoSlot}, family : Families \cup {NoFamily},
               todo : SUBSET Families]

EnvOK ==
  /\ kind \in [Roots -> Kinds] /\ home \in [Roots -> Families]
  /\ ckptHome \in [Checkpoints -> Families]
  /\ git \in [Roots -> {"unborn", "running", "exited", "killed"}]
  /\ startedAt \in [Roots -> Nat] /\ clock \in Nat

IngressOK ==
  /\ openConns \in [Roots -> Nat] /\ rootStarted \in [Roots -> Nat]
  /\ rootFamily \in [Roots -> Families \cup {NoFamily}]
  /\ rootMutating \in [Roots -> {"unknown", "yes", "no"}]
  /\ readOnly \subseteq Roots /\ offsets \subseteq Roots
  /\ active \subseteq Roots /\ marked \subseteq Roots

QueueOK == queue \in Seq(Payloads) /\ enqueued \in Nat /\ processed \in Nat

SequencerOK ==
  /\ entries \in [Families -> SUBSET EntryType]
  /\ nextOrdinal \in [Families -> Nat]
  /\ slots \in [Roots -> SlotType \cup {NoSlot}]
  /\ lock \in [Families -> {"free", "worker", "task"}]
  /\ ready \in [Families -> SUBSET EntryType]
  /\ log \in [Families -> Seq(LogType)]

AdmissionOK ==
  /\ ckpt \in [Checkpoints -> {"unsent", "accepted", "admitted", "executed", "failed"}]
  /\ receipt \in [Checkpoints -> Nat] /\ ckptAt \in [Checkpoints -> Nat]
  /\ ckptTarget \in [Checkpoints -> Nat]
  /\ admitQ \in Seq(Checkpoints) /\ unadmitted \in Nat
  /\ spawned \in Nat /\ taskWants \in [Families -> Nat]

HistoryOK == attributedBefore \in [Roots \cup Checkpoints -> SUBSET Roots]

\* Type invariant of the ingress maps, the queues, the sequencers and the workers.
TypeOK ==
  /\ EnvOK /\ IngressOK /\ QueueOK /\ SequencerOK /\ AdmissionOK /\ HistoryOK
  /\ reader \in [Roots -> ReaderType]
  /\ child \in [Roots -> ChildType]
  /\ normalizer \in [Roots -> {"none", "pending", "completed", "deferred"}]
  /\ worker \in WorkerType

\* Entry x was run at position i of family F's execution log.
RunAt(F, i, x) == log[F][i].id = x
RanBefore(F, x, i) == \E j \in 1 .. i - 1 : RunAt(F, j, x)

\* A checkpoint, or a later git command, does not overtake an earlier ordered
\* command of its family whose def_repo frame was queued when the checkpoint was
\* accepted or the later command started: the earlier root's pending entry is in the
\* sequencer, ahead of it, before a drain can reach it.
AttributedRootFirst ==
  \A F \in Families : \A i \in DOMAIN log[F] :
    log[F][i].what \in {"command", "checkpoint"} =>
      \A r \in attributedBefore[log[F][i].id] :
        ParticipatesByArgv(kind[r]) /\ home[r] = F => RanBefore(F, r, i)

\* A git command that starts after a checkpoint was accepted does not run before
\* it, even if its trace frames are ingested while the checkpoint is still being
\* prepared: no family is drained while a checkpoint is accepted but not admitted.
LaterCommandWaits ==
  \A F \in Families : \A i \in DOMAIN log[F] : \A r \in Roots :
    RunAt(F, i, r) /\ log[F][i].what = "command" =>
      \A c \in Checkpoints :
        /\ ckptHome[c] = F /\ ckpt[c] \in {"accepted", "admitted", "executed"}
        /\ ckptAt[c] < startedAt[r]
        => RanBefore(F, c, i)

\* Checkpoints of one family run in the order of their receipts, also when two were
\* accepted within one clock tick and whatever was collected in between.
CheckpointsInReceiptOrder ==
  \A F \in Families : \A i, j \in DOMAIN log[F] : \A c, d \in Checkpoints :
    i < j /\ RunAt(F, i, c) /\ RunAt(F, j, d) => receipt[c] < receipt[d]

Copies(F, x) == Cardinality({e \in entries[F] : e.id = x}) + Cardinality({e \in ready[F] : e.id = x})
                  + Cardinality({i \in DOMAIN log[F] : RunAt(F, i, x)})

\* No entry is overwritten, dropped or run twice: an admitted checkpoint and a
\* completed ordered command are in exactly one of sequencer, ready batch and log
\* (a command that the worker has not yet placed excepted).
ExactlyOnce ==
  /\ \A c \in Checkpoints :
       Copies(ckptHome[c], c) = IF ckpt[c] \in {"admitted", "executed"} THEN 1 ELSE 0
  /\ \A r \in Roots :
       normalizer[r] = "completed" /\ ParticipatesAtExit(kind[r]) =>
         \/ Copies(home[r], r) = 1
         \/ worker.pc = "append" /\ worker.root = r /\ Copies(home[r], r) = 0

\* The root's end is still on its way to the ingest worker.
EndExpected(r) ==
  \/ reader[r].step # "closed"
  \/ child[r].step \notin {"read", "closed"}
  \/ \E i \in DOMAIN queue : queue[i].root = r /\ queue[i].event \in {"atexit", "closed"}
  \/ worker.pc = "replace" /\ worker.root = r

\* A pending root entry at the front of a sequencer stops its family, so none may
\* be left behind: whoever ends the root (exit, kill, last connection closing) will
\* replace it, and the slot that finds it again points at it until then.
PendingRootsWillResolve ==
  \A F \in Families : \A e \in entries[F] : e.what = "pending" =>
    /\ EndExpected(e.id)
    /\ \/ slots[e.id] = Slot(F, e)
       \/ worker.pc = "replace" /\ worker.slot = Slot(F, e)

\* Whatever the git processes do, an accepted checkpoint is executed or rejected.
CheckpointsComplete ==
  \A c \in Checkpoints : ckpt[c] = "accepted" ~> ckpt[c] \in {"executed", "failed"}
=============================================================================
