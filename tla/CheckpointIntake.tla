-------------------------- MODULE CheckpointIntake --------------------------
(***************************************************************************)
(* What happens to one checkpoint in a daemon process, from the control    *)
(* connection that announces it to its execution, its refusal or the end   *)
(* of the process (src/src/daemon.rs): the request and byte quota, the     *)
(* acceptance gate, the ingress worker, the drains, sync.family, the       *)
(* graceful Shutdown request, internal shutdown requests, the socket       *)
(* health loop and the teardown with its deadline enforcer.                *)
(*                                                                         *)
(* There is one family, and no git command stands before a checkpoint in   *)
(* its sequencer: FamilySequencer has those orders.  The trace-ingest      *)
(* waits are left out for the same reason.                                 *)
(***************************************************************************)
EXTENDS Integers, Sequences, FiniteSets, SequencesExt

CONSTANTS
  Clients,       \* each sends one checkpoint
  Bodies,        \* the lengths that the clients may declare for their bodies
  Syncs,         \* sync.family requests
  Stop,          \* the graceful Shutdown request
  Task, Nobody,  \* holders of the execution lock that are not requests
  RequestLimit,  \* CHECKPOINT_INGRESS_REQUEST_LIMIT, also the queue's capacity
  ByteLimit,     \* CHECKPOINT_INGRESS_BYTE_LIMIT
  MaxDeferrals,  \* SOCKET_HEALTH_MAX_CONSECUTIVE_DEFERRALS
  MaxStalls      \* SOCKET_HEALTH_MAX_PROCESSING_STALL_INTERVALS

Waiters == Syncs \cup {Stop}

ASSUME IntakeAssumption ==
  /\ IsFiniteSet(Clients) /\ Bodies \subseteq [Clients -> 0 .. ByteLimit]
  /\ RequestLimit \in Nat \ {0} /\ ByteLimit \in Nat /\ MaxDeferrals \in Nat
  /\ MaxStalls \in Nat \ {0}
  /\ Stop \notin Syncs
  /\ Task \notin Waiters /\ Nobody \notin Waiters \cup {Task} \cup Clients

VARIABLES
  bytes,       \* the declared body lengths
  status,      \* where each checkpoint is
  receipt,     \* its receipt number, 0 before acceptance
  quota,       \* CheckpointIngressQuotaState
  accepting,   \* accepting_checkpoints
  nextReceipt, \* next_checkpoint_receipt_seq
  unadmitted,  \* unadmitted_checkpoints
  processed,   \* processed_checkpoint_receipt_seq
  queue,       \* the ingress channel
  worker,      \* the checkpoint ingress worker
  sequencer,   \* checkpoints in the family sequencer
  drains,      \* scheduled drain tasks that have not run
  exec,        \* the family execution lock and its holder's batch
  waiter,      \* the sync and shutdown requests
  shutting,    \* shutting_down
  wedged,      \* the runtime makes no progress any more
  health,      \* the counters of the health loop and what it reads of the
               \* trace ingest queue
  counted,     \* checkpoints that count_abandoned_checkpoints_once counted
  life         \* "up", "counted" (teardown has counted losses), "exited"

intake == <<bytes, status, receipt, quota, accepting, nextReceipt>>
admission == <<unadmitted, processed, queue, worker>>
drainage == <<sequencer, drains, exec>>
ending == <<shutting, wedged, health, counted, life>>
vars == <<intake, admission, drainage, waiter, ending>>

Retained ==
  {"reserved", "accepting", "queued", "preparing", "sequenced", "executing"}
Gone == {"idle", "refused", "rejected", "lost", "executed"}

TotalBytes(S) == Cardinality({b \in S \X (1 .. ByteLimit) : b[2] <= bytes[b[1]]})

TypeOK ==
  /\ bytes \in Bodies
  /\ status \in [Clients -> Retained \cup Gone]
  /\ receipt \in [Clients -> Nat]
  /\ quota \in [requests: Nat, bytes: Nat]
  /\ accepting \in BOOLEAN
  /\ nextReceipt \in Nat /\ unadmitted \in Nat /\ processed \in Nat
  /\ queue \in Seq(Clients)
  /\ worker \in [pc: {"idle", "preparing", "record", "stopped"},
                 job: Clients \cup {Nobody}, last: BOOLEAN, panicked: BOOLEAN]
  /\ sequencer \in Seq(Clients)
  /\ drains \in Nat
  /\ exec \in [holder: Waiters \cup {Task, Nobody}, batch: Seq(Clients)]
  /\ waiter \in [Waiters -> [pc: {"idle", "admission", "gate", "drain", "check", "done"},
                             target: Nat, asleep: BOOLEAN]]
  /\ shutting \in BOOLEAN /\ wedged \in BOOLEAN
  /\ health \in [queued: BOOLEAN, stalled: -1 .. MaxStalls, deferrals: 0 .. MaxDeferrals]
  /\ counted \subseteq Clients
  /\ life \in {"up", "counted", "exited"}

NoHealth == [queued |-> FALSE, stalled |-> 0, deferrals |-> 0]

Init ==
  /\ bytes \in Bodies
  /\ status = [c \in Clients |-> "idle"]
  /\ receipt = [c \in Clients |-> 0]
  /\ quota = [requests |-> 0, bytes |-> 0]
  /\ accepting = TRUE
  /\ nextReceipt = 0 /\ unadmitted = 0 /\ processed = 0
  /\ queue = <<>>
  /\ worker = [pc |-> "idle", job |-> Nobody, last |-> FALSE, panicked |-> FALSE]
  /\ sequencer = <<>>
  /\ drains = 0
  /\ exec = [holder |-> Nobody, batch |-> <<>>]
  /\ waiter = [w \in Waiters |-> [pc |-> "idle", target |-> 0, asleep |-> FALSE]]
  /\ shutting = FALSE /\ wedged = FALSE
  /\ health = NoHealth
  /\ counted = {} /\ life = "up"

Running == life # "exited"
Working == Running /\ ~wedged   \* what runs on the runtime's workers

(* Mutant: the bytes of a dropped reservation are not given back.           *)
ReleaseRequestsOnly(S) ==
  quota' = [quota EXCEPT !.requests = @ - Cardinality(S)]

(* Drop for CheckpointIngressReservation.                                   *)
Release(S) ==
  quota' = [requests |-> quota.requests - Cardinality(S),
            bytes |-> quota.bytes - TotalBytes(S)]

Moved(S, to) == [c \in Clients |-> IF c \in S THEN to ELSE status[c]]

(* Mutant: the acceptance block does not hold the sequencer lock.           *)
SequencerLockFreeAlways == TRUE

(* family_sequencers_by_family is held across the acceptance of a receipt.  *)
SequencerLockFree == \A c \in Clients : status[c] # "accepting"

-----------------------------------------------------------------------------
(* handle_control_connection_actor_reader, checkpoint.run.                  *)

(* CheckpointIngressQuota::reserve.                                         *)
WithinQuota(c) ==
  /\ quota.requests < RequestLimit
  /\ bytes[c] <= ByteLimit - quota.bytes

Reserve(c) ==
  /\ Running /\ status[c] = "idle"
  /\ IF accepting /\ WithinQuota(c)
     THEN /\ status' = [status EXCEPT ![c] = "reserved"]
          /\ quota' = [requests |-> quota.requests + 1, bytes |-> quota.bytes + bytes[c]]
     ELSE /\ status' = [status EXCEPT ![c] = "refused"]
          /\ UNCHANGED quota
  /\ UNCHANGED <<bytes, receipt, accepting, nextReceipt, admission, drainage, waiter, ending>>

(* The peer disconnects, or the body does not come in time.                 *)
BodyFails(c) ==
  /\ Running /\ status[c] = "reserved"
  /\ status' = [status EXCEPT ![c] = "refused"]
  /\ Release({c})
  /\ UNCHANGED <<bytes, receipt, accepting, nextReceipt, admission, drainage, waiter, ending>>

(* Places of the channel are queued receipts and the permit of the one      *)
(* connection in the acceptance block.                                      *)
QueueFull == Len(queue) + Cardinality({c \in Clients : status[c] = "accepting"}) >= RequestLimit

(* Mutant: an internal shutdown request leaves the acceptance gate open.    *)
ShutDownAccepting ==
  /\ shutting' = TRUE /\ health' = NoHealth
  /\ UNCHANGED accepting

(* request_shutdown.  The health loop returns and its counters go with it.  *)
ShutDown ==
  /\ shutting' = TRUE /\ health' = NoHealth
  /\ accepting' = FALSE

(* The body is read and a place of the ingress channel reserved; a closed   *)
(* channel stops the daemon.                                                *)
ChannelClosed(c) ==
  /\ Running /\ status[c] = "reserved" /\ worker.pc = "stopped"
  /\ status' = [status EXCEPT ![c] = "refused"]
  /\ Release({c})
  /\ ShutDown
  /\ UNCHANGED <<bytes, receipt, nextReceipt, admission, drainage, waiter,
                 wedged, counted, life>>

(* Otherwise the sequencer lock is taken, the gate read and a number drawn  *)
(* ...                                                                      *)
BeginAccept(c) ==
  /\ Running /\ status[c] = "reserved" /\ worker.pc # "stopped"
  /\ ~QueueFull /\ SequencerLockFree
  /\ IF accepting
     THEN /\ status' = [status EXCEPT ![c] = "accepting"]
          /\ nextReceipt' = nextReceipt + 1
          /\ receipt' = [receipt EXCEPT ![c] = nextReceipt + 1]
          /\ UNCHANGED quota
     ELSE /\ status' = [status EXCEPT ![c] = "refused"]
          /\ Release({c})
          /\ UNCHANGED <<nextReceipt, receipt>>
  /\ UNCHANGED <<bytes, accepting, admission, drainage, waiter, ending>>

(* ... and the receipt is sent.  request_shutdown does not take the lock,   *)
(* so the worker may have stopped: the channel then keeps the receipt.      *)
EndAccept(c) ==
  /\ Running /\ status[c] = "accepting"
  /\ status' = [status EXCEPT ![c] = "queued"]
  /\ unadmitted' = unadmitted + 1
  /\ queue' = Append(queue, c)
  /\ UNCHANGED <<bytes, receipt, quota, accepting, nextReceipt, processed, worker,
                 drainage, waiter, ending>>

-----------------------------------------------------------------------------
(* start_checkpoint_ingress_worker.                                         *)

TakeReceipt ==
  /\ Working /\ worker.pc = "idle" /\ queue # <<>>
  /\ worker' = [worker EXCEPT !.pc = "preparing", !.job = Head(queue)]
  /\ status' = Moved({Head(queue)}, "preparing")
  /\ queue' = Tail(queue)
  /\ UNCHANGED <<bytes, receipt, quota, accepting, nextReceipt, unadmitted, processed,
                 drainage, waiter, ending>>

(* complete_checkpoint_admission, under the sequencer lock.                 *)
Admit ==
  /\ Working /\ worker.pc = "preparing" /\ SequencerLockFree
  /\ sequencer' = Append(sequencer, worker.job)
  /\ status' = Moved({worker.job}, "sequenced")
  /\ unadmitted' = unadmitted - 1
  /\ worker' = [worker EXCEPT !.pc = "record", !.last = (unadmitted = 1)]
  /\ UNCHANGED <<bytes, receipt, quota, accepting, nextReceipt, processed, queue,
                 drains, exec, waiter, ending>>

(* Mutant: a failed admission is accounted for twice.                       *)
AfterFailureTwice == unadmitted - 2

(* Mutant: a failed admission keeps the gate closed.                        *)
AfterFailureGateKept == unadmitted

AfterFailure == unadmitted - 1

(* prepare_checkpoint_admission fails or panics: the reservation goes with  *)
(* the request, and complete_failed_checkpoint_admission, under the         *)
(* sequencer lock, counts the admission as done.                            *)
PrepareFails(panics) ==
  /\ Working /\ worker.pc = "preparing" /\ SequencerLockFree
  /\ status' = Moved({worker.job}, "rejected")
  /\ Release({worker.job})
  /\ unadmitted' = AfterFailure
  /\ worker' = [worker EXCEPT !.pc = "record", !.panicked = panics,
                              !.last = (unadmitted = 1)]
  /\ UNCHANGED <<bytes, receipt, accepting, nextReceipt, processed, queue,
                 drainage, waiter, ending>>

(* Mutant: the progress of admissions is recorded and nobody is notified.   *)
NotifiedNobody == waiter

Notified == [w \in Waiters |-> [waiter[w] EXCEPT !.asleep = FALSE]]

(* record_checkpoint_admission_processed and the drains that the last       *)
(* admission schedules.  After a panic the worker asks for shutdown and     *)
(* drops the channel with what it holds.                                    *)
Record ==
  /\ Working /\ worker.pc = "record"
  /\ processed' = receipt[worker.job]
  /\ waiter' = Notified
  /\ drains' = IF worker.last THEN drains + 1 ELSE drains
  /\ worker' = [worker EXCEPT !.pc = IF worker.panicked THEN "stopped" ELSE "idle",
                              !.job = Nobody, !.last = FALSE]
  /\ IF worker.panicked
     THEN /\ ShutDown
          /\ status' = Moved(ToSet(queue), "lost")
          /\ Release(ToSet(queue))
          /\ queue' = <<>>
     ELSE UNCHANGED <<shutting, health, accepting, status, quota, queue>>
  /\ UNCHANGED <<bytes, receipt, nextReceipt, unadmitted, sequencer, exec,
                 wedged, counted, life>>

(* The select is biased: only an empty channel lets the worker stop.        *)
WorkerStops ==
  /\ Working /\ worker.pc = "idle" /\ queue = <<>> /\ shutting
  /\ worker' = [worker EXCEPT !.pc = "stopped"]
  /\ UNCHANGED <<intake, unadmitted, processed, queue, drainage, waiter, ending>>

-----------------------------------------------------------------------------
(* drain_ready_family_sequencer_entries_locked: nothing is popped while an  *)
(* accepted checkpoint is unadmitted.                                       *)
Drain(holder) ==
  LET batch == IF unadmitted > 0 THEN <<>> ELSE sequencer IN
  /\ Working /\ exec.holder = Nobody /\ SequencerLockFree
  /\ exec' = [holder |-> holder, batch |-> batch]
  /\ sequencer' = IF unadmitted > 0 THEN sequencer ELSE <<>>
  /\ status' = Moved(ToSet(batch), "executing")
  /\ UNCHANGED <<bytes, receipt, quota, accepting, nextReceipt, admission, ending>>

(* A task of schedule_all_ready_family_drains.                              *)
TaskDrains ==
  /\ drains > 0
  /\ Drain(Task)
  /\ drains' = drains - 1
  /\ UNCHANGED waiter

(* The checkpoint is executed, or fails; its reservation is dropped.        *)
Execute ==
  /\ Working /\ exec.batch # <<>>
  /\ status' = Moved({Head(exec.batch)}, "executed")
  /\ Release({Head(exec.batch)})
  /\ exec' = [exec EXCEPT !.batch = Tail(@)]
  /\ UNCHANGED <<bytes, receipt, accepting, nextReceipt, admission, sequencer, drains,
                 waiter, ending>>

TaskEnds ==
  /\ Working /\ exec.holder = Task /\ exec.batch = <<>>
  /\ exec' = [exec EXCEPT !.holder = Nobody]
  /\ UNCHANGED <<intake, admission, sequencer, drains, waiter, ending>>

-----------------------------------------------------------------------------
(* sync_family and drain_accepted_checkpoints.                              *)

(* A wait enrols for notifications before it checks its condition, so none  *)
(* falls between the check and the sleep (TraceIngestQueue has these steps  *)
(* apart); it goes on when the condition holds, or at shutdown.             *)
Condition(w) ==
  IF waiter[w].pc = "admission" THEN processed >= waiter[w].target ELSE unadmitted = 0
After(w) == IF waiter[w].pc = "admission" THEN "gate" ELSE "drain"

Goto(w, pc) == waiter' = [waiter EXCEPT ![w].pc = pc, ![w].asleep = FALSE]

StartSync(s) ==
  /\ Running /\ waiter[s].pc = "idle"
  /\ waiter' = [waiter EXCEPT ![s].pc = "admission", ![s].target = nextReceipt]
  /\ UNCHANGED <<intake, admission, drainage, ending>>

(* The Shutdown request: set_checkpoint_acceptance(false), under the lock.  *)
StartStop ==
  /\ Running /\ waiter[Stop].pc = "idle" /\ SequencerLockFree
  /\ accepting' = FALSE
  /\ waiter' = [waiter EXCEPT ![Stop].pc = "admission", ![Stop].target = nextReceipt]
  /\ UNCHANGED <<bytes, status, receipt, quota, nextReceipt, admission, drainage, ending>>

CheckCondition(w) ==
  /\ Working /\ waiter[w].pc \in {"admission", "gate"} /\ ~waiter[w].asleep
  /\ IF Condition(w) THEN Goto(w, After(w))
     ELSE waiter' = [waiter EXCEPT ![w].asleep = TRUE]
  /\ UNCHANGED <<intake, admission, drainage, ending>>

WaitGivesUp(w) ==
  /\ Working /\ waiter[w].asleep /\ shutting
  /\ Goto(w, After(w))
  /\ UNCHANGED <<intake, admission, drainage, ending>>

WaiterDrains(w) ==
  /\ waiter[w].pc = "drain"
  /\ Drain(w)
  /\ Goto(w, "check")
  /\ UNCHANGED drains

(* Mutant: the graceful shutdown takes an open admission gate for the end   *)
(* of the drain.                                                            *)
FinishedByGate(w) == unadmitted = 0

(* sync_family asks for the open gate, drain_accepted_checkpoints for an    *)
(* empty quota.                                                             *)
Finished(w) == IF w = Stop THEN quota.requests = 0 ELSE unadmitted = 0

CheckFinished(w) ==
  /\ Working /\ waiter[w].pc = "check" /\ exec.holder = w /\ exec.batch = <<>>
  /\ exec' = [exec EXCEPT !.holder = Nobody]
  /\ IF Finished(w) THEN Goto(w, "done")
     ELSE waiter' = [waiter EXCEPT ![w].pc = IF w = Stop THEN "admission" ELSE "gate",
                                   ![w].target = IF w = Stop THEN nextReceipt ELSE @]
  /\ UNCHANGED <<intake, admission, sequencer, drains, ending>>

(* The Shutdown request is answered, then request_stop.                     *)
StopTakesEffect ==
  /\ Running /\ waiter[Stop].pc = "done" /\ ~shutting
  /\ ShutDown
  /\ UNCHANGED <<bytes, status, receipt, quota, nextReceipt, admission, drainage, waiter,
                 wedged, counted, life>>

-----------------------------------------------------------------------------
(* The end of the process.                                                  *)

(* request_shutdown by a listener, the trace worker or the memory watchdog, *)
(* or, while nothing is outstanding, a restart for an update or for age.    *)
InternalShutdown ==
  /\ Running /\ ~shutting
  /\ ShutDown
  /\ UNCHANGED <<bytes, status, receipt, quota, nextReceipt, admission, drainage, waiter,
                 wedged, counted, life>>

(* A side effect hangs and takes the runtime with it.  The connection and  *)
(* reader threads and the health loop go on.                                *)
Wedge ==
  /\ Working /\ ~shutting
  /\ wedged' = TRUE
  /\ UNCHANGED <<intake, admission, drainage, waiter, shutting, health, counted, life>>

(* What the health loop sees of the trace ingest (TraceIngestQueue has its  *)
(* steps): whether queued_trace_payloads is above zero, and whether         *)
(* processed_trace_ingest_seq moved since the loop's last turn, which sets  *)
(* the count of stalled turns to -1, so that the next turn finds it 0.  A   *)
(* reader thread queues a payload ...                                       *)
TraceQueued ==
  /\ Running /\ ~shutting /\ ~health.queued
  /\ health' = [health EXCEPT !.queued = TRUE]
  /\ UNCHANGED <<intake, admission, drainage, waiter, shutting, wedged, counted, life>>

(* ... and the ingest worker, on the runtime, processes one, maybe the last.*)
TraceProcessed ==
  /\ Working /\ ~shutting /\ health.queued
  /\ \E more \in BOOLEAN : health' = [health EXCEPT !.queued = more, !.stalled = -1]
  /\ UNCHANGED <<intake, admission, drainage, waiter, shutting, wedged, counted, life>>

(* Mutant: a restart is deferred for as long as checkpoints are retained.   *)
DefersAlways == quota.requests > 0

(* should_defer_restart_for_checkpoints.                                    *)
Defers == quota.requests > 0 /\ health.deferrals < MaxDeferrals

(* stalled_intervals after this turn, capped at the only value it is        *)
(* compared with: trace payloads are queued and none was processed.         *)
Stalled ==
  IF ~health.queued THEN 0
  ELSE IF health.stalled < MaxStalls THEN health.stalled + 1 ELSE MaxStalls

(* One more deferral, capped for the mutant.                                *)
Deferred == IF health.deferrals < MaxDeferrals THEN health.deferrals + 1 ELSE MaxDeferrals

(* One turn of daemon_socket_health_check_loop.  The Ping and the drain     *)
(* probe of the trace socket are answered by threads outside the runtime:   *)
(* they may succeed or fail whatever the runtime does.                      *)
HealthCheck(probesOk) ==
  LET ill == ~probesOk \/ Stalled >= MaxStalls IN
  /\ Running /\ ~shutting
  /\ IF ill /\ ~Defers THEN ShutDown
     ELSE /\ health' = [health EXCEPT !.stalled = Stalled,
                                     !.deferrals = IF ill THEN Deferred ELSE 0]
          /\ UNCHANGED <<shutting, accepting>>
  /\ UNCHANGED <<bytes, status, receipt, quota, nextReceipt, admission, drainage, waiter,
                 wedged, counted, life>>

(* count_abandoned_checkpoints_once, by the teardown or by the enforcer.    *)
CountAbandoned ==
  /\ shutting /\ life = "up"
  /\ counted' = {c \in Clients : status[c] \in Retained}
  /\ life' = "counted"
  /\ UNCHANGED <<intake, admission, drainage, waiter, shutting, wedged, health>>

(* run_daemon returns, or the enforcer exits at the deadline.               *)
Exit ==
  /\ life = "counted"
  /\ life' = "exited"
  /\ UNCHANGED <<intake, admission, drainage, waiter, shutting, wedged, health, counted>>

-----------------------------------------------------------------------------
ConnectionStep(c) ==
  BodyFails(c) \/ ChannelClosed(c) \/ BeginAccept(c) \/ EndAccept(c)
WorkerStep ==
  \/ TakeReceipt \/ Admit \/ Record \/ WorkerStops
  \/ \E panics \in BOOLEAN : PrepareFails(panics)
ExecStep == Execute \/ TaskEnds
WaiterStep(w) ==
  CheckCondition(w) \/ WaitGivesUp(w) \/ WaiterDrains(w) \/ CheckFinished(w)

Next ==
  \/ \E c \in Clients : Reserve(c) \/ ConnectionStep(c)
  \/ WorkerStep
  \/ TaskDrains \/ ExecStep
  \/ \E s \in Syncs : StartSync(s)
  \/ StartStop \/ StopTakesEffect
  \/ \E w \in Waiters : WaiterStep(w)
  \/ InternalShutdown \/ Wedge \/ TraceQueued \/ TraceProcessed
  \/ \E probesOk \in BOOLEAN : HealthCheck(probesOk)
  \/ CountAbandoned \/ Exit

Spec == Init /\ [][Next]_vars

RuntimeStep ==
  WorkerStep \/ TaskDrains \/ ExecStep \/ \E w \in Waiters : WaiterStep(w)
Teardown == CountAbandoned \/ Exit

(* Reads time out and connection threads go on; the runtime, while it does  *)
(* not hang, runs some task that can run; the health loop and the teardown  *)
(* with its deadline enforcer are threads of their own.  Nothing is fair    *)
(* about clients, requests, trace payloads, shutdown reasons, hangs and the *)
(* outcomes of the health loop's probes.                                    *)
FairSpec ==
  /\ Spec
  /\ WF_vars(\E c \in Clients : ConnectionStep(c)) /\ WF_vars(StopTakesEffect)
  /\ WF_vars(RuntimeStep)
  /\ WF_vars(\E probesOk \in BOOLEAN : HealthCheck(probesOk))
  /\ WF_vars(Teardown)

-----------------------------------------------------------------------------
(* Properties.                                                              *)

Held == {c \in Clients : status[c] \in Retained}

(* The quota is what the reservations alive add up to, on every path that a *)
(* checkpoint can take, it stays within its limits, and a connection that   *)
(* has a reservation always finds room in the ingress channel.              *)
QuotaExact ==
  /\ quota = [requests |-> Cardinality(Held), bytes |-> TotalBytes(Held)]
  /\ quota.requests <= RequestLimit /\ quota.bytes <= ByteLimit
  /\ \A c \in Clients : status[c] = "reserved" => ~QueueFull

Accepted(c) == receipt[c] > 0
Admitted(c) == status[c] \in {"sequenced", "executing", "executed", "rejected", "lost"}

(* sync.family returns, in a daemon that is not shutting down, only when    *)
(* every checkpoint accepted before it was admitted or rejected: receipt    *)
(* numbers reach the worker in order (tests/integration/zcode.rs:302).      *)
SyncAdmits ==
  \A s \in Syncs : waiter[s].pc = "done" /\ ~shutting =>
    \A c \in Clients : Accepted(c) /\ receipt[c] <= waiter[s].target => Admitted(c)

(* A Shutdown request that is answered has left no accepted checkpoint      *)
(* behind: each was executed or rejected, unless the ingress worker died.   *)
StopLosesNothing ==
  waiter[Stop].pc = "done" =>
    \A c \in Clients : Accepted(c) => status[c] \in {"executed", "rejected", "lost"}

(* What an exited process still retained had been counted as abandoned:     *)
(* nothing is accepted after the count.                                     *)
RetainedWereCounted ==
  life = "exited" => \A c \in Clients : Accepted(c) /\ status[c] \in Retained
                                          => c \in counted

(* A hung runtime that the health loop cannot see: no trace payload waits   *)
(* to be processed, so the stall counter stays at zero.                     *)
Unnoticed == wedged /\ ~shutting /\ ~health.queued

(* Every reservation comes to its end, through execution, refusal or the    *)
(* exit of the process: the gate never stays closed and no drain is missed. *)
(* (A client sends one checkpoint, so all have ended when none is held.)    *)
(* The exception is a runtime that hangs with an empty trace queue.         *)
ReservationsEnd == (Held # {}) ~> (Held = {} \/ life = "exited" \/ Unnoticed)

Waiting == {w \in Waiters : waiter[w].pc \notin {"idle", "done"}}

(* sync.family and Shutdown return, or the process exits: no notification   *)
(* is lost between the check and the sleep of a waiter.  The exception is   *)
(* the same.                                                                *)
RequestsReturn == (Waiting # {}) ~> (Waiting = {} \/ life = "exited" \/ Unnoticed)

(* A daemon whose runtime hangs while a trace payload is queued exits,      *)
(* however many checkpoints it retains and whatever the probes say: the     *)
(* stall is counted up to its limit and deferrals are bounded.              *)
WedgedExits == (wedged /\ health.queued) ~> (life = "exited")

(* What the tests take sync.family for: the checkpoints accepted before it  *)
(* have been processed when it returns.                                     *)
SyncProcesses ==
  \A s \in Syncs : waiter[s].pc = "done" /\ ~shutting =>
    \A c \in Clients : Accepted(c) /\ receipt[c] <= waiter[s].target
      => status[c] \in {"executed", "rejected"}
=============================================================================
