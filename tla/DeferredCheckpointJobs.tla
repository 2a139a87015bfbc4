----------------------- MODULE DeferredCheckpointJobs -----------------------
(***************************************************************************)
(* The durable checkpoint jobs of git-ai                                   *)
(* (src/src/metrics/deferred_checkpoint_jobs.rs and the functions of       *)
(* src/src/daemon.rs that drive them).  A checkpoint of an agent that can  *)
(* retry is first a row of a SQLite table; a family sequencer entry (live) *)
(* or the recovery pass (recovery) then claims the row under a lease,      *)
(* writes the repository's working log, and publishes the row's metrics    *)
(* with the transition to done.  Daemon generations follow one another     *)
(* under a lock file, but the blocking threads of a generation that has    *)
(* released the lock go on until its process ends.                         *)
(*                                                                         *)
(* The wall clock is left out: a lease is fresh or has expired, a backoff  *)
(* is running or has elapsed, and each may change at any moment.  Payloads *)
(* are left out too: a row is prepared or not, applied or not.             *)
(***************************************************************************)
EXTENDS Naturals, Sequences, FiniteSets, SequencesExt

CONSTANTS
  Jobs,          \* job keys (deterministic in repository, session, call and phase)
  Repos,         \* repository identities
  RepoOf,        \* the repository of a job
  PreOf,         \* the pre job a post job belongs to, or NoJob
  NoJob,
  Generations,   \* daemon processes, numbered in the order they start
  MaxEntries,    \* bound: admitted live entries of a repository in one daemon
  MaxFaults,     \* bound: transient errors of executions and releases
  StallsInPublication  \* may a lease run out between its renewal and the write it fences?

ASSUME JobsAssumption ==
  /\ RepoOf \in [Jobs -> Repos]
  /\ NoJob \notin Jobs
  /\ PreOf \in [Jobs -> Jobs \cup {NoJob}]
  /\ Generations \in SUBSET Nat
  /\ MaxEntries \in Nat
  /\ MaxFaults \in Nat
  /\ StallsInPublication \in BOOLEAN

VARIABLES
  row,       \* the table deferred_checkpoint_jobs
  nextId,    \* its AUTOINCREMENT
  outbox,    \* metric insertions made for each job
  log,       \* each repository's working log: the traces of its checkpoints
  archive,   \* checkpoints moved aside by an operator's repair
  daemon,    \* life of each generation
  entries,   \* admitted live checkpoints not executed yet, in sequencer order
  exec,      \* executions of process_specific_job
  faults     \* the transient errors so far, and the admissions kept by a
             \* failed release

vars == <<row, nextId, outbox, log, archive, daemon, entries, exec, faults>>

Kinds == {"live", "recovery"}
Executors == Generations \X Kinds
NoOwner == 0
NoToken == <<0, "live">>

Row == [id: Nat, state: {"absent", "pending", "processing", "done"},
        blocked: BOOLEAN, owner: Generations \cup {NoOwner}, due: BOOLEAN,
        token: Executors \cup {NoToken}, fresh: BOOLEAN,
        prepared: BOOLEAN, applied: BOOLEAN, abandoned: BOOLEAN]

(* An execution: where it is, what it loaded with its claim, whether the     *)
(* recovery pass could not resolve the repository, and the working log it    *)
(* read before writing it back.                                              *)
Steps == {"idle", "scheduled", "claimed", "prepared", "publishing", "read",
          "written", "applied", "releasing"}
Exec == [pc: Steps, preflight: BOOLEAN, prepared: BOOLEAN, applied: BOOLEAN,
         seen: Seq(Jobs)]

NoExec == [pc |-> "idle", preflight |-> FALSE, prepared |-> FALSE,
           applied |-> FALSE, seen |-> <<>>]
NoRow == [id |-> 0, state |-> "absent", blocked |-> FALSE, owner |-> NoOwner,
          due |-> FALSE, token |-> NoToken, fresh |-> FALSE,
          prepared |-> FALSE, applied |-> FALSE, abandoned |-> FALSE]

TypeOK ==
  /\ row \in [Jobs -> Row]
  /\ nextId \in Nat
  /\ outbox \in [Jobs -> Nat]
  /\ log \in [Repos -> Seq(Jobs)]
  /\ archive \in [Repos -> SUBSET Jobs]
  /\ daemon \in [Generations -> {"new", "up", "draining", "dead"}]
  /\ entries \in [Generations -> [Repos -> Seq(Jobs)]]
  /\ exec \in [Executors -> [Jobs -> Exec]]
  /\ faults \in [count: Nat, kept: SUBSET (Generations \X Jobs)]

Init ==
  /\ row = [j \in Jobs |-> NoRow]
  /\ nextId = 1
  /\ outbox = [j \in Jobs |-> 0]
  /\ log = [r \in Repos |-> <<>>]
  /\ archive = [r \in Repos |-> {}]
  /\ daemon = [g \in Generations |-> "new"]
  /\ entries = [g \in Generations |-> [r \in Repos |-> <<>>]]
  /\ exec = [x \in Executors |-> [j \in Jobs |-> NoExec]]
  /\ faults = [count |-> 0, kept |-> {}]

-----------------------------------------------------------------------------
(* State formulas.                                                          *)

Outstanding(j) == row[j].state \in {"pending", "processing"}

(* NOT EXISTS prior row of the same repository with state != 'done'.        *)
HeadOfRepo(j) ==
  \A i \in Jobs : /\ RepoOf[i] = RepoOf[j]
                  /\ Outstanding(i)
                  => row[i].id >= row[j].id

(* The WHERE clause of claim_on_connection; a live execution bypasses the   *)
(* backoff of a pending row.                                                *)
Claimable(j, bypass) ==
  /\ ~row[j].blocked
  /\ \/ row[j].state = "pending" /\ (row[j].due \/ bypass)
     \/ row[j].state = "processing" /\ ~row[j].fresh
  /\ HeadOfRepo(j)

(* The WHERE clause of due_recovery_requests_on_connection.                 *)
DueForRecovery(g, j) == row[j].owner # g /\ Claimable(j, FALSE)

(* WHERE state = 'processing' AND lease_token = ?                           *)
Owns(x, j) == row[j].state = "processing" /\ row[j].token = x

(* checkpoint_job_execution_lock: one execution of a job per process.       *)
Locks(x, j) == exec[x][j].pc \notin {"idle", "scheduled", "releasing"}
ExecutionLockFree(g, j) == \A k \in Kinds : ~Locks(<<g, k>>, j)

Alive(g) == daemon[g] \in {"up", "draining"}
LockFree == \A g \in Generations : daemon[g] # "up"

Go(x, j, pc) == exec' = [exec EXCEPT ![x][j].pc = pc]

(* Mutant: a failed live execution keeps its admission.                     *)
EndKeepingOwner(x, j, failed) == exec' = [exec EXCEPT ![x][j] = NoExec]

(* A live execution ends by releasing the admission it came from when it    *)
(* failed; a recovery just ends.                                            *)
End(x, j, failed) ==
  exec' = [exec EXCEPT ![x][j] =
             [NoExec EXCEPT !.pc = IF failed /\ x[2] = "live"
                                   THEN "releasing" ELSE "idle"]]

-----------------------------------------------------------------------------
(* Daemon generations.                                                      *)

Start(g) ==
  /\ daemon[g] = "new"
  /\ LockFree
  /\ \A h \in Generations : h < g => daemon[h] # "new"
  /\ daemon' = [daemon EXCEPT ![g] = "up"]
  /\ UNCHANGED <<row, nextId, outbox, log, archive, entries, exec, faults>>

(* The bound on generations: the last one is assumed to stay up.            *)
HasSuccessor(g) == \E h \in Generations : h > g

(* run_daemon returns and drops the lock; executions under way run on in    *)
(* blocking threads, the admitted entries and the scheduled recoveries      *)
(* never start.                                                             *)
Shutdown(g) ==
  /\ daemon[g] = "up"
  /\ HasSuccessor(g)
  /\ daemon' = [daemon EXCEPT ![g] = "draining"]
  /\ entries' = [entries EXCEPT ![g] = [r \in Repos |-> <<>>]]
  /\ exec' = [x \in Executors |-> [j \in Jobs |->
                IF x[1] = g /\ exec[x][j].pc = "scheduled"
                THEN NoExec ELSE exec[x][j]]]
  /\ UNCHANGED <<row, nextId, outbox, log, archive, faults>>

(* A crash, or the end of the process.                                      *)
Kill(g) ==
  /\ Alive(g)
  /\ HasSuccessor(g)
  /\ daemon' = [daemon EXCEPT ![g] = "dead"]
  /\ entries' = [entries EXCEPT ![g] = [r \in Repos |-> <<>>]]
  /\ exec' = [x \in Executors |-> IF x[1] = g THEN [j \in Jobs |-> NoExec]
                                              ELSE exec[x]]
  /\ UNCHANGED <<row, nextId, outbox, log, archive, faults>>

-----------------------------------------------------------------------------
(* Admission: enqueue_on_connection by prepare_checkpoint_admission.  A     *)
(* post needs an unblocked pre row; a row that is there already keeps its   *)
(* place, and a pending one is owned by the daemon that admits it again.    *)

Enqueue(g, j) ==
  /\ daemon[g] = "up"
  /\ Len(entries[g][RepoOf[j]]) < MaxEntries
  /\ PreOf[j] # NoJob => /\ row[PreOf[j]].state # "absent"
                         /\ ~row[PreOf[j]].blocked
  /\ IF row[j].state = "absent"
     THEN /\ row' = [row EXCEPT ![j] =
                       [NoRow EXCEPT !.id = nextId, !.state = "pending",
                                     !.owner = g, !.due = TRUE]]
          /\ nextId' = nextId + 1
     ELSE /\ row' = IF row[j].state = "pending" /\ ~row[j].blocked
                    THEN [row EXCEPT ![j].owner = g] ELSE row
          /\ UNCHANGED nextId
  /\ entries' = [entries EXCEPT ![g][RepoOf[j]] = Append(@, j)]
  /\ faults' = [faults EXCEPT !.kept = @ \ {<<g, j>>}]
  /\ UNCHANGED <<outbox, log, archive, daemon, exec>>

(* One database statement of claim_on_connection, with load_claimed_job.    *)
ClaimRow(x, j) ==
  /\ row' = [row EXCEPT ![j].state = "processing", ![j].token = x,
                        ![j].fresh = TRUE, ![j].owner = NoOwner]
  /\ exec' = [exec EXCEPT ![x][j] = [pc |-> "claimed", preflight |-> @.preflight,
                                     prepared |-> row[j].prepared,
                                     applied |-> row[j].applied, seen |-> <<>>]]

(* The admitted checkpoints of a repository are executed one at a time.      *)
LiveTurn(g, j) ==
  /\ daemon[g] = "up"
  /\ entries[g][RepoOf[j]] # <<>> /\ Head(entries[g][RepoOf[j]]) = j
  /\ \A i \in Jobs : RepoOf[i] = RepoOf[j] => exec[<<g, "live">>][i].pc = "idle"

(* process_specific_job for an admitted checkpoint whose turn it is.        *)
LiveClaim(g, j) ==
  /\ LiveTurn(g, j) /\ ExecutionLockFree(g, j)
  /\ Claimable(j, TRUE)
  /\ ClaimRow(<<g, "live">>, j)
  /\ entries' = [entries EXCEPT ![g][RepoOf[j]] = Tail(@)]
  /\ UNCHANGED <<nextId, outbox, log, archive, daemon, faults>>

(* The row is done, blocked or abandoned, or the 1.5 s deadline passes      *)
(* behind an earlier row or another lease.                                  *)
LiveGiveUp(g, j) ==
  /\ LiveTurn(g, j) /\ ExecutionLockFree(g, j)
  /\ ~Claimable(j, TRUE)
  /\ End(<<g, "live">>, j, row[j].state # "done" \/ row[j].blocked)
  /\ entries' = [entries EXCEPT ![g][RepoOf[j]] = Tail(@)]
  /\ UNCHANGED <<row, nextId, outbox, log, archive, daemon, faults>>

Faulty == faults.count < MaxFaults
CountFault == faults' = [faults EXCEPT !.count = @ + 1]

(* A fault that a failed release is part of: the pending row keeps its      *)
(* owner.                                                                   *)
KeepAdmission(g, j) ==
  faults' = [count |-> faults.count + 1, kept |-> faults.kept \cup {<<g, j>>}]

(* An error before the claim: the family's registration, status_global or   *)
(* claim_specific_global fails.  The fault may last: then the release of    *)
(* the admission that follows fails too.                                    *)
LiveFault(g, j, lasts) ==
  /\ LiveTurn(g, j) /\ Faulty
  /\ IF lasts THEN KeepAdmission(g, j) /\ UNCHANGED exec
              ELSE CountFault /\ End(<<g, "live">>, j, TRUE)
  /\ entries' = [entries EXCEPT ![g][RepoOf[j]] = Tail(@)]
  /\ UNCHANGED <<row, nextId, outbox, log, archive, daemon>>

(* release_admission_owner after a failed live execution.                   *)
ReleaseOwner(g, j) ==
  LET x == <<g, "live">> IN
  /\ exec[x][j].pc = "releasing"
  /\ row' = IF row[j].state = "pending" /\ row[j].owner = g
            THEN [row EXCEPT ![j].owner = NoOwner] ELSE row
  /\ Go(x, j, "idle")
  /\ UNCHANGED <<nextId, outbox, log, archive, daemon, entries, faults>>

(* Its error is logged and nothing tries again.  (At the deadline of a live *)
(* execution it is tried twice; this stands for both failures.)             *)
ReleaseFails(g, j) ==
  LET x == <<g, "live">> IN
  /\ exec[x][j].pc = "releasing" /\ Faulty
  /\ KeepAdmission(g, j)
  /\ Go(x, j, "idle")
  /\ UNCHANGED <<row, nextId, outbox, log, archive, daemon, entries>>

-----------------------------------------------------------------------------
(* recover_deferred_checkpoint_jobs: a pass scans the due rows, sends each  *)
(* to its family, or, when its repository cannot be resolved, to be blocked *)
(* only, and waits for its result before it turns to the next.              *)

Schedule(g, j, preflight) ==
  LET x == <<g, "recovery">> IN
  /\ daemon[g] = "up"
  /\ exec[x][j].pc = "idle"
  /\ DueForRecovery(g, j)
  /\ preflight => ~row[j].applied
  /\ exec' = [exec EXCEPT ![x][j].pc = "scheduled", ![x][j].preflight = preflight]
  /\ UNCHANGED <<row, nextId, outbox, log, archive, daemon, entries, faults>>

RecoveryClaim(g, j) ==
  LET x == <<g, "recovery">> IN
  /\ exec[x][j].pc = "scheduled"
  /\ \A i \in Jobs : ~Locks(x, i)
  /\ ExecutionLockFree(g, j)
  /\ Claimable(j, FALSE)
  /\ ClaimRow(x, j)
  /\ UNCHANGED <<nextId, outbox, log, archive, daemon, entries, faults>>

RecoveryGiveUp(g, j) ==
  LET x == <<g, "recovery">> IN
  /\ exec[x][j].pc = "scheduled"
  /\ \A i \in Jobs : ~Locks(x, i)
  /\ ExecutionLockFree(g, j)
  /\ ~Claimable(j, FALSE)
  /\ End(x, j, FALSE)
  /\ UNCHANGED <<row, nextId, outbox, log, archive, daemon, entries, faults>>

(* An error before the claim; the next pass finds the row again.            *)
RecoveryFault(g, j) ==
  LET x == <<g, "recovery">> IN
  /\ exec[x][j].pc = "scheduled" /\ Faulty
  /\ \A i \in Jobs : ~Locks(x, i)
  /\ End(x, j, TRUE)
  /\ CountFault
  /\ UNCHANGED <<row, nextId, outbox, log, archive, daemon, entries>>

-----------------------------------------------------------------------------
(* process_claimed_durable_checkpoint_job, one action per durable step.  A  *)
(* step whose fence finds the lease gone can only fail.                     *)

MayPublish(x, j) == ~exec[x][j].applied /\ ~exec[x][j].preflight

PersistPrepared(x, j) ==
  /\ exec[x][j].pc = "claimed"
  /\ MayPublish(x, j)
  /\ ~exec[x][j].prepared
  /\ Owns(x, j)
  /\ ~row[j].prepared
  /\ row' = [row EXCEPT ![j].prepared = TRUE]
  /\ Go(x, j, "prepared")
  /\ UNCHANGED <<nextId, outbox, log, archive, daemon, entries, faults>>

(* Mutant: the lease is refreshed whoever holds it.                         *)
RenewsAnyLease(x, j) == row[j].state = "processing"

(* The WHERE clause of renew_processing_lease_on_connection.                *)
Renews(x, j) == Owns(x, j) /\ ~row[j].blocked

(* The renewal that fences the publication.                                 *)
RenewForPublication(x, j) ==
  /\ \/ exec[x][j].pc = "prepared"
     \/ exec[x][j].pc = "claimed" /\ exec[x][j].prepared /\ MayPublish(x, j)
  /\ Renews(x, j)
  /\ row' = [row EXCEPT ![j].fresh = TRUE]
  /\ Go(x, j, "publishing")
  /\ UNCHANGED <<nextId, outbox, log, archive, daemon, entries, faults>>

(* append_checkpoint_idempotent: read the whole log, then replace the file  *)
(* unless the trace is in it.                                               *)
ReadLog(x, j) ==
  /\ exec[x][j].pc = "publishing"
  /\ exec' = [exec EXCEPT ![x][j].pc = "read", ![x][j].seen = log[RepoOf[j]]]
  /\ UNCHANGED <<row, nextId, outbox, log, archive, daemon, entries, faults>>

(* Mutant: the append of a replayed job is not idempotent.                  *)
NewLogBlind(old, seen, j) == Append(seen, j)

NewLog(old, seen, j) == IF Contains(seen, j) THEN old ELSE Append(seen, j)

WriteLog(x, j) ==
  /\ exec[x][j].pc = "read"
  /\ log' = [log EXCEPT ![RepoOf[j]] = NewLog(@, exec[x][j].seen, j)]
  /\ exec' = [exec EXCEPT ![x][j].pc = "written", ![x][j].seen = <<>>]
  /\ UNCHANGED <<row, nextId, outbox, archive, daemon, entries, faults>>

(* Mutant: the publication is recorded before it is made.                   *)
MarkAppliedEarly(x, j) ==
  /\ exec[x][j].pc = "publishing"
  /\ Owns(x, j)
  /\ row' = [row EXCEPT ![j].applied = TRUE]
  /\ Go(x, j, "applied")
  /\ UNCHANGED <<nextId, outbox, log, archive, daemon, entries, faults>>

MarkApplied(x, j) ==
  /\ exec[x][j].pc = "written"
  /\ Owns(x, j)
  /\ row[j].prepared
  /\ row' = [row EXCEPT ![j].applied = TRUE]
  /\ Go(x, j, "applied")
  /\ UNCHANGED <<nextId, outbox, log, archive, daemon, entries, faults>>

(* Mutant: completion does not compare the lease token.                     *)
CompletesAnyLease(x, j) == row[j].applied

(* What complete_on_connection selects and requires.                        *)
Completes(x, j) == Owns(x, j) /\ row[j].applied

(* complete_on_connection: the metrics and the tombstone in one transaction.*)
Complete(x, j) ==
  /\ \/ exec[x][j].pc = "applied"
     \/ exec[x][j].pc = "claimed" /\ exec[x][j].applied
  /\ Completes(x, j)
  /\ outbox' = [outbox EXCEPT ![j] = @ + 1]
  /\ row' = [row EXCEPT ![j].state = "done", ![j].token = NoToken,
                        ![j].fresh = FALSE, ![j].prepared = FALSE]
  /\ End(x, j, FALSE)
  /\ UNCHANGED <<nextId, log, archive, daemon, entries, faults>>

(* Mutant: a failed attempt leaves a state that no statement selects.       *)
MarkFailedForGood(x, j) ==
  row' = IF Owns(x, j)
         THEN [row EXCEPT ![j].state = "failed", ![j].due = FALSE,
                          ![j].token = NoToken, ![j].fresh = FALSE]
         ELSE row

(* process_claimed_job on an error: mark_failed, under the token.           *)
MarkFailed(x, j) ==
  row' = IF Owns(x, j)
         THEN [row EXCEPT ![j].state = "pending", ![j].due = FALSE,
                          ![j].token = NoToken, ![j].fresh = FALSE]
         ELSE row

LostLease(x, j) ==
  /\ exec[x][j].pc \in {"claimed", "prepared", "written", "applied"}
  /\ ~Owns(x, j)
  /\ MarkFailed(x, j)
  /\ End(x, j, TRUE)
  /\ UNCHANGED <<nextId, outbox, log, archive, daemon, entries, faults>>

TransientError(x, j) ==
  /\ Locks(x, j) /\ Faulty
  /\ MarkFailed(x, j) \/ UNCHANGED row  \* the failure itself may not be recorded
  /\ End(x, j, TRUE)
  /\ CountFault
  /\ UNCHANGED <<nextId, outbox, log, archive, daemon, entries>>

(* mark_blocked: the frozen evidence cannot be verified any more (the       *)
(* repository moved, its base commit is gone, its baseline is corrupt).     *)
EvidenceError(x, j) ==
  /\ exec[x][j].pc \in {"claimed", "publishing"}
  /\ ~exec[x][j].applied
  /\ row' = IF Owns(x, j)
            THEN [row EXCEPT ![j].state = "pending", ![j].blocked = TRUE,
                             ![j].token = NoToken, ![j].fresh = FALSE]
            ELSE row
  /\ End(x, j, TRUE)
  /\ UNCHANGED <<nextId, outbox, log, archive, daemon, entries, faults>>

-----------------------------------------------------------------------------
(* Time.                                                                    *)

(* ProcessingLeaseHeartbeat, every third of the lease.                      *)
Heartbeat(x, j) ==
  /\ Locks(x, j)
  /\ Renews(x, j)
  /\ ~row[j].fresh
  /\ row' = [row EXCEPT ![j].fresh = TRUE]
  /\ UNCHANGED <<nextId, outbox, log, archive, daemon, entries, exec, faults>>

Holds(x, j) == Owns(x, j) /\ Locks(x, j)
Publishing(x, j) == exec[x][j].pc \in {"publishing", "read"}

(* The lease passes with no renewal: its holder is gone.                    *)
ExpireOrphan(j) ==
  /\ row[j].state = "processing" /\ row[j].fresh
  /\ \A x \in Executors : ~Holds(x, j)
  /\ row' = [row EXCEPT ![j].fresh = FALSE]
  /\ UNCHANGED <<nextId, outbox, log, archive, daemon, entries, exec, faults>>

(* The lease passes under a holder that is alive: the process was stopped,  *)
(* or its heartbeats failed.                                                *)
ExpireHeld(x, j) ==
  /\ Holds(x, j) /\ row[j].fresh
  /\ Publishing(x, j) => StallsInPublication
  /\ row' = [row EXCEPT ![j].fresh = FALSE]
  /\ UNCHANGED <<nextId, outbox, log, archive, daemon, entries, exec, faults>>

BackoffElapses(j) ==
  /\ row[j].state = "pending" /\ ~row[j].due
  /\ row' = [row EXCEPT ![j].due = TRUE]
  /\ UNCHANGED <<nextId, outbox, log, archive, daemon, entries, exec, faults>>

-----------------------------------------------------------------------------
(* git-ai repair checkpoint-baseline, confirmed: with the daemon lock held, *)
(* the first outstanding job of a repository is blocked, and the whole      *)
(* FIFO of that repository is abandoned; when the corrupt evidence is the   *)
(* working log's own baseline, the log is moved to the backup.              *)

Repair(j, archives) ==
  LET r == RepoOf[j] IN
  /\ LockFree
  /\ Outstanding(j) /\ row[j].blocked /\ HeadOfRepo(j)
  /\ row' = [i \in Jobs |->
               IF RepoOf[i] = r /\ Outstanding(i)
               THEN [row[i] EXCEPT !.state = "done", !.blocked = TRUE,
                                   !.abandoned = TRUE, !.owner = NoOwner,
                                   !.token = NoToken, !.fresh = FALSE]
               ELSE row[i]]
  /\ log' = IF archives THEN [log EXCEPT ![r] = <<>>] ELSE log
  /\ archive' = IF archives THEN [archive EXCEPT ![r] = @ \cup ToSet(log[r])]
                            ELSE archive
  /\ UNCHANGED <<nextId, outbox, daemon, entries, exec, faults>>

-----------------------------------------------------------------------------
ExecStep(x, j) ==
  \/ PersistPrepared(x, j) \/ RenewForPublication(x, j)
  \/ ReadLog(x, j) \/ WriteLog(x, j) \/ MarkApplied(x, j) \/ Complete(x, j)
  \/ LostLease(x, j)
  \/ exec[x][j].preflight /\ EvidenceError(x, j)

LiveStep(g, j) == LiveClaim(g, j) \/ LiveGiveUp(g, j) \/ ReleaseOwner(g, j)
RecoveryStep(g, j) ==
  \/ \E preflight \in BOOLEAN : Schedule(g, j, preflight)
  \/ RecoveryClaim(g, j) \/ RecoveryGiveUp(g, j)

Next ==
  \/ \E g \in Generations : Start(g) \/ Shutdown(g) \/ Kill(g)
  \/ \E g \in Generations, j \in Jobs :
       \/ Enqueue(g, j) \/ LiveStep(g, j) \/ RecoveryStep(g, j)
       \/ \E lasts \in BOOLEAN : LiveFault(g, j, lasts)
       \/ ReleaseFails(g, j) \/ RecoveryFault(g, j)
  \/ \E x \in Executors, j \in Jobs :
       \/ ExecStep(x, j) \/ TransientError(x, j) \/ EvidenceError(x, j)
       \/ Heartbeat(x, j) \/ ExpireHeld(x, j)
  \/ \E j \in Jobs :
       \/ ExpireOrphan(j) \/ BackoffElapses(j)
       \/ \E archives \in BOOLEAN : Repair(j, archives)

Spec == Init /\ [][Next]_vars

(* What runs by itself: the process supervisor brings a daemon back, the    *)
(* sequencer runs admitted entries, the recovery worker scans every three   *)
(* seconds, an execution's thread goes on, the clock passes deadlines.      *)
(* Nothing is fair about clients, errors, crashes, stalls or operators.     *)
Fairness ==
  /\ WF_vars(\E g \in Generations : Start(g))
  /\ \A g \in Generations, j \in Jobs :
       WF_vars(LiveStep(g, j)) /\ WF_vars(RecoveryStep(g, j))
  /\ \A x \in Executors, j \in Jobs : WF_vars(ExecStep(x, j))
  /\ \A j \in Jobs : WF_vars(ExpireOrphan(j)) /\ WF_vars(BackoffElapses(j))

FairSpec == Spec /\ Fairness

-----------------------------------------------------------------------------
(* Properties.                                                              *)

(* A working log never holds a checkpoint twice, and holds the checkpoints  *)
(* of its repository in the order they were admitted, whatever crashes,     *)
(* reclaimed leases and replays there were between the write of the log and *)
(* the record of it (append_checkpoint_idempotent, claim_on_connection).    *)
LogOnceInOrder ==
  \A r \in Repos : \A m, n \in DOMAIN log[r] :
    m < n => row[log[r][m]].id < row[log[r][n]].id

(* A job that is recorded as applied, and one that finished normally, is in *)
(* the working log or in the backup of an operator's repair: no other       *)
(* execution has written an older copy of the log over it.                  *)
PublicationKept ==
  \A j \in Jobs : row[j].applied => \/ Contains(log[RepoOf[j]], j)
                                    \/ j \in archive[RepoOf[j]]

(* The metrics of a job are inserted exactly once, with its normal end, and *)
(* never for an abandoned one: an execution that lost its lease to another  *)
(* cannot publish them again (complete_on_connection).                      *)
MetricsOnce ==
  \A j \in Jobs :
    outbox[j] = IF row[j].state = "done" /\ ~row[j].abandoned THEN 1 ELSE 0

(* Between the renewed lease and the write of the log no other execution,   *)
(* of this daemon generation or another, of this job or a later one, is in  *)
(* the same place for the same repository.                                  *)
OnePublisher ==
  \A x, y \in Executors, i, j \in Jobs :
    /\ Publishing(x, i) /\ Publishing(y, j) /\ RepoOf[i] = RepoOf[j]
    => x = y /\ i = j

HeldByEvidence(j) ==
  \E i \in Jobs : /\ RepoOf[i] = RepoOf[j] /\ row[i].id <= row[j].id
                  /\ Outstanding(i) /\ row[i].blocked

(* The release of a failed live execution's admission failed as well, and   *)
(* the daemon that owns the pending row still runs: its recovery skips it.  *)
Stranded(i) ==
  \E g \in Generations : /\ row[i].state = "pending" /\ row[i].owner = g
                         /\ <<g, i>> \in faults.kept /\ daemon[g] = "up"

HeldByStranded(j) ==
  \E i \in Jobs : RepoOf[i] = RepoOf[j] /\ row[i].id <= row[j].id /\ Stranded(i)

(* Every admitted job is finished in the end, waits behind a job of its     *)
(* repository whose evidence is blocked, or behind one whose live execution *)
(* and the release after it both failed, until the daemon that owns the row *)
(* ends: no crash, lost lease, or failed attempt leaves any other row that  *)
(* nobody will pick up.                                                     *)
JobsSettle ==
  \A j \in Jobs : (row[j].state # "absent")
    ~> (row[j].state = "done" \/ HeldByEvidence(j) \/ HeldByStranded(j))
=============================================================================
