-------------------- MODULE DeferredCheckpointJobsProofs --------------------
(***************************************************************************)
(* The rows of the durable checkpoint jobs, for any jobs, repositories,    *)
(* daemon generations and faults: types, unique ids in order, claims only  *)
(* at the head of a repository, and metrics published once. Then their     *)
(* working logs, as long as no execution is stopped for a whole lease      *)
(* between the renewal that fences its publication and the write: one      *)
(* publisher per repository, what is applied stays, nothing twice or out   *)
(* of order.                                                               *)
(***************************************************************************)
EXTENDS DeferredCheckpointJobs, TLAPS

Present(j) == row[j].state # "absent"
Processing(j) == row[j].state = "processing"

(* Row ids are given out in order and once.                                 *)
Ids == /\ \A j \in Jobs : Present(j) => row[j].id < nextId
       /\ \A i, j \in Jobs : Present(i) /\ Present(j) /\ i # j => row[i].id # row[j].id

(* A claimed row is the first outstanding one of its repository, and its    *)
(* evidence is not blocked.                                                 *)
Heads == \A j \in Jobs : Processing(j) => ~row[j].blocked /\ HeadOfRepo(j)

(* Only a finished row is abandoned.                                        *)
Abandoned == \A j \in Jobs : row[j].abandoned => row[j].state = "done"

RowInv == TypeOK /\ Ids /\ Heads /\ Abandoned /\ MetricsOnce

-----------------------------------------------------------------------------
(* What the building blocks of the actions do.                              *)

RowsTyped == row \in [Jobs -> Row]
ExecsTyped == exec \in [Executors -> [Jobs -> Exec]]

OtherRows(j) == \A i \in Jobs \ {j} : row'[i] = row[i]
OtherExecs(x, j) ==
  \A y \in Executors, i \in Jobs : <<y, i>> # <<x, j>> => exec'[y][i] = exec[y][i]

(* Both executions of a generation are executors.                           *)
LEMMA Both == \A g \in Generations : /\ <<g, "live">> \in Executors
                                     /\ <<g, "recovery">> \in Executors
BY DEF Executors, Kinds

(* An execution is replaced as a whole.                                     *)
LEMMA ExecReplaced ==
  ASSUME ExecsTyped, NEW x \in Executors, NEW j \in Jobs, NEW e \in Exec,
         exec' = [exec EXCEPT ![x][j] = e]
  PROVE  ExecsTyped' /\ exec'[x][j] = e /\ OtherExecs(x, j)
<1>1. exec[x] \in [Jobs -> Exec] /\ exec' = [exec EXCEPT ![x] = [exec[x] EXCEPT ![j] = e]]
  BY DEF ExecsTyped
<1>2. [exec[x] EXCEPT ![j] = e] \in [Jobs -> Exec]
  BY <1>1
<1>3. exec'[x] = [exec[x] EXCEPT ![j] = e] /\ \A y \in Executors \ {x} : exec'[y] = exec[y]
  BY <1>1 DEF ExecsTyped
<1>4. ExecsTyped'
  BY <1>1, <1>2 DEF ExecsTyped
<1>5. \A i \in Jobs : exec'[x][i] = IF i = j THEN e ELSE exec[x][i]
  BY <1>1, <1>3
<1>6. OtherExecs(x, j)
  BY <1>3, <1>5 DEF OtherExecs
<1> QED BY <1>4, <1>5, <1>6

(* An execution moves on.                                                   *)
LEMMA GoEffect ==
  ASSUME ExecsTyped, NEW x \in Executors, NEW j \in Jobs, NEW pc \in Steps, Go(x, j, pc)
  PROVE  /\ ExecsTyped' /\ OtherExecs(x, j)
         /\ exec'[x][j].pc = pc /\ exec'[x][j].seen = exec[x][j].seen
<1> DEFINE e == [exec[x][j] EXCEPT !.pc = pc]
<1>1. exec[x][j] \in Exec
  BY DEF ExecsTyped
<1>2. e \in Exec /\ e.pc = pc /\ e.seen = exec[x][j].seen
  BY <1>1 DEF Exec
<1>3. exec' = [exec EXCEPT ![x][j] = e]
  BY DEF Go
<1> HIDE DEF e
<1> QED BY <1>2, <1>3, ExecReplaced

(* An execution ends; a failed live one has its admission to release.       *)
LEMMA EndEffect ==
  ASSUME ExecsTyped, NEW x \in Executors, NEW j \in Jobs, NEW failed, End(x, j, failed)
  PROVE  /\ ExecsTyped' /\ OtherExecs(x, j)
         /\ exec'[x][j].pc \in {"idle", "releasing"}
<1> DEFINE e == [NoExec EXCEPT !.pc = IF failed /\ x[2] = "live" THEN "releasing" ELSE "idle"]
<1>1. e \in Exec /\ e.pc \in {"idle", "releasing"}
  <2>1. <<>> \in Seq(Jobs)
    OBVIOUS
  <2>2. PICK pc \in {"idle", "releasing"} : e = [NoExec EXCEPT !.pc = pc]
    OBVIOUS
  <2> QED BY <2>1, <2>2 DEF Exec, NoExec, Steps
<1>2. exec' = [exec EXCEPT ![x][j] = e]
  BY DEF End
<1> HIDE DEF e
<1> QED BY <1>1, <1>2, ExecReplaced

(* A row is replaced as a whole.                                            *)
LEMMA RowReplaced ==
  ASSUME RowsTyped, NEW j \in Jobs, NEW q \in Row, row' = [row EXCEPT ![j] = q]
  PROVE  RowsTyped' /\ row'[j] = q /\ OtherRows(j)
BY DEF RowsTyped, OtherRows

(* Columns that say nothing about who holds a row or how far it is.         *)
Keeps(i) == /\ row'[i].id = row[i].id /\ row'[i].state = row[i].state
            /\ row'[i].blocked = row[i].blocked /\ row'[i].abandoned = row[i].abandoned

(* A claim.                                                                 *)
LEMMA ClaimEffect ==
  ASSUME RowsTyped, ExecsTyped, NEW x \in Executors, NEW j \in Jobs, ClaimRow(x, j)
  PROVE  /\ RowsTyped' /\ ExecsTyped' /\ OtherRows(j) /\ OtherExecs(x, j)
         /\ row'[j].id = row[j].id /\ row'[j].state = "processing"
         /\ row'[j].blocked = row[j].blocked /\ row'[j].abandoned = row[j].abandoned
         /\ row'[j].applied = row[j].applied
         /\ exec'[x][j].pc = "claimed"
<1> DEFINE q == [row[j] EXCEPT !.state = "processing", !.token = x, !.fresh = TRUE,
                               !.owner = NoOwner]
           e == [pc |-> "claimed", preflight |-> exec[x][j].preflight,
                 prepared |-> row[j].prepared, applied |-> row[j].applied, seen |-> <<>>]
<1>1. row[j] \in Row /\ exec[x][j] \in Exec
  BY DEF RowsTyped, ExecsTyped
<1>2. /\ q \in Row
      /\ q.id = row[j].id /\ q.state = "processing"
      /\ q.blocked = row[j].blocked /\ q.abandoned = row[j].abandoned
      /\ q.applied = row[j].applied
  BY <1>1 DEF Row, NoOwner
<1>3. e \in Exec /\ e.pc = "claimed"
  BY <1>1 DEF Row, Exec, Steps
<1>4. row' = [row EXCEPT ![j] = q] /\ exec' = [exec EXCEPT ![x][j] = e]
  BY DEF ClaimRow
<1> HIDE DEF q, e
<1>5. RowsTyped' /\ row'[j] = q /\ OtherRows(j)
  BY <1>2, <1>4, RowReplaced
<1>6. ExecsTyped' /\ exec'[x][j] = e /\ OtherExecs(x, j)
  BY <1>3, <1>4, ExecReplaced
<1> QED BY <1>2, <1>3, <1>5, <1>6

(* A failure, recorded under the token or not at all.                       *)
LEMMA FailEffect ==
  ASSUME RowsTyped, NEW x \in Executors, NEW j \in Jobs, MarkFailed(x, j)
  PROVE  /\ RowsTyped' /\ OtherRows(j)
         /\ row'[j].id = row[j].id
         /\ row'[j].blocked = row[j].blocked /\ row'[j].abandoned = row[j].abandoned
         /\ row'[j].applied = row[j].applied
         /\ IF Owns(x, j) THEN row'[j].state = "pending" ELSE row'[j] = row[j]
<1>1. row[j] \in Row
  BY DEF RowsTyped
<1>2. CASE Owns(x, j)
  <2> DEFINE q == [row[j] EXCEPT !.state = "pending", !.due = FALSE,
                                 !.token = NoToken, !.fresh = FALSE]
  <2>1. /\ q \in Row
        /\ q.id = row[j].id /\ q.state = "pending"
        /\ q.blocked = row[j].blocked /\ q.abandoned = row[j].abandoned
        /\ q.applied = row[j].applied
    BY <1>1 DEF Row
  <2>2. row' = [row EXCEPT ![j] = q]
    BY <1>2 DEF MarkFailed
  <2> HIDE DEF q
  <2> QED BY <1>2, <2>1, <2>2, RowReplaced
<1>3. CASE ~Owns(x, j)
  BY <1>3 DEF MarkFailed, RowsTyped, OtherRows
<1> QED BY <1>2, <1>3

-----------------------------------------------------------------------------
(* What a step may do to a row: rows are created once, behind all others;   *)
(* claimed at the head of their repository; only a claimed one fails; only  *)
(* an outstanding one is finished, with its metrics or abandoned.           *)

SameOutbox(i) == outbox'[i] = outbox[i]

Created(i) == /\ ~Present(i) /\ SameOutbox(i) /\ OtherRows(i)
              /\ row'[i].id = nextId /\ nextId' = nextId + 1
              /\ row'[i].state = "pending" /\ ~row'[i].blocked /\ ~row'[i].abandoned

Claimed(i) == /\ Outstanding(i) /\ ~row[i].blocked /\ HeadOfRepo(i) /\ SameOutbox(i)
              /\ row'[i].id = row[i].id /\ row'[i].state = "processing"
              /\ row'[i].blocked = row[i].blocked /\ row'[i].abandoned = row[i].abandoned

Failed(i) == /\ Processing(i) /\ SameOutbox(i)
             /\ row'[i].id = row[i].id /\ row'[i].state = "pending"
             /\ row'[i].abandoned = row[i].abandoned

Finished(i) == /\ Outstanding(i)
               /\ row'[i].id = row[i].id /\ row'[i].state = "done"
               /\ \/ row'[i].abandoned /\ SameOutbox(i)
                  \/ row'[i].abandoned = row[i].abandoned /\ outbox'[i] = outbox[i] + 1

Evolves(i) == \/ Keeps(i) /\ SameOutbox(i)
              \/ Created(i) \/ Claimed(i) \/ Failed(i) \/ Finished(i)

Evolution == /\ \A i \in Jobs : Evolves(i)
             /\ nextId' \in {nextId, nextId + 1}

(* Such a step keeps the invariant of the rows.                             *)
LEMMA EvolutionKeeps ==
  ASSUME RowInv, TypeOK', Evolution
  PROVE  RowInv'
<1>t. nextId \in Nat /\ (\A i \in Jobs : row[i].id \in Nat /\ outbox[i] \in Nat)
  BY DEF RowInv, TypeOK, Row
<1>t2. \A i \in Jobs : row'[i].id \in Nat
  BY DEF TypeOK, Row
<1>t3. \A i \in Jobs : row'[i].abandoned \in BOOLEAN /\ row[i].abandoned \in BOOLEAN
  BY DEF RowInv, TypeOK, Row
<1>1. \A i \in Jobs : \/ row'[i].id = row[i].id /\ (Present(i) <=> Present(i)')
                      \/ Created(i)
  BY DEF Evolution, Evolves, Keeps, Claimed, Failed, Finished, Present, Processing, Outstanding
<1>2. Ids'
  <2>1. \A i \in Jobs : Present(i)' => row'[i].id < nextId'
    BY <1>t, <1>1 DEF RowInv, Ids, Evolution, Created
  <2>2. ASSUME NEW i \in Jobs, NEW j \in Jobs, Present(i)', Present(j)', i # j
        PROVE row'[i].id # row'[j].id
    <3>1. CASE Created(i)
      <4>1. row'[j] = row[j] /\ Present(j)
        BY <2>2, <3>1 DEF Created, OtherRows, Present
      <4> QED BY <1>t, <3>1, <4>1 DEF RowInv, Ids, Created
    <3>2. CASE Created(j)
      <4>1. row'[i] = row[i] /\ Present(i)
        BY <2>2, <3>2 DEF Created, OtherRows, Present
      <4> QED BY <1>t, <3>2, <4>1 DEF RowInv, Ids, Created
    <3>3. CASE ~Created(i) /\ ~Created(j)
      BY <1>1, <2>2, <3>3 DEF RowInv, Ids
    <3> QED BY <3>1, <3>2, <3>3
  <2> QED BY <2>1, <2>2 DEF Ids
<1>3. Heads'
  <2> SUFFICES ASSUME NEW j \in Jobs, Processing(j)'
               PROVE  ~row'[j].blocked /\ HeadOfRepo(j)'
    BY DEF Heads
  <2>1. /\ HeadOfRepo(j) /\ ~row[j].blocked /\ row'[j].blocked = row[j].blocked
        /\ row'[j].id = row[j].id /\ Present(j)
    <3>1. CASE Claimed(j)
      BY <3>1 DEF Claimed, Outstanding, Present
    <3>2. CASE Keeps(j)
      BY <3>2 DEF Keeps, RowInv, Heads, Processing, Present
    <3> QED BY <3>1, <3>2 DEF Evolution, Evolves, Created, Failed, Finished, Processing
  <2>2. ASSUME NEW i \in Jobs, RepoOf[i] = RepoOf[j], Outstanding(i)'
        PROVE row'[i].id >= row'[j].id
    <3>1. CASE Created(i)
      BY <1>t, <2>1, <3>1 DEF Created, RowInv, Ids
    <3>2. CASE ~Created(i)
      <4>1. Outstanding(i) /\ row'[i].id = row[i].id
        BY <2>2, <3>2 DEF Evolution, Evolves, Keeps, Claimed, Failed, Finished, Processing,
                          Outstanding
      <4> QED BY <2>1, <2>2, <4>1 DEF HeadOfRepo
    <3> QED BY <3>1, <3>2
  <2> QED BY <2>1, <2>2 DEF HeadOfRepo
<1>4. Abandoned'
  BY <1>t3 DEF Evolution, Evolves, Keeps, Created, Claimed, Failed, Finished, RowInv, Abandoned,
         Processing, Outstanding
<1>5. MetricsOnce'
  <2> SUFFICES ASSUME NEW j \in Jobs
               PROVE outbox'[j] = IF row'[j].state = "done" /\ ~row'[j].abandoned THEN 1 ELSE 0
    BY DEF MetricsOnce
  <2>1. /\ outbox[j] = IF row[j].state = "done" /\ ~row[j].abandoned THEN 1 ELSE 0
        /\ row[j].abandoned => row[j].state = "done"
    BY DEF RowInv, MetricsOnce, Abandoned
  <2>2. CASE Keeps(j) /\ SameOutbox(j)
    BY <2>1, <2>2 DEF Keeps, SameOutbox
  <2>3. CASE Created(j) \/ Claimed(j) \/ Failed(j)
    BY <2>1, <2>3 DEF Created, Claimed, Failed, SameOutbox, Present, Outstanding, Processing
  <2>4. CASE Finished(j)
    BY <2>1, <2>4 DEF Finished, SameOutbox, Outstanding
  <2> QED BY <2>2, <2>3, <2>4 DEF Evolution, Evolves
<1> QED BY <1>2, <1>3, <1>4, <1>5 DEF RowInv

(* A step that touches one row.                                             *)
LEMMA OneRow ==
  ASSUME NEW j \in Jobs, OtherRows(j), \A i \in Jobs \ {j} : SameOutbox(i), Evolves(j),
         nextId' \in {nextId, nextId + 1}
  PROVE  Evolution
BY DEF Evolution, Evolves, Keeps, OtherRows

(* A step that touches none.                                                *)
LEMMA NoRowTouched ==
  ASSUME UNCHANGED <<row, nextId, outbox>>
  PROVE  Evolution
BY DEF Evolution, Evolves, Keeps, SameOutbox

-----------------------------------------------------------------------------
(* One lemma per group of actions: types are kept and rows evolve.          *)

OthersTyped ==
  /\ nextId \in Nat
  /\ outbox \in [Jobs -> Nat]
  /\ log \in [Repos -> Seq(Jobs)]
  /\ archive \in [Repos -> SUBSET Jobs]
  /\ daemon \in [Generations -> {"new", "up", "draining", "dead"}]
  /\ entries \in [Generations -> [Repos -> Seq(Jobs)]]
  /\ faults \in [count: Nat, kept: SUBSET (Generations \X Jobs)]

(* The parts of TypeOK that the effects above are about, and the rest.      *)
LEMMA TypeParts == /\ TypeOK <=> RowsTyped /\ ExecsTyped /\ OthersTyped
                   /\ TypeOK' <=> RowsTyped' /\ ExecsTyped' /\ OthersTyped'
BY DEF TypeOK, RowsTyped, ExecsTyped, OthersTyped

(* A fault is counted, with the admission that it keeps.                    *)
LEMMA FaultCounted ==
  ASSUME faults \in [count: Nat, kept: SUBSET (Generations \X Jobs)],
         \/ CountFault
         \/ \E g \in Generations, j \in Jobs : KeepAdmission(g, j)
  PROVE  faults' \in [count: Nat, kept: SUBSET (Generations \X Jobs)]
<1>1. CASE CountFault
  BY <1>1 DEF CountFault
<1>2. ASSUME NEW g \in Generations, NEW j \in Jobs, KeepAdmission(g, j)
      PROVE  faults' \in [count: Nat, kept: SUBSET (Generations \X Jobs)]
  <2>1. faults.count + 1 \in Nat /\ faults.kept \cup {<<g, j>>} \in SUBSET (Generations \X Jobs)
    OBVIOUS
  <2> QED BY <1>2, <2>1 DEF KeepAdmission
<1> QED BY <1>1, <1>2

Kept == TypeOK' /\ Evolution

(* Generations come and go.                                                 *)
LEMMA LifeStep ==
  ASSUME TypeOK, NEW g \in Generations, Start(g) \/ Shutdown(g) \/ Kill(g)
  PROVE  Kept
<1> USE TypeParts
<1>1. Evolution
  BY NoRowTouched DEF Start, Shutdown, Kill
<1>2. RowsTyped'
  BY DEF Start, Shutdown, Kill, RowsTyped
<1>3. NoExec \in Exec
  <2>1. <<>> \in Seq(Jobs)
    OBVIOUS
  <2> QED BY <2>1 DEF NoExec, Exec, Steps
<1>4. CASE Start(g)
  <2>1. ExecsTyped' /\ OthersTyped'
    BY <1>4 DEF Start, ExecsTyped, OthersTyped
  <2> QED BY <1>1, <1>2, <2>1 DEF Kept
<1>5. CASE Shutdown(g)
  <2>1. ExecsTyped'
    BY <1>3, <1>5 DEF Shutdown, ExecsTyped
  <2>2. OthersTyped'
    BY <1>5 DEF Shutdown, OthersTyped
  <2> QED BY <1>1, <1>2, <2>1, <2>2 DEF Kept
<1>6. CASE Kill(g)
  <2>1. ExecsTyped'
    BY <1>3, <1>6 DEF Kill, ExecsTyped
  <2>2. OthersTyped'
    BY <1>6 DEF Kill, OthersTyped
  <2> QED BY <1>1, <1>2, <2>1, <2>2 DEF Kept
<1> QED BY <1>4, <1>5, <1>6

(* Admission creates a row or takes over a pending one.                     *)
LEMMA EnqueueStep ==
  ASSUME TypeOK, NEW g \in Generations, NEW j \in Jobs, Enqueue(g, j)
  PROVE  Kept
<1> USE TypeParts
<1>0. RepoOf[j] \in Repos /\ row[j] \in Row /\ nextId \in Nat
  BY JobsAssumption DEF RowsTyped, OthersTyped
<1>1. ExecsTyped' /\ outbox' = outbox
  BY DEF Enqueue, ExecsTyped
<1>2. entries' \in [Generations -> [Repos -> Seq(Jobs)]]
  <2>1. entries[g] \in [Repos -> Seq(Jobs)]
    BY DEF OthersTyped
  <2>2. Append(entries[g][RepoOf[j]], j) \in Seq(Jobs)
    BY <1>0, <2>1
  <2>3. entries' = [entries EXCEPT ![g] =
                      [entries[g] EXCEPT ![RepoOf[j]] = Append(entries[g][RepoOf[j]], j)]]
    BY DEF Enqueue
  <2> QED BY <2>1, <2>2, <2>3 DEF OthersTyped
<1>3. nextId' \in {nextId, nextId + 1} /\ OthersTyped'
  <2>1. faults' \in [count: Nat, kept: SUBSET (Generations \X Jobs)]
    BY DEF Enqueue, OthersTyped
  <2> QED BY <1>0, <1>2, <2>1 DEF Enqueue, OthersTyped
<1>4. CASE row[j].state = "absent"
  <2> DEFINE q == [NoRow EXCEPT !.id = nextId, !.state = "pending", !.owner = g, !.due = TRUE]
  <2>1. /\ q \in Row /\ q.id = nextId /\ q.state = "pending"
        /\ ~q.blocked /\ ~q.abandoned
    BY <1>0 DEF Row, NoRow, NoOwner
  <2>2. row' = [row EXCEPT ![j] = q] /\ nextId' = nextId + 1
    BY <1>4 DEF Enqueue
  <2> HIDE DEF q
  <2>3. RowsTyped' /\ row'[j] = q /\ OtherRows(j)
    BY <2>1, <2>2, RowReplaced
  <2>4. Created(j)
    BY <1>1, <1>4, <2>1, <2>2, <2>3 DEF Created, Present, SameOutbox
  <2>5. Evolution
    BY <1>1, <1>3, <2>3, <2>4, OneRow DEF Evolves, SameOutbox
  <2> QED BY <1>1, <1>3, <2>3, <2>5 DEF Kept
<1>5. CASE row[j].state # "absent"
  <2>1. row' = row \/ row' = [row EXCEPT ![j] = [row[j] EXCEPT !.owner = g]]
    BY <1>5 DEF Enqueue
  <2>2. LET q == [row[j] EXCEPT !.owner = g]
        IN q \in Row /\ q.id = row[j].id /\ q.state = row[j].state
           /\ q.blocked = row[j].blocked /\ q.abandoned = row[j].abandoned
    BY <1>0 DEF Row
  <2>3. RowsTyped' /\ OtherRows(j) /\ Keeps(j)
    BY <2>1, <2>2, RowReplaced DEF RowsTyped, OtherRows, Keeps
  <2>4. Evolution
    BY <1>1, <1>3, <2>3, OneRow DEF Evolves, SameOutbox
  <2> QED BY <1>1, <1>3, <2>3, <2>4 DEF Kept
<1> QED BY <1>4, <1>5

(* Taking the first of a repository's entries keeps the entries typed.      *)
LEMMA EntriesTail ==
  ASSUME OthersTyped, NEW g \in Generations, NEW j \in Jobs,
         entries[g][RepoOf[j]] # <<>>,
         entries' = [entries EXCEPT ![g][RepoOf[j]] = Tail(@)],
         UNCHANGED <<nextId, outbox, log, archive, daemon>>,
         faults' \in [count: Nat, kept: SUBSET (Generations \X Jobs)]
  PROVE  OthersTyped'
<1>0. RepoOf[j] \in Repos
  BY JobsAssumption
<1>1. entries[g] \in [Repos -> Seq(Jobs)]
  BY DEF OthersTyped
<1>2. Tail(entries[g][RepoOf[j]]) \in Seq(Jobs)
  BY <1>0, <1>1
<1> DEFINE f == [entries[g] EXCEPT ![RepoOf[j]] = Tail(entries[g][RepoOf[j]])]
<1>3. f \in [Repos -> Seq(Jobs)] /\ entries' = [entries EXCEPT ![g] = f]
  <2>1. f \in [Repos -> Seq(Jobs)]
    BY <1>1, <1>2
  <2> QED BY <2>1
<1> HIDE DEF f
<1>4. entries' \in [Generations -> [Repos -> Seq(Jobs)]]
  BY <1>3 DEF OthersTyped
<1> QED BY <1>4 DEF OthersTyped

(* A claim under the conditions of the statement.                           *)
LEMMA ClaimStep ==
  ASSUME TypeOK, NEW x \in Executors, NEW j \in Jobs, NEW bypass \in BOOLEAN,
         Claimable(j, bypass), ClaimRow(x, j), UNCHANGED <<nextId, outbox>>
  PROVE  RowsTyped' /\ ExecsTyped' /\ Evolution
<1>1. /\ RowsTyped' /\ ExecsTyped' /\ OtherRows(j)
      /\ row'[j].id = row[j].id /\ row'[j].state = "processing"
      /\ row'[j].blocked = row[j].blocked /\ row'[j].abandoned = row[j].abandoned
  BY TypeParts, ClaimEffect
<1>2. Claimed(j)
  BY <1>1 DEF Claimed, Claimable, Outstanding, SameOutbox
<1> QED BY <1>1, <1>2, OneRow DEF Evolves, SameOutbox

(* Updates of the columns that only one execution or the clock looks at.    *)
SameRow(q, p) == /\ q \in Row /\ q.id = p.id /\ q.state = p.state
                 /\ q.blocked = p.blocked /\ q.abandoned = p.abandoned /\ q.token = p.token

(* The column updates of the actions are of this kind.                      *)
LEMMA Columns ==
  ASSUME NEW p \in Row
  PROVE  /\ SameRow(p, p)
         /\ SameRow([p EXCEPT !.prepared = TRUE], p)
         /\ SameRow([p EXCEPT !.applied = TRUE], p)
         /\ SameRow([p EXCEPT !.due = TRUE], p)
         /\ SameRow([p EXCEPT !.owner = NoOwner], p)
         /\ \A b \in BOOLEAN : SameRow([p EXCEPT !.fresh = b], p)
<1>1. SameRow(p, p) /\ SameRow([p EXCEPT !.prepared = TRUE], p)
  BY DEF Row, SameRow
<1>2. SameRow([p EXCEPT !.applied = TRUE], p) /\ SameRow([p EXCEPT !.due = TRUE], p)
  BY DEF Row, SameRow
<1>3. SameRow([p EXCEPT !.owner = NoOwner], p)
  BY DEF Row, SameRow, NoOwner
<1>4. \A b \in BOOLEAN : SameRow([p EXCEPT !.fresh = b], p)
  BY DEF Row, SameRow
<1> QED BY <1>1, <1>2, <1>3, <1>4

(* A step with such an update.                                              *)
LEMMA ColumnStep ==
  ASSUME RowsTyped, NEW j \in Jobs, NEW q, SameRow(q, row[j]), row' = [row EXCEPT ![j] = q],
         UNCHANGED <<nextId, outbox>>
  PROVE  RowsTyped' /\ Evolution
<1>1. q \in Row
  BY DEF SameRow
<1>2. RowsTyped' /\ row'[j] = q /\ OtherRows(j)
  BY <1>1, RowReplaced
<1>3. Evolves(j)
  BY <1>2 DEF SameRow, Evolves, Keeps, SameOutbox
<1> QED BY <1>2, <1>3, OneRow DEF SameOutbox

(* The live execution of an admitted entry.                                 *)
LEMMA LiveRows ==
  ASSUME TypeOK, NEW g \in Generations, NEW j \in Jobs, LiveStep(g, j)
  PROVE  Kept
<1> USE TypeParts, Both
<1>0. row[j] \in Row
  BY DEF RowsTyped
<1>1. CASE LiveClaim(g, j)
  <2>1. OthersTyped'
    BY <1>1, EntriesTail DEF LiveClaim, LiveTurn, OthersTyped
  <2>2. RowsTyped' /\ ExecsTyped' /\ Evolution
    BY <1>1, ClaimStep DEF LiveClaim
  <2> QED BY <2>1, <2>2 DEF Kept
<1>2. CASE LiveGiveUp(g, j)
  <2>1. OthersTyped'
    BY <1>2, EntriesTail DEF LiveGiveUp, LiveTurn, OthersTyped
  <2>2. RowsTyped' /\ Evolution
    BY <1>2, NoRowTouched DEF LiveGiveUp, RowsTyped
  <2>3. ExecsTyped'
    BY <1>2, EndEffect DEF LiveGiveUp
  <2> QED BY <2>1, <2>2, <2>3 DEF Kept
<1>3. CASE ReleaseOwner(g, j)
  <2>1. OthersTyped'
    BY <1>3 DEF ReleaseOwner, OthersTyped
  <2>2. ExecsTyped'
    <3>1. Go(<<g, "live">>, j, "idle") /\ "idle" \in Steps
      BY <1>3 DEF ReleaseOwner, Steps
    <3> QED BY <3>1, GoEffect
  <2>3. PICK q \in Row : SameRow(q, row[j]) /\ row' = [row EXCEPT ![j] = q]
    <3>1. CASE row' = row
      BY <1>0, <3>1, Columns DEF RowsTyped
    <3>2. CASE row' # row
      <4>1. row' = [row EXCEPT ![j] = [row[j] EXCEPT !.owner = NoOwner]]
        BY <1>3, <3>2 DEF ReleaseOwner
      <4> QED BY <1>0, <4>1, Columns DEF SameRow
    <3> QED BY <3>1, <3>2
  <2>4. RowsTyped' /\ Evolution
    BY <1>3, <2>3, ColumnStep DEF ReleaseOwner
  <2> QED BY <2>1, <2>2, <2>4 DEF Kept
<1> QED BY <1>1, <1>2, <1>3 DEF LiveStep

(* The recovery pass.                                                       *)
LEMMA RecoveryRows ==
  ASSUME TypeOK, NEW g \in Generations, NEW j \in Jobs, RecoveryStep(g, j)
  PROVE  Kept
<1> USE TypeParts, Both
<1> DEFINE x == <<g, "recovery">>
<1>0. exec[x][j] \in Exec
  BY DEF ExecsTyped
<1>1. ASSUME NEW b \in BOOLEAN, Schedule(g, j, b) PROVE Kept
  <2>1. OthersTyped' /\ RowsTyped' /\ Evolution
    BY <1>1, NoRowTouched DEF Schedule, OthersTyped, RowsTyped
  <2> DEFINE e == [exec[x][j] EXCEPT !.pc = "scheduled", !.preflight = b]
  <2>2. e \in Exec
    BY <1>0 DEF Exec, Steps
  <2>3. exec' = [exec EXCEPT ![x][j] = e]
    BY <1>1 DEF Schedule
  <2> HIDE DEF e
  <2>4. ExecsTyped'
    BY <2>2, <2>3, ExecReplaced
  <2> QED BY <2>1, <2>4 DEF Kept
<1>2. CASE RecoveryClaim(g, j)
  <2>1. OthersTyped'
    BY <1>2 DEF RecoveryClaim, OthersTyped
  <2>2. RowsTyped' /\ ExecsTyped' /\ Evolution
    BY <1>2, ClaimStep DEF RecoveryClaim
  <2> QED BY <2>1, <2>2 DEF Kept
<1>3. CASE RecoveryGiveUp(g, j)
  <2>1. OthersTyped' /\ RowsTyped' /\ Evolution
    BY <1>3, NoRowTouched DEF RecoveryGiveUp, OthersTyped, RowsTyped
  <2>2. ExecsTyped'
    BY <1>3, EndEffect DEF RecoveryGiveUp
  <2> QED BY <2>1, <2>2 DEF Kept
<1> QED BY <1>1, <1>2, <1>3 DEF RecoveryStep

(* An error before a claim or in the release of an admission.               *)
Fault(g, j) == \/ \E lasts \in BOOLEAN : LiveFault(g, j, lasts)
               \/ ReleaseFails(g, j) \/ RecoveryFault(g, j)

(* It ends an execution and leaves every row as it is.                      *)
LEMMA FaultRows ==
  ASSUME TypeOK, NEW g \in Generations, NEW j \in Jobs, Fault(g, j)
  PROVE  /\ Kept /\ UNCHANGED <<row, log, archive>>
         /\ \E x \in Executors : /\ OtherExecs(x, j)
                                 /\ exec'[x][j].pc \in {"idle", "releasing"}
<1> USE TypeParts, Both
<1>1. UNCHANGED <<row, nextId, outbox, log, archive, daemon>>
  BY DEF Fault, LiveFault, ReleaseFails, RecoveryFault
<1>2. RowsTyped' /\ Evolution
  BY <1>1, NoRowTouched DEF RowsTyped
<1>3. ASSUME CountFault \/ KeepAdmission(g, j)
      PROVE  faults' \in [count: Nat, kept: SUBSET (Generations \X Jobs)]
  BY <1>3, FaultCounted DEF OthersTyped
<1> DEFINE Ended == /\ ExecsTyped'
                    /\ \E x \in Executors : /\ OtherExecs(x, j)
                                            /\ exec'[x][j].pc \in {"idle", "releasing"}
<1>4. ASSUME NEW lasts \in BOOLEAN, LiveFault(g, j, lasts) PROVE OthersTyped' /\ Ended
  <2>1. OthersTyped'
    BY <1>1, <1>3, <1>4, EntriesTail DEF LiveFault, LiveTurn
  <2>2. CASE lasts
    <3>1. exec' = exec /\ exec[<<g, "live">>][j].pc = "idle"
      BY <1>4, <2>2 DEF LiveFault, LiveTurn
    <3> QED BY <2>1, <3>1 DEF OtherExecs, ExecsTyped
  <2>3. CASE ~lasts
    <3>1. End(<<g, "live">>, j, TRUE)
      BY <1>4, <2>3 DEF LiveFault
    <3> QED BY <2>1, <3>1, EndEffect
  <2> QED BY <2>2, <2>3
<1>5. CASE ReleaseFails(g, j)
  <2>1. OthersTyped'
    BY <1>1, <1>3, <1>5 DEF ReleaseFails, OthersTyped
  <2>2. Go(<<g, "live">>, j, "idle") /\ "idle" \in Steps
    BY <1>5 DEF ReleaseFails, Steps
  <2>3. Ended
    BY <2>2, GoEffect
  <2> QED BY <1>1, <1>2, <2>1, <2>3 DEF Kept
<1>6. CASE RecoveryFault(g, j)
  <2>1. OthersTyped'
    BY <1>1, <1>3, <1>6 DEF RecoveryFault, OthersTyped
  <2>2. End(<<g, "recovery">>, j, TRUE)
    BY <1>6 DEF RecoveryFault
  <2>3. Ended
    BY <2>2, EndEffect
  <2> QED BY <1>1, <1>2, <2>1, <2>3 DEF Kept
<1>7. CASE \E lasts \in BOOLEAN : LiveFault(g, j, lasts)
  BY <1>1, <1>2, <1>4, <1>7 DEF Kept
<1> QED BY <1>5, <1>6, <1>7 DEF Fault

(* The steps of an execution that write a column of its row.                *)
LEMMA ColumnRows ==
  ASSUME TypeOK, NEW x \in Executors, NEW j \in Jobs,
         PersistPrepared(x, j) \/ RenewForPublication(x, j) \/ MarkApplied(x, j)
  PROVE  Kept
<1> USE TypeParts
<1>0. row[j] \in Row
  BY DEF RowsTyped
<1>1. OthersTyped' /\ UNCHANGED <<nextId, outbox>>
  BY DEF PersistPrepared, RenewForPublication, MarkApplied, OthersTyped
<1>2. ExecsTyped'
  <2>1. \E pc \in Steps : Go(x, j, pc)
    BY DEF PersistPrepared, RenewForPublication, MarkApplied, Steps
  <2> QED BY <2>1, GoEffect
<1>3. PICK q \in Row : SameRow(q, row[j]) /\ row' = [row EXCEPT ![j] = q]
  <2>1. \/ row' = [row EXCEPT ![j] = [row[j] EXCEPT !.prepared = TRUE]]
        \/ row' = [row EXCEPT ![j] = [row[j] EXCEPT !.fresh = TRUE]]
        \/ row' = [row EXCEPT ![j] = [row[j] EXCEPT !.applied = TRUE]]
    BY DEF PersistPrepared, RenewForPublication, MarkApplied
  <2> QED BY <1>0, <2>1, Columns DEF SameRow
<1>4. RowsTyped' /\ Evolution
  BY <1>1, <1>3, ColumnStep
<1> QED BY <1>1, <1>2, <1>4 DEF Kept

(* Reading and writing the working log.                                     *)
LEMMA LogStep ==
  ASSUME TypeOK, NEW x \in Executors, NEW j \in Jobs, ReadLog(x, j) \/ WriteLog(x, j)
  PROVE  /\ Kept
         /\ OtherExecs(x, j) /\ exec'[x][j].pc \in {"read", "written"}
         /\ ReadLog(x, j) => /\ exec'[x][j].pc = "read"
                             /\ exec'[x][j].seen = log[RepoOf[j]]
         /\ WriteLog(x, j) => exec'[x][j].pc = "written"
<1> USE TypeParts
<1>0. RepoOf[j] \in Repos /\ exec[x][j] \in Exec /\ log[RepoOf[j]] \in Seq(Jobs)
  BY JobsAssumption DEF ExecsTyped, OthersTyped
<1>1. RowsTyped' /\ Evolution
  BY NoRowTouched DEF ReadLog, WriteLog, RowsTyped
<1>2. CASE ReadLog(x, j)
  <2> DEFINE e == [exec[x][j] EXCEPT !.pc = "read", !.seen = log[RepoOf[j]]]
  <2>1. e \in Exec /\ e.pc = "read" /\ e.seen = log[RepoOf[j]]
    BY <1>0 DEF Exec, Steps
  <2>2. exec' = [exec EXCEPT ![x][j] = e] /\ exec[x][j].pc = "publishing"
    BY <1>2 DEF ReadLog
  <2> HIDE DEF e
  <2>3. ExecsTyped' /\ exec'[x][j] = e /\ OtherExecs(x, j)
    BY <2>1, <2>2, ExecReplaced
  <2>4. OthersTyped'
    BY <1>2 DEF ReadLog, OthersTyped
  <2>5. ~WriteLog(x, j)
    BY <2>2 DEF WriteLog
  <2> QED BY <1>1, <2>1, <2>3, <2>4, <2>5 DEF Kept
<1>3. CASE WriteLog(x, j)
  <2> DEFINE e == [exec[x][j] EXCEPT !.pc = "written", !.seen = <<>>]
  <2>0. <<>> \in Seq(Jobs)
    OBVIOUS
  <2>1. e \in Exec /\ e.pc = "written"
    BY <1>0, <2>0 DEF Exec, Steps
  <2>2. exec' = [exec EXCEPT ![x][j] = e] /\ exec[x][j].pc = "read"
    BY <1>3 DEF WriteLog
  <2> HIDE DEF e
  <2>3. ExecsTyped' /\ exec'[x][j] = e /\ OtherExecs(x, j)
    BY <2>1, <2>2, ExecReplaced
  <2>4. exec[x][j].seen \in Seq(Jobs)
    BY <1>0 DEF Exec
  <2>5. NewLog(log[RepoOf[j]], exec[x][j].seen, j) \in Seq(Jobs)
    BY <1>0, <2>4 DEF NewLog
  <2>6. log' = [log EXCEPT ![RepoOf[j]] = NewLog(log[RepoOf[j]], exec[x][j].seen, j)]
    BY <1>3 DEF WriteLog
  <2>7. log' \in [Repos -> Seq(Jobs)]
    BY <2>5, <2>6 DEF OthersTyped
  <2>8. OthersTyped'
    BY <1>3, <2>7 DEF WriteLog, OthersTyped
  <2>9. ~ReadLog(x, j)
    BY <2>2 DEF ReadLog
  <2> QED BY <1>1, <2>1, <2>3, <2>8, <2>9 DEF Kept
<1> QED BY <1>2, <1>3

(* The normal end: tombstone and metrics in one transaction.                *)
LEMMA CompleteStep ==
  ASSUME TypeOK, NEW x \in Executors, NEW j \in Jobs, Complete(x, j)
  PROVE  /\ Kept
         /\ OtherRows(j) /\ OtherExecs(x, j)
         /\ exec'[x][j].pc \in {"idle", "releasing"}
         /\ row'[j].applied = row[j].applied
<1> USE TypeParts
<1>0. row[j] \in Row /\ outbox[j] \in Nat
  BY DEF RowsTyped, OthersTyped
<1>1. ExecsTyped' /\ OtherExecs(x, j) /\ exec'[x][j].pc \in {"idle", "releasing"}
  BY EndEffect DEF Complete
<1> DEFINE q == [row[j] EXCEPT !.state = "done", !.token = NoToken, !.fresh = FALSE,
                               !.prepared = FALSE]
<1>2. /\ q \in Row /\ q.id = row[j].id /\ q.state = "done"
      /\ q.abandoned = row[j].abandoned /\ q.applied = row[j].applied
  BY <1>0 DEF Row
<1>3. row' = [row EXCEPT ![j] = q]
  BY DEF Complete
<1> HIDE DEF q
<1>4. RowsTyped' /\ row'[j] = q /\ OtherRows(j)
  BY <1>2, <1>3, RowReplaced
<1>5. outbox' = [outbox EXCEPT ![j] = outbox[j] + 1] /\ nextId' = nextId /\ Owns(x, j)
  BY DEF Complete, Completes
<1>6. OthersTyped'
  BY <1>0, <1>5 DEF Complete, OthersTyped
<1>7. Finished(j) /\ \A i \in Jobs \ {j} : SameOutbox(i)
  BY <1>2, <1>4, <1>5 DEF Finished, Outstanding, Owns, SameOutbox, OthersTyped
<1>8. Evolution
  BY <1>4, <1>5, <1>7, OneRow DEF Evolves
<1> QED BY <1>1, <1>2, <1>4, <1>6, <1>8 DEF Kept

(* The abnormal ends.  A row is touched only under the execution's token.   *)
LEMMA FailureStep ==
  ASSUME TypeOK, NEW x \in Executors, NEW j \in Jobs,
         LostLease(x, j) \/ TransientError(x, j) \/ EvidenceError(x, j)
  PROVE  /\ Kept
         /\ OtherRows(j) /\ OtherExecs(x, j)
         /\ exec'[x][j].pc \in {"idle", "releasing"}
         /\ row'[j].applied = row[j].applied
         /\ ~Owns(x, j) => row'[j] = row[j]
<1> USE TypeParts
<1>0. row[j] \in Row
  BY DEF RowsTyped
<1>1. ExecsTyped' /\ OtherExecs(x, j) /\ exec'[x][j].pc \in {"idle", "releasing"}
  <2>1. \E failed \in BOOLEAN : End(x, j, failed)
    BY DEF LostLease, TransientError, EvidenceError
  <2> QED BY <2>1, EndEffect
<1>2. OthersTyped' /\ UNCHANGED <<nextId, outbox>>
  <2>1. /\ UNCHANGED <<nextId, outbox, log, archive, daemon, entries>>
        /\ faults' = faults \/ CountFault
    BY DEF LostLease, TransientError, EvidenceError
  <2>2. faults' \in [count: Nat, kept: SUBSET (Generations \X Jobs)]
    BY <2>1, FaultCounted DEF OthersTyped
  <2> QED BY <2>1, <2>2 DEF OthersTyped
<1> DEFINE R == /\ RowsTyped' /\ OtherRows(j) /\ Evolves(j)
                /\ row'[j].applied = row[j].applied
                /\ ~Owns(x, j) => row'[j] = row[j]
<1>3. ASSUME row' = row PROVE R
  BY <1>2, <1>3 DEF RowsTyped, OtherRows, Evolves, Keeps, SameOutbox
<1>4. ASSUME MarkFailed(x, j) PROVE R
  <2>1. /\ RowsTyped' /\ OtherRows(j)
        /\ row'[j].id = row[j].id
        /\ row'[j].blocked = row[j].blocked /\ row'[j].abandoned = row[j].abandoned
        /\ row'[j].applied = row[j].applied
        /\ IF Owns(x, j) THEN row'[j].state = "pending" ELSE row'[j] = row[j]
    BY <1>4, FailEffect
  <2> QED BY <1>2, <2>1 DEF Evolves, Keeps, Failed, Owns, Processing, SameOutbox
<1>5. ASSUME EvidenceError(x, j), row' # row PROVE R
  <2> DEFINE q == [row[j] EXCEPT !.state = "pending", !.blocked = TRUE,
                                 !.token = NoToken, !.fresh = FALSE]
  <2>1. /\ q \in Row /\ q.id = row[j].id /\ q.state = "pending"
        /\ q.abandoned = row[j].abandoned /\ q.applied = row[j].applied
    BY <1>0 DEF Row
  <2>2. row' = [row EXCEPT ![j] = q] /\ Owns(x, j)
    BY <1>5 DEF EvidenceError
  <2> HIDE DEF q
  <2>3. RowsTyped' /\ row'[j] = q /\ OtherRows(j)
    BY <2>1, <2>2, RowReplaced
  <2> QED BY <1>2, <2>1, <2>2, <2>3 DEF Evolves, Failed, Owns, Processing, SameOutbox
<1>6. R
  <2>1. LostLease(x, j) => R
    BY <1>4 DEF LostLease
  <2>2. TransientError(x, j) => R
    BY <1>3, <1>4 DEF TransientError
  <2>3. EvidenceError(x, j) => R
    BY <1>3, <1>5
  <2> QED BY <2>1, <2>2, <2>3
<1>7. Evolution
  BY <1>2, <1>6, OneRow DEF SameOutbox
<1> QED BY <1>1, <1>2, <1>6, <1>7 DEF Kept

(* The clock.                                                               *)
LEMMA ClockStep ==
  ASSUME TypeOK, NEW j \in Jobs,
         \/ ExpireOrphan(j) \/ BackoffElapses(j)
         \/ \E x \in Executors : Heartbeat(x, j) \/ ExpireHeld(x, j)
  PROVE  Kept
<1> USE TypeParts
<1>0. row[j] \in Row
  BY DEF RowsTyped
<1>1. OthersTyped' /\ ExecsTyped' /\ UNCHANGED <<nextId, outbox>>
  BY DEF ExpireOrphan, BackoffElapses, Heartbeat, ExpireHeld, OthersTyped, ExecsTyped
<1>2. PICK q \in Row : SameRow(q, row[j]) /\ row' = [row EXCEPT ![j] = q]
  <2>1. \/ row' = [row EXCEPT ![j] = [row[j] EXCEPT !.fresh = TRUE]]
        \/ row' = [row EXCEPT ![j] = [row[j] EXCEPT !.fresh = FALSE]]
        \/ row' = [row EXCEPT ![j] = [row[j] EXCEPT !.due = TRUE]]
    BY DEF ExpireOrphan, BackoffElapses, Heartbeat, ExpireHeld
  <2> QED BY <1>0, <2>1, Columns DEF SameRow
<1>3. RowsTyped' /\ Evolution
  BY <1>1, <1>2, ColumnStep
<1> QED BY <1>1, <1>3 DEF Kept

(* An operator's repair.                                                    *)
LEMMA RepairStep ==
  ASSUME TypeOK, NEW j \in Jobs, NEW archives \in BOOLEAN, Repair(j, archives)
  PROVE  Kept
<1> USE TypeParts
<1>0. RepoOf[j] \in Repos /\ log[RepoOf[j]] \in Seq(Jobs)
  BY JobsAssumption DEF OthersTyped
<1>1. ExecsTyped' /\ UNCHANGED <<nextId, outbox>>
  BY DEF Repair, ExecsTyped
<1>2. \A i \in Jobs : row'[i] \in Row /\ Evolves(i)
  <2> TAKE i \in Jobs
  <2>0. row[i] \in Row
    BY DEF RowsTyped
  <2> DEFINE q == [row[i] EXCEPT !.state = "done", !.blocked = TRUE, !.abandoned = TRUE,
                                 !.owner = NoOwner, !.token = NoToken, !.fresh = FALSE]
  <2>1. q \in Row /\ q.id = row[i].id /\ q.state = "done" /\ q.abandoned
    BY <2>0 DEF Row, NoOwner
  <2>2. row'[i] = IF RepoOf[i] = RepoOf[j] /\ Outstanding(i) THEN q ELSE row[i]
    BY DEF Repair
  <2> HIDE DEF q
  <2>3. CASE RepoOf[i] = RepoOf[j] /\ Outstanding(i)
    BY <1>1, <2>1, <2>2, <2>3 DEF Evolves, Finished, SameOutbox
  <2>4. CASE ~(RepoOf[i] = RepoOf[j] /\ Outstanding(i))
    BY <1>1, <2>0, <2>2, <2>4 DEF Evolves, Keeps, SameOutbox
  <2> QED BY <2>3, <2>4
<1>3. RowsTyped' /\ Evolution
  <2>1. row' = [i \in Jobs |-> row'[i]]
    BY DEF Repair
  <2> QED BY <1>1, <1>2, <2>1 DEF RowsTyped, Evolution
<1>4. log' \in [Repos -> Seq(Jobs)] /\ archive' \in [Repos -> SUBSET Jobs]
  <2>1. <<>> \in Seq(Jobs) /\ ToSet(log[RepoOf[j]]) \subseteq Jobs
    BY <1>0 DEF ToSet
  <2> QED BY <1>0, <2>1 DEF Repair, OthersTyped
<1>5. OthersTyped'
  BY <1>4 DEF Repair, OthersTyped
<1> QED BY <1>1, <1>3, <1>5 DEF Kept

-----------------------------------------------------------------------------
(* Every step keeps the types and evolves the rows.                         *)
LEMMA EveryStep == TypeOK /\ [Next]_vars => Kept
<1> SUFFICES ASSUME TypeOK, [Next]_vars PROVE Kept
  OBVIOUS
<1>1. ASSUME NEW x \in Executors, NEW j \in Jobs, ExecStep(x, j) PROVE Kept
  BY <1>1, ColumnRows, LogStep, CompleteStep, FailureStep DEF ExecStep
<1>2. CASE UNCHANGED vars
  BY <1>2, NoRowTouched DEF Kept, vars, TypeOK
<1> QED BY <1>1, <1>2, LifeStep, EnqueueStep, LiveRows, RecoveryRows, FaultRows, FailureStep,
           ClockStep, RepairStep DEF Next, Fault

(* The empty table.                                                         *)
LEMMA RowInvInit == Init => RowInv
<1> SUFFICES ASSUME Init PROVE RowInv
  OBVIOUS
<1> USE DEF Init
<1>1. NoRow \in Row /\ <<>> \in Seq(Jobs)
  BY DEF NoRow, Row, NoOwner
<1>2. NoExec \in Exec
  BY <1>1 DEF NoExec, Exec, Steps
<1>3. TypeOK
  BY <1>1, <1>2 DEF TypeOK
<1>4. \A j \in Jobs : row[j].state = "absent" /\ ~row[j].abandoned
  BY DEF NoRow
<1> QED BY <1>3, <1>4 DEF RowInv, Ids, Heads, Abandoned, MetricsOnce, Present, Processing

(* The table, the logs, the daemons and the executions keep their types.    *)
THEOREM TypeCorrect == Spec => []TypeOK
<1>1. Init => TypeOK
  BY RowInvInit DEF RowInv
<1>2. TypeOK /\ [Next]_vars => TypeOK'
  BY EveryStep DEF Kept
<1> QED BY <1>1, <1>2, PTL DEF Spec

(* The invariant of the rows.                                               *)
LEMMA RowInvHolds == Spec => []RowInv
<1>1. RowInv /\ [Next]_vars => RowInv'
  BY EveryStep, EvolutionKeeps DEF Kept, RowInv
<1> QED BY <1>1, RowInvInit, PTL DEF Spec

(* The metrics of a job are inserted once, with its normal end, whatever    *)
(* leases expire, crashes happen and executions overlap: the lease token    *)
(* compared in complete_on_connection is enough.                            *)
THEOREM MetricsPublishedOnce == Spec => []MetricsOnce
<1>1. RowInv => MetricsOnce
  BY DEF RowInv
<1> QED BY <1>1, RowInvHolds, PTL

-----------------------------------------------------------------------------
(* The working logs.                                                        *)

(* Whoever is between the renewal and the write holds a fresh lease.        *)
Fenced == \A x \in Executors, j \in Jobs :
            Publishing(x, j) => Owns(x, j) /\ row[j].fresh

InLog(j) == Contains(log[RepoOf[j]], j) \/ j \in archive[RepoOf[j]]

(* What it read is still what the log holds, and what it wrote stays.       *)
Reads == \A x \in Executors, j \in Jobs :
           exec[x][j].pc = "read" => exec[x][j].seen = log[RepoOf[j]]
Writes == \A x \in Executors, j \in Jobs : exec[x][j].pc = "written" => InLog(j)

(* A log holds rows of its repository, none of them behind an outstanding   *)
(* row.                                                                     *)
LogRows == \A r \in Repos : \A n \in DOMAIN log[r] :
             /\ RepoOf[log[r][n]] = r
             /\ Present(log[r][n])
             /\ HeadOfRepo(log[r][n])

LogInv == RowInv /\ Fenced /\ Reads /\ Writes /\ PublicationKept /\ LogRows /\ LogOnceInOrder

-----------------------------------------------------------------------------
(* A row that is there stays with its id, and no later row gets before it.  *)
LEMMA RowsStay ==
  ASSUME RowInv, Evolution, NEW i \in Jobs, Present(i)
  PROVE  /\ Present(i)' /\ row'[i].id = row[i].id
         /\ HeadOfRepo(i) => HeadOfRepo(i)'
<1>1. Evolves(i)
  BY DEF Evolution
<1>2. Present(i)' /\ row'[i].id = row[i].id
  BY <1>1 DEF Evolves, Keeps, Created, Claimed, Failed, Finished, Present
<1>3. ASSUME HeadOfRepo(i), NEW k \in Jobs, RepoOf[k] = RepoOf[i], Outstanding(k)'
      PROVE  row'[k].id >= row'[i].id
  <2>0. row[i].id \in Nat /\ nextId \in Nat /\ row[i].id < nextId
    BY DEF RowInv, Ids, TypeOK, Row
  <2>1. Evolves(k)
    BY DEF Evolution
  <2>2. CASE Created(k)
    BY <1>2, <2>0, <2>2 DEF Created
  <2>3. CASE ~Created(k)
    <3>1. Outstanding(k) /\ row'[k].id = row[k].id
      BY <1>3, <2>1, <2>3 DEF Evolves, Keeps, Claimed, Failed, Finished, Processing, Outstanding
    <3> QED BY <1>2, <1>3, <3>1 DEF HeadOfRepo
  <2> QED BY <2>2, <2>3
<1> QED BY <1>2, <1>3 DEF HeadOfRepo

(* Publishers of one repository are the same: they hold the first           *)
(* outstanding row, and its lease has one token.                            *)
LEMMA Exclusive == RowInv /\ Fenced => OnePublisher
<1> SUFFICES ASSUME RowInv, Fenced, NEW x \in Executors, NEW y \in Executors,
                    NEW i \in Jobs, NEW j \in Jobs,
                    Publishing(x, i), Publishing(y, j), RepoOf[i] = RepoOf[j]
             PROVE  x = y /\ i = j
  BY DEF OnePublisher
<1>1. Owns(x, i) /\ Owns(y, j)
  BY DEF Fenced
<1>2. HeadOfRepo(i) /\ HeadOfRepo(j) /\ Outstanding(i) /\ Outstanding(j)
  BY <1>1 DEF RowInv, Heads, Owns, Processing, Outstanding
<1>3. row[i].id >= row[j].id /\ row[j].id >= row[i].id
  BY <1>2 DEF HeadOfRepo
<1>4. row[i].id = row[j].id
  <2>1. row[i].id \in Nat /\ row[j].id \in Nat
    BY DEF RowInv, TypeOK, Row
  <2> QED BY <1>3, <2>1
<1>5. i = j
  BY <1>2, <1>4 DEF RowInv, Ids, Outstanding, Present
<1> QED BY <1>1, <1>5 DEF Owns

-----------------------------------------------------------------------------
(* Steps that leave the logs alone.                                         *)

(* The executions that are touched are not publishing afterwards.           *)
ExecsQuiet == \A y \in Executors, i \in Jobs :
  \/ exec'[y][i] = exec[y][i]
  \/ exec'[y][i].pc \notin {"publishing", "read", "written"}

(* The lease of whoever goes on publishing is not touched.                  *)
LeasesQuiet == \A y \in Executors, i \in Jobs :
  Publishing(y, i) /\ exec'[y][i] = exec[y][i] =>
    row'[i].state = row[i].state /\ row'[i].token = row[i].token /\ row'[i].fresh

AppliedQuiet == \A i \in Jobs : row'[i].applied => row[i].applied \/ InLog(i)

(* The rows of unchanged logs keep their ids and places.                    *)
LEMMA LogsStay ==
  ASSUME LogInv, Kept, UNCHANGED <<log, archive>>
  PROVE  RowInv' /\ LogRows' /\ LogOnceInOrder'
<1>1. RowInv'
  BY EvolutionKeeps DEF LogInv, RowInv, Kept
<1>2. ASSUME NEW r \in Repos, NEW n \in DOMAIN log[r]
      PROVE log[r][n] \in Jobs
  BY DEF LogInv, RowInv, TypeOK
<1>3. LogRows'
  BY <1>2, RowsStay DEF LogInv, LogRows, Kept
<1>4. LogOnceInOrder'
  <2> SUFFICES ASSUME NEW r \in Repos, NEW m \in DOMAIN log[r], NEW n \in DOMAIN log[r], m < n
               PROVE row'[log[r][m]].id < row'[log[r][n]].id
    BY DEF LogOnceInOrder
  <2>1. \A k \in DOMAIN log[r] : row'[log[r][k]].id = row[log[r][k]].id
    BY <1>2, RowsStay DEF LogInv, LogRows, Kept
  <2> QED BY <2>1 DEF LogInv, LogOnceInOrder
<1> QED BY <1>1, <1>3, <1>4

(* Nothing that the invariant is about changes.                             *)
LEMMA QuietStep ==
  ASSUME LogInv, Kept, UNCHANGED <<log, archive>>, ExecsQuiet, LeasesQuiet, AppliedQuiet
  PROVE  LogInv'
<1>1. RowInv' /\ LogRows' /\ LogOnceInOrder'
  BY LogsStay
<1>2. Fenced'
  <2> SUFFICES ASSUME NEW y \in Executors, NEW i \in Jobs, Publishing(y, i)'
               PROVE  Owns(y, i)' /\ row'[i].fresh
    BY DEF Fenced
  <2>1. exec'[y][i] = exec[y][i] /\ Publishing(y, i)
    BY DEF ExecsQuiet, Publishing
  <2> QED BY <2>1 DEF LogInv, Fenced, LeasesQuiet, Owns
<1>3. Reads' /\ Writes'
  BY DEF LogInv, Reads, Writes, ExecsQuiet, InLog
<1>4. PublicationKept'
  BY DEF LogInv, PublicationKept, AppliedQuiet, InLog
<1> QED BY <1>1, <1>2, <1>3, <1>4 DEF LogInv

(* A step that touches one row and one execution, which then does not       *)
(* publish.                                                                 *)
LEMMA OneQuiet ==
  ASSUME NEW x \in Executors, NEW j \in Jobs, OtherRows(j), OtherExecs(x, j),
         exec'[x][j].pc \notin {"publishing", "read", "written"},
         \A y \in Executors : Publishing(y, j) /\ y # x =>
           row'[j].state = row[j].state /\ row'[j].token = row[j].token /\ row'[j].fresh,
         Fenced
  PROVE  ExecsQuiet /\ LeasesQuiet
<1>1. ExecsQuiet
  BY DEF ExecsQuiet, OtherExecs
<1>2. LeasesQuiet
  <2> SUFFICES ASSUME NEW y \in Executors, NEW i \in Jobs,
                      Publishing(y, i), exec'[y][i] = exec[y][i]
               PROVE row'[i].state = row[i].state /\ row'[i].token = row[i].token
                     /\ row'[i].fresh
    BY DEF LeasesQuiet
  <2>1. CASE i # j
    BY <2>1 DEF OtherRows, Fenced
  <2>2. CASE i = j
    <3>1. y # x
      BY <2>2 DEF Publishing
    <3> QED BY <2>2, <3>1
  <2> QED BY <2>1, <2>2
<1> QED BY <1>1, <1>2

(* Generations.                                                             *)
LEMMA LifeLog ==
  ASSUME LogInv, NEW g \in Generations, Start(g) \/ Shutdown(g) \/ Kill(g)
  PROVE  LogInv'
<1>1. TypeOK /\ Fenced
  BY DEF LogInv, RowInv
<1>2. Kept /\ UNCHANGED <<row, log, archive>>
  BY <1>1, LifeStep DEF Start, Shutdown, Kill
<1>3. ExecsQuiet
  <2>1. CASE Start(g)
    BY <2>1 DEF Start, ExecsQuiet
  <2>2. CASE Shutdown(g)
    BY <2>2 DEF Shutdown, ExecsQuiet, NoExec
  <2>3. CASE Kill(g)
    BY <2>3 DEF Kill, ExecsQuiet, NoExec
  <2> QED BY <2>1, <2>2, <2>3
<1>4. LeasesQuiet /\ AppliedQuiet
  BY <1>1, <1>2 DEF LeasesQuiet, AppliedQuiet, Fenced
<1> QED BY <1>2, <1>3, <1>4, QuietStep

(* Admission.                                                               *)
LEMMA EnqueueLog ==
  ASSUME LogInv, NEW g \in Generations, NEW j \in Jobs, Enqueue(g, j)
  PROVE  LogInv'
<1>1. TypeOK /\ Fenced /\ row[j] \in Row
  BY DEF LogInv, RowInv, TypeOK
<1>2. Kept /\ UNCHANGED <<exec, log, archive>>
  BY <1>1, EnqueueStep DEF Enqueue
<1>3. OtherRows(j)
  BY <1>1 DEF Enqueue, OtherRows, TypeOK
<1>4. \/ row[j].state = "absent" /\ ~row'[j].applied
      \/ /\ row'[j].state = row[j].state /\ row'[j].token = row[j].token
         /\ row'[j].fresh = row[j].fresh /\ row'[j].applied = row[j].applied
  <2>1. CASE row[j].state = "absent"
    BY <1>1, <2>1 DEF Enqueue, TypeOK, NoRow
  <2>2. CASE row[j].state # "absent"
    <3>1. row'[j] = row[j] \/ row'[j] = [row[j] EXCEPT !.owner = g]
      BY <1>1, <2>2 DEF Enqueue, TypeOK
    <3> QED BY <1>1, <3>1 DEF Row
  <2> QED BY <2>1, <2>2
<1>5. LeasesQuiet
  BY <1>1, <1>3, <1>4 DEF LeasesQuiet, Fenced, Owns, OtherRows
<1>6. ExecsQuiet /\ AppliedQuiet
  BY <1>2, <1>3, <1>4 DEF ExecsQuiet, AppliedQuiet, OtherRows
<1> QED BY <1>2, <1>5, <1>6, QuietStep

(* A claim finds no publisher on its row: the lease would be fresh.         *)
LEMMA ClaimLog ==
  ASSUME LogInv, Kept, NEW x \in Executors, NEW j \in Jobs, NEW bypass \in BOOLEAN,
         Claimable(j, bypass), ClaimRow(x, j), UNCHANGED <<log, archive>>
  PROVE  LogInv'
<1>1. RowsTyped /\ ExecsTyped /\ Fenced
  BY TypeParts DEF LogInv, RowInv
<1>2. /\ OtherRows(j) /\ OtherExecs(x, j)
      /\ row'[j].applied = row[j].applied /\ exec'[x][j].pc = "claimed"
  BY <1>1, ClaimEffect
<1>3. \A y \in Executors : ~Publishing(y, j)
  BY <1>1 DEF Claimable, Fenced, Owns
<1>4. ExecsQuiet /\ LeasesQuiet
  BY <1>1, <1>2, <1>3, OneQuiet
<1>5. AppliedQuiet
  BY <1>2 DEF AppliedQuiet, OtherRows
<1> QED BY <1>4, <1>5, QuietStep

(* The live execution of an admitted entry.                                 *)
LEMMA LiveLog ==
  ASSUME LogInv, NEW g \in Generations, NEW j \in Jobs, LiveStep(g, j)
  PROVE  LogInv'
<1> DEFINE x == <<g, "live">>
<1>1. TypeOK /\ RowsTyped /\ ExecsTyped /\ Fenced /\ x \in Executors /\ row[j] \in Row
  BY Both, TypeParts DEF LogInv, RowInv, TypeOK
<1>2. Kept /\ UNCHANGED <<log, archive>>
  BY <1>1, LiveRows DEF LiveStep, LiveClaim, LiveGiveUp, ReleaseOwner
<1> HIDE DEF x
<1>3. CASE LiveClaim(g, j)
  BY <1>1, <1>2, <1>3, ClaimLog DEF LiveClaim, x
<1>4. CASE LiveGiveUp(g, j)
  <2>1. row' = row /\ OtherExecs(x, j) /\ exec'[x][j].pc \in {"idle", "releasing"}
    BY <1>1, <1>4, EndEffect DEF LiveGiveUp, x
  <2>2. ExecsQuiet /\ LeasesQuiet /\ AppliedQuiet
    BY <1>1, <2>1, OneQuiet DEF OtherRows, Fenced, AppliedQuiet
  <2> QED BY <1>2, <2>2, QuietStep
<1>5. CASE ReleaseOwner(g, j)
  <2>1. OtherExecs(x, j) /\ exec'[x][j].pc = "idle"
    <3>1. Go(x, j, "idle") /\ "idle" \in Steps
      BY <1>5 DEF ReleaseOwner, Steps, x
    <3> QED BY <1>1, <3>1, GoEffect
  <2>2. OtherRows(j) /\ (row'[j] = row[j] \/ row'[j] = [row[j] EXCEPT !.owner = NoOwner])
    BY <1>1, <1>5 DEF ReleaseOwner, OtherRows, RowsTyped
  <2>3. /\ row'[j].state = row[j].state /\ row'[j].token = row[j].token
        /\ row'[j].fresh = row[j].fresh /\ row'[j].applied = row[j].applied
    BY <1>1, <2>2 DEF Row
  <2>4. ExecsQuiet /\ LeasesQuiet
    BY <1>1, <2>1, <2>2, <2>3, OneQuiet DEF Fenced
  <2>5. AppliedQuiet
    BY <2>2, <2>3 DEF OtherRows, AppliedQuiet
  <2> QED BY <1>2, <2>4, <2>5, QuietStep
<1> QED BY <1>3, <1>4, <1>5 DEF LiveStep

(* The recovery pass.                                                       *)
LEMMA RecoveryLog ==
  ASSUME LogInv, NEW g \in Generations, NEW j \in Jobs, RecoveryStep(g, j)
  PROVE  LogInv'
<1> DEFINE x == <<g, "recovery">>
<1>1. TypeOK /\ RowsTyped /\ ExecsTyped /\ Fenced /\ x \in Executors /\ exec[x][j] \in Exec
  <2>1. TypeOK /\ Fenced /\ x \in Executors
    BY Both DEF LogInv, RowInv
  <2>2. RowsTyped /\ ExecsTyped
    BY <2>1, TypeParts
  <2> QED BY <2>1, <2>2 DEF ExecsTyped
<1>2. Kept /\ UNCHANGED <<log, archive>>
  BY <1>1, RecoveryRows DEF RecoveryStep, Schedule, RecoveryClaim, RecoveryGiveUp
<1> HIDE DEF x
<1>3. CASE RecoveryClaim(g, j)
  BY <1>1, <1>2, <1>3, ClaimLog DEF RecoveryClaim, x
<1>4. ASSUME row' = row, OtherExecs(x, j), exec'[x][j].pc \in {"idle", "scheduled", "releasing"}
      PROVE  LogInv'
  <2>1. ExecsQuiet /\ LeasesQuiet /\ AppliedQuiet
    BY <1>1, <1>4, OneQuiet DEF OtherRows, Fenced, AppliedQuiet
  <2> QED BY <1>2, <2>1, QuietStep
<1>5. CASE RecoveryGiveUp(g, j)
  <2>1. row' = row /\ OtherExecs(x, j) /\ exec'[x][j].pc \in {"idle", "releasing"}
    BY <1>1, <1>5, EndEffect DEF RecoveryGiveUp, x
  <2> QED BY <1>4, <2>1
<1>6. ASSUME NEW b \in BOOLEAN, Schedule(g, j, b) PROVE LogInv'
  <2> DEFINE e == [exec[x][j] EXCEPT !.pc = "scheduled", !.preflight = b]
  <2>1. e \in Exec /\ e.pc = "scheduled"
    BY <1>1 DEF Exec, Steps
  <2>2. exec' = [exec EXCEPT ![x][j] = e] /\ row' = row
    BY <1>6 DEF Schedule, x
  <2> HIDE DEF e
  <2>3. OtherExecs(x, j) /\ exec'[x][j] = e
    BY <1>1, <2>1, <2>2, ExecReplaced
  <2> QED BY <1>4, <2>1, <2>2, <2>3
<1> QED BY <1>3, <1>5, <1>6 DEF RecoveryStep

(* An error before a claim or in the release of an admission.               *)
LEMMA FaultLog ==
  ASSUME LogInv, NEW g \in Generations, NEW j \in Jobs, Fault(g, j)
  PROVE  LogInv'
<1>1. TypeOK /\ RowsTyped /\ ExecsTyped /\ Fenced
  BY TypeParts DEF LogInv, RowInv, TypeOK
<1>2. Kept /\ UNCHANGED <<row, log, archive>>
  BY <1>1, FaultRows
<1>3. PICK x \in Executors : OtherExecs(x, j) /\ exec'[x][j].pc \in {"idle", "releasing"}
  BY <1>1, FaultRows
<1>4. ExecsQuiet /\ LeasesQuiet /\ AppliedQuiet
  BY <1>1, <1>2, <1>3, OneQuiet DEF OtherRows, Fenced, AppliedQuiet
<1> QED BY <1>2, <1>4, QuietStep

(* Preparing a checkpoint and recording its publication.                    *)
LEMMA RecordLog ==
  ASSUME LogInv, NEW x \in Executors, NEW j \in Jobs, PersistPrepared(x, j) \/ MarkApplied(x, j)
  PROVE  LogInv'
<1>1. TypeOK /\ RowsTyped /\ ExecsTyped /\ Fenced /\ row[j] \in Row
  BY TypeParts DEF LogInv, RowInv, TypeOK
<1>2. Kept /\ UNCHANGED <<log, archive>>
  BY <1>1, ColumnRows DEF PersistPrepared, MarkApplied
<1>3. OtherExecs(x, j) /\ exec'[x][j].pc \in {"prepared", "applied"}
  <2>1. PICK pc \in {"prepared", "applied"} : Go(x, j, pc)
    BY DEF PersistPrepared, MarkApplied
  <2>2. pc \in Steps
    BY DEF Steps
  <2> QED BY <1>1, <2>1, <2>2, GoEffect
<1>4. /\ OtherRows(j)
      /\ \/ row'[j] = [row[j] EXCEPT !.prepared = TRUE]
         \/ row'[j] = [row[j] EXCEPT !.applied = TRUE] /\ exec[x][j].pc = "written"
  BY <1>1 DEF PersistPrepared, MarkApplied, OtherRows, RowsTyped
<1>5. /\ row'[j].state = row[j].state /\ row'[j].token = row[j].token
      /\ row'[j].fresh = row[j].fresh
      /\ row'[j].applied = row[j].applied \/ exec[x][j].pc = "written"
  BY <1>1, <1>4 DEF Row
<1>6. ExecsQuiet /\ LeasesQuiet
  BY <1>1, <1>3, <1>4, <1>5, OneQuiet DEF Fenced
<1>7. AppliedQuiet
  BY <1>4, <1>5 DEF OtherRows, AppliedQuiet, LogInv, Writes
<1> QED BY <1>2, <1>6, <1>7, QuietStep

(* The ends of an execution.  They change a row only under their token, and *)
(* a publisher of the row would hold another.                               *)
LEMMA EndLog ==
  ASSUME LogInv, NEW x \in Executors, NEW j \in Jobs,
         \/ Complete(x, j)
         \/ LostLease(x, j) \/ TransientError(x, j) \/ EvidenceError(x, j)
  PROVE  LogInv'
<1>1. TypeOK /\ Fenced
  BY DEF LogInv, RowInv
<1>2. UNCHANGED <<log, archive>>
  BY DEF Complete, LostLease, TransientError, EvidenceError
<1>3. /\ Kept /\ OtherRows(j) /\ OtherExecs(x, j)
      /\ exec'[x][j].pc \in {"idle", "releasing"}
      /\ row'[j].applied = row[j].applied
      /\ ~Owns(x, j) => row'[j] = row[j]
  <2>1. CASE Complete(x, j)
    <3>1. Owns(x, j)
      BY <2>1 DEF Complete, Completes
    <3> QED BY <1>1, <2>1, <3>1, CompleteStep
  <2>2. CASE LostLease(x, j) \/ TransientError(x, j) \/ EvidenceError(x, j)
    BY <1>1, <2>2, FailureStep
  <2> QED BY <2>1, <2>2
<1>4. ExecsQuiet /\ LeasesQuiet
  <2>1. ASSUME NEW y \in Executors, Publishing(y, j), y # x
        PROVE row'[j].state = row[j].state /\ row'[j].token = row[j].token /\ row'[j].fresh
    <3>1. Owns(y, j) /\ row[j].fresh
      BY <1>1, <2>1 DEF Fenced
    <3>2. ~Owns(x, j)
      BY <2>1, <3>1 DEF Owns
    <3> QED BY <1>3, <3>1, <3>2
  <2> QED BY <1>1, <1>3, <2>1, OneQuiet
<1>5. AppliedQuiet
  BY <1>3 DEF OtherRows, AppliedQuiet
<1> QED BY <1>2, <1>3, <1>4, <1>5, QuietStep

(* The clock spares whoever publishes, if nobody is stopped there.          *)
LEMMA ClockLog ==
  ASSUME ~StallsInPublication, LogInv, NEW j \in Jobs,
         \/ ExpireOrphan(j) \/ BackoffElapses(j)
         \/ \E x \in Executors : Heartbeat(x, j) \/ ExpireHeld(x, j)
  PROVE  LogInv'
<1>1. TypeOK /\ Fenced /\ row[j] \in Row
  BY DEF LogInv, RowInv, TypeOK
<1>2. Kept /\ UNCHANGED <<exec, log, archive>>
  BY <1>1, ClockStep DEF ExpireOrphan, BackoffElapses, Heartbeat, ExpireHeld
<1>3. ExecsQuiet
  BY <1>2 DEF ExecsQuiet
<1>4. OtherRows(j)
  BY <1>1 DEF ExpireOrphan, BackoffElapses, Heartbeat, ExpireHeld, OtherRows, TypeOK
<1> DEFINE Same == /\ row'[j].state = row[j].state /\ row'[j].token = row[j].token
                   /\ row'[j].applied = row[j].applied
<1>5. Same /\ ((\E y \in Executors : Publishing(y, j)) => row'[j].fresh)
  <2>1. CASE ExpireOrphan(j)
    <3>1. Same
      <4>1. row'[j] = [row[j] EXCEPT !.fresh = FALSE]
        BY <1>1, <2>1 DEF ExpireOrphan, TypeOK
      <4> QED BY <1>1, <4>1 DEF Row
    <3>2. \A y \in Executors : ~Publishing(y, j)
      BY <1>1, <2>1 DEF ExpireOrphan, Fenced, Holds, Locks, Publishing
    <3> QED BY <3>1, <3>2
  <2>2. CASE BackoffElapses(j)
    <3>1. Same
      <4>1. row'[j] = [row[j] EXCEPT !.due = TRUE]
        BY <1>1, <2>2 DEF BackoffElapses, TypeOK
      <4> QED BY <1>1, <4>1 DEF Row
    <3>2. \A y \in Executors : ~Publishing(y, j)
      BY <1>1, <2>2 DEF BackoffElapses, Fenced, Owns
    <3> QED BY <3>1, <3>2
  <2>3. ASSUME NEW x \in Executors, Heartbeat(x, j)
        PROVE Same /\ row'[j].fresh
    <3>1. row'[j] = [row[j] EXCEPT !.fresh = TRUE]
      BY <1>1, <2>3 DEF Heartbeat, TypeOK
    <3> QED BY <1>1, <3>1 DEF Row
  <2>4. ASSUME NEW x \in Executors, ExpireHeld(x, j)
        PROVE Same /\ \A y \in Executors : ~Publishing(y, j)
    <3>1. Same
      <4>1. row'[j] = [row[j] EXCEPT !.fresh = FALSE]
        BY <1>1, <2>4 DEF ExpireHeld, TypeOK
      <4> QED BY <1>1, <4>1 DEF Row
    <3>2. Owns(x, j) /\ ~Publishing(x, j)
      BY <2>4 DEF ExpireHeld, Holds
    <3>3. \A y \in Executors : ~Publishing(y, j)
      BY <1>1, <3>2 DEF Fenced, Owns
    <3> QED BY <3>1, <3>3
  <2> HIDE DEF Same
  <2> QED BY <2>1, <2>2, <2>3, <2>4
<1>6. LeasesQuiet
  BY <1>1, <1>4, <1>5 DEF LeasesQuiet, OtherRows, Fenced
<1>7. AppliedQuiet
  BY <1>4, <1>5 DEF OtherRows, AppliedQuiet
<1> QED BY <1>2, <1>3, <1>6, <1>7, QuietStep

-----------------------------------------------------------------------------
(* The renewal that opens the publication.                                  *)
LEMMA RenewLog ==
  ASSUME LogInv, NEW x \in Executors, NEW j \in Jobs, RenewForPublication(x, j)
  PROVE  LogInv'
<1>1. TypeOK /\ RowsTyped /\ ExecsTyped /\ Fenced /\ row[j] \in Row
  BY TypeParts DEF LogInv, RowInv, TypeOK
<1>2. Kept /\ UNCHANGED <<log, archive>>
  BY <1>1, ColumnRows DEF RenewForPublication
<1>3. RowInv' /\ LogRows' /\ LogOnceInOrder'
  BY <1>2, LogsStay
<1>4. OtherExecs(x, j) /\ exec'[x][j].pc = "publishing"
  <2>1. Go(x, j, "publishing") /\ "publishing" \in Steps
    BY DEF RenewForPublication, Steps
  <2> QED BY <1>1, <2>1, GoEffect
<1>5. OtherRows(j) /\ row'[j] = [row[j] EXCEPT !.fresh = TRUE] /\ Owns(x, j)
  BY <1>1 DEF RenewForPublication, Renews, OtherRows, RowsTyped
<1>6. /\ row'[j].state = row[j].state /\ row'[j].token = row[j].token /\ row'[j].fresh
      /\ row'[j].applied = row[j].applied
  BY <1>1, <1>5 DEF Row
<1>7. Fenced'
  <2> SUFFICES ASSUME NEW y \in Executors, NEW i \in Jobs, Publishing(y, i)'
               PROVE  Owns(y, i)' /\ row'[i].fresh
    BY DEF Fenced
  <2>1. CASE <<y, i>> = <<x, j>>
    BY <1>5, <1>6, <2>1 DEF Owns
  <2>2. CASE <<y, i>> # <<x, j>>
    <3>1. Publishing(y, i)
      BY <1>4, <2>2 DEF OtherExecs, Publishing
    <3>2. Owns(y, i) /\ row[i].fresh
      BY <1>1, <3>1 DEF Fenced
    <3>3. i # j
      <4>1. CASE i = j
        <5>1. y = x
          BY <1>5, <3>2, <4>1 DEF Owns
        <5> QED BY <2>2, <4>1, <5>1
      <4> QED BY <4>1
    <3> QED BY <1>5, <3>2, <3>3 DEF Owns, OtherRows
  <2> QED BY <2>1, <2>2
<1>8. Reads' /\ Writes'
  <2> SUFFICES ASSUME NEW y \in Executors, NEW i \in Jobs
               PROVE /\ exec'[y][i].pc = "read" => exec'[y][i].seen = log'[RepoOf[i]]
                     /\ exec'[y][i].pc = "written" => InLog(i)'
    BY DEF Reads, Writes
  <2>1. exec'[y][i] = exec[y][i] \/ exec'[y][i].pc = "publishing"
    BY <1>4 DEF OtherExecs
  <2> QED BY <1>2, <2>1 DEF LogInv, Reads, Writes, InLog
<1>9. PublicationKept'
  BY <1>2, <1>5, <1>6 DEF LogInv, PublicationKept, OtherRows
<1> QED BY <1>3, <1>7, <1>8, <1>9 DEF LogInv

(* Reading the log.                                                         *)
LEMMA ReadLogLog ==
  ASSUME LogInv, NEW x \in Executors, NEW j \in Jobs, ReadLog(x, j)
  PROVE  LogInv'
<1>1. TypeOK /\ Fenced
  BY DEF LogInv, RowInv
<1>2. Kept /\ UNCHANGED <<row, log, archive>> /\ Publishing(x, j)
  BY <1>1, LogStep DEF ReadLog, Publishing
<1>3. OtherExecs(x, j) /\ exec'[x][j].pc = "read" /\ exec'[x][j].seen = log[RepoOf[j]]
  BY <1>1, LogStep
<1>4. RowInv' /\ LogRows' /\ LogOnceInOrder'
  BY <1>2, LogsStay
<1>5. ASSUME NEW y \in Executors, NEW i \in Jobs
      PROVE /\ Publishing(y, i)' => Publishing(y, i)
            /\ \/ exec'[y][i] = exec[y][i]
               \/ exec'[y][i].pc = "read" /\ exec'[y][i].seen = log[RepoOf[i]]
  BY <1>2, <1>3 DEF OtherExecs, Publishing
<1>6. Fenced'
  BY <1>1, <1>2, <1>5 DEF Fenced, Owns
<1>7. Reads' /\ Writes'
  BY <1>2, <1>5 DEF LogInv, Reads, Writes, InLog
<1>8. PublicationKept'
  BY <1>2 DEF LogInv, PublicationKept
<1> QED BY <1>4, <1>6, <1>7, <1>8 DEF LogInv

(* What the new log holds.                                                  *)
LEMMA NewLogHolds ==
  ASSUME NEW old \in Seq(Jobs), NEW j \in Jobs
  PROVE  LET new == NewLog(old, old, j) IN
         /\ new \in Seq(Jobs) /\ Contains(new, j)
         /\ \A i \in Jobs : Contains(old, i) => Contains(new, i)
         /\ \A n \in DOMAIN new : \/ n \in DOMAIN old /\ new[n] = old[n]
                                  \/ n = Len(old) + 1 /\ new[n] = j /\ ~Contains(old, j)
         /\ DOMAIN old = 1 .. Len(old)
<1>1. CASE Contains(old, j)
  BY <1>1 DEF NewLog
<1>2. CASE ~Contains(old, j)
  <2> DEFINE new == Append(old, j)
  <2>1. /\ new \in Seq(Jobs) /\ Len(new) = Len(old) + 1 /\ new[Len(old) + 1] = j
        /\ \A n \in 1 .. Len(old) : new[n] = old[n]
        /\ DOMAIN old = 1 .. Len(old) /\ DOMAIN new = 1 .. Len(old) + 1 /\ Len(old) \in Nat
    OBVIOUS
  <2> HIDE DEF new
  <2>2. Contains(new, j)
    BY <2>1 DEF Contains
  <2>3. \A i \in Jobs : Contains(old, i) => Contains(new, i)
    BY <2>1 DEF Contains
  <2>4. \A n \in DOMAIN new : \/ n \in DOMAIN old /\ new[n] = old[n]
                              \/ n = Len(old) + 1 /\ new[n] = j
    BY <2>1
  <2>5. NewLog(old, old, j) = new
    BY <1>2 DEF NewLog, new
  <2> QED BY <1>2, <2>1, <2>2, <2>3, <2>4, <2>5
<1> QED BY <1>1, <1>2

(* Writing the log: what was read is what is there, the row is the first    *)
(* outstanding one, and every row of the log comes before it.               *)
LEMMA WriteLogLog ==
  ASSUME LogInv, NEW x \in Executors, NEW j \in Jobs, WriteLog(x, j)
  PROVE  LogInv'
<1> DEFINE r == RepoOf[j]
           new == NewLog(log[r], log[r], j)
<1>1. /\ TypeOK /\ RowInv /\ Fenced /\ OnePublisher
      /\ r \in Repos /\ log[r] \in Seq(Jobs) /\ log \in [Repos -> Seq(Jobs)]
  BY JobsAssumption, Exclusive DEF LogInv, RowInv, TypeOK
<1>2. Kept /\ OtherExecs(x, j) /\ exec'[x][j].pc = "written"
  BY <1>1, LogStep
<1>3. UNCHANGED <<row, archive>> /\ exec[x][j].pc = "read" /\ Publishing(x, j)
  BY DEF WriteLog, Publishing
<1>4. log' = [log EXCEPT ![r] = new]
  BY <1>3 DEF WriteLog, LogInv, Reads
<1>5. /\ new \in Seq(Jobs) /\ Contains(new, j)
      /\ \A i \in Jobs : Contains(log[r], i) => Contains(new, i)
      /\ \A n \in DOMAIN new : \/ n \in DOMAIN log[r] /\ new[n] = log[r][n]
                               \/ n = Len(log[r]) + 1 /\ new[n] = j /\ ~Contains(log[r], j)
      /\ DOMAIN log[r] = 1 .. Len(log[r])
  BY <1>1, NewLogHolds
<1> HIDE DEF new, r
<1>6. log'[r] = new /\ \A q \in Repos \ {r} : log'[q] = log[q]
  BY <1>1, <1>4
<1>7. RowInv'
  BY <1>1, <1>2, EvolutionKeeps DEF Kept
<1>8. \A i \in Jobs : InLog(i) => InLog(i)'
  BY <1>3, <1>5, <1>6, JobsAssumption DEF InLog
<1>9. InLog(j)'
  BY <1>5, <1>6 DEF InLog, r
<1>10. ASSUME NEW y \in Executors, NEW i \in Jobs
       PROVE \/ exec'[y][i] = exec[y][i] /\ <<y, i>> # <<x, j>>
             \/ exec'[y][i].pc = "written" /\ i = j
  BY <1>2 DEF OtherExecs
<1>11. Fenced'
  BY <1>1, <1>3, <1>10 DEF Fenced, Publishing, Owns
<1>12. Writes'
  BY <1>8, <1>9, <1>10 DEF Writes, LogInv
<1>13. Reads'
  <2> SUFFICES ASSUME NEW y \in Executors, NEW i \in Jobs, exec'[y][i].pc = "read"
               PROVE exec'[y][i].seen = log'[RepoOf[i]]
    BY DEF Reads
  <2>1. exec'[y][i] = exec[y][i] /\ <<y, i>> # <<x, j>> /\ Publishing(y, i)
    BY <1>10 DEF Publishing
  <2>2. RepoOf[i] # r
    <3>1. CASE RepoOf[i] = RepoOf[j]
      <4>1. y = x /\ i = j
        BY <1>1, <1>3, <2>1, <3>1 DEF OnePublisher
      <4> QED BY <2>1, <4>1
    <3> QED BY <3>1 DEF r
  <2> QED BY <1>6, <2>1, <2>2, JobsAssumption DEF LogInv, Reads
<1>14. PublicationKept'
  BY <1>3, <1>8 DEF LogInv, PublicationKept, InLog
<1>15. Owns(x, j) /\ HeadOfRepo(j) /\ Present(j) /\ Outstanding(j)
  BY <1>1, <1>3 DEF Fenced, Owns, RowInv, Heads, Processing, Present, Outstanding
<1>17. \A q \in Repos : \A n \in DOMAIN log[q] : log[q][n] \in Jobs
  BY <1>1
<1>18. LogRows'
  <2> SUFFICES ASSUME NEW q \in Repos, NEW n \in DOMAIN log'[q]
               PROVE  /\ RepoOf[log'[q][n]] = q
                      /\ Present(log[q][n])' /\ HeadOfRepo(log[q][n])'
    BY DEF LogRows
  <2> DEFINE k == log'[q][n]
  <2>0. /\ Present(log[q][n])' <=> Present(k)
        /\ HeadOfRepo(log[q][n])' <=> HeadOfRepo(k)
    BY <1>3 DEF HeadOfRepo, Outstanding, Present
  <2>1. CASE n \in DOMAIN log[q] /\ log'[q][n] = log[q][n]
    BY <2>0, <2>1 DEF LogInv, LogRows
  <2>2. CASE q = r /\ log'[q][n] = j
    BY <1>15, <2>0, <2>2 DEF r
  <2> QED BY <1>5, <1>6, <2>1, <2>2
<1>19. LogOnceInOrder'
  <2> SUFFICES ASSUME NEW q \in Repos, NEW m \in DOMAIN log'[q], NEW n \in DOMAIN log'[q], m < n
               PROVE row'[log'[q][m]].id < row'[log'[q][n]].id
    BY DEF LogOnceInOrder
  <2>1. CASE q # r
    BY <1>3, <1>6, <2>1 DEF LogInv, LogOnceInOrder
  <2>2. CASE q = r
    <3>1. m \in DOMAIN log[r] /\ new[m] = log[r][m]
      <4>1. Len(log[r]) \in Nat /\ DOMAIN log[r] = 1 .. Len(log[r])
        BY <1>1
      <4>2. m \in DOMAIN new /\ n \in DOMAIN new
        BY <1>6, <2>2
      <4>3. n \in 1 .. Len(log[r]) + 1
        BY <1>5, <4>1, <4>2
      <4>4. m # Len(log[r]) + 1
        BY <4>1, <4>3
      <4> QED BY <1>5, <4>2, <4>4
    <3>2. CASE n \in DOMAIN log[r] /\ new[n] = log[r][n]
      BY <1>1, <1>3, <1>6, <2>2, <3>1, <3>2 DEF LogInv, LogOnceInOrder
    <3>3. CASE new[n] = j /\ ~Contains(log[r], j)
      <4> DEFINE i == log[r][m]
      <4>1. i \in Jobs /\ i # j
        BY <1>1, <1>5, <1>17, <3>1, <3>3 DEF Contains
      <4>2. RepoOf[i] = RepoOf[j] /\ Present(i) /\ HeadOfRepo(i)
        BY <1>1, <3>1 DEF LogInv, LogRows, r
      <4>3. row[j].id >= row[i].id
        BY <1>15, <4>1, <4>2 DEF HeadOfRepo
      <4>4. row[j].id # row[i].id
        BY <1>1, <1>15, <4>1, <4>2 DEF RowInv, Ids
      <4>5. row[i].id \in Nat /\ row[j].id \in Nat
        BY <1>1, <4>1 DEF TypeOK, Row
      <4>6. row[i].id < row[j].id
        BY <4>3, <4>4, <4>5
      <4> QED BY <1>3, <1>6, <2>2, <3>1, <3>3, <4>6
    <3> QED BY <1>5, <1>6, <2>2, <3>2, <3>3
  <2> QED BY <2>1, <2>2
<1> QED BY <1>7, <1>11, <1>12, <1>13, <1>14, <1>18, <1>19 DEF LogInv

(* An operator's repair: the first outstanding row is blocked, so nobody    *)
(* publishes in its repository, also not a generation that has given up the *)
(* daemon lock.                                                             *)
LEMMA RepairLog ==
  ASSUME LogInv, NEW j \in Jobs, NEW archives \in BOOLEAN, Repair(j, archives)
  PROVE  LogInv'
<1> DEFINE r == RepoOf[j]
<1>1. /\ TypeOK /\ RowInv /\ Fenced
      /\ r \in Repos /\ log[r] \in Seq(Jobs) /\ log \in [Repos -> Seq(Jobs)]
      /\ archive \in [Repos -> SUBSET Jobs] /\ row \in [Jobs -> Row]
  BY JobsAssumption DEF LogInv, RowInv, TypeOK
<1>2. Kept /\ exec' = exec
  BY <1>1, RepairStep DEF Repair
<1>3. RowInv'
  BY <1>1, <1>2, EvolutionKeeps DEF Kept
<1>4. ASSUME NEW y \in Executors, NEW i \in Jobs, Publishing(y, i)
      PROVE  RepoOf[i] # r
  <2>1. Owns(y, i)
    BY <1>1, <1>4 DEF Fenced
  <2>2. Outstanding(i) /\ HeadOfRepo(i) /\ ~row[i].blocked
    BY <1>1, <2>1 DEF RowInv, Heads, Processing, Owns, Outstanding
  <2>3. Outstanding(j) /\ HeadOfRepo(j) /\ row[j].blocked
    BY DEF Repair
  <2>4. CASE RepoOf[i] = RepoOf[j]
    <3>1. row[i].id >= row[j].id /\ row[j].id >= row[i].id
      BY <2>2, <2>3, <2>4 DEF HeadOfRepo
    <3>2. row[i].id \in Nat /\ row[j].id \in Nat
      BY <1>1 DEF Row
    <3>3. row[i].id = row[j].id
      BY <3>1, <3>2
    <3>4. i = j
      BY <1>1, <2>2, <2>3, <3>3 DEF RowInv, Ids, Outstanding, Present
    <3> QED BY <2>2, <2>3, <3>4
  <2> QED BY <2>4
<1>5. /\ \A i \in Jobs : RepoOf[i] # r => row'[i] = row[i]
      /\ \A i \in Jobs : row'[i].applied = row[i].applied
  <2>1. ASSUME NEW i \in Jobs PROVE row'[i].applied = row[i].applied
    <3>1. \/ row'[i] = row[i]
          \/ row'[i] = [row[i] EXCEPT !.state = "done", !.blocked = TRUE,
                                   !.abandoned = TRUE, !.owner = NoOwner,
                                   !.token = NoToken, !.fresh = FALSE]
      BY DEF Repair
    <3>2. row[i] \in Row
      BY <1>1
    <3> QED BY <3>1, <3>2 DEF Row
  <2> QED BY <2>1 DEF Repair
<1>6. /\ \/ log'[r] = log[r]
         \/ log'[r] = <<>> /\ archive'[r] = archive[r] \cup ToSet(log[r])
      /\ log'[r] = log[r] => archive[r] \subseteq archive'[r]
      /\ \A q \in Repos \ {r} : log'[q] = log[q] /\ archive'[q] = archive[q]
  <2>1. CASE archives
    <3>1. /\ log' = [log EXCEPT ![r] = <<>>]
          /\ archive' = [archive EXCEPT ![r] = archive[r] \cup ToSet(log[r])]
      BY <2>1 DEF Repair
    <3>2. log'[r] = <<>> /\ archive'[r] = archive[r] \cup ToSet(log[r])
      BY <1>1, <3>1
    <3> QED BY <1>1, <3>1, <3>2
  <2>2. CASE ~archives
    <3>1. log' = log /\ archive' = archive
      BY <2>2 DEF Repair
    <3> QED BY <3>1
  <2> QED BY <2>1, <2>2
<1>7. \A i \in Jobs : InLog(i) => InLog(i)'
  <2> SUFFICES ASSUME NEW i \in Jobs, InLog(i) PROVE InLog(i)'
    OBVIOUS
  <2>1. CASE RepoOf[i] # r
    BY <1>6, <2>1, JobsAssumption DEF InLog
  <2>2. CASE RepoOf[i] = r /\ log'[r] = log[r]
    BY <1>6, <2>2 DEF InLog
  <2>3. CASE RepoOf[i] = r /\ archive'[r] = archive[r] \cup ToSet(log[r])
    <3>1. Contains(log[r], i) => i \in ToSet(log[r])
      BY <1>1 DEF Contains, ToSet
    <3> QED BY <2>3, <3>1 DEF InLog
  <2> QED BY <1>6, <2>1, <2>2, <2>3
<1>8. Fenced'
  BY <1>1, <1>2, <1>4, <1>5 DEF Fenced, Publishing, Owns
<1>9. Reads'
  <2> SUFFICES ASSUME NEW y \in Executors, NEW i \in Jobs, exec'[y][i].pc = "read"
               PROVE exec'[y][i].seen = log'[RepoOf[i]]
    BY DEF Reads
  <2>1. Publishing(y, i)
    BY <1>2 DEF Publishing
  <2>2. log'[RepoOf[i]] = log[RepoOf[i]]
    BY <1>4, <1>6, <2>1, JobsAssumption
  <2> QED BY <1>2, <2>2 DEF LogInv, Reads
<1>10. Writes'
  BY <1>2, <1>7 DEF LogInv, Writes
<1>11. PublicationKept'
  BY <1>5, <1>7 DEF LogInv, PublicationKept, InLog
<1>12. ASSUME NEW q \in Repos, NEW n \in DOMAIN log'[q]
       PROVE /\ n \in DOMAIN log[q] /\ log'[q][n] = log[q][n]
             /\ log[q][n] \in Jobs /\ Present(log[q][n])
  <2>1. n \in DOMAIN log[q] /\ log'[q][n] = log[q][n]
    BY <1>6, <1>12
  <2> QED BY <1>1, <2>1 DEF LogInv, LogRows
<1>13. LogRows'
  <2> SUFFICES ASSUME NEW q \in Repos, NEW n \in DOMAIN log'[q]
               PROVE  /\ RepoOf[log'[q][n]] = q
                      /\ Present(log[q][n])' /\ HeadOfRepo(log[q][n])'
    BY DEF LogRows
  <2> DEFINE k == log[q][n]
  <2>1. PICK i \in Jobs : i = k
    BY <1>12
  <2>2. n \in DOMAIN log[q] /\ log'[q][n] = i /\ Present(i)
    BY <1>12, <2>1
  <2>3. RepoOf[i] = q /\ HeadOfRepo(i)
    BY <2>1, <2>2 DEF LogInv, LogRows
  <2>4. Present(i)' /\ HeadOfRepo(i)'
    BY <1>1, <1>2, <2>2, <2>3, RowsStay DEF Kept
  <2> QED BY <2>2, <2>3, <2>4 DEF Present, HeadOfRepo
<1>14. LogOnceInOrder'
  <2> SUFFICES ASSUME NEW q \in Repos, NEW m \in DOMAIN log'[q], NEW n \in DOMAIN log'[q], m < n
               PROVE row'[log'[q][m]].id < row'[log'[q][n]].id
    BY DEF LogOnceInOrder
  <2>1. row[log[q][m]].id < row[log[q][n]].id
    BY <1>12 DEF LogInv, LogOnceInOrder
  <2>2. /\ row'[log[q][m]].id = row[log[q][m]].id
        /\ row'[log[q][n]].id = row[log[q][n]].id
    BY <1>1, <1>2, <1>12, RowsStay DEF Kept
  <2> QED BY <1>12, <2>1, <2>2
<1> QED BY <1>3, <1>8, <1>9, <1>10, <1>11, <1>13, <1>14 DEF LogInv

-----------------------------------------------------------------------------
(* One case per action.                                                     *)
LEMMA LogStepKeeps ==
  ASSUME ~StallsInPublication
  PROVE  LogInv /\ [Next]_vars => LogInv'
<1> SUFFICES ASSUME LogInv, [Next]_vars PROVE LogInv'
  OBVIOUS
<1>1. ASSUME NEW x \in Executors, NEW j \in Jobs, ExecStep(x, j) PROVE LogInv'
  BY <1>1, RecordLog, EndLog, RenewLog, ReadLogLog, WriteLogLog DEF ExecStep
<1>2. CASE UNCHANGED vars
  <2>1. Kept
    BY <1>2, EveryStep DEF LogInv, RowInv
  <2>2. /\ UNCHANGED <<log, archive>> /\ ExecsQuiet /\ LeasesQuiet /\ AppliedQuiet
    BY <1>2 DEF vars, LogInv, Fenced, ExecsQuiet, LeasesQuiet, AppliedQuiet
  <2> QED BY <2>1, <2>2, QuietStep
<1> QED BY <1>1, <1>2, LifeLog, EnqueueLog, LiveLog, RecoveryLog, FaultLog, EndLog,
           ClockLog, RepairLog DEF Next, Fault

(* Empty table, empty logs.                                                 *)
LEMMA LogInvInit == Init => LogInv
<1> SUFFICES ASSUME Init PROVE LogInv
  OBVIOUS
<1>1. RowInv
  BY RowInvInit
<1>2. \A x \in Executors, j \in Jobs : exec[x][j].pc = "idle"
  BY DEF Init, NoExec
<1>3. \A j \in Jobs : ~row[j].applied
  BY DEF Init, NoRow
<1>4. \A r \in Repos : log[r] = <<>>
  BY DEF Init
<1>5. Fenced /\ Reads /\ Writes
  BY <1>2 DEF Fenced, Reads, Writes, Publishing
<1>6. LogRows /\ LogOnceInOrder /\ PublicationKept
  BY <1>3, <1>4 DEF LogRows, LogOnceInOrder, PublicationKept
<1> QED BY <1>1, <1>5, <1>6 DEF LogInv

(* The inductive invariant holds when no execution is stopped for a whole   *)
(* lease between its renewal and the write.                                 *)
THEOREM LogSafe == ASSUME ~StallsInPublication PROVE Spec => []LogInv
BY LogInvInit, LogStepKeeps, PTL DEF Spec

(* No two executions, of whatever generations and jobs, are between the     *)
(* renewed lease and the write of one repository's log                      *)
(* (renew_processing_lease_on_connection, claim_on_connection).             *)
THEOREM SinglePublisher == ASSUME ~StallsInPublication PROVE Spec => []OnePublisher
<1>1. LogInv => OnePublisher
  BY Exclusive DEF LogInv
<1> QED BY <1>1, LogSafe, PTL

(* What is recorded as applied stays in the working log or in an operator's *)
(* backup (mark_applied, append_checkpoint_idempotent).                     *)
THEOREM PublicationsKept == ASSUME ~StallsInPublication PROVE Spec => []PublicationKept
<1>1. LogInv => PublicationKept
  BY DEF LogInv
<1> QED BY <1>1, LogSafe, PTL

(* A working log has no checkpoint twice and has them in the order in which *)
(* their rows were admitted.                                                *)
THEOREM LogsInOrder == ASSUME ~StallsInPublication PROVE Spec => []LogOnceInOrder
<1>1. LogInv => LogOnceInOrder
  BY DEF LogInv
<1> QED BY <1>1, LogSafe, PTL
=============================================================================
