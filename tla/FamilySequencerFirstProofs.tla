---------------------- MODULE FamilySequencerFirstProofs ----------------------
(***************************************************************************)
(* The two theorems about the roots a family waits for: an ordered command *)
(* whose def_repo frame was queued is not overtaken by a checkpoint or a   *)
(* command that came later, and a pending entry never loses the event that *)
(* will resolve it.                                                        *)
(*                                                                         *)
(* Both rest on the life of a connection: from its first frame to its last *)
(* a root's ingress state is not cleared by anybody else (the connection   *)
(* count covers root and child, no close marker of it is under way), so    *)
(* the start time, the family and the reflog offsets reach the def_repo    *)
(* payload and the close. A mutating child (of pull) breaks this, since    *)
(* its connection can put a marker before its root's connection is known:  *)
(* the theorems are about roots without one.                               *)
(***************************************************************************)
EXTENDS FamilySequencerProofs

\* An ordered root whose child, if any, does not itself mutate references.
Plain(r) == ParticipatesByArgv(kind[r]) /\ (r \in Children => ~ChildMutatesRefs(kind[r]))

AllPlain == \A r \in Roots : ParticipatesByArgv(kind[r]) => Plain(r)

-----------------------------------------------------------------------------
(* Connections.                                                             *)

\* The root's reader has not read the first frame; is between it and the last one.
Unopened(r) == reader[r].frame = "start" /\ reader[r].step = "read"
Opened(r) == reader[r].frame # "eof" /\ reader[r].step \notin {"marker", "closed"} /\ ~Unopened(r)

ChildOpen(r) == child[r].step \in {"track", "capture", "send", "eof"}

EventQueued(r, ev) == \E i \in DOMAIN queue : queue[i].root = r /\ queue[i].event = ev

\* The worker is ending root r.
Ending(r) == worker.pc \in {"replace", "append", "clear"} /\ worker.root = r

\* No connection-close marker of root r is about to be queued, queued or applied.
NoEnd(r) ==
  child[r].step # "marker" /\ r \notin marked /\ ~EventQueued(r, "closed") /\ ~Ending(r)

\* The start frame of root r was tracked, the atexit frame was not.
Known(r) ==
  /\ Opened(r)
  /\ ~(reader[r].frame = "start" /\ reader[r].step = "track")
  /\ ~(reader[r].frame = "atexit" /\ reader[r].step = "send")

\* The def_repo frame of root r was tracked, the atexit frame was not.
Mapped(r) ==
  /\ Opened(r)
  /\ \/ reader[r].frame = "def_repo" /\ reader[r].step = "send"
     \/ reader[r].frame = "atexit" /\ reader[r].step # "send"

\* Only a def_repo frame gives a root its family.
FamilyLater(r) ==
  reader[r].frame = "start" =>
    /\ rootFamily[r] = NoFamily
    /\ reader[r].step = "send" => reader[r].payload.family = NoFamily

\* Nothing of a plain root is recorded before its first frame but by its child, and what
\* is recorded with a frame stays until the last one.
Connected(r) ==
  /\ child[r].step # "capture" /\ r \notin readOnly
  /\ Unopened(r) =>
       /\ NoEnd(r) /\ r \notin offsets /\ rootMutating[r] # "yes"
       /\ openConns[r] = IF ChildOpen(r) THEN 1 ELSE 0
  /\ Opened(r) =>
       /\ NoEnd(r) /\ openConns[r] = IF ChildOpen(r) THEN 2 ELSE 1
       /\ Known(r) => rootStarted[r] # 0 /\ r \in active
       /\ Mapped(r) => r \in offsets
  /\ reader[r].step = "send" /\ reader[r].frame = "def_repo" =>
       reader[r].payload.at # 0 /\ reader[r].payload.family # NoFamily

Conn(r) ==
  /\ child[r].step # "read" => r \in Children
  /\ FamilyLater(r)
  /\ Plain(r) => Connected(r)

ClockRuns == clock > 0 /\ \A r \in Roots : Started(r) => startedAt[r] > 0

PayloadKnows(p) ==
  /\ p.event = "start" => p.family = NoFamily
  /\ p.event = "def_repo" /\ Plain(p.root) => p.at # 0 /\ p.family # NoFamily

QueueKnows == \A i \in DOMAIN queue : PayloadKnows(queue[i])

ConnInv == ClockRuns /\ QueueKnows /\ \A r \in Roots : Conn(r)

-----------------------------------------------------------------------------
(* Ends.                                                                    *)

FrameQueued(r) == \E f \in Frames : EventQueued(r, f)

\* The last frame or marker of root r was applied.
Ended(r) == slots[r] = NoSlot /\ ~FrameQueued(r)

\* The root's connection was cut off after its def_repo frame.
Cut(r) == reader[r].frame = "atexit" /\ reader[r].step \in {"marker", "closed"}

\* The marker comes from the root's reader or is left to the child's.
LeftToChild(r) == ChildOpen(r) /\ openConns[r] = 1 /\ r \in offsets /\ NoEnd(r)

CutEnds(r) ==
  Cut(r) =>
    \/ reader[r].step = "marker"
    \/ LeftToChild(r)
    \/ child[r].step = "marker"
    \/ EventQueued(r, "closed")
    \/ Ended(r)

ExitEnds(r) == reader[r].frame = "eof" => EventQueued(r, "atexit") \/ Ended(r)

\* Only ordered roots whose def_repo frame was queued have a slot.
SlotNeeded(r) ==
  slots[r] # NoSlot => ParticipatesByArgv(kind[r]) /\ reader[r].frame \in {"atexit", "eof"}

Ends(r) == SlotNeeded(r) /\ (Plain(r) => CutEnds(r) /\ ExitEnds(r))

\* A marker is the last of its root.
MarkersLast ==
  \A i, j \in DOMAIN queue : i < j /\ queue[i].event = "closed" /\ Plain(queue[i].root) =>
    ~FrameAt(j, queue[i].root)

\* Every pending entry is led to by its root's slot or is being replaced.
PendingLed ==
  \A F \in Families : \A e \in entries[F] : e.what = "pending" =>
    \/ slots[e.id] = Slot(F, e)
    \/ worker.pc = "replace" /\ worker.slot = Slot(F, e)

EndInv == MarkersLast /\ PendingLed /\ \A r \in Roots : Ends(r)

-----------------------------------------------------------------------------
(* Precedence.                                                              *)

\* Every payload queued is in the queue, being applied or applied.
Busy == IF worker.pc \in {"idle", "gc"} THEN 0 ELSE 1
Counted == processed + Len(queue) + Busy <= enqueued

\* Root r has an entry in its family or has run.
Present(F, x) == Ran(F, x) \/ (\E e \in ready[F] : e.id = x) \/ (\E e \in entries[F] : e.id = x)

\* What was attributed before x came is known to be so, and started earlier.
Earlier ==
  /\ \A c \in Checkpoints : \A r \in attributedBefore[c] :
       r \in Attributed /\ ckpt[c] # "unsent" /\ startedAt[r] <= ckptAt[c]
  /\ \A q \in Roots : \A r \in attributedBefore[q] :
       r \in Attributed /\ Started(q) /\ startedAt[r] <= startedAt[q]

\* The admission of c waits for the frames of the roots attributed before it.
AdmissionWaits ==
  \A c \in Checkpoints : \A i \in DOMAIN queue :
    queue[i].event = "def_repo" /\ queue[i].root \in attributedBefore[c] =>
      enqueued + i <= ckptTarget[c] + Len(queue)

\* The frames of q come after those of the roots attributed before it.
FramesWait ==
  \A q \in Roots : \A i \in DOMAIN queue :
    queue[i].event = "def_repo" /\ queue[i].root \in attributedBefore[q] =>
      /\ \A j \in DOMAIN queue : FrameAt(j, q) => i < j
      /\ ~Appending(q)

\* An ordered root whose def_repo frame was applied is in its family.
AttributedPresent ==
  \A r \in Roots : Plain(r) /\ r \in Attributed /\ ~EventQueued(r, "def_repo") =>
    Present(home[r], r)

\* Root r was attributed before x and belongs to F.
Precedes(r, x, F) == Plain(r) /\ r \in attributedBefore[x] /\ home[r] = F

InFront ==
  \A F \in Families : \A r \in Roots :
    /\ \A e \in entries[F] : Precedes(r, e.id, F) =>
         \/ Ran(F, r) \/ (\E d \in ready[F] : d.id = r)
         \/ \E d \in entries[F] : d.id = r /\ Before(d, e)
    /\ \A e \in ready[F] : Precedes(r, e.id, F) =>
         Ran(F, r) \/ \E d \in ready[F] : d.id = r /\ Before(d, e)
    /\ \A i \in DOMAIN log[F] : Precedes(r, log[F][i].id, F) => RanBefore(F, r, i)

FirstInv == Counted /\ Earlier /\ AdmissionWaits /\ FramesWait /\ AttributedPresent /\ InFront

-----------------------------------------------------------------------------

(* Connections are kept.                                                    *)

\* Initially every root is unopened.
LEMMA ConnInit == Init => ConnInv
<1> SUFFICES ASSUME Init PROVE ConnInv
  OBVIOUS
<1> USE DEF Init, IdleWorker
<1>1. ClockRuns /\ QueueKnows
  BY DEF ClockRuns, QueueKnows, Started
<1>2. ASSUME NEW r \in Roots PROVE Conn(r)
  <2>1. ~EventQueued(r, "closed") /\ ~Ending(r)
    BY DEF EventQueued, Ending
  <2>2. Unopened(r) /\ ~Opened(r) /\ ~ChildOpen(r) /\ NoEnd(r)
    BY <2>1 DEF Unopened, Opened, ChildOpen, NoEnd
  <2> QED BY <2>2 DEF Conn, FamilyLater, Connected
<1> QED BY <1>1, <1>2 DEF ConnInv

\* The step leaves what the ingress state records of root r.
SameIngress(r) ==
  /\ openConns'[r] = openConns[r] /\ rootStarted'[r] = rootStarted[r]
  /\ rootFamily'[r] = rootFamily[r] /\ rootMutating'[r] = rootMutating[r]
  /\ r \in readOnly' <=> r \in readOnly
  /\ r \in offsets' <=> r \in offsets
  /\ r \in active' <=> r \in active
  /\ r \in marked' <=> r \in marked

\* The worker begins to end a root after its atexit frame or its marker.
EndsLate(r) == Ending(r)' => Ending(r) \/ EventQueued(r, "closed") \/ reader[r].frame = "eof"

\* A step of other roots.
LEMMA ConnUntouched ==
  ASSUME NEW r \in Roots, Conn(r), UNCHANGED kind, reader'[r] = reader[r], child'[r] = child[r],
         SameIngress(r), EndsLate(r), EventQueued(r, "closed")' => EventQueued(r, "closed")
  PROVE  Conn(r)'
<1>1. /\ Unopened(r)' <=> Unopened(r)
      /\ Opened(r)' <=> Opened(r)
      /\ Known(r)' <=> Known(r)
      /\ Mapped(r)' <=> Mapped(r)
      /\ ChildOpen(r)' <=> ChildOpen(r)
      /\ Plain(r)' <=> Plain(r)
  BY DEF Unopened, Opened, Known, Mapped, ChildOpen, Plain
<1>2. Unopened(r) \/ Opened(r) => reader[r].frame # "eof"
  BY DEF Unopened, Opened
<1>3. NoEnd(r) /\ reader[r].frame # "eof" => NoEnd(r)'
  BY DEF NoEnd, EndsLate, SameIngress
<1>4. Connected(r) => Connected(r)'
  BY <1>1, <1>2, <1>3 DEF Connected, SameIngress
<1> QED BY <1>1, <1>4 DEF Conn, FamilyLater, SameIngress

\* Forgetting a root concerns no other one.
LEMMA ForgetElsewhere ==
  ASSUME TypeInv, NEW r \in Roots, RecordClose(r) \/ ClearRoot(r), NEW q \in Roots \ {r}
  PROVE  SameIngress(q)
<1> USE DEF TypeInv, TypeOK, IngressOK
<1>1. CASE ClearRoot(r)
  BY <1>1 DEF ClearRoot, ForgetRoot, SameIngress
<1>2. CASE RecordClose(r) /\ ~ClearRoot(r)
  <2>1. /\ openConns' = [openConns EXCEPT ![r] = IF @ > 1 THEN @ - 1 ELSE 0]
        /\ marked' = IF EnqueuesMarker(r) THEN marked \cup {r} ELSE marked
        /\ UNCHANGED <<rootStarted, rootFamily, rootMutating, readOnly, offsets, active>>
    BY <1>2 DEF RecordClose
  <2>2. marked' = marked \/ marked' = marked \cup {r}
    BY <2>1
  <2>3. openConns'[q] = openConns[q]
    BY <2>1
  <2> QED BY <2>1, <2>2, <2>3 DEF SameIngress
<1> QED BY <1>1, <1>2

\* A payload put at the end of the queue.
LEMMA QueuedMore ==
  ASSUME TypeInv, NEW p, Enqueue(p), NEW r, NEW ev
  PROVE  EventQueued(r, ev)' <=> EventQueued(r, ev) \/ (p.root = r /\ p.event = ev)
<1>1. PICK n \in Nat : /\ DOMAIN queue = 1 .. n /\ DOMAIN queue' = 1 .. n + 1
                       /\ queue'[n + 1] = p /\ \A i \in 1 .. n : queue'[i] = queue[i]
  BY QueueGrows
<1>2. \A i \in DOMAIN queue' : (i \in DOMAIN queue /\ queue'[i] = queue[i]) \/ i = n + 1
  BY <1>1
<1>3. n + 1 \in DOMAIN queue' /\ \A i \in DOMAIN queue : i \in DOMAIN queue' /\ queue'[i] = queue[i]
  BY <1>1
<1> QED BY <1>1, <1>2, <1>3 DEF EventQueued

\* What the queue knows after a payload was added.
LEMMA KnowsMore ==
  ASSUME TypeInv, QueueKnows, UNCHANGED kind,
         UNCHANGED queue \/ \E p : Enqueue(p) /\ PayloadKnows(p)
  PROVE  QueueKnows'
<1>1. CASE UNCHANGED queue
  BY <1>1 DEF QueueKnows, PayloadKnows, Plain
<1>2. ASSUME NEW p, Enqueue(p), PayloadKnows(p) PROVE QueueKnows'
  <2>1. PICK n \in Nat : /\ DOMAIN queue = 1 .. n /\ DOMAIN queue' = 1 .. n + 1
                         /\ queue'[n + 1] = p /\ \A i \in 1 .. n : queue'[i] = queue[i]
    BY <1>2, QueueGrows
  <2>2. \A i \in DOMAIN queue' : (i \in DOMAIN queue /\ queue'[i] = queue[i]) \/ i = n + 1
    BY <2>1
  <2>3. \A i \in DOMAIN queue' : PayloadKnows(queue'[i])
    BY <1>2, <2>1, <2>2 DEF QueueKnows
  <2> QED BY <2>3 DEF QueueKnows, PayloadKnows, Plain
<1> QED BY <1>1, <1>2

\* The reader of root r or its child takes a step: the other roots are as they were.
LEMMA StepElsewhere ==
  ASSUME OrderInv, RootInv, NEW r \in Roots,
         ReaderStep(r) \/ ChildRead(r) \/ ChildStep(r), NEW q \in Roots \ {r}
  PROVE  /\ UNCHANGED <<kind, worker, slots>> /\ reader'[q] = reader[q] /\ child'[q] = child[q]
         /\ SameIngress(q)
         /\ \A ev : EventQueued(q, ev)' <=> EventQueued(q, ev)
<1> USE DEF OrderInv, TypeInv, TypeOK, EnvOK
<1> USE DEF envVars, gitVars, readerVars, ingressVars, queueVars, ReaderStep, ChildStep
<1>1. UNCHANGED <<kind, worker, slots>> /\ reader'[q] = reader[q] /\ child'[q] = child[q]
  BY DEF OpenRoot, Track, Capture, Send, Close, SendMarker, ChildRead, ChildTrack, ChildCapture,
       ChildSend, ChildClose, ChildSendMarker
<1>2. SameIngress(q)
  <2>1. CASE OpenRoot(r) \/ Capture(r) \/ Send(r) \/ SendMarker(r)
    BY <2>1 DEF OpenRoot, Capture, Send, SendMarker, KeepOffsets, SameIngress, IngressOK
  <2>2. CASE Track(r)
    BY <2>2 DEF Track, SameIngress, IngressOK
  <2>3. CASE Close(r)
    <3>1. CASE UNCHANGED ingressVars
      BY <3>1 DEF SameIngress
    <3>2. CASE RecordClose(r)
      BY <3>2, ForgetElsewhere
    <3> QED BY <2>3, <3>1, <3>2 DEF Close
  <2>4. CASE ChildRead(r) \/ ChildTrack(r) \/ ChildCapture(r) \/ ChildSend(r) \/ ChildSendMarker(r)
    BY <2>4 DEF ChildRead, ChildTrack, ChildCapture, ChildSend, ChildSendMarker, KeepOffsets,
         SameIngress, IngressOK
  <2>5. CASE ChildClose(r)
    BY <2>5, ForgetElsewhere DEF ChildClose
  <2> QED BY <2>1, <2>2, <2>3, <2>4, <2>5
<1>3. \A ev : EventQueued(q, ev)' <=> EventQueued(q, ev)
  <2>1. CASE UNCHANGED queue
    BY <2>1 DEF EventQueued
  <2>2. CASE Send(r)
    <3>1. Enqueue(reader[r].payload) /\ reader[r].payload.root = r
      BY <2>2 DEF Send, Heard, ReaderStamps
    <3> QED BY <3>1, QueuedMore
  <2>3. CASE ChildSend(r)
    <3>1. Enqueue(child[r].payload) /\ child[r].payload.root = r
      BY <2>3 DEF ChildSend, Heard, ReaderStamps
    <3> QED BY <3>1, QueuedMore
  <2>4. CASE SendMarker(r) \/ ChildSendMarker(r)
    <3>1. Enqueue(Marker(r)) /\ Marker(r).root = r
      BY <2>4 DEF SendMarker, ChildSendMarker, Marker, Payload
    <3> QED BY <3>1, QueuedMore
  <2> QED BY <2>1, <2>2, <2>3, <2>4 DEF OpenRoot, Track, Capture, Close, ChildRead, ChildTrack,
            ChildCapture, ChildClose
<1> QED BY <1>1, <1>2, <1>3

\* So are their connections.
LEMMA ConnElsewhere ==
  ASSUME OrderInv, RootInv, NEW r \in Roots,
         ReaderStep(r) \/ ChildRead(r) \/ ChildStep(r), NEW q \in Roots \ {r}, Conn(q)
  PROVE  Conn(q)'
<1>1. /\ UNCHANGED <<kind, worker>> /\ reader'[q] = reader[q] /\ child'[q] = child[q]
      /\ SameIngress(q)
      /\ EventQueued(q, "closed")' => EventQueued(q, "closed")
  BY StepElsewhere
<1>2. EndsLate(q)
  BY <1>1 DEF EndsLate, Ending
<1> QED BY <1>1, <1>2, ConnUntouched

\* The first frame of a root is read.
LEMMA ConnOpen ==
  ASSUME OrderInv, NEW r \in Roots, Conn(r), OpenRoot(r)
  PROVE  Conn(r)'
<1> USE DEF OrderInv, TypeInv, TypeOK, EnvOK, IngressOK
<1> USE DEF envVars, gitVars, readerVars, ingressVars, queueVars
<1>1. Unopened(r) /\ UNCHANGED <<kind, child, worker, queue, rootFamily, readOnly, offsets, marked>>
  BY DEF OpenRoot, Unopened
<1>2. reader'[r].frame = "start" /\ reader'[r].step = "track" /\ openConns'[r] = openConns[r] + 1
  BY DEF OpenRoot, ReaderType
<1>3. /\ ~Unopened(r)' /\ Opened(r)' /\ ~Known(r)' /\ ~Mapped(r)'
      /\ ChildOpen(r)' <=> ChildOpen(r)
      /\ NoEnd(r)' <=> NoEnd(r)
      /\ Plain(r)' <=> Plain(r)
  BY <1>1, <1>2 DEF Unopened, Opened, Known, Mapped, ChildOpen, NoEnd, EventQueued, Ending, Plain
<1>4. Connected(r) => Connected(r)'
  BY <1>1, <1>2, <1>3 DEF Connected
<1> QED BY <1>1, <1>2, <1>3, <1>4 DEF Conn, FamilyLater, Unopened

\* A frame is tracked: the start time and the family are known from their frames on.
LEMMA ConnTrack ==
  ASSUME OrderInv, ConnInv, NEW r \in Roots, Track(r)
  PROVE  Conn(r)'
<1> USE DEF OrderInv, TypeInv, TypeOK, EnvOK, IngressOK
<1> USE DEF envVars, gitVars, readerVars, ingressVars, queueVars
<1> DEFINE f == reader[r].frame
           started == IF f = "start" /\ rootStarted[r] = 0 THEN startedAt[r] ELSE rootStarted[r]
           family  == IF f = "def_repo" THEN home[r] ELSE rootFamily[r]
           ro      == readOnly \cup {x \in {r} : f = "start" /\ DefinitelyReadOnly(kind[r])}
           capture == f # "atexit" /\ MutatesRefs(kind[r]) /\ started # 0 /\ r \notin offsets
                        /\ family # NoFamily
           sent    == [frame |-> f, step |-> "send", payload |-> Payload(r, f, started, family)]
<1>1. /\ reader[r].step = IF f = "start" THEN "track" ELSE "read"
      /\ FrameAvailable(r) /\ UNCHANGED <<kind, home, child, openConns, marked, queue, worker>>
  BY DEF Track
<1>2. /\ reader' = [reader EXCEPT ![r] =
           IF capture THEN [@ EXCEPT !.step = "capture"]
           ELSE IF r \in ro
           THEN [frame |-> NextFrame(f), step |-> "read", payload |-> NoSlot]
           ELSE sent]
      /\ rootFamily' = [rootFamily EXCEPT ![r] = IF f = "atexit" THEN NoFamily ELSE family]
      /\ rootStarted' = [rootStarted EXCEPT ![r] = IF f = "atexit" THEN 0 ELSE started]
      /\ readOnly' = IF f = "atexit" THEN ro \ {r} ELSE ro
      /\ offsets' = IF f = "atexit" THEN offsets \ {r} ELSE offsets
      /\ active' = IF f = "atexit" THEN active \ {r} ELSE active \cup {r}
  BY DEF Track
<1>3. /\ reader'[r] = IF capture THEN [reader[r] EXCEPT !.step = "capture"]
                      ELSE IF r \in ro
                      THEN [frame |-> NextFrame(f), step |-> "read", payload |-> NoSlot]
                      ELSE sent
      /\ rootFamily'[r] = IF f = "atexit" THEN NoFamily ELSE family
      /\ rootStarted'[r] = IF f = "atexit" THEN 0 ELSE started
  BY <1>2
<1>4. f \in Frames /\ Started(r) /\ reader[r] \in ReaderType
  <2>1. f \in Frames \cup {"eof"} /\ reader[r] \in ReaderType
    BY DEF ReaderType
  <2>2. f # "eof" /\ git[r] # "unborn"
    BY <1>1, <2>1 DEF FrameAvailable, Frames
  <2> QED BY <2>1, <2>2 DEF Started
<1>5. Opened(r) /\ ~Unopened(r) /\ Conn(r)
  BY <1>1, <1>4 DEF Opened, Unopened, Frames, ConnInv
<1>6. FamilyLater(r)'
  <2>1. reader'[r].frame = "start" => f = "start"
    BY <1>3, <1>4, RankNext DEF Frames, ReaderType
  <2>2. f = "start" => family = NoFamily
    BY <1>5 DEF Conn, FamilyLater
  <2>3. sent.payload.family = family
    BY DEF Payload
  <2> HIDE DEF sent, family, capture, ro
  <2>4. f = "start" /\ reader'[r].step = "send" => reader'[r].payload.family = NoFamily
    BY <1>3, <1>4, <2>2, <2>3 DEF ReaderType
  <2> QED BY <1>3, <2>1, <2>2, <2>4 DEF FamilyLater
<1>7. ASSUME Plain(r) PROVE Connected(r)'
  <2>1. Connected(r) /\ MutatesRefs(kind[r]) /\ ~DefinitelyReadOnly(kind[r])
    BY <1>5, <1>7 DEF Conn, Plain, ParticipatesByArgv, MutatesRefs, DefinitelyReadOnly
  <2>2. ro = readOnly /\ r \notin readOnly /\ r \notin readOnly'
    BY <1>2, <2>1 DEF Connected
  <2>3. NoEnd(r)' /\ openConns'[r] = (IF ChildOpen(r)' THEN 2 ELSE 1) /\ child'[r].step # "capture"
    BY <1>1, <1>5, <2>1 DEF Connected, NoEnd, ChildOpen, EventQueued, Ending
  <2>4. started # 0 \/ f = "atexit"
    <3>1. CASE f = "start"
      BY <1>4, <3>1 DEF ConnInv, ClockRuns
    <3>2. CASE f = "def_repo"
      BY <1>1, <1>5, <2>1, <3>2 DEF Connected, Known
    <3> QED BY <1>4, <3>1, <3>2 DEF Frames
  <2>5. CASE capture
    <3>1. reader'[r].frame = f /\ reader'[r].step = "capture"
      BY <1>3, <1>4, <2>5 DEF ReaderType
    <3>2. f = "def_repo"
      BY <1>4, <1>5, <2>5 DEF Frames, Conn, FamilyLater
    <3>3. ~Unopened(r)' /\ ~Mapped(r)'
      BY <3>1, <3>2 DEF Unopened, Mapped
    <3>4. rootStarted'[r] # 0 /\ r \in active'
      BY <1>2, <1>3, <2>4, <3>2
    <3> QED BY <2>2, <2>3, <3>1, <3>3, <3>4 DEF Connected
  <2>6. CASE ~capture
    <3>1. reader'[r] = sent
      BY <1>3, <2>2, <2>6, Zenon
    <3>2. reader'[r].frame = f /\ reader'[r].step = "send" /\ reader'[r].payload.at = started
            /\ reader'[r].payload.family = family
      BY <3>1 DEF Payload
    <3>3. ~Unopened(r)' /\ (Known(r)' => f # "atexit") /\ (Mapped(r)' => f = "def_repo")
      BY <1>4, <3>2 DEF Unopened, Known, Mapped, Frames
    <3>4. f # "atexit" => rootStarted'[r] # 0 /\ r \in active'
      BY <1>2, <1>3, <2>4
    <3>5. f = "def_repo" => family # NoFamily /\ r \in offsets'
      BY <1>2, <2>1, <2>4, <2>6, ConstantsAssumption
    <3>6. f = "def_repo" => reader'[r].payload.at # 0 /\ reader'[r].payload.family # NoFamily
      BY <2>4, <3>2, <3>5
    <3> QED BY <2>2, <2>3, <3>2, <3>3, <3>4, <3>5, <3>6 DEF Connected
  <2> QED BY <2>5, <2>6
<1> QED BY <1>1, <1>5, <1>6, <1>7 DEF Conn, Plain

\* The reflog was walked: the offsets are kept, since the root is still live.
LEMMA ConnCapture ==
  ASSUME OrderInv, NEW r \in Roots, Conn(r), Capture(r)
  PROVE  Conn(r)'
<1> USE DEF OrderInv, TypeInv, TypeOK, EnvOK, IngressOK
<1> USE DEF envVars, gitVars, readerVars, ingressVars, queueVars
<1> DEFINE f == reader[r].frame
           g == IF f = "def_repo" THEN home[r] ELSE rootFamily[r]
<1>1. /\ reader[r].step = "capture" /\ f \in Frames /\ offsets' = KeepOffsets(r)
      /\ UNCHANGED <<kind, child, worker, queue, openConns, rootStarted, rootFamily, rootMutating,
                     readOnly, active, marked>>
  BY DEF Capture, Shapes, ReaderShape
<1>2. reader'[r] = [frame |-> f, step |-> "send", payload |-> Payload(r, f, rootStarted[r], g)]
  BY DEF Capture
<1>3. /\ reader'[r].frame = f /\ reader'[r].step = "send"
      /\ reader'[r].payload.at = rootStarted[r] /\ reader'[r].payload.family = g
  BY <1>2 DEF Payload
<1>4. /\ Opened(r) /\ Known(r) /\ ~Unopened(r)' /\ (Mapped(r)' => f = "def_repo")
      /\ Known(r)' => Known(r)
      /\ ChildOpen(r)' <=> ChildOpen(r)
      /\ NoEnd(r)' <=> NoEnd(r)
      /\ Plain(r)' <=> Plain(r)
  BY <1>1, <1>3 DEF Unopened, Opened, Known, Mapped, ChildOpen, NoEnd, EventQueued, Ending, Plain,
       Frames
<1>5. ASSUME Connected(r) PROVE Connected(r)'
  <2>1. rootStarted[r] # 0 /\ r \in active
    BY <1>4, <1>5 DEF Connected
  <2>2. r \in offsets'
    BY <1>1, <2>1 DEF KeepOffsets
  <2>3. f = "def_repo" => g # NoFamily
    BY ConstantsAssumption
  <2> HIDE DEF g
  <2> QED BY <1>1, <1>3, <1>4, <1>5, <2>1, <2>2, <2>3 DEF Connected
<1>6. FamilyLater(r)'
  <2>1. f = "start" => g = NoFamily /\ rootFamily[r] = NoFamily
    BY DEF Conn, FamilyLater
  <2> HIDE DEF g
  <2> QED BY <1>1, <1>3, <2>1 DEF FamilyLater
<1> QED BY <1>1, <1>4, <1>5, <1>6 DEF Conn

\* The frame is queued.
LEMMA ConnSend ==
  ASSUME OrderInv, RootInv, NEW r \in Roots, Conn(r), Send(r)
  PROVE  Conn(r)' /\ PayloadKnows(reader[r].payload)
<1> USE DEF OrderInv, TypeInv, TypeOK
<1> USE DEF envVars, gitVars, readerVars, ingressVars, queueVars
<1> DEFINE f == reader[r].frame
<1>1. /\ reader[r].step = "send" /\ f \in Frames /\ Enqueue(reader[r].payload)
      /\ reader[r].payload.event = f /\ reader[r].payload.root = r
  BY DEF Send, Shapes, ReaderShape, Heard, ReaderStamps, RootInv, RightFamily
<1>2. /\ UNCHANGED <<kind, child, worker, openConns, rootStarted, rootFamily, rootMutating,
                     readOnly, offsets, active, marked>>
      /\ reader'[r].frame = NextFrame(f) /\ reader'[r].step = "read"
  BY DEF Send
<1>3. /\ NextFrame(f) # "start" /\ (NextFrame(f) = "def_repo" => f = "start")
      /\ NextFrame(f) = "atexit" => f = "def_repo"
      /\ NextFrame(f) = "eof" <=> f = "atexit"
  BY <1>1 DEF NextFrame, Frames
<1>4. EventQueued(r, "closed")' <=> EventQueued(r, "closed")
  BY <1>1, QueuedMore DEF Frames
<1>5. /\ Opened(r) /\ ~Unopened(r)' /\ (Known(r)' => Known(r)) /\ (Mapped(r)' => Mapped(r))
      /\ ChildOpen(r)' <=> ChildOpen(r)
      /\ NoEnd(r)' <=> NoEnd(r)
      /\ Plain(r)' <=> Plain(r)
  BY <1>1, <1>2, <1>3, <1>4 DEF Unopened, Opened, Known, Mapped, ChildOpen, NoEnd, Ending, Plain,
       Frames
<1>6. Connected(r) => Connected(r)'
  BY <1>2, <1>5 DEF Connected
<1>7. Conn(r)'
  BY <1>2, <1>3, <1>5, <1>6 DEF Conn, FamilyLater
<1>8. PayloadKnows(reader[r].payload)
  BY <1>1 DEF PayloadKnows, Conn, FamilyLater, Connected
<1> QED BY <1>7, <1>8

\* The connection is closed, and the marker sent.
LEMMA ConnClose ==
  ASSUME OrderInv, NEW r \in Roots, Conn(r), Close(r) \/ SendMarker(r)
  PROVE  Conn(r)'
<1> USE DEF OrderInv, TypeInv, TypeOK, IngressOK
<1> USE DEF envVars, gitVars, readerVars, ingressVars, queueVars
<1>1. UNCHANGED <<kind, child>>
  BY DEF Close, SendMarker
<1>2. reader'[r].frame = reader[r].frame /\ reader'[r].step \in {"marker", "closed"}
  BY DEF Close, SendMarker, ReaderType
<1>3. r \in readOnly' => r \in readOnly
  BY DEF Close, SendMarker, RecordClose, ClearRoot, ForgetRoot
<1>4. rootFamily'[r] \in {NoFamily, rootFamily[r]}
  BY FamilyRecordClose DEF Close, SendMarker
<1>5. ~Unopened(r)' /\ ~Opened(r)' /\ (Plain(r)' <=> Plain(r))
  BY <1>1, <1>2 DEF Unopened, Opened, Plain
<1>6. Connected(r) => Connected(r)'
  BY <1>1, <1>2, <1>3, <1>5 DEF Connected
<1> QED BY <1>1, <1>2, <1>4, <1>5, <1>6 DEF Conn, FamilyLater

\* The child of a plain root neither marks nor clears it while its own connection is open
\* or before it is.
LEMMA ConnChild ==
  ASSUME OrderInv, RootInv, NEW r \in Roots, Conn(r), ChildRead(r) \/ ChildStep(r)
  PROVE  Conn(r)'
<1> USE DEF OrderInv, TypeInv, TypeOK, IngressOK
<1> USE DEF envVars, gitVars, readerVars, ingressVars, queueVars, ChildStep
<1>1. UNCHANGED <<kind, reader, worker>>
  BY DEF ChildRead, ChildTrack, ChildCapture, ChildSend, ChildClose, ChildSendMarker
<1>2. /\ Unopened(r)' <=> Unopened(r)
      /\ Opened(r)' <=> Opened(r)
      /\ Known(r)' <=> Known(r)
      /\ Mapped(r)' <=> Mapped(r)
      /\ Plain(r)' <=> Plain(r)
      /\ Ending(r)' <=> Ending(r)
  BY <1>1 DEF Unopened, Opened, Known, Mapped, Plain, Ending
<1>3. child[r] \in ChildType
  OBVIOUS
<1>4. CASE ChildRead(r)
  <2>1. /\ child[r].step = "read" /\ child'[r].step = "track" /\ r \in Children
        /\ openConns'[r] = openConns[r] + 1
        /\ UNCHANGED <<rootStarted, rootFamily, rootMutating, readOnly, offsets, active, marked, queue>>
    BY <1>3, <1>4 DEF ChildRead, ChildType
  <2>2. ~ChildOpen(r) /\ ChildOpen(r)' /\ (NoEnd(r) => NoEnd(r)')
    BY <1>2, <2>1 DEF ChildOpen, NoEnd, EventQueued
  <2>3. Connected(r) => Connected(r)'
    BY <1>1, <1>2, <2>1, <2>2 DEF Connected
  <2> QED BY <1>1, <1>2, <2>1, <2>3 DEF Conn, FamilyLater
<1>5. CASE ChildTrack(r)
  <2>1. /\ child[r].step = "track" /\ r \in Children /\ active' = active \cup {r}
        /\ UNCHANGED <<openConns, rootStarted, rootFamily, readOnly, offsets, marked, queue>>
    BY <1>5 DEF ChildTrack, Conn
  <2>2. /\ rootMutating'[r] \in {rootMutating[r], IF ChildMutatesRefs(kind[r]) THEN "yes" ELSE "no"}
        /\ child'[r].step \in {"eof", "send", IF ChildMutatesRefs(kind[r]) THEN "capture" ELSE "eof"}
    BY <1>3, <1>5 DEF ChildTrack, ChildType
  <2>3. ChildOpen(r) /\ ChildOpen(r)' /\ (NoEnd(r) => NoEnd(r)')
    BY <1>2, <2>1, <2>2 DEF ChildOpen, NoEnd, EventQueued
  <2>4. Plain(r) /\ Connected(r) => Connected(r)'
    BY <1>1, <1>2, <2>1, <2>2, <2>3 DEF Plain, Connected
  <2> QED BY <1>1, <1>2, <2>1, <2>4 DEF Conn, FamilyLater
<1>6. CASE ChildCapture(r)
  <2>1. child[r].step = "capture" /\ UNCHANGED rootFamily
    BY <1>6 DEF ChildCapture
  <2>2. ~Plain(r)
    BY <2>1 DEF Conn, Connected
  <2> QED BY <1>1, <1>2, <2>1, <2>2 DEF Conn, FamilyLater
<1>7. CASE ChildSend(r)
  <2>1. /\ child[r].step = "send" /\ Enqueue(child[r].payload) /\ child'[r].step = "eof"
        /\ UNCHANGED <<openConns, rootStarted, rootFamily, rootMutating, readOnly, offsets, active,
                       marked>>
    BY <1>3, <1>7 DEF ChildSend, ChildType
  <2>2. child[r].payload.event = "child"
    BY <2>1 DEF RootInv, RightFamily
  <2>3. EventQueued(r, "closed")' <=> EventQueued(r, "closed")
    BY <2>1, <2>2, QueuedMore
  <2>4. ChildOpen(r) /\ ChildOpen(r)' /\ (NoEnd(r) => NoEnd(r)')
    BY <1>2, <2>1, <2>3 DEF ChildOpen, NoEnd
  <2>5. Connected(r) => Connected(r)'
    BY <1>1, <1>2, <2>1, <2>4 DEF Connected
  <2> QED BY <1>1, <1>2, <2>1, <2>5 DEF Conn, FamilyLater
<1>8. CASE ChildClose(r)
  <2>1. /\ child[r].step = "eof" /\ RecordClose(r) /\ UNCHANGED queue
        /\ child'[r].step = IF EnqueuesMarker(r) THEN "marker" ELSE "closed"
    BY <1>3, <1>8 DEF ChildClose, ChildType
  <2>2. /\ rootFamily'[r] \in {NoFamily, rootFamily[r]}
        /\ r \in readOnly' => r \in readOnly
    BY <2>1, FamilyRecordClose DEF RecordClose, ClearRoot, ForgetRoot
  <2>3. ChildOpen(r) /\ ~ChildOpen(r)'
    BY <2>1 DEF ChildOpen
  <2>4. ASSUME Connected(r), Unopened(r)
        PROVE  /\ NoEnd(r)' /\ r \notin offsets' /\ rootMutating'[r] # "yes" /\ openConns'[r] = 0
    <3>1. openConns[r] = 1 /\ ~NeedsCloseMarker(r) /\ NoEnd(r)
      BY <2>3, <2>4 DEF Connected, NeedsCloseMarker
    <3>2. ClearRoot(r) /\ child'[r].step = "closed"
      BY <2>1, <3>1 DEF RecordClose, EnqueuesMarker
    <3>3. /\ openConns'[r] = 0 /\ rootMutating'[r] = "unknown"
          /\ r \notin offsets' /\ r \notin marked'
      BY <3>2 DEF ClearRoot, ForgetRoot
    <3>4. NoEnd(r)'
      BY <1>2, <2>1, <3>1, <3>2, <3>3 DEF NoEnd, EventQueued
    <3> QED BY <3>3, <3>4
  <2>5. ASSUME Connected(r), Opened(r)
        PROVE  /\ NoEnd(r)' /\ openConns'[r] = 1
               /\ UNCHANGED <<rootStarted, active, offsets>>
    <3>1. openConns[r] = 2 /\ NoEnd(r)
      BY <2>3, <2>5 DEF Connected
    <3>2. ~EnqueuesMarker(r) /\ ~(openConns[r] <= 1)
      BY <3>1 DEF EnqueuesMarker
    <3>3. /\ child'[r].step = "closed" /\ marked' = marked /\ openConns'[r] = 1
          /\ UNCHANGED <<rootStarted, active, offsets>>
      BY <2>1, <3>1, <3>2 DEF RecordClose
    <3>4. NoEnd(r)'
      BY <1>2, <2>1, <3>1, <3>3 DEF NoEnd, EventQueued
    <3> QED BY <3>3, <3>4
  <2>6. Connected(r) => Connected(r)'
    BY <1>1, <1>2, <2>1, <2>2, <2>3, <2>4, <2>5 DEF Connected
  <2> QED BY <1>1, <1>2, <2>1, <2>2, <2>6 DEF Conn, FamilyLater
<1>9. CASE ChildSendMarker(r)
  <2>1. child[r].step = "marker" /\ child'[r].step = "closed" /\ UNCHANGED <<rootFamily, readOnly>>
    BY <1>3, <1>9 DEF ChildSendMarker, ChildType
  <2>2. Connected(r) => ~Unopened(r) /\ ~Opened(r)
    BY <2>1 DEF Connected, NoEnd
  <2>3. Connected(r) => Connected(r)'
    BY <1>1, <1>2, <2>1, <2>2 DEF Connected
  <2> QED BY <1>1, <1>2, <2>1, <2>3 DEF Conn, FamilyLater
<1> QED BY <1>4, <1>5, <1>6, <1>7, <1>8, <1>9

\* A payload is taken from the queue: the worker ends a root only after its last frame or
\* its marker.
LEMMA ConnIngest ==
  ASSUME OrderInv, RootInv, ConnInv, IngestStep
  PROVE  ConnInv'
<1> USE DEF envVars, gitVars, readerVars, ingressVars
<1>1. PICK p \in Payloads :
        /\ queue # <<>> /\ p = queue[1] /\ 1 \in DOMAIN queue /\ queue' = Tail(queue)
        /\ p.root \in Roots
        /\ IngestFrame(p) \/ IngestAtexit(p) \/ IngestClosed(p)
  BY Taken
<1>2. UNCHANGED <<kind, git, startedAt, clock, reader, child, openConns, rootStarted, rootFamily,
                  rootMutating, readOnly, offsets, active, marked>>
  BY <1>1 DEF IngestFrame, IngestAtexit, IngestClosed
<1>3. \A i \in DOMAIN queue' : i + 1 \in DOMAIN queue /\ queue'[i] = queue[i + 1]
  BY <1>1 DEF OrderInv, TypeInv, TypeOK, QueueOK
<1>4. ClockRuns' /\ QueueKnows'
  BY <1>2, <1>3 DEF ConnInv, ClockRuns, Started, QueueKnows, PayloadKnows, Plain
<1>5. \A r \in Roots : EventQueued(r, "closed")' => EventQueued(r, "closed")
  BY <1>3 DEF EventQueued
<1>6. worker'.pc \in {"replace", "append", "clear"} =>
        worker'.root = p.root /\ p.event \in {"atexit", "closed"}
  <2>1. CASE IngestFrame(p)
    BY <2>1, FinishedType DEF IngestFrame
  <2>2. CASE IngestAtexit(p)
    <3>1. p.event = "atexit" /\ \E pc, o, s, F :
            worker' = Working(pc, p.root, o, s, F) \/ worker' = Finished
      BY <2>2 DEF IngestAtexit
    <3> QED BY <3>1, FinishedType DEF Working
  <2>3. CASE IngestClosed(p)
    BY <2>3 DEF IngestClosed, Working
  <2> QED BY <1>1, <2>1, <2>2, <2>3
<1>7. p.event = "atexit" => reader[p.root].frame = "eof"
  <2> SUFFICES ASSUME p.event = "atexit" PROVE reader[p.root].frame = "eof"
    OBVIOUS
  <2>1. Rank("atexit") < Rank(reader[p.root].frame)
    BY <1>1 DEF RootInv, FramesInOrder, FrameAt, Frames
  <2>2. reader[p.root].frame \in Frames \cup {"eof"}
    BY <1>1 DEF OrderInv, TypeInv, TypeOK, ReaderType
  <2> QED BY <2>1, <2>2 DEF Rank, Frames
<1>8. p.event = "closed" => EventQueued(p.root, "closed")
  BY <1>1 DEF EventQueued
<1>9. \A r \in Roots : EndsLate(r)
  BY <1>6, <1>7, <1>8 DEF EndsLate, Ending
<1>10. \A r \in Roots : Conn(r)'
  BY <1>2, <1>5, <1>9, ConnUntouched DEF ConnInv, SameIngress
<1> QED BY <1>4, <1>10 DEF ConnInv

\* The worker's other steps end no root anew.
LEMMA EndingStops ==
  ASSUME TypeInv,
         \/ WorkerReplace \/ WorkerAppend \/ WorkerSnapshot \/ WorkerDone \/ WorkerGc
         \/ \E F \in Families : WorkerDrain(F)
  PROVE  \A r \in Roots : Ending(r)' => Ending(r)
<1>1. worker \in WorkerType
  BY DEF TypeInv, TypeOK
<1>2. CASE WorkerReplace
  BY <1>1, <1>2 DEF WorkerReplace, Ending, WorkerType
<1>3. CASE WorkerAppend
  BY <1>1, <1>3 DEF WorkerAppend, Ending, WorkerType
<1>4. CASE WorkerSnapshot
  BY <1>1, <1>4 DEF WorkerSnapshot, Ending, WorkerType
<1>5. CASE WorkerDone
  BY <1>5, FinishedType DEF WorkerDone, Ending
<1>6. CASE WorkerGc
  BY <1>6 DEF WorkerGc, IdleWorker, Ending
<1>7. CASE \E F \in Families : WorkerDrain(F)
  BY <1>1, <1>7 DEF WorkerDrain, Ending, WorkerType
<1> QED BY <1>2, <1>3, <1>4, <1>5, <1>6, <1>7

\* Every step keeps the connections in order.
LEMMA ConnNext == OrderInv /\ RootInv /\ ConnInv /\ [Next]_vars => ConnInv'
<1> SUFFICES ASSUME OrderInv, RootInv, ConnInv, [Next]_vars PROVE ConnInv'
  OBVIOUS
<1> USE DEF envVars, gitVars, readerVars, ingressVars, queueVars
<1>1. TypeInv /\ clock \in Nat /\ QueueKnows /\ ClockRuns /\ \A r \in Roots : Conn(r)
  BY DEF OrderInv, ConnInv, TypeInv, TypeOK, EnvOK
<1>2. ASSUME UNCHANGED <<git, startedAt, clock>> PROVE ClockRuns'
  BY <1>1, <1>2 DEF ClockRuns, Started
<1>3. ASSUME UNCHANGED <<kind, reader, child, queue>>, \A r \in Roots : SameIngress(r),
             \A r \in Roots : Ending(r)' => Ending(r)
      PROVE  QueueKnows' /\ \A r \in Roots : Conn(r)'
  <2>1. \A r \in Roots : EndsLate(r) /\ (EventQueued(r, "closed")' => EventQueued(r, "closed"))
    BY <1>3 DEF EndsLate, EventQueued
  <2> QED BY <1>1, <1>3, <2>1, ConnUntouched, KnowsMore
<1>4. ASSUME UNCHANGED <<kind, reader, child, queue, openConns, rootStarted, rootFamily,
                         rootMutating, readOnly, offsets, active, marked>>,
             UNCHANGED worker \/ (\A r \in Roots : Ending(r)' => Ending(r))
      PROVE  QueueKnows' /\ \A r \in Roots : Conn(r)'
  BY <1>3, <1>4 DEF SameIngress, Ending
<1>5. CASE UNCHANGED vars
  BY <1>2, <1>4, <1>5 DEF vars, ConnInv
<1>6. ASSUME NEW r \in Roots, GitStart(r) PROVE ConnInv'
  <2>1. PICK t \in {clock + d : d \in Ticks} : clock' = t /\ startedAt' = [startedAt EXCEPT ![r] = t]
    BY <1>6 DEF GitStart
  <2>2. PICK d \in Ticks : t = clock + d
    BY <2>1
  <2>3. d \in Nat
    BY ConstantsAssumption
  <2>4. clock' > 0 /\ t > 0
    BY <1>1, <2>1, <2>2, <2>3 DEF ClockRuns
  <2>5. \A q \in Roots \ {r} : startedAt'[q] = startedAt[q] /\ git'[q] = git[q]
    BY <1>6, <2>1 DEF GitStart, OrderInv, TypeInv, TypeOK, EnvOK
  <2>6. startedAt'[r] = t
    BY <2>1 DEF OrderInv, TypeInv, TypeOK, EnvOK
  <2>7. ClockRuns'
    BY <1>1, <2>4, <2>5, <2>6 DEF ClockRuns, Started
  <2>8. QueueKnows' /\ \A q \in Roots : Conn(q)'
    BY <1>4, <1>6 DEF GitStart
  <2> QED BY <2>7, <2>8 DEF ConnInv
<1>7. ASSUME NEW r \in Roots, GitEnd(r) PROVE ConnInv'
  <2>1. \A q \in Roots : Started(q)' => Started(q)
    BY <1>1, <1>7 DEF GitEnd, Started, TypeInv, TypeOK, EnvOK
  <2>2. UNCHANGED <<startedAt, clock>>
    BY <1>7 DEF GitEnd
  <2>3. ClockRuns'
    BY <1>1, <2>1, <2>2 DEF ClockRuns
  <2>4. QueueKnows' /\ \A q \in Roots : Conn(q)'
    BY <1>4, <1>7 DEF GitEnd
  <2> QED BY <2>3, <2>4 DEF ConnInv
<1>8. ASSUME NEW r \in Roots, ReaderStep(r) \/ ChildRead(r) \/ ChildStep(r) PROVE ConnInv'
  <2> USE DEF ReaderStep, ChildStep
  <2>1. UNCHANGED <<git, startedAt, clock, kind>>
    BY <1>8 DEF OpenRoot, Track, Capture, Send, Close, SendMarker, ChildRead, ChildTrack,
         ChildCapture, ChildSend, ChildClose, ChildSendMarker
  <2>2. Conn(r)'
    BY <1>1, <1>8, ConnOpen, ConnTrack, ConnCapture, ConnSend, ConnClose, ConnChild
  <2>3. \A q \in Roots \ {r} : Conn(q)'
    BY <1>1, <1>8, ConnElsewhere
  <2>4. UNCHANGED queue \/ \E p : Enqueue(p) /\ PayloadKnows(p)
    <3>1. CASE Send(r)
      BY <1>1, <3>1, ConnSend DEF Send
    <3>2. CASE ChildSend(r)
      <4>1. Enqueue(child[r].payload) /\ child[r].payload.event = "child"
        BY <3>2 DEF ChildSend, RootInv, RightFamily
      <4> QED BY <4>1 DEF PayloadKnows
    <3>3. CASE SendMarker(r) \/ ChildSendMarker(r)
      <4>1. Enqueue(Marker(r)) /\ PayloadKnows(Marker(r))
        BY <3>3 DEF SendMarker, ChildSendMarker, Marker, Payload, PayloadKnows
      <4> QED BY <4>1
    <3>4. CASE UNCHANGED queue
      BY <3>4
    <3> QED BY <1>8, <3>1, <3>2, <3>3, <3>4 DEF OpenRoot, Track, Capture, Close, ChildRead,
              ChildTrack, ChildCapture, ChildClose
  <2>5. QueueKnows'
    BY <1>1, <2>1, <2>4, KnowsMore
  <2> QED BY <1>2, <2>1, <2>2, <2>3, <2>5 DEF ConnInv
<1>9. CASE IngestStep
  BY <1>9, ConnIngest
<1>10. CASE WorkerClear
  <2>1. PICK r : r = worker.root
    OBVIOUS
  <2>2. /\ worker.pc = "clear" /\ r \in Roots /\ ClearRoot(r)
        /\ worker'.pc \notin {"replace", "append", "clear"}
        /\ UNCHANGED <<kind, git, startedAt, clock, reader, child, queue>>
    BY <1>1, <1>10, <2>1 DEF WorkerClear, TypeInv, Shapes, WorkerShape, TypeOK, WorkerType
  <2>3. \A q \in Roots : ~Ending(q)' /\ EndsLate(q)
    BY <2>2 DEF Ending, EndsLate
  <2>4. \A q \in Roots : EventQueued(q, "closed")' => EventQueued(q, "closed")
    BY <2>2 DEF EventQueued
  <2>5. \A q \in Roots \ {r} : Conn(q)'
    BY <1>1, <2>2, <2>3, <2>4, ForgetElsewhere, ConnUntouched
  <2>6. /\ r \notin readOnly' /\ rootFamily'[r] = NoFamily
    BY <1>1, <2>2 DEF ClearRoot, ForgetRoot, TypeInv, TypeOK, IngressOK
  <2>7. (~Unopened(r) /\ ~Opened(r)) \/ ~Plain(r)
    BY <1>1, <2>1, <2>2 DEF Conn, Connected, NoEnd, Ending
  <2>8. /\ Unopened(r)' <=> Unopened(r)
        /\ Opened(r)' <=> Opened(r)
        /\ Plain(r)' <=> Plain(r)
    BY <2>2 DEF Unopened, Opened, Plain
  <2>9. Conn(r)'
    BY <1>1, <2>2, <2>6, <2>7, <2>8 DEF Conn, FamilyLater, Connected
  <2>10. QueueKnows'
    BY <1>1, <2>2, KnowsMore
  <2> QED BY <1>2, <2>2, <2>5, <2>9, <2>10 DEF ConnInv
<1>11. CASE \/ WorkerReplace \/ WorkerAppend \/ WorkerSnapshot \/ WorkerDone \/ WorkerGc
            \/ \E F \in Families : WorkerDrain(F)
  <2>1. UNCHANGED <<kind, git, startedAt, clock, reader, child, queue, openConns, rootStarted,
                    rootFamily, rootMutating, readOnly, offsets, active, marked>>
    BY <1>11 DEF WorkerReplace, WorkerAppend, WorkerSnapshot, WorkerDone, WorkerGc, WorkerDrain
  <2>2. \A r \in Roots : Ending(r)' => Ending(r)
    BY <1>1, <1>11, EndingStops
  <2> QED BY <1>2, <1>4, <2>1, <2>2 DEF ConnInv
<1>12. ASSUME NEW c \in Checkpoints, AcceptCheckpoint(c) PROVE ConnInv'
  <2>1. PICK t \in {clock + d : d \in Ticks} : clock' = t
    BY <1>12 DEF AcceptCheckpoint
  <2>2. PICK d \in Ticks : t = clock + d
    BY <2>1
  <2>3. d \in Nat
    BY ConstantsAssumption
  <2>4. clock' > 0 /\ UNCHANGED <<git, startedAt>>
    BY <1>1, <1>12, <2>1, <2>2, <2>3 DEF ClockRuns, AcceptCheckpoint
  <2>5. ClockRuns'
    BY <1>1, <2>4 DEF ClockRuns, Started
  <2>6. QueueKnows' /\ \A q \in Roots : Conn(q)'
    BY <1>4, <1>12 DEF AcceptCheckpoint
  <2> QED BY <2>5, <2>6 DEF ConnInv
<1>13. CASE AdmissionStep \/ TaskSnapshot \/ \E F \in Families : TaskDrain(F) \/ Execute(F)
  <2>1. UNCHANGED <<kind, git, startedAt, clock, reader, child, queue, openConns, rootStarted,
                    rootFamily, rootMutating, readOnly, offsets, active, marked, worker>>
    BY <1>13 DEF AdmissionStep, AdmitCheckpoint, FailAdmission, TaskSnapshot, TaskDrain, Execute
  <2> QED BY <1>2, <1>4, <2>1 DEF ConnInv
<1> QED BY <1>5, <1>6, <1>7, <1>8, <1>9, <1>10, <1>11, <1>12, <1>13 DEF Next, WorkerStep

-----------------------------------------------------------------------------
(* Ends stay in sight.                                                      *)

\* Initially there is nothing to end.
LEMMA EndInit == Init => EndInv
<1> SUFFICES ASSUME Init PROVE EndInv
  OBVIOUS
<1>1. MarkersLast /\ PendingLed
  BY DEF Init, MarkersLast, PendingLed
<1>2. \A r \in Roots : Ends(r)
  BY DEF Init, Ends, SlotNeeded, CutEnds, Cut, ExitEnds
<1> QED BY <1>1, <1>2 DEF EndInv

\* A step that does not concern root r, or clears it while the worker ends it.
LEMMA EndsUntouched ==
  ASSUME NEW r \in Roots, Ends(r), UNCHANGED kind, reader'[r] = reader[r], child'[r] = child[r],
         SameIngress(r) \/ Ending(r), slots'[r] = slots[r], Ending(r)' => Ending(r),
         \A ev : EventQueued(r, ev)' <=> EventQueued(r, ev)
  PROVE  Ends(r)'
<1>1. LeftToChild(r) => LeftToChild(r)'
  BY DEF LeftToChild, ChildOpen, NoEnd, SameIngress
<1>2. Ended(r)' <=> Ended(r)
  BY DEF Ended, FrameQueued
<1> QED BY <1>1, <1>2 DEF Ends, SlotNeeded, CutEnds, Cut, ExitEnds, Plain

\* A payload taken from the head of the queue.
LEMMA QueuedLess ==
  ASSUME TypeInv, queue # <<>>, queue' = Tail(queue), NEW r, NEW ev
  PROVE  /\ EventQueued(r, ev)' => EventQueued(r, ev)
         /\ EventQueued(r, ev) /\ ~(queue[1].root = r /\ queue[1].event = ev) => EventQueued(r, ev)'
<1>1. queue \in Seq(Payloads)
  BY DEF TypeInv, TypeOK, QueueOK
<1>2. \A i \in DOMAIN queue' : i + 1 \in DOMAIN queue /\ queue'[i] = queue[i + 1]
  BY <1>1
<1>3. \A i \in DOMAIN queue : i = 1 \/ (i - 1 \in DOMAIN queue' /\ queue'[i - 1] = queue[i])
  BY <1>1
<1>4. EventQueued(r, ev)' => EventQueued(r, ev)
  BY <1>2 DEF EventQueued
<1>5. ASSUME EventQueued(r, ev), ~(queue[1].root = r /\ queue[1].event = ev)
      PROVE  EventQueued(r, ev)'
  <2>1. PICK i \in DOMAIN queue : queue[i].root = r /\ queue[i].event = ev
    BY <1>5 DEF EventQueued
  <2>2. i - 1 \in DOMAIN queue' /\ queue'[i - 1] = queue[i]
    BY <1>3, <1>5, <2>1
  <2> QED BY <2>1, <2>2 DEF EventQueued
<1> QED BY <1>4, <1>5

\* The steps of the reader of root r.
LEMMA EndsReader ==
  ASSUME OrderInv, RootInv, NEW r \in Roots, Conn(r), Ends(r), ReaderStep(r)
  PROVE  Ends(r)'
<1> USE DEF OrderInv, TypeInv, TypeOK, IngressOK
<1> USE DEF envVars, gitVars, readerVars, ingressVars, queueVars, ReaderStep
<1>1. UNCHANGED <<kind, child, slots, worker>> /\ reader[r] \in ReaderType
  BY DEF OpenRoot, Track, Capture, Send, Close, SendMarker
<1>2. (Plain(r)' <=> Plain(r)) /\ (Plain(r) => Connected(r))
  BY <1>1 DEF Plain, Conn
<1>3. CASE OpenRoot(r) \/ Capture(r)
  <2>1. /\ reader'[r].frame = reader[r].frame /\ reader[r].frame \in Frames
        /\ reader'[r].step \notin {"marker", "closed"}
    BY <1>3 DEF OpenRoot, Capture, ReaderType, Shapes, ReaderShape, Frames
  <2> QED BY <1>1, <2>1 DEF Ends, SlotNeeded, CutEnds, Cut, ExitEnds, Frames
<1>4. CASE Track(r)
  <2>1. reader[r].frame \in Frames
    <3>1. reader[r].frame \in Frames \cup {"eof"} /\ FrameAvailable(r)
      BY <1>1, <1>4 DEF Track, ReaderType
    <3> QED BY <3>1 DEF FrameAvailable, Frames
  <2>2. /\ reader'[r].frame \in {reader[r].frame, NextFrame(reader[r].frame)}
        /\ reader'[r].step \in {"capture", "read", "send"}
        /\ Plain(r) => reader'[r].frame = reader[r].frame
    <3>1. PICK t, g :
            \/ reader'[r] = [reader[r] EXCEPT !.step = "capture"]
            \/ /\ r \in readOnly \cup {x \in {r} : reader[r].frame = "start"
                                                     /\ DefinitelyReadOnly(kind[r])}
               /\ reader'[r] = [frame |-> NextFrame(reader[r].frame), step |-> "read",
                                payload |-> NoSlot]
            \/ reader'[r] = [frame |-> reader[r].frame, step |-> "send",
                             payload |-> Payload(r, reader[r].frame, t, g)]
      BY <1>4 DEF Track
    <3>2. Plain(r) => r \notin readOnly /\ ~DefinitelyReadOnly(kind[r])
      BY <1>2 DEF Connected, Plain, ParticipatesByArgv, DefinitelyReadOnly
    <3>3. CASE reader'[r] = [reader[r] EXCEPT !.step = "capture"]
      BY <1>1, <3>3 DEF ReaderType
    <3>4. CASE ~Plain(r) /\ reader'[r] = [frame |-> NextFrame(reader[r].frame), step |-> "read",
                                          payload |-> NoSlot]
      BY <3>4
    <3>5. CASE reader'[r] = [frame |-> reader[r].frame, step |-> "send",
                             payload |-> Payload(r, reader[r].frame, t, g)]
      BY <3>5
    <3> QED BY <3>1, <3>2, <3>3, <3>4, <3>5
  <2>3. reader[r].frame = "atexit" => NextFrame(reader[r].frame) = "eof"
    BY DEF NextFrame
  <2> QED BY <1>1, <1>2, <2>1, <2>2, <2>3 DEF Ends, SlotNeeded, CutEnds, Cut, ExitEnds, Frames
<1>5. CASE Send(r)
  <2>1. /\ Enqueue(reader[r].payload) /\ reader[r].step = "send" /\ reader[r].frame \in Frames
        /\ reader[r].payload.event = reader[r].frame /\ reader[r].payload.root = r
        /\ reader'[r].frame = NextFrame(reader[r].frame) /\ reader'[r].step = "read"
    BY <1>5 DEF Send, Shapes, ReaderShape, Heard, ReaderStamps, RootInv, RightFamily
  <2>2. /\ NextFrame(reader[r].frame) = "eof" <=> reader[r].frame = "atexit"
    BY <2>1 DEF NextFrame, Frames
  <2>3. reader[r].frame = "atexit" => EventQueued(r, "atexit")'
    BY <2>1, QueuedMore
  <2> QED BY <1>1, <2>1, <2>2, <2>3 DEF Ends, SlotNeeded, CutEnds, Cut, ExitEnds, Frames
<1>6. CASE Close(r)
  <2>1. /\ reader[r].step = "read" /\ reader'[r].frame = reader[r].frame /\ UNCHANGED queue
        /\ reader[r].frame # "start" =>
             RecordClose(r) /\ reader'[r].step = IF EnqueuesMarker(r) THEN "marker" ELSE "closed"
    BY <1>1, <1>6 DEF Close, ReaderType
  <2>2. ExitEnds(r)' <=> ExitEnds(r)
    BY <1>1, <2>1 DEF ExitEnds, Ended, FrameQueued, EventQueued
  <2>3. ASSUME Plain(r), reader[r].frame = "atexit" PROVE CutEnds(r)'
    <3>1. Opened(r) /\ Mapped(r) /\ Connected(r)
      BY <1>2, <2>1, <2>3 DEF Opened, Unopened, Mapped
    <3>2. /\ r \in offsets /\ r \notin readOnly /\ NoEnd(r)
          /\ openConns[r] = IF ChildOpen(r) THEN 2 ELSE 1
      BY <3>1 DEF Connected
    <3>3. CASE ~ChildOpen(r)
      <4>1. EnqueuesMarker(r)
        BY <3>2, <3>3 DEF EnqueuesMarker, NeedsCloseMarker, NoEnd
      <4> QED BY <2>1, <2>3, <4>1 DEF CutEnds
    <3>4. CASE ChildOpen(r)
      <4>1. openConns'[r] = 1 /\ UNCHANGED <<offsets, marked>>
        BY <2>1, <2>3, <3>2, <3>4 DEF RecordClose, EnqueuesMarker
      <4>2. LeftToChild(r)'
        BY <1>1, <2>1, <3>2, <3>4, <4>1 DEF LeftToChild, ChildOpen, NoEnd, EventQueued, Ending
      <4> QED BY <4>2 DEF CutEnds
    <3> QED BY <3>3, <3>4
  <2> QED BY <1>1, <1>2, <2>1, <2>2, <2>3 DEF Ends, SlotNeeded, CutEnds, Cut
<1>7. CASE SendMarker(r)
  <2>1. /\ Enqueue(Marker(r)) /\ Marker(r).root = r /\ Marker(r).event = "closed"
        /\ reader'[r].frame = reader[r].frame
    BY <1>1, <1>7 DEF SendMarker, Marker, Payload, ReaderType
  <2>2. /\ EventQueued(r, "closed")'
        /\ \A f \in Frames : EventQueued(r, f)' <=> EventQueued(r, f)
    BY <2>1, QueuedMore DEF Frames
  <2>3. ExitEnds(r) => ExitEnds(r)'
    BY <1>1, <2>1, <2>2 DEF ExitEnds, Ended, FrameQueued, Frames
  <2> QED BY <1>1, <1>2, <2>1, <2>2, <2>3 DEF Ends, SlotNeeded, CutEnds
<1> QED BY <1>3, <1>4, <1>5, <1>6, <1>7

\* The steps of the child's reader: the last to close puts the marker.
LEMMA EndsChild ==
  ASSUME OrderInv, RootInv, NEW r \in Roots, Conn(r), Ends(r), ChildRead(r) \/ ChildStep(r)
  PROVE  Ends(r)'
<1> USE DEF OrderInv, TypeInv, TypeOK, IngressOK
<1> USE DEF envVars, gitVars, readerVars, ingressVars, queueVars, ChildStep
<1>1. UNCHANGED <<kind, reader, slots, worker>> /\ child[r] \in ChildType
  BY DEF ChildRead, ChildTrack, ChildCapture, ChildSend, ChildClose, ChildSendMarker
<1>2. \A ev : ev # "child" /\ ~(ev = "closed" /\ ChildSendMarker(r)) =>
        (EventQueued(r, ev)' <=> EventQueued(r, ev))
  <2>1. CASE ChildSend(r)
    <3>1. Enqueue(child[r].payload) /\ child[r].payload.event = "child"
      BY <2>1 DEF ChildSend, RootInv, RightFamily
    <3> QED BY <3>1, QueuedMore
  <2>2. CASE ChildSendMarker(r)
    <3>1. Enqueue(Marker(r)) /\ Marker(r).event = "closed"
      BY <2>2 DEF ChildSendMarker, Marker, Payload
    <3> QED BY <2>2, <3>1, QueuedMore
  <2>3. CASE UNCHANGED queue
    BY <2>3 DEF EventQueued
  <2> QED BY <2>1, <2>2, <2>3 DEF ChildRead, ChildTrack, ChildCapture, ChildClose
<1>3. \A f \in Frames : EventQueued(r, f)' <=> EventQueued(r, f)
  BY <1>2 DEF Frames
<1>4. (Ended(r)' <=> Ended(r)) /\ (Plain(r)' <=> Plain(r)) /\ (Ending(r)' <=> Ending(r))
  BY <1>1, <1>3 DEF Ended, FrameQueued, Plain, Ending
<1>5. SlotNeeded(r)' /\ (ExitEnds(r) => ExitEnds(r)')
  BY <1>1, <1>3, <1>4 DEF Ends, SlotNeeded, ExitEnds, Frames
<1>6. ASSUME Plain(r), Cut(r), CutEnds(r) PROVE CutEnds(r)'
  <2>1. Connected(r) /\ (child[r].step # "read" => r \in Children)
    BY <1>6 DEF Conn
  <2>2. CASE reader[r].step = "marker"
    BY <1>1, <2>2 DEF CutEnds
  <2>3. CASE LeftToChild(r)
    <3>1. /\ child[r].step \in {"track", "send", "eof"} /\ r \in Children /\ r \notin readOnly
          /\ openConns[r] = 1 /\ r \in offsets /\ NoEnd(r)
      BY <2>1, <2>3 DEF LeftToChild, ChildOpen, Connected
    <3>2. CASE ChildTrack(r) \/ ChildSend(r)
      <4>1. UNCHANGED <<openConns, offsets, marked>>
        BY <3>2 DEF ChildTrack, ChildSend
      <4>2. child'[r].step \in {"send", "eof"}
        <5>1. ~ChildMutatesRefs(kind[r])
          BY <1>6, <3>1 DEF Plain
        <5> QED BY <1>1, <3>2, <5>1 DEF ChildTrack, ChildSend, ChildType
      <4>3. EventQueued(r, "closed")' <=> EventQueued(r, "closed")
        <5>1. ~ChildSendMarker(r)
          BY <3>1 DEF ChildSendMarker
        <5> QED BY <1>2, <5>1
      <4>4. LeftToChild(r)'
        BY <1>4, <3>1, <4>1, <4>2, <4>3 DEF LeftToChild, ChildOpen, NoEnd
      <4> QED BY <4>4 DEF CutEnds
    <3>3. CASE ChildClose(r)
      <4>1. EnqueuesMarker(r)
        BY <3>1 DEF EnqueuesMarker, NeedsCloseMarker, NoEnd
      <4>2. child'[r].step = "marker"
        BY <1>1, <3>3, <4>1 DEF ChildClose, ChildType
      <4> QED BY <4>2 DEF CutEnds
    <3> QED BY <3>1, <3>2, <3>3 DEF ChildRead, ChildCapture, ChildSendMarker
  <2>4. CASE child[r].step = "marker"
    <3>1. Enqueue(Marker(r)) /\ Marker(r).root = r /\ Marker(r).event = "closed"
      BY <2>4 DEF ChildRead, ChildTrack, ChildCapture, ChildSend, ChildClose, ChildSendMarker,
           Marker, Payload
    <3>2. EventQueued(r, "closed")'
      BY <3>1, QueuedMore
    <3> QED BY <3>2 DEF CutEnds
  <2>5. CASE EventQueued(r, "closed")
    <3>1. EventQueued(r, "closed")'
      <4>1. CASE ChildSendMarker(r)
        BY <2>5, <4>1, QueuedMore DEF ChildSendMarker
      <4>2. CASE ~ChildSendMarker(r)
        BY <1>2, <2>5, <4>2
      <4> QED BY <4>1, <4>2
    <3> QED BY <3>1 DEF CutEnds
  <2>6. CASE Ended(r)
    BY <1>4, <2>6 DEF CutEnds
  <2> QED BY <1>6, <2>2, <2>3, <2>4, <2>5, <2>6 DEF CutEnds
<1>7. ~Cut(r) => ~Cut(r)'
  BY <1>1 DEF Cut
<1> QED BY <1>1, <1>4, <1>5, <1>6, <1>7 DEF Ends, CutEnds

\* A payload of root r is applied.
LEMMA EndsIngest ==
  ASSUME OrderInv, RootInv, ConnInv, EndInv, IngestStep
  PROVE  \A r \in Roots : Ends(r)'
<1> USE DEF envVars, gitVars, readerVars, ingressVars
<1>1. PICK p \in Payloads :
        /\ queue # <<>> /\ p = queue[1] /\ 1 \in DOMAIN queue /\ queue' = Tail(queue)
        /\ p.root \in Roots
        /\ IngestFrame(p) \/ IngestAtexit(p) \/ IngestClosed(p)
  BY Taken
<1>2. UNCHANGED <<kind, reader, child, openConns, rootStarted, rootFamily, rootMutating, readOnly,
                  offsets, active, marked>>
  BY <1>1 DEF IngestFrame, IngestAtexit, IngestClosed
<1>3. TypeInv /\ FramesInOrder /\ slots \in [Roots -> SlotType \cup {NoSlot}]
  BY DEF OrderInv, RootInv, TypeInv, TypeOK, SequencerOK
<1>4. PICK s : slots' = [slots EXCEPT ![p.root] = s]
  BY <1>1 DEF IngestFrame, IngestAtexit, IngestClosed
<1>5. \A q \in Roots : /\ SameIngress(q)
                       /\ \A ev : EventQueued(q, ev)' => EventQueued(q, ev)
                       /\ \A ev : EventQueued(q, ev) /\ ~(p.root = q /\ p.event = ev) =>
                            EventQueued(q, ev)'
  BY <1>1, <1>2, <1>3, QueuedLess DEF SameIngress
<1>6. /\ \A q \in Roots \ {p.root} : ~Ending(q)'
      /\ p.event \notin {"atexit", "closed"} => ~Ending(p.root)'
  <2>1. CASE IngestFrame(p)
    BY <2>1, FinishedType DEF IngestFrame, Ending
  <2>2. CASE IngestAtexit(p)
    <3>1. p.event = "atexit" /\ \E pc, o, sl, F :
            worker' = Working(pc, p.root, o, sl, F) \/ worker' = Finished
      BY <2>2 DEF IngestAtexit
    <3> QED BY <3>1, FinishedType DEF Working, Ending
  <2>3. CASE IngestClosed(p)
    BY <2>3 DEF IngestClosed, Working, Ending
  <2> QED BY <1>1, <2>1, <2>2, <2>3
<1>7. \A q \in Roots \ {p.root} : Ends(q)'
  <2>1. \A q \in Roots \ {p.root} : slots'[q] = slots[q]
    BY <1>3, <1>4
  <2> QED BY <1>2, <1>5, <1>6, <2>1, EndsUntouched DEF EndInv
<1>8. PICK r \in Roots : r = p.root
  BY <1>1
<1>9. Ends(r) /\ (Plain(r)' <=> Plain(r)) /\ (Cut(r)' <=> Cut(r))
  BY <1>2 DEF EndInv, Plain, Cut
<1>10. p.event \in Frames => EventQueued(r, p.event)
  BY <1>1, <1>8 DEF EventQueued
<1>11. CASE IngestFrame(p)
  <2>1. /\ slots'[r] = SlotAfter(p) /\ p.event \in {"start", "def_repo", "child"}
        /\ ~AppendsPending(p) => slots'[r] = slots[r]
    BY <1>3, <1>8, <1>11 DEF IngestFrame, SlotAfter
  <2>2. AppendsPending(p) => /\ ParticipatesByArgv(kind[r]) /\ reader[r].frame \in {"atexit", "eof"}
                             /\ p.event \in Frames
    <3> SUFFICES ASSUME AppendsPending(p)
                 PROVE  /\ ParticipatesByArgv(kind[r]) /\ reader[r].frame \in {"atexit", "eof"}
                        /\ p.event \in Frames
      OBVIOUS
    <3>1. ParticipatesByArgv(kind[r]) /\ p.family # NoFamily /\ p.event \in Frames
      BY <1>8 DEF AppendsPending
    <3>2. p.event = "def_repo"
      BY <1>1, <2>1, <3>1 DEF ConnInv, QueueKnows, PayloadKnows, Frames
    <3>3. Rank("def_repo") < Rank(reader[r].frame)
      BY <1>1, <1>3, <1>8, <3>2 DEF FramesInOrder, FrameAt, Frames
    <3>4. reader[r].frame \in Frames \cup {"eof"}
      BY <1>3 DEF TypeInv, TypeOK, ReaderType
    <3> QED BY <3>1, <3>3, <3>4 DEF Rank, Frames
  <2>3. SlotNeeded(r)'
    BY <1>2, <1>9, <2>1, <2>2 DEF Ends, SlotNeeded
  <2>4. Ended(r) => Ended(r)'
    BY <1>5, <1>10, <2>1, <2>2 DEF Ended, FrameQueued
  <2>5. LeftToChild(r) => LeftToChild(r)'
    BY <1>2, <1>5, <1>6, <1>8, <2>1 DEF LeftToChild, ChildOpen, NoEnd
  <2>6. /\ EventQueued(r, "closed") => EventQueued(r, "closed")'
        /\ EventQueued(r, "atexit") => EventQueued(r, "atexit")'
    BY <1>5, <2>1
  <2>7. (CutEnds(r) => CutEnds(r)') /\ (ExitEnds(r) => ExitEnds(r)')
    BY <1>2, <1>9, <2>4, <2>5, <2>6 DEF CutEnds, ExitEnds
  <2> QED BY <1>7, <1>8, <1>9, <2>3, <2>7 DEF Ends
<1>12. CASE IngestAtexit(p)
  <2>1. p.event = "atexit" /\ slots'[r] = NoSlot
    BY <1>3, <1>8, <1>12 DEF IngestAtexit
  <2>2. Over(r)'
    BY <1>1, <1>2, <1>3, <1>8, <2>1, FramesTake
  <2>3. ~FrameQueued(r)'
    BY <2>2 DEF Over, FrameQueued, EventQueued, FrameAt
  <2> QED BY <1>7, <1>8, <2>1, <2>3 DEF Ends, SlotNeeded, CutEnds, ExitEnds, Ended
<1>13. CASE IngestClosed(p)
  <2>1. p.event = "closed" /\ slots'[r] = NoSlot
    BY <1>3, <1>8, <1>13 DEF IngestClosed
  <2>2. Plain(r) => ~FrameQueued(r)'
    <3>1. \A i \in DOMAIN queue' : i + 1 \in DOMAIN queue /\ 1 < i + 1 /\ queue'[i] = queue[i + 1]
      BY <1>1, <1>3 DEF TypeInv, TypeOK, QueueOK
    <3>2. Plain(r) => \A i \in DOMAIN queue' : ~FrameAt(i + 1, r)
      BY <1>1, <1>8, <2>1, <3>1 DEF EndInv, MarkersLast
    <3> QED BY <3>1, <3>2 DEF FrameQueued, EventQueued, FrameAt
  <2> QED BY <1>7, <1>8, <1>9, <2>1, <2>2 DEF Ends, SlotNeeded, CutEnds, ExitEnds, Ended
<1> QED BY <1>1, <1>11, <1>12, <1>13

\* Markers stay behind the frames of their roots.
LEMMA MarkersStay ==
  ASSUME TypeInv, MarkersLast, UNCHANGED kind,
         \/ UNCHANGED queue
         \/ \E p : Enqueue(p) /\ (p.event \in Frames /\ Plain(p.root) => ~EventQueued(p.root, "closed"))
         \/ queue # <<>> /\ queue' = Tail(queue)
  PROVE  MarkersLast'
<1>1. CASE UNCHANGED queue
  BY <1>1 DEF MarkersLast, FrameAt, Plain
<1>2. ASSUME NEW p, Enqueue(p), p.event \in Frames /\ Plain(p.root) => ~EventQueued(p.root, "closed")
      PROVE  MarkersLast'
  <2>1. PICK n \in Nat : /\ DOMAIN queue = 1 .. n /\ DOMAIN queue' = 1 .. n + 1
                         /\ queue'[n + 1] = p /\ \A i \in 1 .. n : queue'[i] = queue[i]
    BY <1>2, QueueGrows
  <2>2. \A i \in DOMAIN queue' : (i \in DOMAIN queue /\ queue'[i] = queue[i]) \/ i = n + 1
    BY <2>1
  <2> SUFFICES ASSUME NEW i \in DOMAIN queue', NEW j \in DOMAIN queue', i < j,
                      queue'[i].event = "closed", Plain(queue'[i].root),
                      queue'[j].root = queue'[i].root, queue'[j].event \in Frames
               PROVE  FALSE
    BY DEF MarkersLast, FrameAt, Plain
  <2>3. i \in DOMAIN queue /\ queue'[i] = queue[i]
    BY <2>1, <2>2
  <2>4. CASE j = n + 1
    BY <1>2, <2>1, <2>3, <2>4 DEF EventQueued
  <2>5. CASE j \in DOMAIN queue /\ queue'[j] = queue[j]
    BY <2>3, <2>5 DEF MarkersLast, FrameAt
  <2> QED BY <2>2, <2>4, <2>5
<1>3. CASE queue # <<>> /\ queue' = Tail(queue)
  <2>1. \A i \in DOMAIN queue' : i \in Nat /\ i + 1 \in DOMAIN queue /\ queue'[i] = queue[i + 1]
    BY <1>3 DEF TypeInv, TypeOK, QueueOK
  <2>2. \A i, j \in DOMAIN queue' : i < j => i + 1 < j + 1
    BY <2>1
  <2> QED BY <2>1, <2>2 DEF MarkersLast, FrameAt, Plain
<1> QED BY <1>1, <1>2, <1>3

\* Applying a payload leaves every pending entry in someone's hands.
LEMMA LedIngest ==
  ASSUME OrderInv, PendingLed, IngestStep
  PROVE  PendingLed'
<1> USE DEF OrderInv, TypeInv, TypeOK
<1>1. PICK p \in Payloads :
        /\ worker.pc = "idle" /\ p.root \in Roots
        /\ \/ IngestFrame(p) /\ AppendPending(p)
           \/ IngestAtexit(p) /\ AppendPending(p)
           \/ IngestClosed(p) /\ entries' = entries
  BY Taken
<1>2. \A F \in Families : \A e \in entries[F] : Slot(F, e) \in SlotType
  BY DEF SequencerOK, Slot, SlotType, EntryType
<1>3. \A F \in Families : \A e \in entries[F] : Slot(F, e) # NoSlot
  BY <1>2, ConstantsAssumption DEF SlotType
<1>4. \A F \in Families : \A e \in entries[F] : e.what = "pending" => slots[e.id] = Slot(F, e)
  BY <1>1 DEF PendingLed
<1>5. ASSUME NEW F \in Families, NEW e \in entries'[F], e.what = "pending", AppendPending(p)
      PROVE  IF e.id = p.root THEN SlotAfter(p) = Slot(F, e) /\ Slot(F, e) # NoSlot
             ELSE slots[e.id] = Slot(F, e)
  <2>1. CASE ~AppendsPending(p)
    <3>1. e \in entries[F]
      BY <1>5, <2>1, PendingAdds
    <3> QED BY <1>3, <1>4, <1>5, <2>1, <3>1 DEF SlotAfter
  <2>2. CASE AppendsPending(p)
    <3>1. slots[p.root] = NoSlot /\ p.family \in Families
            /\ SlotAfter(p) = Slot(p.family, PendingEntry(p))
      BY <1>5, <2>2, PendingAdds DEF AppendsPending, SlotAfter
    <3>2. CASE e \in entries[F]
      BY <1>3, <1>4, <1>5, <3>1, <3>2
    <3>3. CASE e \notin entries[F]
      <4>1. F = p.family /\ e = PendingEntry(p)
        BY <1>5, <2>2, <3>3, PendingAdds
      <4>2. e.id = p.root
        BY <1>5, <4>1, PendingAdds
      <4>3. p.at \in Nat /\ nextOrdinal[p.family] \in Nat
        BY <3>1 DEF Payloads, SequencerOK
      <4>4. Slot(p.family, PendingEntry(p)) \in SlotType
        BY <3>1, <4>3 DEF Slot, SlotType, PendingEntry, Entry
      <4>5. Slot(p.family, PendingEntry(p)) # NoSlot
        BY <4>4, ConstantsAssumption DEF SlotType
      <4> QED BY <3>1, <4>1, <4>2, <4>5
    <3> QED BY <3>2, <3>3
  <2> QED BY <2>1, <2>2
<1>6. CASE IngestFrame(p) /\ AppendPending(p)
  <2>1. slots' = [slots EXCEPT ![p.root] = SlotAfter(p)]
    BY <1>6 DEF IngestFrame
  <2>2. \A F \in Families : \A e \in entries'[F] : e.what = "pending" =>
          e.id \in Roots /\ slots'[e.id] = Slot(F, e)
    <3> SUFFICES ASSUME NEW F \in Families, NEW e \in entries'[F], e.what = "pending"
                 PROVE  e.id \in Roots /\ slots'[e.id] = Slot(F, e)
      OBVIOUS
    <3>1. e.id \in Roots
      <4>1. CASE e \in entries[F]
        BY <4>1 DEF SequencerOK, EntryType, Shapes, EntryShape, WellNamed
      <4>2. CASE e \notin entries[F]
        BY <1>1, <1>6, <4>2, PendingAdds
      <4> QED BY <4>1, <4>2
    <3> QED BY <1>5, <1>6, <2>1, <3>1 DEF SequencerOK
  <2> QED BY <2>2 DEF PendingLed, Slot
<1>7. CASE IngestAtexit(p) /\ AppendPending(p)
  <2>1. /\ slots' = [slots EXCEPT ![p.root] = NoSlot]
        /\ SlotAfter(p) # NoSlot => \E o : worker' = Working("replace", p.root, o, SlotAfter(p), NoFamily)
    BY <1>7 DEF IngestAtexit
  <2>2. /\ \A x : x # p.root => slots'[x] = slots[x]
        /\ SlotAfter(p) # NoSlot => worker'.pc = "replace" /\ worker'.slot = SlotAfter(p)
    BY <2>1 DEF Working, SequencerOK
  <2> QED BY <1>5, <1>7, <2>2 DEF PendingLed, Slot
<1>8. CASE IngestClosed(p) /\ entries' = entries
  <2>1. /\ slots' = [slots EXCEPT ![p.root] = NoSlot]
        /\ slots[p.root] # NoSlot =>
             worker' = Working("replace", p.root, "canceled", slots[p.root], NoFamily)
    BY <1>8 DEF IngestClosed
  <2>2. /\ \A x : x # p.root => slots'[x] = slots[x]
        /\ slots[p.root] # NoSlot => worker'.pc = "replace" /\ worker'.slot = slots[p.root]
    BY <2>1 DEF Working, SequencerOK
  <2> QED BY <1>3, <1>4, <1>8, <2>2 DEF PendingLed, Slot
<1> QED BY <1>1, <1>6, <1>7, <1>8

\* Draining and replacing leave no pending entry behind.
LEMMA LedDrain ==
  ASSUME OrderInv, PendingLed,
         WorkerReplace \/ WorkerAppend \/ \E F \in Families : WorkerDrain(F) \/ TaskDrain(F)
  PROVE  PendingLed'
<1> USE DEF OrderInv, TypeInv, TypeOK
<1>1. PICK F \in Families, es \in SUBSET EntryType, b \in SUBSET EntryType :
        /\ Drains(F, es, b)
        /\ \/ es = entries[F] /\ ~WorkerReplace
           \/ /\ WorkerReplace /\ F = worker.slot.family
              /\ \E x \in entries[F], e \in EntryType :
                   es = (entries[F] \ {x}) \cup {e} /\ Replaces(e, x)
           \/ /\ WorkerAppend
              /\ \E e \in EntryType : es = entries[F] \cup {e} /\ Appends(F, e)
  BY DrainSteps DEF Drains
<1>2. UNCHANGED slots
  BY DEF WorkerReplace, WorkerAppend, WorkerDrain, TaskDrain
<1>3. \A G \in Families : \A e \in entries'[G] : e.what = "pending" => e \in entries[G]
  <2>1. \A G \in Families \ {F} : entries'[G] = entries[G]
    BY <1>1 DEF Drains
  <2>2. \A e \in entries'[F] : e \in es
    BY <1>1 DEF Drains
  <2>3. \A e \in es : e.what = "pending" => e \in entries[F]
    BY <1>1 DEF Replaces, Appends
  <2> QED BY <2>1, <2>2, <2>3
<1>4. CASE WorkerReplace
  <2>1. worker.pc = "replace"
    BY <1>4 DEF WorkerReplace
  <2>2. ~WorkerAppend
    BY <2>1 DEF WorkerAppend
  <2>3. PICK x \in entries[F], e \in EntryType :
          /\ F = worker.slot.family /\ es = (entries[F] \ {x}) \cup {e} /\ Replaces(e, x)
    BY <1>1, <1>4, <2>2
  <2>4. ASSUME NEW G \in Families, NEW d \in entries'[G], d.what = "pending",
               worker.slot = Slot(G, d)
        PROVE  FALSE
    <3>1. G = F /\ d.at = x.at /\ d.ord = x.ord /\ d \in entries[F]
      BY <1>3, <2>3, <2>4 DEF Slot, Replaces
    <3>2. d = x
      BY <3>1 DEF Placed, Keys, Key
    <3>3. d \in es /\ d # e
      BY <1>1, <2>3, <2>4, <3>1 DEF Drains, Replaces
    <3> QED BY <2>3, <3>2, <3>3
  <2> QED BY <1>2, <1>3, <2>4 DEF PendingLed, Slot
<1>5. CASE ~WorkerReplace
  <2>1. worker.pc = "replace" => UNCHANGED worker
    BY <1>5 DEF WorkerAppend, WorkerDrain, TaskDrain
  <2> QED BY <1>2, <1>3, <2>1 DEF PendingLed, Slot
<1> QED BY <1>4, <1>5

\* Admitting a checkpoint adds its entry, overwriting nothing.
LEMMA AdmissionAdds ==
  ASSUME OrderInv, AdmitCheckpoint
  PROVE  \E c \in Checkpoints, e \in EntryType :
           /\ FencePassed(c) /\ ckpt[c] = "accepted"
           /\ e.id = c /\ e.what = "checkpoint" /\ e.at = ckptAt[c]
           /\ e.ord = nextOrdinal[ckptHome[c]] /\ ckptHome[c] \in Families
           /\ entries'[ckptHome[c]] = entries[ckptHome[c]] \cup {e}
           /\ \A G \in Families \ {ckptHome[c]} : entries'[G] = entries[G]
<1> USE DEF OrderInv, TypeInv, TypeOK
<1>1. PICK c : c = Head(admitQ)
  OBVIOUS
<1> DEFINE F == ckptHome[c]
           e == Entry(ckptAt[c], nextOrdinal[F], "checkpoint", c)
<1>2. /\ admitQ # <<>> /\ entries' = [entries EXCEPT ![F] = Insert(F, e)]
      /\ nextOrdinal' = [nextOrdinal EXCEPT ![F] = @ + 1] /\ FencePassed(c)
  BY <1>1 DEF AdmitCheckpoint
<1>3. c \in Checkpoints /\ F \in Families /\ 1 \in DOMAIN admitQ /\ c = admitQ[1]
  BY <1>1, <1>2 DEF AdmissionOK, EnvOK
<1>4. ckpt[c] = "accepted" /\ ckptAt[c] \in Nat /\ nextOrdinal[F] \in Nat
  BY <1>3 DEF Tracked, AdmitQueue, AdmissionOK, SequencerOK
<1>5. /\ e.ord = nextOrdinal[F] /\ e.id = c /\ e.what = "checkpoint" /\ e.at = ckptAt[c]
      /\ e \in EntryType
  BY <1>3, <1>4 DEF Entry, EntryType, Whats
<1> HIDE DEF e
<1>6. /\ entries'[F] = entries[F] \cup {e}
      /\ \A G \in Families \ {F} : entries'[G] = entries[G]
  BY <1>2, <1>3, <1>5, InsertOrder
<1> QED BY <1>2, <1>3, <1>4, <1>5, <1>6

\* What the readers queue: a frame of a plain root only while no marker of it is queued.
LEMMA MarkersReader ==
  ASSUME OrderInv, RootInv, NEW r \in Roots, Conn(r), MarkersLast,
         ReaderStep(r) \/ ChildRead(r) \/ ChildStep(r)
  PROVE  MarkersLast'
<1> USE DEF envVars, gitVars, readerVars, ingressVars, queueVars, ReaderStep, ChildStep
<1>1. TypeInv /\ UNCHANGED kind
  BY DEF OrderInv, OpenRoot, Track, Capture, Send, Close, SendMarker, ChildRead, ChildTrack,
       ChildCapture, ChildSend, ChildClose, ChildSendMarker
<1>2. CASE Send(r)
  <2>1. /\ Enqueue(reader[r].payload) /\ reader[r].step = "send" /\ reader[r].frame \in Frames
        /\ reader[r].payload.root = r
    BY <1>2 DEF Send, OrderInv, TypeInv, Shapes, ReaderShape, Heard, ReaderStamps
  <2>2. Opened(r)
    BY <2>1 DEF Opened, Unopened, Frames
  <2>3. Plain(r) => ~EventQueued(r, "closed")
    BY <2>2 DEF Conn, Connected, NoEnd
  <2> QED BY <1>1, <2>1, <2>3, MarkersStay
<1>3. CASE ChildSend(r)
  <2>1. Enqueue(child[r].payload) /\ child[r].payload.event \notin Frames
    BY <1>3 DEF ChildSend, RootInv, RightFamily, Frames
  <2> QED BY <1>1, <2>1, MarkersStay
<1>4. CASE SendMarker(r) \/ ChildSendMarker(r)
  <2>1. Enqueue(Marker(r)) /\ Marker(r).event \notin Frames
    BY <1>4 DEF SendMarker, ChildSendMarker, Marker, Payload, Frames
  <2> QED BY <1>1, <2>1, MarkersStay
<1>5. CASE UNCHANGED queue
  BY <1>1, <1>5, MarkersStay
<1> QED BY <1>2, <1>3, <1>4, <1>5 DEF OpenRoot, Track, Capture, Close, ChildRead, ChildTrack,
          ChildCapture, ChildClose

\* Every step keeps the ends in sight.
LEMMA EndNext == OrderInv /\ RootInv /\ ConnInv /\ EndInv /\ [Next]_vars => EndInv'
<1> SUFFICES ASSUME OrderInv, RootInv, ConnInv, EndInv, [Next]_vars PROVE EndInv'
  OBVIOUS
<1> USE DEF envVars, gitVars, readerVars, ingressVars, queueVars, seqVars, execVars
<1>1. /\ TypeInv /\ MarkersLast /\ PendingLed /\ \A r \in Roots : Conn(r)
      /\ \A r \in Roots : Ends(r)
  BY DEF OrderInv, ConnInv, EndInv
<1>2. ASSUME UNCHANGED <<kind, reader, child, queue, slots>>,
             \A r \in Roots : SameIngress(r) \/ Ending(r),
             UNCHANGED worker \/ (\A r \in Roots : Ending(r)' => Ending(r))
      PROVE  MarkersLast' /\ \A r \in Roots : Ends(r)'
  <2>1. \A r \in Roots : \A ev : EventQueued(r, ev)' <=> EventQueued(r, ev)
    BY <1>2 DEF EventQueued
  <2>2. \A r \in Roots : Ending(r)' => Ending(r)
    BY <1>2 DEF Ending
  <2>3. MarkersLast'
    BY <1>1, <1>2, MarkersStay
  <2>4. \A r \in Roots : Ends(r)'
    BY <1>1, <1>2, <2>1, <2>2, EndsUntouched
  <2> QED BY <2>3, <2>4
<1>3. ASSUME UNCHANGED <<openConns, rootStarted, rootFamily, rootMutating, readOnly, offsets,
                         active, marked>>
      PROVE  \A r \in Roots : SameIngress(r) \/ Ending(r)
  BY <1>3 DEF SameIngress
<1>4. ASSUME UNCHANGED <<slots, entries>>, UNCHANGED worker \/ worker.pc # "replace"
      PROVE  PendingLed'
  BY <1>1, <1>4 DEF PendingLed, Slot
<1>5. CASE UNCHANGED vars
  BY <1>2, <1>3, <1>4, <1>5 DEF vars, EndInv
<1>6. ASSUME NEW r \in Roots, GitStart(r) \/ GitEnd(r) PROVE EndInv'
  BY <1>2, <1>3, <1>4, <1>6 DEF GitStart, GitEnd, EndInv
<1>7. ASSUME NEW r \in Roots, ReaderStep(r) \/ ChildRead(r) \/ ChildStep(r) PROVE EndInv'
  <2>1. UNCHANGED <<slots, worker, entries>>
    BY <1>7 DEF ReaderStep, ChildStep, OpenRoot, Track, Capture, Send, Close, SendMarker,
         ChildRead, ChildTrack, ChildCapture, ChildSend, ChildClose, ChildSendMarker
  <2>2. PendingLed' /\ MarkersLast'
    BY <1>1, <1>4, <1>7, <2>1, MarkersReader
  <2>3. Ends(r)'
    BY <1>1, <1>7, EndsReader, EndsChild
  <2>4. ASSUME NEW q \in Roots \ {r} PROVE Ends(q)'
    <3>1. Ending(q)' => Ending(q)
      BY <2>1 DEF Ending
    <3>2. /\ UNCHANGED kind /\ reader'[q] = reader[q] /\ child'[q] = child[q] /\ SameIngress(q)
          /\ slots'[q] = slots[q]
          /\ \A ev : EventQueued(q, ev)' <=> EventQueued(q, ev)
      BY <1>7, StepElsewhere
    <3> QED BY <1>1, <3>1, <3>2, EndsUntouched
  <2> QED BY <2>2, <2>3, <2>4 DEF EndInv
<1>8. CASE IngestStep
  <2>1. queue # <<>> /\ queue' = Tail(queue) /\ UNCHANGED kind
    BY <1>8, Taken DEF IngestFrame, IngestAtexit, IngestClosed
  <2>2. MarkersLast'
    BY <1>1, <2>1, MarkersStay
  <2> QED BY <1>1, <1>8, <2>2, LedIngest, EndsIngest DEF EndInv
<1>9. CASE WorkerReplace \/ WorkerAppend \/ \E F \in Families : WorkerDrain(F) \/ TaskDrain(F)
  <2>1. /\ UNCHANGED <<kind, reader, child, queue, slots, openConns, rootStarted, rootFamily,
                       rootMutating, readOnly, offsets, active, marked>>
    BY <1>9 DEF WorkerReplace, WorkerAppend, WorkerDrain, TaskDrain
  <2>2. UNCHANGED worker \/ (\A r \in Roots : Ending(r)' => Ending(r))
    BY <1>1, <1>9, EndingStops DEF TaskDrain
  <2> QED BY <1>1, <1>2, <1>3, <1>9, <2>1, <2>2, LedDrain DEF EndInv
<1>10. CASE WorkerClear
  <2>1. PICK r : r = worker.root
    OBVIOUS
  <2>2. /\ worker.pc = "clear" /\ r \in Roots /\ ClearRoot(r)
        /\ worker'.pc \notin {"replace", "append", "clear"}
        /\ UNCHANGED <<kind, reader, child, queue, slots, entries>>
    BY <1>1, <1>10, <2>1 DEF WorkerClear, TypeInv, Shapes, WorkerShape, TypeOK, WorkerType
  <2>3. \A q \in Roots : SameIngress(q) \/ Ending(q)
    BY <1>1, <2>1, <2>2, ForgetElsewhere DEF Ending
  <2>4. \A q \in Roots : Ending(q)' => Ending(q)
    BY <2>2 DEF Ending
  <2> QED BY <1>2, <1>4, <2>2, <2>3, <2>4 DEF EndInv
<1>11. CASE WorkerSnapshot \/ WorkerDone \/ WorkerGc
  <2>1. /\ UNCHANGED <<kind, reader, child, queue, slots, openConns, rootStarted, rootFamily,
                       rootMutating, readOnly, offsets, active, marked, entries>>
        /\ worker.pc # "replace"
    BY <1>11 DEF WorkerSnapshot, WorkerDone, WorkerGc
  <2>2. \A r \in Roots : Ending(r)' => Ending(r)
    BY <1>1, <1>11, EndingStops
  <2> QED BY <1>2, <1>3, <1>4, <2>1, <2>2 DEF EndInv
<1>12. CASE TaskSnapshot \/ FailAdmission \/ (\E c \in Checkpoints : AcceptCheckpoint(c))
            \/ (\E F \in Families : Execute(F))
  <2>1. UNCHANGED <<kind, reader, child, queue, slots, openConns, rootStarted, rootFamily,
                    rootMutating, readOnly, offsets, active, marked, entries, worker>>
    BY <1>12 DEF TaskSnapshot, FailAdmission, AcceptCheckpoint, Execute
  <2> QED BY <1>2, <1>3, <1>4, <2>1 DEF EndInv
<1>13. CASE AdmitCheckpoint
  <2>1. UNCHANGED <<kind, reader, child, queue, slots, openConns, rootStarted, rootFamily,
                    rootMutating, readOnly, offsets, active, marked, worker>>
    BY <1>13 DEF AdmitCheckpoint
  <2>2. \A F \in Families : \A e \in entries'[F] : e.what = "pending" => e \in entries[F]
    BY <1>13, AdmissionAdds
  <2>3. PendingLed'
    BY <1>1, <2>1, <2>2 DEF PendingLed, Slot
  <2> QED BY <1>2, <1>3, <2>1, <2>3 DEF EndInv
<1> QED BY <1>5, <1>6, <1>7, <1>8, <1>9, <1>10, <1>11, <1>12, <1>13
       DEF Next, WorkerStep, AdmissionStep

\* The worker ends the root of a pending entry, or its end is on the way.
LEMMA EndsExpected ==
  ASSUME OrderInv, EndInv, AllPlain, NEW F \in Families, NEW e \in entries[F], e.what = "pending"
  PROVE  EndExpected(e.id)
<1> USE DEF OrderInv, TypeInv, TypeOK
<1>1. e \in EntryType /\ e.id \in Roots
  BY DEF SequencerOK, EntryType, Shapes, EntryShape, WellNamed
<1>2. PICK r \in Roots : r = e.id
  BY <1>1
<1>3. CASE worker.pc = "replace" /\ worker.slot = Slot(F, e)
  <2>1. PICK x \in entries[F] : x.id = worker.root /\ x.at = e.at /\ x.ord = e.ord
    BY <1>3 DEF Placed, SlotsLead, Leads, Slot
  <2>2. x = e
    BY <2>1 DEF Placed, Keys, Key
  <2> QED BY <1>3, <2>1, <2>2 DEF EndExpected
<1>4. CASE slots[r] = Slot(F, e)
  <2>1. Slot(F, e) \in SlotType
    BY <1>1 DEF Slot, SlotType, EntryType
  <2>2. slots[r] # NoSlot
    BY <1>4, <2>1, ConstantsAssumption DEF SlotType
  <2>3. Plain(r) /\ reader[r].frame \in {"atexit", "eof"} /\ CutEnds(r) /\ ExitEnds(r)
    BY <2>2 DEF EndInv, Ends, SlotNeeded, AllPlain
  <2>4. reader[r].step = "closed" => Cut(r) \/ reader[r].frame = "eof"
    BY <2>3 DEF Cut
  <2>5. ~Ended(r)
    BY <2>2 DEF Ended
  <2> QED BY <1>2, <2>3, <2>4, <2>5 DEF EndExpected, CutEnds, ExitEnds, LeftToChild, ChildOpen,
            EventQueued
<1> QED BY <1>2, <1>3, <1>4 DEF EndInv, PendingLed

\* The commands are fixed.
LEMMA PlainStays == AllPlain /\ [Next]_vars => AllPlain'
<1>1. [Next]_vars => UNCHANGED kind
  BY DEF vars, envVars, Next, GitStart, GitEnd, ReaderStep, OpenRoot, Track, Capture, Send, Close,
       SendMarker, ChildRead, ChildStep, ChildTrack, ChildCapture, ChildSend, ChildClose,
       ChildSendMarker, WorkerStep, IngestStep, IngestFrame, IngestAtexit, IngestClosed,
       WorkerReplace, WorkerAppend, WorkerClear, WorkerSnapshot, WorkerDrain, WorkerDone, WorkerGc,
       AcceptCheckpoint, AdmissionStep, AdmitCheckpoint, FailAdmission, TaskSnapshot, TaskDrain,
       Execute
<1> QED BY <1>1 DEF AllPlain, Plain

\* A pending root entry stops its family until its root ends, so its end must come: in
\* every behaviour in which no ordered command has a mutating child, every pending entry
\* has its slot and its root's atexit frame, close marker or connection still ahead.
THEOREM PendingRootsResolve == Spec /\ AllPlain => []PendingRootsWillResolve
<1> DEFINE I == OrderInv /\ RootInv /\ ConnInv /\ EndInv /\ AllPlain
<1>1. Init /\ AllPlain => I
  BY OrderInvInit, RootsInit, ConnInit, EndInit
<1>2. I /\ [Next]_vars => I'
  BY OrderInvNext, RootsNext, ConnNext, EndNext, PlainStays
<1>3. I => PendingRootsWillResolve
  BY EndsExpected DEF EndInv, PendingLed, PendingRootsWillResolve
<1> QED BY <1>1, <1>2, <1>3, PTL DEF Spec

-----------------------------------------------------------------------------
(* What a step does to the frames, the counters and the history.            *)

\* A reader moves on by at most one frame, a plain root's only by queueing it.
LEMMA FrameMoves ==
  ASSUME OrderInv, NEW r \in Roots, Conn(r), ReaderStep(r)
  PROVE  /\ \/ reader'[r].frame = reader[r].frame
            \/ reader[r].frame \in Frames /\ reader'[r].frame = NextFrame(reader[r].frame)
         /\ Plain(r) /\ ~Send(r) => reader'[r].frame = reader[r].frame
<1> USE DEF OrderInv, TypeInv, TypeOK, ReaderStep
<1>1. reader[r] \in ReaderType
  OBVIOUS
<1>2. CASE OpenRoot(r) \/ Capture(r) \/ Close(r) \/ SendMarker(r)
  BY <1>1, <1>2 DEF OpenRoot, Capture, Close, SendMarker, ReaderType
<1>3. CASE Send(r)
  BY <1>3 DEF Send, Shapes, ReaderShape
<1>4. CASE Track(r)
  <2>1. reader[r].frame \in Frames
    <3>1. reader[r].frame \in Frames \cup {"eof"} /\ FrameAvailable(r)
      BY <1>1, <1>4 DEF Track, ReaderType
    <3> QED BY <3>1 DEF FrameAvailable, Frames
  <2>2. PICK t, g :
          \/ reader'[r] = [reader[r] EXCEPT !.step = "capture"]
          \/ /\ r \in readOnly \cup {x \in {r} : reader[r].frame = "start"
                                                   /\ DefinitelyReadOnly(kind[r])}
             /\ reader'[r] = [frame |-> NextFrame(reader[r].frame), step |-> "read",
                              payload |-> NoSlot]
          \/ reader'[r] = [frame |-> reader[r].frame, step |-> "send",
                           payload |-> Payload(r, reader[r].frame, t, g)]
    BY <1>4 DEF Track
  <2>3. Plain(r) => r \notin readOnly /\ ~DefinitelyReadOnly(kind[r])
    BY DEF Conn, Connected, Plain, ParticipatesByArgv, DefinitelyReadOnly
  <2>4. CASE reader'[r] = [reader[r] EXCEPT !.step = "capture"]
    BY <1>1, <2>4 DEF ReaderType
  <2>5. CASE ~Plain(r) /\ reader'[r] = [frame |-> NextFrame(reader[r].frame), step |-> "read",
                                        payload |-> NoSlot]
    BY <2>1, <2>5
  <2>6. CASE reader'[r] = [frame |-> reader[r].frame, step |-> "send",
                           payload |-> Payload(r, reader[r].frame, t, g)]
    BY <2>6
  <2> QED BY <2>2, <2>3, <2>4, <2>5, <2>6
<1> QED BY <1>2, <1>3, <1>4

\* What a reader puts into the queue is its root's; a def_repo frame is that of a root not
\* yet attributed.
LEMMA ReaderQueues ==
  ASSUME OrderInv, RootInv, NEW r \in Roots, ReaderStep(r) \/ ChildRead(r) \/ ChildStep(r)
  PROVE  \/ UNCHANGED <<queue, enqueued>>
         \/ \E p : /\ Enqueue(p) /\ p.root = r
                   /\ p.event = "def_repo" => Send(r) /\ r \notin Attributed
<1> USE DEF envVars, gitVars, readerVars, ingressVars, queueVars, ReaderStep, ChildStep
<1>1. CASE Send(r)
  <2>1. /\ Enqueue(reader[r].payload) /\ reader[r].payload.root = r
        /\ reader[r].payload.event = reader[r].frame
    BY <1>1 DEF Send, OrderInv, Heard, ReaderStamps, RootInv, RightFamily
  <2>2. reader[r].frame = "def_repo" => r \notin Attributed
    BY DEF Attributed
  <2> QED BY <1>1, <2>1, <2>2
<1>2. CASE ChildSend(r)
  <2>1. /\ Enqueue(child[r].payload) /\ child[r].payload.root = r
        /\ child[r].payload.event = "child"
    BY <1>2 DEF ChildSend, OrderInv, Heard, ReaderStamps, RootInv, RightFamily
  <2> QED BY <2>1
<1>3. CASE SendMarker(r) \/ ChildSendMarker(r)
  <2>1. Enqueue(Marker(r)) /\ Marker(r).root = r /\ Marker(r).event = "closed"
    BY <1>3 DEF SendMarker, ChildSendMarker, Marker, Payload
  <2> QED BY <2>1
<1>4. CASE UNCHANGED <<queue, enqueued>>
  BY <1>4
<1> QED BY <1>1, <1>2, <1>3, <1>4 DEF OpenRoot, Track, Capture, Close, ChildRead, ChildTrack,
          ChildCapture, ChildClose

\* Initially nothing has been queued, entered or recorded.
LEMMA FirstInit == Init => FirstInv
<1> SUFFICES ASSUME Init PROVE FirstInv
  OBVIOUS
<1> USE DEF Init
<1>1. Counted
  BY DEF Counted, Busy, IdleWorker
<1>2. Earlier /\ AdmissionWaits /\ FramesWait
  BY DEF Earlier, AdmissionWaits, FramesWait
<1>3. AttributedPresent
  BY DEF AttributedPresent, Attributed
<1>4. InFront
  BY DEF InFront
<1> QED BY <1>1, <1>2, <1>3, <1>4 DEF FirstInv

\* Every payload is counted once.
LEMMA CountedNext == OrderInv /\ RootInv /\ Counted /\ [Next]_vars => Counted'
<1> SUFFICES ASSUME OrderInv, RootInv, Counted, [Next]_vars PROVE Counted'
  OBVIOUS
<1> USE DEF OrderInv, TypeInv, TypeOK, QueueOK, queueVars
<1>1. queue \in Seq(Payloads) /\ Len(queue) \in Nat /\ enqueued \in Nat /\ processed \in Nat
  OBVIOUS
<1>2. ASSUME UNCHANGED <<queue, enqueued, processed>>,
             UNCHANGED worker \/ Busy = 1 \/ (Busy = 0 /\ Busy' = 0)
      PROVE  Counted'
  <2>1. Busy \in 0 .. 1 /\ Busy' \in 0 .. 1
    BY DEF Busy
  <2>2. Busy' <= Busy
    BY <1>2, <2>1 DEF Busy
  <2> QED BY <1>1, <1>2, <2>1, <2>2 DEF Counted
<1>3. CASE UNCHANGED vars
  BY <1>2, <1>3 DEF vars
<1>4. ASSUME NEW r \in Roots, GitStart(r) \/ GitEnd(r) PROVE Counted'
  BY <1>2, <1>4 DEF GitStart, GitEnd
<1>5. ASSUME NEW r \in Roots, ReaderStep(r) \/ ChildRead(r) \/ ChildStep(r) PROVE Counted'
  <2>1. UNCHANGED <<worker, processed>>
    BY <1>5 DEF ReaderStep, ChildStep, OpenRoot, Track, Capture, Send, Close, SendMarker,
         ChildRead, ChildTrack, ChildCapture, ChildSend, ChildClose, ChildSendMarker
  <2>2. CASE UNCHANGED <<queue, enqueued>>
    BY <1>2, <2>1, <2>2
  <2>3. ASSUME NEW p, Enqueue(p) PROVE Counted'
    <3>1. Len(queue') = Len(queue) + 1 /\ enqueued' = enqueued + 1
      BY <1>1, <2>3 DEF Enqueue
    <3>2. Busy \in 0 .. 1 /\ Busy' = Busy
      BY <2>1 DEF Busy
    <3> QED BY <1>1, <2>1, <3>1, <3>2 DEF Counted
  <2> QED BY <1>5, <2>2, <2>3, ReaderQueues
<1>6. CASE IngestStep
  <2>1. PICK p : /\ worker.pc = "idle" /\ queue # <<>> /\ queue' = Tail(queue) /\ UNCHANGED enqueued
                 /\ IngestFrame(p) \/ IngestAtexit(p) \/ IngestClosed(p)
    BY <1>6 DEF IngestStep, IngestFrame, IngestAtexit, IngestClosed, TakePayload
  <2>2. Len(queue') = Len(queue) - 1 /\ Len(queue) > 0 /\ Busy = 0
    BY <1>1, <2>1 DEF Busy
  <2>3. (processed' = processed + 1 /\ Busy' = 0) \/ (processed' = processed /\ Busy' \in 0 .. 1)
    <3>1. CASE IngestFrame(p)
      BY <3>1, FinishedType DEF IngestFrame, Busy
    <3>2. CASE IngestAtexit(p)
      <4>1. \/ worker' = Finished /\ processed' = processed + 1
            \/ processed' = processed
        BY <3>2 DEF IngestAtexit
      <4> QED BY <4>1, FinishedType DEF Busy
    <3>3. CASE IngestClosed(p)
      BY <3>3 DEF IngestClosed, Busy
    <3> QED BY <2>1, <3>1, <3>2, <3>3
  <2> QED BY <1>1, <2>1, <2>2, <2>3 DEF Counted
<1>7. CASE WorkerDone
  <2>1. Busy = 1 /\ Busy' = 0 /\ processed' = processed + 1 /\ UNCHANGED <<queue, enqueued>>
    BY <1>7, FinishedType DEF WorkerDone, Busy
  <2> QED BY <1>1, <2>1 DEF Counted
<1>8. CASE \/ WorkerReplace \/ WorkerAppend \/ WorkerClear \/ WorkerSnapshot
           \/ \E F \in Families : WorkerDrain(F)
  <2>1. /\ UNCHANGED <<queue, enqueued, processed>>
        /\ worker.pc \in {"replace", "append", "clear", "snapshot", "drain"}
    BY <1>8 DEF WorkerReplace, WorkerAppend, WorkerClear, WorkerSnapshot, WorkerDrain
  <2>2. Busy = 1
    BY <2>1 DEF Busy
  <2> QED BY <1>2, <2>1, <2>2
<1>9. CASE WorkerGc
  BY <1>2, <1>9 DEF WorkerGc, IdleWorker, Busy
<1>10. CASE \/ AdmissionStep \/ TaskSnapshot \/ (\E c \in Checkpoints : AcceptCheckpoint(c))
            \/ \E F \in Families : TaskDrain(F) \/ Execute(F)
  BY <1>2, <1>10 DEF AdmissionStep, AdmitCheckpoint, FailAdmission, TaskSnapshot,
       AcceptCheckpoint, TaskDrain, Execute
<1> QED BY <1>3, <1>4, <1>5, <1>6, <1>7, <1>8, <1>9, <1>10 DEF Next, WorkerStep

\* All steps but the two that record what was attributed before.
Calm ==
  /\ UNCHANGED <<kind, home, startedAt, attributedBefore, ckptAt, ckptTarget>>
  /\ \A r \in Roots : Started(r) => Started(r)'
  /\ \A c \in Checkpoints : ckpt[c] # "unsent" => ckpt'[c] # "unsent"

\* A step starts a command, accepts a checkpoint or records nothing.
LEMMA CalmSteps ==
  ASSUME OrderInv, [Next]_vars
  PROVE  Calm \/ (\E r \in Roots : GitStart(r)) \/ (\E c \in Checkpoints : AcceptCheckpoint(c))
<1> USE DEF OrderInv, TypeInv, TypeOK, envVars, gitVars, ckptVars, histVars
<1>1. ASSUME UNCHANGED <<kind, home, startedAt, attributedBefore, ckptAt, ckptTarget, git, ckpt>>
      PROVE  Calm
  BY <1>1 DEF Calm, Started
<1>2. ASSUME NEW r \in Roots, GitEnd(r) PROVE Calm
  <2>1. \A q \in Roots : Started(q) => Started(q)'
    BY <1>2 DEF GitEnd, Started, EnvOK
  <2>2. UNCHANGED <<kind, home, startedAt, attributedBefore, ckptAt, ckptTarget, ckpt>>
    BY <1>2 DEF GitEnd
  <2> QED BY <2>1, <2>2 DEF Calm
<1>3. CASE AdmissionStep \/ \E F \in Families : Execute(F)
  <2>1. UNCHANGED <<kind, home, startedAt, attributedBefore, ckptAt, ckptTarget, git>>
    BY <1>3 DEF AdmissionStep, AdmitCheckpoint, FailAdmission, Execute
  <2>2. PICK x : \/ ckpt' = ckpt
                 \/ \E s \in {"admitted", "failed", "executed"} : ckpt' = [ckpt EXCEPT ![x] = s]
    <3>1. CASE AdmissionStep
      BY <3>1 DEF AdmissionStep, AdmitCheckpoint, FailAdmission
    <3>2. ASSUME NEW F \in Families, Execute(F)
          PROVE  \E y : \/ ckpt' = ckpt
                         \/ ckpt' = [ckpt EXCEPT ![y] = "executed"]
      BY <3>2 DEF Execute
    <3> QED BY <1>3, <3>1, <3>2
  <2>3. \A c \in Checkpoints : ckpt[c] # "unsent" => ckpt'[c] # "unsent"
    BY <2>2 DEF AdmissionOK
  <2> QED BY <2>1, <2>3 DEF Calm, Started
<1>4. ASSUME NEW r \in Roots, ReaderStep(r) \/ ChildRead(r) \/ ChildStep(r) PROVE Calm
  BY <1>1, <1>4 DEF ReaderStep, ChildStep, OpenRoot, Track, Capture, Send, Close, SendMarker,
       ChildRead, ChildTrack, ChildCapture, ChildSend, ChildClose, ChildSendMarker
<1>5. CASE WorkerStep \/ TaskSnapshot \/ \E F \in Families : TaskDrain(F)
  BY <1>1, <1>5 DEF WorkerStep, IngestStep, IngestFrame, IngestAtexit, IngestClosed, WorkerReplace,
       WorkerAppend, WorkerClear, WorkerSnapshot, WorkerDrain, WorkerDone, WorkerGc, TaskSnapshot,
       TaskDrain
<1>6. CASE UNCHANGED vars
  BY <1>1, <1>6 DEF vars
<1> QED BY <1>2, <1>3, <1>4, <1>5, <1>6 DEF Next

\* A root once attributed stays so, and has started.
LEMMA AttributedGrows ==
  ASSUME OrderInv, RootInv, ConnInv, [Next]_vars, NEW q \in Attributed
  PROVE  q \in Attributed' /\ q \in Roots /\ Started(q)
<1>1. q \in Roots /\ reader[q].frame \in {"atexit", "eof"}
  BY DEF Attributed
<1>2. Started(q)
  BY <1>1 DEF OrderInv, Heard, ReaderStamps
<1>3. ASSUME reader'[q].frame \in {"atexit", "eof"} PROVE q \in Attributed'
  BY <1>1, <1>3 DEF Attributed
<1>4. ASSUME NEW r \in Roots, ReaderStep(r) \/ ChildRead(r) \/ ChildStep(r)
      PROVE  reader'[q].frame \in {"atexit", "eof"}
  <2>1. CASE q # r
    BY <1>1, <1>4, <2>1, StepElsewhere
  <2>2. CASE q = r /\ ReaderStep(r)
    <3>1. \/ reader'[r].frame = reader[r].frame
          \/ reader[r].frame \in Frames /\ reader'[r].frame = NextFrame(reader[r].frame)
      BY <1>4, <2>2, FrameMoves DEF ConnInv
    <3>2. reader[r].frame = "atexit" => NextFrame(reader[r].frame) = "eof"
      BY DEF NextFrame
    <3> QED BY <1>1, <2>2, <3>1, <3>2 DEF Frames
  <2>3. CASE ChildRead(r) \/ ChildStep(r)
    BY <1>1, <2>3 DEF ChildStep, ChildRead, ChildTrack, ChildCapture, ChildSend, ChildClose,
         ChildSendMarker
  <2> QED BY <1>4, <2>1, <2>2, <2>3
<1>5. ASSUME UNCHANGED reader PROVE reader'[q].frame \in {"atexit", "eof"}
  BY <1>1, <1>5
<1>6. reader'[q].frame \in {"atexit", "eof"}
  <2>1. CASE UNCHANGED reader
    BY <1>5, <2>1
  <2>2. CASE ~UNCHANGED reader
    <3>1. \E r \in Roots : ReaderStep(r) \/ ChildRead(r) \/ ChildStep(r)
      BY <2>2 DEF vars, readerVars, Next, GitStart, GitEnd, WorkerStep, IngestStep, IngestFrame,
           IngestAtexit, IngestClosed, WorkerReplace, WorkerAppend, WorkerClear, WorkerSnapshot,
           WorkerDrain, WorkerDone, WorkerGc, AcceptCheckpoint, AdmissionStep, AdmitCheckpoint,
           FailAdmission, TaskSnapshot, TaskDrain, Execute
    <3> QED BY <1>4, <3>1
  <2> QED BY <2>1, <2>2
<1> QED BY <1>1, <1>2, <1>3, <1>6

\* What a starting command x or an accepted checkpoint x records.
LEMMA Recorded ==
  ASSUME OrderInv, NEW x \in Roots \cup Checkpoints,
         attributedBefore' = [attributedBefore EXCEPT ![x] = Attributed]
  PROVE  /\ attributedBefore'[x] = Attributed
         /\ \A y \in (Roots \cup Checkpoints) \ {x} : attributedBefore'[y] = attributedBefore[y]
BY DEF OrderInv, TypeInv, TypeOK, HistoryOK

\* The clock does not run backwards.
LEMMA ClockOn ==
  ASSUME OrderInv, (\E r \in Roots : GitStart(r)) \/ (\E c \in Checkpoints : AcceptCheckpoint(c))
  PROVE  clock' \in Nat /\ clock <= clock'
<1>1. PICK t \in {clock + d : d \in Ticks} : clock' = t
  BY DEF GitStart, AcceptCheckpoint
<1>2. PICK d \in Ticks : t = clock + d
  BY <1>1
<1>3. d \in Nat /\ clock \in Nat
  BY ConstantsAssumption DEF OrderInv, TypeInv, TypeOK, EnvOK
<1> QED BY <1>1, <1>2, <1>3

\* The start of a command, and what it leaves alone.
LEMMA StartsAlone ==
  ASSUME OrderInv, NEW q \in Roots, GitStart(q)
  PROVE  /\ ~Started(q) /\ Started(q)' /\ startedAt'[q] = clock'
         /\ \A r \in Roots \ {q} : startedAt'[r] = startedAt[r] /\ (Started(r) => Started(r)')
BY DEF OrderInv, TypeInv, TypeOK, EnvOK, GitStart, Started

\* What was attributed earlier, started earlier.
LEMMA EarlierNext ==
  ASSUME OrderInv, RootInv, ConnInv, Earlier, [Next]_vars
  PROVE  Earlier'
<1> USE ConstantsAssumption
<1>1. \A q \in Attributed : q \in Attributed' /\ q \in Roots /\ Started(q) /\ startedAt[q] <= clock
  BY AttributedGrows DEF OrderInv, Heard, Clocks
<1>2. CASE Calm
  BY <1>1, <1>2 DEF Earlier, Calm
<1>3. ASSUME NEW q \in Roots, GitStart(q) PROVE Earlier'
  <2>1. /\ attributedBefore'[q] = Attributed
        /\ \A y \in (Roots \cup Checkpoints) \ {q} : attributedBefore'[y] = attributedBefore[y]
    BY <1>3, Recorded DEF GitStart
  <2>2. /\ ~Started(q) /\ Started(q)' /\ startedAt'[q] = clock'
        /\ \A r \in Roots \ {q} : startedAt'[r] = startedAt[r] /\ (Started(r) => Started(r)')
    BY <1>3, StartsAlone
  <2>3. \A r \in Attributed : r # q /\ startedAt'[r] = startedAt[r]
    BY <1>1, <2>2
  <2>4. \A r \in Attributed : startedAt[r] <= clock'
    <3>1. clock \in Nat /\ clock' \in Nat /\ clock <= clock' /\ \A r \in Roots : startedAt[r] \in Nat
      BY <1>3, ClockOn DEF OrderInv, TypeInv, TypeOK, EnvOK
    <3> QED BY <1>1, <3>1
  <2>5. UNCHANGED <<ckpt, ckptAt>>
    BY <1>3 DEF GitStart, ckptVars
  <2>6. \A c \in Checkpoints : \A r \in attributedBefore'[c] :
          r \in Attributed' /\ ckpt'[c] # "unsent" /\ startedAt'[r] <= ckptAt'[c]
    BY <1>1, <2>1, <2>3, <2>5 DEF Earlier
  <2>7. ASSUME NEW x \in Roots, NEW r \in attributedBefore'[x]
        PROVE  r \in Attributed' /\ Started(x)' /\ startedAt'[r] <= startedAt'[x]
    <3>1. CASE x = q
      BY <1>1, <2>1, <2>2, <2>3, <2>4, <2>7, <3>1
    <3>2. CASE x # q
      <4>1. r \in attributedBefore[x]
        BY <2>1, <2>7, <3>2
      <4>2. r \in Attributed /\ Started(x) /\ startedAt[r] <= startedAt[x]
        BY <4>1 DEF Earlier
      <4> QED BY <1>1, <2>2, <2>3, <3>2, <4>2
    <3> QED BY <3>1, <3>2
  <2> QED BY <2>6, <2>7 DEF Earlier
<1>4. ASSUME NEW c \in Checkpoints, AcceptCheckpoint(c) PROVE Earlier'
  <2>1. /\ attributedBefore'[c] = Attributed
        /\ \A y \in (Roots \cup Checkpoints) \ {c} : attributedBefore'[y] = attributedBefore[y]
    BY <1>4, Recorded DEF AcceptCheckpoint
  <2>2. UNCHANGED <<git, startedAt>>
    BY <1>4 DEF AcceptCheckpoint
  <2>3. /\ ckptAt'[c] = clock' /\ ckpt'[c] # "unsent"
        /\ \A d \in Checkpoints \ {c} : ckptAt'[d] = ckptAt[d] /\ ckpt'[d] = ckpt[d]
    BY <1>4 DEF AcceptCheckpoint, OrderInv, TypeInv, TypeOK, AdmissionOK
  <2>4. \A r \in Attributed : startedAt[r] <= clock'
    <3>1. clock \in Nat /\ clock' \in Nat /\ clock <= clock' /\ \A r \in Roots : startedAt[r] \in Nat
      BY <1>4, ClockOn DEF OrderInv, TypeInv, TypeOK, EnvOK
    <3> QED BY <1>1, <3>1
  <2>5. \A d \in Checkpoints : \A r \in attributedBefore'[d] :
          r \in Attributed' /\ ckpt'[d] # "unsent" /\ startedAt'[r] <= ckptAt'[d]
    BY <1>1, <2>1, <2>2, <2>3, <2>4 DEF Earlier
  <2>6. \A x \in Roots : \A r \in attributedBefore'[x] :
          r \in Attributed' /\ Started(x)' /\ startedAt'[r] <= startedAt'[x]
    BY <1>1, <2>1, <2>2 DEF Earlier, Started
  <2> QED BY <2>5, <2>6 DEF Earlier
<1> QED BY <1>2, <1>3, <1>4, CalmSteps

\* Only an atexit frame makes the worker append a command.
LEMMA AppendingBegins ==
  ASSUME TypeInv,
         \/ WorkerReplace \/ WorkerAppend \/ WorkerClear \/ WorkerSnapshot \/ WorkerDone \/ WorkerGc
         \/ \E F \in Families : WorkerDrain(F)
  PROVE  worker'.pc # "append"
<1>1. worker \in WorkerType
  BY DEF TypeInv, TypeOK
<1>2. CASE WorkerReplace
  BY <1>1, <1>2 DEF WorkerReplace, WorkerType
<1>3. CASE WorkerAppend
  BY <1>1, <1>3 DEF WorkerAppend, WorkerType
<1>4. CASE WorkerSnapshot
  BY <1>1, <1>4 DEF WorkerSnapshot, WorkerType
<1>5. CASE WorkerDone
  BY <1>5, FinishedType DEF WorkerDone
<1>6. CASE WorkerGc
  BY <1>6 DEF WorkerGc, IdleWorker
<1>7. CASE \E F \in Families : WorkerDrain(F)
  BY <1>1, <1>7 DEF WorkerDrain, WorkerType
<1>8. CASE WorkerClear
  BY <1>1, <1>8 DEF WorkerClear, WorkerType
<1> QED BY <1>2, <1>3, <1>4, <1>5, <1>6, <1>7, <1>8

\* A payload is added to the queue: no def_repo frame of a root that was attributed before.
LEMMA WaitsMore ==
  ASSUME OrderInv, Earlier, AdmissionWaits, FramesWait, UNCHANGED <<attributedBefore, ckptTarget>>,
         UNCHANGED worker, NEW p, Enqueue(p), p.event = "def_repo" => p.root \notin Attributed
  PROVE  AdmissionWaits' /\ FramesWait'
<1>1. PICK n \in Nat : /\ DOMAIN queue = 1 .. n /\ DOMAIN queue' = 1 .. n + 1
                       /\ queue'[n + 1] = p /\ \A i \in 1 .. n : queue'[i] = queue[i]
  BY QueueGrows DEF OrderInv
<1>2. \A i \in DOMAIN queue' : (i \in DOMAIN queue /\ queue'[i] = queue[i]) \/ i = n + 1
  BY <1>1
<1>3. Len(queue') = Len(queue) + 1 /\ enqueued' = enqueued + 1 /\ Len(queue) \in Nat /\ enqueued \in Nat
  BY DEF OrderInv, TypeInv, TypeOK, QueueOK, Enqueue
<1>4. \A c \in Checkpoints : ckptTarget[c] \in Nat
  BY DEF OrderInv, TypeInv, TypeOK, AdmissionOK
<1>5. AdmissionWaits'
  <2> SUFFICES ASSUME NEW c \in Checkpoints, NEW i \in DOMAIN queue',
                      queue'[i].event = "def_repo", queue'[i].root \in attributedBefore[c]
               PROVE  enqueued' + i <= ckptTarget[c] + Len(queue')
    BY DEF AdmissionWaits
  <2>1. i \in DOMAIN queue /\ queue'[i] = queue[i] /\ i \in Nat
    BY <1>1, <1>2 DEF Earlier
  <2>2. enqueued + i <= ckptTarget[c] + Len(queue)
    BY <2>1 DEF AdmissionWaits
  <2> QED BY <1>3, <1>4, <2>1, <2>2
<1>6. FramesWait'
  <2> SUFFICES ASSUME NEW q \in Roots, NEW i \in DOMAIN queue',
                      queue'[i].event = "def_repo", queue'[i].root \in attributedBefore[q]
               PROVE  /\ \A j \in DOMAIN queue' : FrameAt(j, q)' => i < j
                      /\ ~Appending(q)'
    BY DEF FramesWait, FrameAt
  <2>1. i \in DOMAIN queue /\ queue'[i] = queue[i] /\ i \in 1 .. n
    BY <1>1, <1>2 DEF Earlier
  <2>2. (\A j \in DOMAIN queue : FrameAt(j, q) => i < j) /\ ~Appending(q)
    BY <2>1 DEF FramesWait
  <2>3. ASSUME NEW j \in DOMAIN queue', FrameAt(j, q)' PROVE i < j
    <3>1. CASE j = n + 1
      BY <2>1, <3>1
    <3>2. CASE j \in DOMAIN queue /\ queue'[j] = queue[j]
      BY <2>2, <2>3, <3>2 DEF FrameAt
    <3> QED BY <1>2, <3>1, <3>2
  <2> QED BY <2>2, <2>3 DEF Appending
<1> QED BY <1>5, <1>6

\* A payload is taken from the queue; the worker appends a command after its last frame.
LEMMA WaitsLess ==
  ASSUME OrderInv, AdmissionWaits, FramesWait, IngestStep
  PROVE  AdmissionWaits' /\ FramesWait'
<1> USE DEF ckptVars, histVars
<1>1. PICK p \in Payloads :
        /\ queue # <<>> /\ p = queue[1] /\ 1 \in DOMAIN queue /\ queue' = Tail(queue)
        /\ IngestFrame(p) \/ IngestAtexit(p) \/ IngestClosed(p)
  BY Taken
<1>2. UNCHANGED <<attributedBefore, ckptTarget, enqueued>>
  BY <1>1 DEF IngestFrame, IngestAtexit, IngestClosed, TakePayload
<1>3. /\ Len(queue') = Len(queue) - 1 /\ Len(queue) \in Nat /\ enqueued \in Nat
      /\ \A i \in DOMAIN queue' : i \in Nat \ {0} /\ i + 1 \in DOMAIN queue /\ queue'[i] = queue[i + 1]
  BY <1>1 DEF OrderInv, TypeInv, TypeOK, QueueOK
<1>4. \A c \in Checkpoints : ckptTarget[c] \in Nat
  BY DEF OrderInv, TypeInv, TypeOK, AdmissionOK
<1>5. AdmissionWaits'
  <2> SUFFICES ASSUME NEW c \in Checkpoints, NEW i \in DOMAIN queue',
                      queue'[i].event = "def_repo", queue'[i].root \in attributedBefore[c]
               PROVE  enqueued + i <= ckptTarget[c] + Len(queue')
    BY <1>2 DEF AdmissionWaits
  <2>1. enqueued + (i + 1) <= ckptTarget[c] + Len(queue)
    BY <1>3 DEF AdmissionWaits
  <2> QED BY <1>3, <1>4, <2>1
<1>6. \A q \in Roots : Appending(q)' => FrameAt(1, q)
  <2>1. CASE IngestFrame(p)
    BY <2>1, FinishedType DEF IngestFrame, Appending
  <2>2. CASE IngestAtexit(p)
    <3>1. p.event = "atexit" /\ \E pc, o, s, F :
            worker' = Working(pc, p.root, o, s, F) \/ worker' = Finished
      BY <2>2 DEF IngestAtexit
    <3> QED BY <1>1, <3>1, FinishedType DEF Working, Appending, FrameAt, Frames
  <2>3. CASE IngestClosed(p)
    BY <2>3 DEF IngestClosed, Working, Appending
  <2> QED BY <1>1, <2>1, <2>2, <2>3
<1>7. FramesWait'
  <2> SUFFICES ASSUME NEW q \in Roots, NEW i \in DOMAIN queue',
                      queue'[i].event = "def_repo", queue'[i].root \in attributedBefore[q]
               PROVE  /\ \A j \in DOMAIN queue' : FrameAt(j, q)' => i < j
                      /\ ~Appending(q)'
    BY <1>2 DEF FramesWait, FrameAt
  <2>1. \A j \in DOMAIN queue : FrameAt(j, q) => i + 1 < j
    BY <1>3 DEF FramesWait
  <2>2. ~Appending(q)'
    BY <1>1, <1>3, <1>6, <2>1
  <2>3. ASSUME NEW j \in DOMAIN queue', FrameAt(j, q)' PROVE i < j
    <3>1. FrameAt(j + 1, q) /\ j + 1 \in DOMAIN queue
      BY <1>3, <2>3 DEF FrameAt
    <3>2. i + 1 < j + 1
      BY <2>1, <3>1
    <3> QED BY <1>3, <3>2
  <2> QED BY <2>2, <2>3
<1> QED BY <1>5, <1>7

\* Every step keeps the frames of earlier roots ahead.
LEMMA WaitsNext ==
  ASSUME OrderInv, RootInv, ConnInv, Earlier, AdmissionWaits, FramesWait, [Next]_vars
  PROVE  AdmissionWaits' /\ FramesWait'
<1> USE ConstantsAssumption
<1> USE DEF envVars, gitVars, readerVars, queueVars, ckptVars, histVars
<1>1. TypeInv
  BY DEF OrderInv
<1>2. ASSUME UNCHANGED <<queue, enqueued, attributedBefore, ckptTarget>>,
             UNCHANGED worker \/ worker'.pc # "append"
      PROVE  AdmissionWaits' /\ FramesWait'
  <2>1. AdmissionWaits'
    BY <1>2 DEF AdmissionWaits
  <2>2. \A q \in Roots : Appending(q)' => Appending(q)
    BY <1>2 DEF Appending
  <2>3. FramesWait'
    BY <1>2, <2>2 DEF FramesWait, FrameAt
  <2> QED BY <2>1, <2>3
<1>3. ASSUME NEW q \in Roots, GitStart(q) PROVE AdmissionWaits' /\ FramesWait'
  <2>1. \A y \in (Roots \cup Checkpoints) \ {q} : attributedBefore'[y] = attributedBefore[y]
    BY <1>3, Recorded DEF GitStart
  <2>2. UNCHANGED <<queue, enqueued, ckptTarget, worker>>
    BY <1>3 DEF GitStart
  <2>3. AdmissionWaits'
    BY <2>1, <2>2 DEF AdmissionWaits
  <2>4. ~Appending(q)' /\ \A j \in DOMAIN queue : ~FrameAt(j, q)
    <3>1. ~Started(q)
      BY <1>3, StartsAlone
    <3> QED BY <2>2, <3>1 DEF Appending, FrameAt, OrderInv, Heard, QueueStamps, WorkerStamps
  <2>5. FramesWait'
    BY <2>1, <2>2, <2>4 DEF FramesWait, FrameAt, Appending
  <2> QED BY <2>3, <2>5
<1>4. ASSUME NEW c \in Checkpoints, AcceptCheckpoint(c) PROVE AdmissionWaits' /\ FramesWait'
  <2>1. \A y \in (Roots \cup Checkpoints) \ {c} : attributedBefore'[y] = attributedBefore[y]
    BY <1>4, Recorded DEF AcceptCheckpoint
  <2>2. UNCHANGED <<queue, enqueued, worker>>
    BY <1>4 DEF AcceptCheckpoint
  <2>3. FramesWait'
    BY <2>1, <2>2 DEF FramesWait, FrameAt, Appending
  <2>4. ckptTarget'[c] = enqueued /\ \A d \in Checkpoints \ {c} : ckptTarget'[d] = ckptTarget[d]
    BY <1>4 DEF AcceptCheckpoint, OrderInv, TypeInv, TypeOK, AdmissionOK
  <2>5. \A i \in DOMAIN queue : enqueued + i <= enqueued + Len(queue)
    BY DEF OrderInv, TypeInv, TypeOK, QueueOK
  <2>6. AdmissionWaits'
    BY <2>1, <2>2, <2>4, <2>5 DEF AdmissionWaits
  <2> QED BY <2>3, <2>6
<1>5. ASSUME NEW r \in Roots, ReaderStep(r) \/ ChildRead(r) \/ ChildStep(r)
      PROVE  AdmissionWaits' /\ FramesWait'
  <2>1. UNCHANGED <<attributedBefore, ckptTarget, worker>>
    BY <1>5 DEF ReaderStep, ChildStep, OpenRoot, Track, Capture, Send, Close, SendMarker,
         ChildRead, ChildTrack, ChildCapture, ChildSend, ChildClose, ChildSendMarker
  <2>2. \/ UNCHANGED <<queue, enqueued>>
        \/ \E p : Enqueue(p) /\ (p.event = "def_repo" => p.root \notin Attributed)
    BY <1>5, ReaderQueues
  <2> QED BY <1>2, <2>1, <2>2, WaitsMore
<1>6. CASE IngestStep
  BY <1>6, WaitsLess
<1>7. CASE \/ WorkerReplace \/ WorkerAppend \/ WorkerClear \/ WorkerSnapshot \/ WorkerDone
           \/ WorkerGc \/ \E F \in Families : WorkerDrain(F)
  <2>1. UNCHANGED <<queue, enqueued, attributedBefore, ckptTarget>>
    BY <1>7 DEF WorkerReplace, WorkerAppend, WorkerClear, WorkerSnapshot, WorkerDone, WorkerGc,
         WorkerDrain
  <2> QED BY <1>1, <1>2, <1>7, <2>1, AppendingBegins
<1>8. CASE \/ AdmissionStep \/ TaskSnapshot \/ (\E r \in Roots : GitEnd(r))
           \/ \E F \in Families : TaskDrain(F) \/ Execute(F)
  BY <1>2, <1>8 DEF AdmissionStep, AdmitCheckpoint, FailAdmission, TaskSnapshot, GitEnd, TaskDrain,
       Execute
<1>9. CASE UNCHANGED vars
  BY <1>2, <1>9 DEF vars
<1> QED BY <1>3, <1>4, <1>5, <1>6, <1>7, <1>8, <1>9 DEF Next, WorkerStep

-----------------------------------------------------------------------------
(* Attributed roots are present.                                            *)

\* The steps that add, move or run entries.
LEMMA EntrySteps ==
  ASSUME [Next]_vars
  PROVE  \/ UNCHANGED <<entries, ready, log>>
         \/ IngestStep /\ UNCHANGED <<ready, log>>
         \/ AdmitCheckpoint /\ UNCHANGED <<ready, log>>
         \/ WorkerReplace \/ WorkerAppend \/ (\E F \in Families : WorkerDrain(F) \/ TaskDrain(F))
         \/ \E F \in Families : Execute(F)
<1> USE DEF seqVars, execVars
<1>1. CASE UNCHANGED vars
  BY <1>1 DEF vars
<1>2. ASSUME NEW r \in Roots, \/ GitStart(r) \/ GitEnd(r) \/ ReaderStep(r) \/ ChildRead(r)
                              \/ ChildStep(r)
      PROVE  UNCHANGED <<entries, ready, log>>
  BY <1>2 DEF GitStart, GitEnd, ReaderStep, ChildStep, OpenRoot, Track, Capture, Send, Close,
       SendMarker, ChildRead, ChildTrack, ChildCapture, ChildSend, ChildClose, ChildSendMarker
<1>3. CASE IngestStep
  BY <1>3 DEF IngestStep, IngestFrame, IngestAtexit, IngestClosed
<1>4. CASE AdmitCheckpoint
  BY <1>4 DEF AdmitCheckpoint
<1>5. CASE WorkerClear \/ WorkerSnapshot \/ WorkerDone \/ WorkerGc \/ TaskSnapshot \/ FailAdmission
           \/ \E c \in Checkpoints : AcceptCheckpoint(c)
  BY <1>5 DEF WorkerClear, WorkerSnapshot, WorkerDone, WorkerGc, TaskSnapshot, FailAdmission,
       AcceptCheckpoint
<1> QED BY <1>1, <1>2, <1>3, <1>4, <1>5 DEF Next, WorkerStep, AdmissionStep

\* What is present stays so.
LEMMA PresentKept ==
  ASSUME OrderInv, [Next]_vars, NEW F \in Families, NEW x, Present(F, x)
  PROVE  Present(F, x)'
<1>1. CASE UNCHANGED <<entries, ready, log>>
  BY <1>1 DEF Present, Ran, RunAt
<1>2. ASSUME entries[F] \subseteq entries'[F], UNCHANGED <<ready, log>> PROVE Present(F, x)'
  BY <1>2 DEF Present, Ran, RunAt
<1>3. CASE IngestStep /\ UNCHANGED <<ready, log>>
  <2>1. PICK p \in Payloads : AppendPending(p) \/ entries' = entries
    BY <1>3, Taken
  <2>2. entries[F] \subseteq entries'[F]
    <3>1. CASE AppendPending(p) /\ AppendsPending(p)
      BY <3>1, PendingAdds
    <3>2. CASE AppendPending(p) /\ ~AppendsPending(p)
      BY <3>2, PendingAdds
    <3> QED BY <2>1, <3>1, <3>2
  <2> QED BY <1>2, <1>3, <2>2
<1>4. CASE AdmitCheckpoint /\ UNCHANGED <<ready, log>>
  <2>1. entries[F] \subseteq entries'[F]
    BY <1>4, AdmissionAdds
  <2> QED BY <1>2, <1>4, <2>1
<1>5. CASE WorkerReplace \/ WorkerAppend \/ \E G \in Families : WorkerDrain(G) \/ TaskDrain(G)
  <2>1. PICK G \in Families, es \in SUBSET EntryType, b \in SUBSET EntryType :
          /\ Drains(G, es, b)
          /\ \/ es = entries[G]
             \/ \E y \in entries[G], e \in EntryType : y.id = e.id /\ es = (entries[G] \ {y}) \cup {e}
             \/ \E e \in EntryType : es = entries[G] \cup {e}
    BY <1>5, DrainSteps DEF Drains
  <2>2. CASE F # G
    <3>1. entries'[F] = entries[F] /\ ready'[F] = ready[F] /\ log' = log
      BY <2>1, <2>2 DEF Drains
    <3> QED BY <3>1 DEF Present, Ran, RunAt
  <2>3. CASE F = G
    <3>1. ready[F] = {} /\ b \subseteq es /\ entries'[F] = es \ b /\ ready'[F] = b /\ log' = log
      BY <2>1, <2>3 DEF Drains
    <3>2. ASSUME NEW d \in entries[F], d.id = x PROVE \E e \in es : e.id = x
      <4>1. CASE \E y \in entries[G], e \in EntryType :
                   y.id = e.id /\ es = (entries[G] \ {y}) \cup {e}
        BY <2>3, <3>2, <4>1
      <4> QED BY <2>1, <2>3, <3>2, <4>1
    <3> QED BY <3>1, <3>2 DEF Present, Ran, RunAt
  <2> QED BY <2>2, <2>3
<1>6. ASSUME NEW G \in Families, Execute(G) PROVE Present(F, x)'
  <2>1. PICK e \in ready[G] : Runs(G, e)
    BY <1>6, ExecuteRuns
  <2>2. CASE F # G
    BY <2>1, <2>2 DEF Runs, Present, Ran, RunAt
  <2>3. CASE F = G
    BY <2>1, <2>3 DEF Runs, Present
  <2> QED BY <2>2, <2>3
<1> QED BY <1>1, <1>3, <1>4, <1>5, <1>6, EntrySteps

\* Applying the def_repo frame of a plain root makes it present.
LEMMA PresentIngest ==
  ASSUME OrderInv, RootInv, ConnInv, IngestStep, NEW r \in Roots, Plain(r),
         EventQueued(r, "def_repo"), ~EventQueued(r, "def_repo")'
  PROVE  Present(home[r], r)'
<1>1. PICK p \in Payloads :
        /\ queue # <<>> /\ p = queue[1] /\ 1 \in DOMAIN queue /\ queue' = Tail(queue)
        /\ \/ IngestFrame(p) /\ AppendPending(p)
           \/ IngestAtexit(p) \/ IngestClosed(p)
  BY Taken
<1>2. p.root = r /\ p.event = "def_repo"
  BY <1>1, QueuedLess DEF OrderInv
<1>3. IngestFrame(p) /\ AppendPending(p) /\ UNCHANGED home
  BY <1>1, <1>2 DEF IngestFrame, IngestAtexit, IngestClosed, envVars
<1>4. p.at # 0 /\ p.family # NoFamily
  BY <1>1, <1>2 DEF ConnInv, QueueKnows, PayloadKnows
<1>5. p.family = home[r]
  BY <1>1, <1>2, <1>4 DEF RootInv, RightFamily, OfFamily
<1>6. CASE AppendsPending(p)
  <2>1. PendingEntry(p) \in entries'[home[r]] /\ PendingEntry(p).id = r
    BY <1>2, <1>3, <1>5, <1>6, PendingAdds
  <2> QED BY <1>3, <2>1 DEF Present
<1>7. CASE ~AppendsPending(p)
  <2>1. slots[r] # NoSlot /\ entries' = entries
    BY <1>2, <1>3, <1>4, <1>7, PendingAdds DEF AppendsPending, Plain, Frames
  <2>2. slots[r].family = home[r]
    BY <2>1 DEF RootInv, RightFamily
  <2>3. \E e \in entries[home[r]] : e.id = r
    BY <2>1, <2>2 DEF OrderInv, Placed, SlotsLead, Leads
  <2> QED BY <1>3, <2>1, <2>3 DEF Present
<1> QED BY <1>6, <1>7

\* Every step keeps attributed roots present once their frame was applied.
LEMMA PresentNext ==
  ASSUME OrderInv, RootInv, ConnInv, AttributedPresent, [Next]_vars
  PROVE  AttributedPresent'
<1> USE DEF envVars, readerVars, queueVars
<1>1. TypeInv /\ UNCHANGED <<kind, home>>
  <2>1. Calm => UNCHANGED <<kind, home>>
    BY DEF Calm
  <2> QED BY <2>1, CalmSteps DEF OrderInv, GitStart, AcceptCheckpoint
<1> SUFFICES ASSUME NEW r \in Roots, Plain(r), r \in Attributed', ~EventQueued(r, "def_repo")'
             PROVE  Present(home[r], r)'
  BY <1>1 DEF AttributedPresent, Plain
<1>2. home[r] \in Families
  BY <1>1 DEF TypeInv, TypeOK, EnvOK
<1>3. CASE r \in Attributed /\ ~EventQueued(r, "def_repo")
  <2>1. Present(home[r], r)
    BY <1>3 DEF AttributedPresent
  <2>2. PICK F \in Families : F = home[r]
    BY <1>2
  <2>3. Present(F, r)'
    BY <2>1, <2>2, PresentKept
  <2> QED BY <1>1, <2>2, <2>3 DEF Present, Ran, RunAt
<1>4. CASE IngestStep
  <2>1. r \in Attributed
    BY <1>4 DEF Attributed, IngestStep, IngestFrame, IngestAtexit, IngestClosed
  <2> QED BY <1>3, <1>4, <2>1, PresentIngest
<1>5. ASSUME NEW q \in Roots, ReaderStep(q) \/ ChildRead(q) \/ ChildStep(q)
      PROVE  Present(home[r], r)'
  <2>1. EventQueued(r, "def_repo") => EventQueued(r, "def_repo")'
    <3>1. UNCHANGED queue \/ \E p : Enqueue(p)
      BY <1>5, ReaderQueues
    <3> QED BY <1>1, <3>1, QueuedMore DEF EventQueued
  <2>2. ASSUME r \notin Attributed PROVE FALSE
    <3>1. reader[r].frame \in {"start", "def_repo"} /\ reader'[r].frame \in {"atexit", "eof"}
      BY <1>1, <2>2 DEF Attributed, TypeInv, TypeOK, ReaderType, Frames
    <3>2. q = r
      BY <1>5, <3>1, StepElsewhere
    <3>3. ReaderStep(r)
      BY <1>5, <3>1, <3>2 DEF ChildStep, ChildRead, ChildTrack, ChildCapture, ChildSend, ChildClose,
           ChildSendMarker
    <3>4. Send(r) /\ reader'[r].frame = NextFrame(reader[r].frame)
      BY <3>1, <3>3, FrameMoves DEF ConnInv
    <3>5. reader[r].frame = "def_repo"
      BY <3>1, <3>4 DEF NextFrame
    <3>6. /\ Enqueue(reader[r].payload) /\ reader[r].payload.root = r
          /\ reader[r].payload.event = "def_repo"
      BY <3>4, <3>5 DEF Send, OrderInv, Heard, ReaderStamps, RootInv, RightFamily
    <3> QED BY <1>1, <3>6, QueuedMore
  <2> QED BY <1>3, <2>1, <2>2
<1>6. CASE UNCHANGED <<reader, queue>>
  BY <1>3, <1>6 DEF Attributed, EventQueued
<1>7. IngestStep \/ UNCHANGED <<reader, queue>>
        \/ \E q \in Roots : ReaderStep(q) \/ ChildRead(q) \/ ChildStep(q)
  BY DEF vars, Next, GitStart, GitEnd, WorkerStep, WorkerReplace, WorkerAppend, WorkerClear,
       WorkerSnapshot, WorkerDrain, WorkerDone, WorkerGc, AcceptCheckpoint, AdmissionStep,
       AdmitCheckpoint, FailAdmission, TaskSnapshot, TaskDrain, Execute
<1> QED BY <1>4, <1>5, <1>6, <1>7

-----------------------------------------------------------------------------
(* Attributed roots are in front.                                           *)

\* In the entries es of family F whatever r precedes has r ahead of it.
Ahead(F, es, r) ==
  \A e \in es : Precedes(r, e.id, F) =>
    \/ Ran(F, r) \/ (\E d \in ready[F] : d.id = r)
    \/ \E d \in es : d.id = r /\ Before(d, e)

\* An entry is added after every root that was attributed before it.
LEMMA FrontInsert ==
  ASSUME OrderInv, AttributedPresent, InFront, NEW F \in Families, NEW e \in EntryType,
         e.ord = nextOrdinal[F], NEW r \in Roots,
         Precedes(r, e.id, F) =>
           r \in Attributed /\ ~EventQueued(r, "def_repo") /\ startedAt[r] <= e.at
  PROVE  Ahead(F, entries[F] \cup {e}, r)
<1> USE DEF OrderInv, TypeInv, TypeOK
<1>1. ASSUME NEW x \in entries[F], Precedes(r, x.id, F)
      PROVE  \/ Ran(F, r) \/ (\E d \in ready[F] : d.id = r)
             \/ \E d \in entries[F] : d.id = r /\ Before(d, x)
  BY <1>1 DEF InFront
<1>2. ASSUME Precedes(r, e.id, F)
      PROVE  \/ Ran(F, r) \/ (\E d \in ready[F] : d.id = r)
             \/ \E d \in entries[F] : d.id = r /\ Before(d, e)
  <2>1. Present(F, r)
    BY <1>2 DEF Precedes, AttributedPresent
  <2>2. ASSUME NEW d \in entries[F], d.id = r PROVE Before(d, e)
    <3>1. d \in EntryType /\ d.ord < nextOrdinal[F] /\ d.at = startedAt[r]
      BY <2>2, ConstantsAssumption DEF SequencerOK, Placed, Keys, EntryTimes, TimedIn
    <3>2. d.at \in Nat /\ e.at \in Nat /\ d.at <= e.at /\ d.ord < e.ord
      BY <1>2, <3>1 DEF EntryType
    <3> QED BY <3>2 DEF Before
  <2> QED BY <2>1, <2>2 DEF Present
<1> QED BY <1>1, <1>2 DEF Ahead

\* Draining a family keeps the order between what is taken and what is left.
LEMMA FrontDrain ==
  ASSUME InFront, NEW F \in Families, NEW es \in SUBSET EntryType, NEW b \in SUBSET EntryType,
         Drains(F, es, b), \A r \in Roots : Ahead(F, es, r),
         UNCHANGED <<kind, home, attributedBefore>>
  PROVE  InFront'
<1>1. /\ ready[F] = {} /\ b \subseteq es /\ entries'[F] = es \ b /\ ready'[F] = b /\ log' = log
      /\ \A G \in Families \ {F} : entries'[G] = entries[G] /\ ready'[G] = ready[G]
      /\ \A e \in b, d \in es : Before(d, e) => d \in b
  BY DEF Drains
<1>2. \A r, x, G : Precedes(r, x, G)' <=> Precedes(r, x, G)
  BY DEF Precedes, Plain
<1>3. \A G, x : Ran(G, x)' <=> Ran(G, x)
  BY <1>1 DEF Ran, RunAt
<1> SUFFICES ASSUME NEW G \in Families, NEW r \in Roots
             PROVE  /\ \A e \in entries'[G] : Precedes(r, e.id, G) =>
                         \/ Ran(G, r) \/ (\E d \in ready'[G] : d.id = r)
                         \/ \E d \in entries'[G] : d.id = r /\ Before(d, e)
                    /\ \A e \in ready'[G] : Precedes(r, e.id, G) =>
                         Ran(G, r) \/ \E d \in ready'[G] : d.id = r /\ Before(d, e)
                    /\ \A i \in DOMAIN log[G] : Precedes(r, log[G][i].id, G) => RanBefore(G, r, i)
  BY <1>1, <1>2, <1>3 DEF InFront, RanBefore, RunAt, Before
<1>4. \A i \in DOMAIN log[G] : Precedes(r, log[G][i].id, G) => RanBefore(G, r, i)
  BY DEF InFront
<1>5. CASE G # F
  BY <1>1, <1>4, <1>5 DEF InFront
<1>6. CASE G = F
  <2>1. \A e \in es : Precedes(r, e.id, F) => Ran(F, r) \/ \E d \in es : d.id = r /\ Before(d, e)
    BY <1>1 DEF Ahead
  <2>2. \A e \in ready'[F] : Precedes(r, e.id, F) =>
          Ran(F, r) \/ \E d \in ready'[F] : d.id = r /\ Before(d, e)
    BY <1>1, <2>1
  <2>3. \A e \in entries'[F] : Precedes(r, e.id, F) =>
          \/ Ran(F, r) \/ (\E d \in ready'[F] : d.id = r)
          \/ \E d \in entries'[F] : d.id = r /\ Before(d, e)
    BY <1>1, <2>1
  <2> QED BY <1>4, <1>6, <2>2, <2>3
<1> QED BY <1>5, <1>6

\* The entries of one family grow to es; nothing else changes.
LEMMA FrontGrow ==
  ASSUME InFront, NEW F \in Families, NEW es, entries'[F] = es,
         \A G \in Families \ {F} : entries'[G] = entries[G],
         UNCHANGED <<ready, log, kind, home, attributedBefore>>, \A r \in Roots : Ahead(F, es, r)
  PROVE  InFront'
<1>1. \A r, x, G : Precedes(r, x, G)' <=> Precedes(r, x, G)
  BY DEF Precedes, Plain
<1>2. \A G, x : Ran(G, x)' <=> Ran(G, x)
  BY DEF Ran, RunAt
<1> SUFFICES ASSUME NEW G \in Families, NEW r \in Roots
             PROVE  /\ \A e \in entries'[G] : Precedes(r, e.id, G) =>
                         \/ Ran(G, r) \/ (\E d \in ready[G] : d.id = r)
                         \/ \E d \in entries'[G] : d.id = r /\ Before(d, e)
                    /\ \A e \in ready[G] : Precedes(r, e.id, G) =>
                         Ran(G, r) \/ \E d \in ready[G] : d.id = r /\ Before(d, e)
                    /\ \A i \in DOMAIN log[G] : Precedes(r, log[G][i].id, G) => RanBefore(G, r, i)
  BY <1>1, <1>2 DEF InFront, RanBefore, RunAt, Before
<1>3. CASE G = F
  BY <1>3 DEF InFront, Ahead
<1>4. CASE G # F
  BY <1>4 DEF InFront
<1> QED BY <1>3, <1>4

\* Running the first entry of the batch.
LEMMA FrontExecute ==
  ASSUME OrderInv, InFront, NEW F \in Families, Execute(F)
  PROVE  InFront'
<1>1. UNCHANGED <<kind, home, attributedBefore>>
  BY DEF Execute, envVars, histVars
<1>2. PICK e \in ready[F] : Runs(F, e)
  BY ExecuteRuns
<1>3. /\ \A d \in ready[F] : d = e \/ Before(e, d)
      /\ ready'[F] = ready[F] \ {e} /\ entries' = entries
      /\ \A G \in Families \ {F} : ready'[G] = ready[G] /\ log'[G] = log[G]
      /\ \A x : Ran(F, x)' <=> Ran(F, x) \/ x = e.id
  BY <1>2 DEF Runs
<1>4. PICK n \in Nat : /\ DOMAIN log[F] = 1 .. n /\ DOMAIN log'[F] = 1 .. n + 1
                       /\ log'[F][n + 1].id = e.id
                       /\ \A i \in 1 .. n : log'[F][i] = log[F][i]
  BY <1>2 DEF Runs
<1>5. \A r, x, G : Precedes(r, x, G)' <=> Precedes(r, x, G)
  BY <1>1 DEF Precedes, Plain
<1>6. \A d \in ready[F] : ~Before(d, e)
  <2>1. \A d \in ready[F] : d.at \in Nat /\ d.ord \in Nat
    BY DEF OrderInv, TypeInv, TypeOK, SequencerOK, EntryType
  <2> QED BY <1>3, <2>1 DEF Before
<1>7. ASSUME NEW G \in Families \ {F}, NEW r \in Roots
      PROVE  /\ \A x \in entries'[G] : Precedes(r, x.id, G) =>
                  \/ Ran(G, r)' \/ (\E d \in ready'[G] : d.id = r)
                  \/ \E d \in entries'[G] : d.id = r /\ Before(d, x)
             /\ \A x \in ready'[G] : Precedes(r, x.id, G) =>
                  Ran(G, r)' \/ \E d \in ready'[G] : d.id = r /\ Before(d, x)
             /\ \A i \in DOMAIN log'[G] : Precedes(r, log'[G][i].id, G) => RanBefore(G, r, i)'
  <2>1. entries'[G] = entries[G] /\ ready'[G] = ready[G] /\ log'[G] = log[G]
    BY <1>3
  <2>2. Ran(G, r)' <=> Ran(G, r)
    BY <2>1 DEF Ran, RunAt
  <2>3. \A i : RanBefore(G, r, i)' <=> RanBefore(G, r, i)
    BY <2>1 DEF RanBefore, RunAt
  <2> QED BY <2>1, <2>2, <2>3 DEF InFront
<1>8. ASSUME NEW r \in Roots
      PROVE  /\ \A x \in entries'[F] : Precedes(r, x.id, F) =>
                  \/ Ran(F, r)' \/ (\E d \in ready'[F] : d.id = r)
                  \/ \E d \in entries'[F] : d.id = r /\ Before(d, x)
             /\ \A x \in ready'[F] : Precedes(r, x.id, F) =>
                  Ran(F, r)' \/ \E d \in ready'[F] : d.id = r /\ Before(d, x)
             /\ \A i \in DOMAIN log'[F] : Precedes(r, log'[F][i].id, F) => RanBefore(F, r, i)'
  <2>1. \A x \in entries'[F] : Precedes(r, x.id, F) =>
          \/ Ran(F, r)' \/ (\E d \in ready'[F] : d.id = r)
          \/ \E d \in entries'[F] : d.id = r /\ Before(d, x)
    BY <1>3 DEF InFront
  <2>2. \A x \in ready'[F] : Precedes(r, x.id, F) =>
          Ran(F, r)' \/ \E d \in ready'[F] : d.id = r /\ Before(d, x)
    BY <1>3 DEF InFront
  <2>3. ASSUME NEW i \in DOMAIN log'[F], Precedes(r, log'[F][i].id, F) PROVE RanBefore(F, r, i)'
    <3>1. CASE i \in 1 .. n
      <4>1. RanBefore(F, r, i) /\ \A j \in 1 .. i - 1 : log'[F][j] = log[F][j]
        BY <1>4, <2>3, <3>1 DEF InFront
      <4> QED BY <4>1 DEF RanBefore, RunAt
    <3>2. CASE i = n + 1
      <4>1. Ran(F, r)
        BY <1>4, <1>6, <2>3, <3>2 DEF InFront
      <4>2. PICK j \in 1 .. n : log[F][j].id = r
        BY <1>4, <4>1 DEF Ran, RunAt
      <4>3. j \in 1 .. i - 1 /\ log'[F][j].id = r
        BY <1>4, <3>2, <4>2
      <4> QED BY <4>3 DEF RanBefore, RunAt
    <3> QED BY <1>4, <3>1, <3>2
  <2> QED BY <2>1, <2>2, <2>3
<1> SUFFICES ASSUME NEW G \in Families, NEW r \in Roots
             PROVE  /\ \A x \in entries'[G] : Precedes(r, x.id, G) =>
                         \/ Ran(G, r)' \/ (\E d \in ready'[G] : d.id = r)
                         \/ \E d \in entries'[G] : d.id = r /\ Before(d, x)
                    /\ \A x \in ready'[G] : Precedes(r, x.id, G) =>
                         Ran(G, r)' \/ \E d \in ready'[G] : d.id = r /\ Before(d, x)
                    /\ \A i \in DOMAIN log'[G] : Precedes(r, log'[G][i].id, G) => RanBefore(G, r, i)'
  BY <1>5 DEF InFront, Before
<1>9. CASE G = F
  BY <1>8, <1>9
<1>10. CASE G # F
  BY <1>7, <1>10
<1> QED BY <1>9, <1>10

\* Recording what was attributed before x concerns no entry, x having none.
LEMMA FrontRecord ==
  ASSUME OrderInv, InFront, NEW x \in Roots \cup Checkpoints,
         UNCHANGED <<kind, home, entries, ready, log>>,
         \A y \in (Roots \cup Checkpoints) \ {x} : attributedBefore'[y] = attributedBefore[y],
         \A F \in Families : Nowhere(F, x)
  PROVE  InFront'
<1> USE DEF OrderInv, TypeInv, TypeOK
<1>1. \A F \in Families : /\ \A e \in entries[F] \cup ready[F] : e.id \in (Roots \cup Checkpoints) \ {x}
                          /\ \A i \in DOMAIN log[F] : log[F][i].id \in (Roots \cup Checkpoints) \ {x}
  <2> SUFFICES ASSUME NEW F \in Families
               PROVE  /\ \A e \in entries[F] \cup ready[F] : e.id \in (Roots \cup Checkpoints) \ {x}
                      /\ \A i \in DOMAIN log[F] : log[F][i].id \in (Roots \cup Checkpoints) \ {x}
    OBVIOUS
  <2>1. \A e \in entries[F] \cup ready[F] : e.id \in Roots \cup Checkpoints /\ e.id # x
    BY DEF Nowhere, NoneIn, SequencerOK, EntryType
  <2>2. \A i \in DOMAIN log[F] : log[F][i] \in LogType
    BY DEF SequencerOK
  <2>3. \A i \in DOMAIN log[F] : log[F][i].id \in Roots \cup Checkpoints /\ log[F][i].id # x
    BY <2>2 DEF Nowhere, Ran, RunAt, LogType
  <2> QED BY <2>1, <2>3
<1>2. \A r, F : \A y \in (Roots \cup Checkpoints) \ {x} : Precedes(r, y, F)' <=> Precedes(r, y, F)
  BY DEF Precedes, Plain
<1>3. \A F, y : /\ Ran(F, y)' <=> Ran(F, y)
                /\ \A i : RanBefore(F, y, i)' <=> RanBefore(F, y, i)
  BY DEF Ran, RanBefore, RunAt
<1>4. ASSUME NEW F \in Families, NEW r \in Roots, NEW y, Precedes(r, y, F)',
             \/ \E e \in entries[F] \cup ready[F] : e.id = y
             \/ \E i \in DOMAIN log[F] : log[F][i].id = y
      PROVE  Precedes(r, y, F)
  <2>1. y \in (Roots \cup Checkpoints) \ {x}
    BY <1>1, <1>4
  <2> QED BY <1>2, <1>4, <2>1
<1>5. ASSUME NEW F \in Families, NEW r \in Roots
      PROVE  /\ \A e \in entries'[F] : Precedes(r, e.id, F)' =>
                  \/ Ran(F, r)' \/ (\E d \in ready'[F] : d.id = r)
                  \/ \E d \in entries'[F] : d.id = r /\ Before(d, e)
             /\ \A e \in ready'[F] : Precedes(r, e.id, F)' =>
                  Ran(F, r)' \/ \E d \in ready'[F] : d.id = r /\ Before(d, e)
  BY <1>3, <1>4 DEF InFront
<1>6. ASSUME NEW F \in Families, NEW r \in Roots, NEW i \in DOMAIN log'[F],
             Precedes(r, log[F][i].id, F)'
      PROVE  RanBefore(F, r, i)'
  <2>1. PICK y : y = log[F][i].id
    OBVIOUS
  <2>2. Precedes(r, y, F)'
    BY <1>6, <2>1
  <2>3. Precedes(r, y, F) /\ i \in DOMAIN log[F]
    BY <1>4, <1>6, <2>1, <2>2
  <2> QED BY <1>3, <2>1, <2>3 DEF InFront
<1> QED BY <1>5, <1>6 DEF InFront, Before

\* A pending root comes after the roots attributed before it: their frames came first.
LEMMA FrontIngest ==
  ASSUME OrderInv, Earlier, FramesWait, AttributedPresent, InFront, IngestStep
  PROVE  InFront'
<1> USE DEF envVars, execVars, histVars, OrderInv, TypeInv, TypeOK
<1>1. PICK p \in Payloads :
        /\ queue # <<>> /\ p = queue[1] /\ 1 \in DOMAIN queue /\ p.root \in Roots
        /\ \/ IngestFrame(p) /\ AppendPending(p)
           \/ IngestAtexit(p) /\ AppendPending(p)
           \/ IngestClosed(p) /\ entries' = entries
  BY Taken
<1>2. UNCHANGED <<ready, log, kind, home, attributedBefore>>
  BY <1>1 DEF IngestFrame, IngestAtexit, IngestClosed
<1>3. CASE UNCHANGED entries
  BY <1>2, <1>3 DEF InFront, Precedes, Plain, Ran, RanBefore, RunAt, Before
<1>4. CASE AppendPending(p) /\ AppendsPending(p)
  <2>1. /\ p.family \in Families
        /\ entries'[p.family] = entries[p.family] \cup {PendingEntry(p)}
        /\ \A G \in Families \ {p.family} : entries'[G] = entries[G]
    BY <1>4, PendingAdds
  <2>2. p.event \in Frames /\ p.at # 0
    BY <1>4 DEF AppendsPending
  <2>3. PICK q \in Roots : q = p.root
    BY <1>1
  <2>4. p.at = startedAt[q] /\ p.at \in Nat /\ nextOrdinal[p.family] \in Nat
    BY <1>1, <2>1, <2>2, <2>3 DEF Heard, QueueStamps, Stamp, Payloads, SequencerOK
  <2>5. /\ PendingEntry(p) \in EntryType /\ PendingEntry(p).ord = nextOrdinal[p.family]
        /\ PendingEntry(p).id = q /\ PendingEntry(p).at = startedAt[q]
    BY <2>3, <2>4 DEF PendingEntry, Entry, EntryType, Whats
  <2>6. ASSUME NEW r \in Roots, Precedes(r, q, p.family)
        PROVE  r \in Attributed /\ ~EventQueued(r, "def_repo") /\ startedAt[r] <= startedAt[q]
    <3>1. r \in attributedBefore[q]
      BY <2>6 DEF Precedes
    <3>2. FrameAt(1, q) /\ \A i \in DOMAIN queue : ~(i < 1)
      BY <1>1, <2>2, <2>3 DEF FrameAt, QueueOK
    <3>3. ~EventQueued(r, "def_repo")
      BY <1>1, <3>1, <3>2 DEF FramesWait, EventQueued
    <3> QED BY <3>1, <3>3 DEF Earlier
  <2>7. \A r \in Roots : Ahead(p.family, entries[p.family] \cup {PendingEntry(p)}, r)
    BY <2>1, <2>5, <2>6, FrontInsert
  <2> QED BY <1>2, <2>1, <2>7, FrontGrow
<1>5. CASE AppendPending(p) /\ ~AppendsPending(p)
  BY <1>3, <1>5, PendingAdds
<1> QED BY <1>1, <1>3, <1>4, <1>5

\* An admitted checkpoint comes after the roots attributed before it: the ingest worker has
\* passed their frames.
LEMMA FrontAdmit ==
  ASSUME OrderInv, Counted, Earlier, AdmissionWaits, AttributedPresent, InFront, AdmitCheckpoint
  PROVE  InFront'
<1> USE DEF OrderInv, TypeInv, TypeOK
<1>1. UNCHANGED <<ready, log, kind, home, attributedBefore>>
  BY DEF AdmitCheckpoint, envVars, execVars, histVars
<1>2. PICK c \in Checkpoints, e \in EntryType :
        /\ FencePassed(c) /\ e.id = c /\ e.at = ckptAt[c]
        /\ e.ord = nextOrdinal[ckptHome[c]] /\ ckptHome[c] \in Families
        /\ entries'[ckptHome[c]] = entries[ckptHome[c]] \cup {e}
        /\ \A G \in Families \ {ckptHome[c]} : entries'[G] = entries[G]
  BY AdmissionAdds
<1>3. ASSUME NEW r \in Roots, Precedes(r, c, ckptHome[c])
      PROVE  r \in Attributed /\ ~EventQueued(r, "def_repo") /\ startedAt[r] <= ckptAt[c]
  <2>1. r \in attributedBefore[c]
    BY <1>3 DEF Precedes
  <2>2. ASSUME NEW i \in DOMAIN queue, queue[i].root = r, queue[i].event = "def_repo" PROVE FALSE
    <3>1. enqueued + i <= ckptTarget[c] + Len(queue)
      BY <2>1, <2>2 DEF AdmissionWaits
    <3>2. /\ enqueued \in Nat /\ processed \in Nat /\ Len(queue) \in Nat /\ i \in Nat /\ i > 0
          /\ ckptTarget[c] \in Nat
      BY DEF QueueOK, AdmissionOK
    <3>3. processed >= ckptTarget[c] /\ processed + Len(queue) <= enqueued
      <4>1. Busy \in 0 .. 1
        BY DEF Busy
      <4> QED BY <1>2, <3>2, <4>1 DEF FencePassed, Counted
    <3> QED BY <3>1, <3>2, <3>3
  <2> QED BY <2>1, <2>2 DEF Earlier, EventQueued
<1>4. \A r \in Roots : Ahead(ckptHome[c], entries[ckptHome[c]] \cup {e}, r)
  BY <1>2, <1>3, FrontInsert
<1> QED BY <1>1, <1>2, <1>4, FrontGrow

\* The steps that drain: replacing keeps the place, appending takes the last one.
LEMMA FrontDrains ==
  ASSUME OrderInv, Earlier, FramesWait, AttributedPresent, InFront,
         WorkerReplace \/ WorkerAppend \/ \E F \in Families : WorkerDrain(F) \/ TaskDrain(F)
  PROVE  InFront'
<1> USE DEF OrderInv, TypeInv, TypeOK
<1>1. UNCHANGED <<kind, home, attributedBefore>>
  BY DEF WorkerReplace, WorkerAppend, WorkerDrain, TaskDrain, envVars, histVars
<1>2. PICK F \in Families, es \in SUBSET EntryType, b \in SUBSET EntryType :
        /\ Drains(F, es, b)
        /\ \/ es = entries[F]
           \/ \E x \in entries[F], e \in EntryType :
                /\ x.id = e.id /\ es = (entries[F] \ {x}) \cup {e} /\ Replaces(e, x)
           \/ /\ WorkerAppend /\ worker.root \in Roots
              /\ \E e \in EntryType :
                   e.id = worker.root /\ es = entries[F] \cup {e} /\ Appends(F, e)
  BY DrainSteps DEF Drains
<1>3. ASSUME NEW r \in Roots PROVE Ahead(F, es, r)
  <2>1. CASE es = entries[F]
    BY <2>1 DEF InFront, Ahead
  <2>2. ASSUME NEW x \in entries[F], NEW e \in EntryType, x.id = e.id,
               es = (entries[F] \ {x}) \cup {e}, Replaces(e, x)
        PROVE  Ahead(F, es, r)
    <3>1. \A d : (Before(d, e) <=> Before(d, x)) /\ (Before(e, d) <=> Before(x, d))
      BY <2>2 DEF Replaces, Before
    <3>2. ASSUME NEW d \in entries[F], NEW y \in entries[F], d.id = r, Before(d, y)
          PROVE  \E z \in es : z.id = r /\ Before(z, y)
      BY <2>2, <3>1, <3>2
    <3>3. \A y \in entries[F] : Precedes(r, y.id, F) =>
            \/ Ran(F, r) \/ (\E d \in ready[F] : d.id = r)
            \/ \E d \in entries[F] : d.id = r /\ Before(d, y)
      BY DEF InFront
    <3>4. \A y \in entries[F] : Precedes(r, y.id, F) =>
            \/ Ran(F, r) \/ (\E d \in ready[F] : d.id = r)
            \/ \E z \in es : z.id = r /\ Before(z, y)
      BY <3>2, <3>3
    <3> QED BY <2>2, <3>1, <3>4 DEF Ahead
  <2>3. ASSUME WorkerAppend, worker.root \in Roots, NEW e \in EntryType, e.id = worker.root,
               es = entries[F] \cup {e}, Appends(F, e)
        PROVE  Ahead(F, es, r)
    <3>1. PICK q \in Roots : q = worker.root
      BY <2>3
    <3>2. Appending(q)
      BY <2>3, <3>1 DEF WorkerAppend, Appending
    <3>3. e.id = q /\ e.at = startedAt[q] /\ e.ord = nextOrdinal[F]
      BY <2>3, <3>1 DEF Appends
    <3>4. ASSUME Precedes(r, q, F)
          PROVE  r \in Attributed /\ ~EventQueued(r, "def_repo") /\ startedAt[r] <= e.at
      <4>1. r \in attributedBefore[q]
        BY <3>4 DEF Precedes
      <4>2. ~EventQueued(r, "def_repo")
        BY <3>2, <4>1 DEF FramesWait, EventQueued
      <4> QED BY <3>3, <4>1, <4>2 DEF Earlier
    <3> QED BY <2>3, <3>3, <3>4, FrontInsert
  <2> QED BY <1>2, <2>1, <2>2, <2>3
<1> QED BY <1>1, <1>2, <1>3, FrontDrain

\* Every step keeps the roots in front.
LEMMA FrontNext ==
  ASSUME OnceInv, ConnInv, FirstInv, [Next]_vars
  PROVE  InFront'
<1> USE ConstantsAssumption
<1>1. OrderInv /\ ReceiptInv /\ RootInv
  BY DEF OnceInv
<1>2. CASE Calm /\ UNCHANGED <<entries, ready, log>>
  BY <1>2 DEF Calm, FirstInv, InFront, Precedes, Plain, Ran, RanBefore, RunAt, Before
<1>3. ASSUME NEW q \in Roots, GitStart(q) PROVE InFront'
  <2>1. /\ UNCHANGED <<kind, home, entries, ready, log>>
        /\ \A y \in (Roots \cup Checkpoints) \ {q} : attributedBefore'[y] = attributedBefore[y]
    BY <1>1, <1>3, Recorded DEF GitStart, envVars, seqVars, execVars
  <2>2. ~Started(q) /\ q \notin Checkpoints
    BY <1>1, <1>3, StartsAlone
  <2>3. \A F \in Families : NoneIn(entries[F], q) /\ NoneIn(ready[F], q)
    BY <1>1, <2>2 DEF OrderInv, Placed, EntryTimes, TimedIn, NoneIn
  <2>4. \A F \in Families : ~Ran(F, q)
    BY <1>1, <2>2 DEF OrderInv, Tracked, LogStarted, Ran, RunAt
  <2> QED BY <1>1, <2>1, <2>3, <2>4, FrontRecord DEF Nowhere, FirstInv
<1>4. ASSUME NEW c \in Checkpoints, AcceptCheckpoint(c) PROVE InFront'
  <2>1. /\ UNCHANGED <<kind, home, entries, ready, log>>
        /\ \A y \in (Roots \cup Checkpoints) \ {c} : attributedBefore'[y] = attributedBefore[y]
    BY <1>1, <1>4, Recorded DEF AcceptCheckpoint, envVars, seqVars, execVars
  <2>2. ckpt[c] = "unsent"
    BY <1>4 DEF AcceptCheckpoint
  <2>3. \A F \in Families : NoneIn(entries[F], c) /\ NoneIn(ready[F], c)
    BY <1>1, <2>2 DEF OrderInv, Placed, EntryTimes, TimedIn, NoneIn
  <2>4. \A F \in Families : ~Ran(F, c)
    BY <1>1, <2>2 DEF ReceiptInv, RanFirst
  <2> QED BY <1>1, <2>1, <2>3, <2>4, FrontRecord DEF Nowhere, FirstInv
<1>5. CASE IngestStep
  BY <1>1, <1>5, FrontIngest DEF FirstInv
<1>6. CASE AdmitCheckpoint
  BY <1>1, <1>6, FrontAdmit DEF FirstInv
<1>7. CASE WorkerReplace \/ WorkerAppend \/ \E F \in Families : WorkerDrain(F) \/ TaskDrain(F)
  BY <1>1, <1>7, FrontDrains DEF FirstInv
<1>8. ASSUME NEW F \in Families, Execute(F) PROVE InFront'
  BY <1>1, <1>8, FrontExecute DEF FirstInv
<1> QED BY <1>1, <1>2, <1>3, <1>4, <1>5, <1>6, <1>7, <1>8, CalmSteps, EntrySteps

\* The inductive step of the whole invariant.
LEMMA FirstNext == OnceInv /\ ConnInv /\ FirstInv /\ [Next]_vars => FirstInv'
<1> SUFFICES ASSUME OnceInv, ConnInv, FirstInv, [Next]_vars PROVE FirstInv'
  OBVIOUS
<1>1. OrderInv /\ RootInv
  BY DEF OnceInv
<1>2. Counted' /\ Earlier'
  BY <1>1, CountedNext, EarlierNext DEF FirstInv
<1>3. AdmissionWaits' /\ FramesWait' /\ AttributedPresent'
  BY <1>1, WaitsNext, PresentNext DEF FirstInv
<1> QED BY <1>2, <1>3, FrontNext DEF FirstInv

\* No checkpoint and no later command of the family runs before an ordered command whose
\* def_repo frame was queued when the checkpoint was accepted or the later command started,
\* in every behaviour in which no ordered command has a mutating child.
THEOREM AttributedRootsFirst == Spec /\ AllPlain => []AttributedRootFirst
<1> DEFINE I == OnceInv /\ ConnInv /\ FirstInv /\ AllPlain
<1>1. Init /\ AllPlain => I
  BY OrderInvInit, ReceiptsInit, RootsInit, ConnInit, FirstInit DEF OnceInv
<1>2. I /\ [Next]_vars => I'
  BY OrderInvNext, ReceiptsNext, RootsNext, ConnNext, FirstNext, PlainStays DEF OnceInv
<1>3. I => AttributedRootFirst
  <2> SUFFICES ASSUME OnceInv, FirstInv, AllPlain,
                      NEW F \in Families, NEW i \in DOMAIN log[F],
                      NEW r \in attributedBefore[log[F][i].id],
                      ParticipatesByArgv(kind[r]), home[r] = F
               PROVE  RanBefore(F, r, i)
    BY DEF AttributedRootFirst
  <2>1. log[F][i] \in LogType /\ HistoryOK
    BY DEF OnceInv, OrderInv, TypeInv, TypeOK, SequencerOK
  <2>2. r \in Roots
    BY <2>1 DEF HistoryOK, LogType
  <2>3. Precedes(r, log[F][i].id, F)
    BY <2>2 DEF Precedes, AllPlain
  <2> QED BY <2>2, <2>3 DEF FirstInv, InFront
<1> QED BY <1>1, <1>2, <1>3, PTL DEF Spec
=============================================================================
