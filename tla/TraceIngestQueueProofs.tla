----------------------- MODULE TraceIngestQueueProofs ------------------------
(***************************************************************************)
(* For any number of readers and fences, any capacity and any number of    *)
(* frames: numbers are neither lost nor doubled while the worker runs, the *)
(* worker never stops for a duplicate number, and the queue with its       *)
(* fences implements IngestOrder.                                          *)
(***************************************************************************)
EXTENDS TraceIngestQueue, TLAPS

-----------------------------------------------------------------------------
(* The inductive invariant.                                                 *)

\* The counters of the readers and of the worker agree with the histories.
Counters ==
  /\ nextSeq = Len(accepted)
  /\ Len(applied) = IF worker = "publish" THEN workerSeq ELSE workerSeq - 1
  /\ processed = workerSeq - 1
  /\ Len(applied) <= nextSeq

\* A reader inside enqueue_trace_payload has a frame in hand.
FrameInHand == \A s \in Readers : reader[s] # "idle" => left[s] > 0

\* Whatever carries a number is not applied yet and carries the frame accepted
\* under that number.
Carries(n, f) == n \in Len(applied) + 1 .. nextSeq /\ accepted[n] = f

Carried ==
  /\ \A i \in DOMAIN channel : Carries(channel[i].seq, channel[i].frame)
  /\ \A m \in pending : Carries(m.seq, m.frame)
  /\ \A s \in Unsent : Carries(number[s], FrameOf(s))

Inv == TypeOK /\ Counters /\ FrameInHand /\ Carried /\ NoGap /\ NoDuplicate

-----------------------------------------------------------------------------
(* Sequences.                                                               *)

\* The elements of a sequence after appending one.
LEMMA AppendElements ==
  ASSUME NEW S, NEW q \in Seq(S), NEW x \in S
  PROVE  /\ Append(q, x) \in Seq(S)
         /\ Len(Append(q, x)) = Len(q) + 1
         /\ DOMAIN Append(q, x) = 1 .. Len(q) + 1
         /\ \A i \in 1 .. Len(q) : Append(q, x)[i] = q[i]
         /\ Append(q, x)[Len(q) + 1] = x
OBVIOUS

\* The elements of a sequence after removing its head.
LEMMA TailElements ==
  ASSUME NEW S, NEW q \in Seq(S), q # <<>>
  PROVE  /\ Head(q) \in S /\ Head(q) = q[1] /\ 1 \in DOMAIN q
         /\ Tail(q) \in Seq(S)
         /\ DOMAIN q = 1 .. Len(q) /\ Len(q) \in Nat \ {0}
         /\ DOMAIN Tail(q) = 1 .. Len(q) - 1
         /\ \A i \in 1 .. Len(q) - 1 : Tail(q)[i] = q[i + 1]
OBVIOUS

-----------------------------------------------------------------------------
\* The invariant holds initially.
LEMMA InvInit == Init => Inv
<1> SUFFICES ASSUME Init PROVE Inv
  OBVIOUS
<1> USE QueueAssumption DEF Init, FirstSeq
<1>1. TypeOK
  <2>1. shutdown \in BOOLEAN /\ woken \in [Fences -> BOOLEAN]
    BY Zenon
  <2>2. left \in [Readers -> 0 .. MaxFrames]
    OBVIOUS
  <2> QED BY <2>1, <2>2 DEF TypeOK
<1>2. Counters /\ FrameInHand
  BY DEF Counters, FrameInHand
<1>3. Carried /\ NoGap /\ NoDuplicate
  BY DEF Carried, NoGap, NoDuplicate, Unsent
<1> QED BY <1>1, <1>2, <1>3 DEF Inv

\* A reader reserving a slot or being refused carries no number.
LEMMA InvReserve == ASSUME Inv, NEW s \in Readers, Reserve(s) \/ Refuse(s) PROVE Inv'
<1> USE QueueAssumption DEF Inv
<1> USE DEF workerVars, fenceVars
<1>1. /\ UNCHANGED <<number, nextSeq, accepted, channel, pending, worker, workerSeq,
                     processed, applied, fence, target, woken>>
  BY DEF Reserve, Refuse
<1>2. TypeOK'
  <2>1. left' \in [Readers -> 0 .. MaxFrames]
    BY DEF Reserve, Refuse, TypeOK
  <2>2. reader' \in [Readers -> {"idle", "reserved", "numbered"}]
    BY DEF Reserve, Refuse, TypeOK
  <2>3. shutdown' \in BOOLEAN
    BY Zenon DEF Reserve, Refuse, TypeOK
  <2> QED BY <1>1, <2>1, <2>2, <2>3 DEF TypeOK
<1>3. Counters' /\ FrameInHand'
  BY <1>1 DEF Reserve, Refuse, TypeOK, Counters, FrameInHand
<1>4. Unsent' = Unsent
  BY DEF Reserve, Refuse, TypeOK, Unsent
<1>5. \A t \in Unsent : left'[t] = left[t]
  BY DEF Reserve, Refuse, TypeOK, Unsent
<1>6. Carried'
  BY <1>1, <1>4, <1>5 DEF Carried, Carries, FrameOf
<1>7. NoGap' /\ NoDuplicate'
  BY <1>1, <1>4 DEF NoGap, InFlight, NoDuplicate
<1> QED BY <1>2, <1>3, <1>6, <1>7

\* A number taken is fresh.
LEMMA InvTakeNumber == ASSUME Inv, NEW s \in Readers, TakeNumber(s) PROVE Inv'
<1> USE QueueAssumption DEF Inv
<1> USE DEF workerVars, fenceVars
<1>1. UNCHANGED <<left, channel, pending, worker, workerSeq, processed, applied>>
  BY DEF TakeNumber
<1>2. FrameOf(s) \in Frames /\ accepted \in Seq(Frames) /\ nextSeq = Len(accepted)
  BY DEF TypeOK, FrameOf, Frames, Counters
<1>3. /\ accepted' \in Seq(Frames) /\ Len(accepted') = nextSeq + 1
      /\ nextSeq' = nextSeq + 1
      /\ \A n \in 1 .. nextSeq : accepted'[n] = accepted[n]
      /\ accepted'[nextSeq + 1] = FrameOf(s)
  BY <1>2, AppendElements DEF TakeNumber
<1>4. TypeOK'
  BY <1>1, <1>3 DEF TakeNumber, TypeOK
<1>5. Counters' /\ FrameInHand'
  BY <1>1, <1>3 DEF TakeNumber, TypeOK, Counters, FrameInHand
<1>6. s \notin Unsent /\ Unsent' = Unsent \cup {s}
  BY DEF TakeNumber, TypeOK, Unsent
<1>7. number' = [number EXCEPT ![s] = nextSeq + 1] /\ number \in [Readers -> Nat]
  BY DEF TakeNumber, TypeOK
<1>8. Len(applied) \in Nat /\ nextSeq \in Nat /\ Len(applied) <= nextSeq
  BY DEF TypeOK, Counters
<1>9. \A n, f : Carries(n, f) => Carries(n, f)'
  BY <1>1, <1>3, <1>8 DEF Carries
<1>10. Carries(nextSeq, FrameOf(s))'
  BY <1>1, <1>3, <1>8 DEF Carries, FrameOf
<1>11. Carried'
  <2>1. \A i \in DOMAIN channel' : Carries(channel[i].seq, channel[i].frame)'
    BY <1>1, <1>9 DEF Carried
  <2>2. \A m \in pending' : Carries(m.seq, m.frame)'
    BY <1>1, <1>9 DEF Carried
  <2>3. \A t \in Unsent' : Carries(number[t], FrameOf(t))'
    <3> SUFFICES ASSUME NEW t \in Unsent' PROVE Carries(number[t], FrameOf(t))'
      OBVIOUS
    <3>1. CASE t = s
      <4>1. number'[s] = nextSeq'
        BY <1>3, <1>7
      <4> QED BY <1>10, <3>1, <4>1
    <3>2. CASE t # s
      <4>1. t \in Unsent /\ t \in Readers /\ number'[t] = number[t] /\ FrameOf(t)' = FrameOf(t)
        BY <1>1, <1>6, <1>7, <3>2 DEF Unsent, FrameOf
      <4> QED BY <1>9, <4>1 DEF Carried
    <3> QED BY <3>1, <3>2
  <2> QED BY <2>1, <2>2, <2>3 DEF Carried
<1>12. NoGap'
  <2> SUFFICES ASSUME worker # "stopped", NEW n \in Len(applied) + 1 .. nextSeq + 1
               PROVE  n \in InFlight'
    BY <1>1, <1>3 DEF NoGap
  <2>1. CASE n = nextSeq + 1
    BY <1>6, <1>7, <2>1 DEF InFlight
  <2>2. CASE n \in InFlight
    <3>1. \A t \in Unsent : t \in Unsent' /\ number'[t] = number[t]
      BY <1>6, <1>7 DEF Unsent
    <3> QED BY <1>1, <2>2, <3>1 DEF InFlight
  <2> QED BY <1>8, <2>1, <2>2 DEF NoGap
<1>13. NoDuplicate'
  <2>1. /\ \A i \in DOMAIN channel : channel[i].seq # nextSeq + 1
        /\ \A m \in pending : m.seq # nextSeq + 1
        /\ \A t \in Unsent : number[t] # nextSeq + 1
    BY <1>8 DEF Carried, Carries
  <2>2. \A t \in Unsent : t \in Readers /\ t # s /\ number'[t] = number[t]
    BY <1>6, <1>7 DEF Unsent
  <2>3. number'[s] = nextSeq + 1
    BY <1>7
  <2> QED BY <1>1, <1>6, <2>1, <2>2, <2>3 DEF NoDuplicate
<1> QED BY <1>4, <1>5, <1>11, <1>12, <1>13

\* Sending moves a number from its reader to the channel, or drops it when the
\* worker is gone.
LEMMA InvSend == ASSUME Inv, NEW s \in Readers, Send(s) PROVE Inv'
<1> USE QueueAssumption DEF Inv
<1> USE DEF workerVars, fenceVars
<1> DEFINE msg == Message(number[s], FrameOf(s))
<1>1. /\ UNCHANGED <<number, nextSeq, accepted, pending, worker, workerSeq, processed, applied>>
      /\ left' = [left EXCEPT ![s] = left[s] - 1]
      /\ reader' = [reader EXCEPT ![s] = "idle"]
  BY DEF Send
<1>2. msg \in Messages /\ msg.seq = number[s] /\ msg.frame = FrameOf(s)
  BY DEF TypeOK, FrameOf, Frames, Message, Messages
<1>3. s \in Unsent /\ Unsent' = Unsent \ {s}
  BY <1>1 DEF Send, TypeOK, Unsent
<1>4. \A t \in Unsent' : t \in Readers /\ t \in Unsent /\ t # s /\ FrameOf(t)' = FrameOf(t)
  BY <1>1, <1>3 DEF TypeOK, Unsent, FrameOf
<1>5. left[s] > 0
  BY DEF Send, TypeOK, FrameInHand
<1>6. channel \in Seq(Messages)
  BY DEF TypeOK
<1>7. CASE worker = "stopped"
  <2>1. channel' = channel
    BY <1>7 DEF Send
  <2>2. TypeOK'
    BY <1>1, <1>5, <2>1 DEF Send, TypeOK
  <2>3. Counters' /\ FrameInHand'
    BY <1>1 DEF TypeOK, Counters, FrameInHand
  <2>4. Carried'
    BY <1>1, <1>4, <2>1 DEF Carried, Carries
  <2>5. NoGap'
    BY <1>1, <1>7 DEF NoGap
  <2>6. NoDuplicate'
    BY <1>1, <1>3, <2>1 DEF NoDuplicate
  <2> QED BY <2>2, <2>3, <2>4, <2>5, <2>6
<1>8. CASE worker # "stopped"
  <2>1. /\ channel' \in Seq(Messages)
        /\ DOMAIN channel = 1 .. Len(channel) /\ Len(channel) \in Nat
        /\ DOMAIN channel' = 1 .. Len(channel) + 1
        /\ \A i \in 1 .. Len(channel) : channel'[i] = channel[i]
        /\ channel'[Len(channel) + 1] = msg
    <3>1. channel' = Append(channel, msg)
      BY <1>8 DEF Send
    <3> HIDE DEF msg
    <3> QED BY <1>2, <1>6, <3>1, AppendElements
  <2> HIDE DEF msg
  <2>2. TypeOK'
    BY <1>1, <1>5, <2>1 DEF Send, TypeOK
  <2>3. Counters' /\ FrameInHand'
    BY <1>1 DEF TypeOK, Counters, FrameInHand
  <2>4. Carried'
    <3>1. Carries(msg.seq, msg.frame)
      BY <1>2, <1>3 DEF Carried
    <3>2. \A n, f : Carries(n, f)' <=> Carries(n, f)
      BY <1>1 DEF Carries
    <3>3. \A i \in DOMAIN channel' : Carries(channel'[i].seq, channel'[i].frame)
      BY <2>1, <3>1 DEF Carried
    <3> QED BY <1>1, <1>4, <3>2, <3>3 DEF Carried
  <2>5. NoGap'
    <3>1. \A n \in InFlight : n \in InFlight'
      <4> SUFFICES ASSUME NEW n \in InFlight PROVE n \in InFlight'
        OBVIOUS
      <4>1. CASE \E i \in DOMAIN channel : n = channel[i].seq
        BY <2>1, <4>1 DEF InFlight
      <4>2. CASE \E m \in pending : n = m.seq
        BY <1>1, <4>2 DEF InFlight
      <4>3. CASE n = number[s]
        BY <1>2, <2>1, <4>3 DEF InFlight
      <4>4. CASE \E t \in Unsent \ {s} : n = number[t]
        BY <1>1, <1>3, <4>4 DEF InFlight
      <4> QED BY <4>1, <4>2, <4>3, <4>4 DEF InFlight
    <3> QED BY <1>1, <3>1 DEF NoGap
  <2>6. NoDuplicate'
    <3>1. \A i, j \in DOMAIN channel' : channel'[i].seq = channel'[j].seq => i = j
      BY <1>2, <1>3, <2>1 DEF NoDuplicate
    <3>2. \A i \in DOMAIN channel' : \A m \in pending : channel'[i].seq # m.seq
      BY <1>2, <1>3, <2>1 DEF NoDuplicate
    <3>3. \A i \in DOMAIN channel' : \A t \in Unsent' : channel'[i].seq # number[t]
      BY <1>2, <1>3, <2>1 DEF NoDuplicate
    <3> QED BY <1>1, <1>3, <3>1, <3>2, <3>3 DEF NoDuplicate
  <2> QED BY <2>2, <2>3, <2>4, <2>5, <2>6
<1> QED BY <1>7, <1>8

\* The worker never stops for a duplicate number.
LEMMA NeverDuplicate == ASSUME Inv, channel # <<>> PROVE ~DuplicateNumber
<1>1. Head(channel) = channel[1] /\ 1 \in DOMAIN channel
  BY TailElements DEF Inv, TypeOK
<1> QED BY <1>1 DEF Inv, NoDuplicate, DuplicateNumber

\* Receiving moves a number from the channel to the reorder buffer; on overflow
\* the worker is gone.
LEMMA InvReceive == ASSUME Inv, Receive PROVE Inv'
<1> USE QueueAssumption DEF Inv
<1> USE DEF readerVars, fenceVars
<1> DEFINE msg == Head(channel)
<1>1. /\ UNCHANGED <<left, reader, number, nextSeq, accepted, workerSeq, processed, applied>>
      /\ channel # <<>> /\ channel' = Tail(channel) /\ worker = "receive"
  BY DEF Receive
<1>2. channel \in Seq(Messages)
  BY DEF TypeOK
<1>3. /\ msg \in Messages /\ msg = channel[1] /\ 1 \in DOMAIN channel
      /\ channel' \in Seq(Messages)
      /\ DOMAIN channel = 1 .. Len(channel) /\ Len(channel) \in Nat \ {0}
      /\ DOMAIN channel' = 1 .. Len(channel) - 1
      /\ \A i \in 1 .. Len(channel) - 1 : channel'[i] = channel[i + 1]
  BY <1>1, <1>2, TailElements
<1> HIDE DEF msg
<1>3a. \A i \in DOMAIN channel' : /\ i \in Nat /\ i # 0 /\ i + 1 \in DOMAIN channel
                                 /\ channel'[i] = channel[i + 1]
  BY <1>3
<1>4. Unsent' = Unsent
  BY <1>1 DEF Unsent
<1>5. \/ worker' = "stopped" /\ pending' = pending /\ shutdown' = TRUE
      \/ worker' = "drain" /\ pending' = pending \cup {msg} /\ shutdown' = shutdown
  BY DEF Receive, msg
<1>6. TypeOK'
  <2>1. pending' \in SUBSET Messages
    BY <1>3, <1>5 DEF TypeOK
  <2>2. worker' \in {"receive", "drain", "publish", "notify", "stopped"}
    BY <1>5
  <2>3. shutdown' \in BOOLEAN
    BY <1>5, Zenon DEF TypeOK
  <2>4. UNCHANGED <<fence, target, woken>>
    BY DEF Receive
  <2> QED BY <1>1, <1>3, <2>1, <2>2, <2>3, <2>4 DEF TypeOK
<1>7. Counters' /\ FrameInHand'
  BY <1>1, <1>5 DEF Counters, FrameInHand
<1>8. Carried'
  <2>1. \A n, f : Carries(n, f)' <=> Carries(n, f)
    BY <1>1 DEF Carries
  <2>2. \A i \in DOMAIN channel' : Carries(channel'[i].seq, channel'[i].frame)
    <3> SUFFICES ASSUME NEW i \in DOMAIN channel'
                 PROVE  Carries(channel'[i].seq, channel'[i].frame)
      OBVIOUS
    <3>1. i + 1 \in DOMAIN channel /\ channel'[i] = channel[i + 1]
      BY <1>3a
    <3> QED BY <3>1 DEF Carried
  <2>3. \A m \in pending' : Carries(m.seq, m.frame)
    BY <1>3, <1>5 DEF Carried
  <2>4. \A t \in Unsent' : Carries(number'[t], FrameOf(t)')
    BY <1>1, <1>4 DEF Carried, FrameOf
  <2> QED BY <2>1, <2>2, <2>3, <2>4 DEF Carried
<1>9. NoGap'
  <2>1. CASE worker' = "stopped"
    BY <2>1 DEF NoGap
  <2>2. CASE worker' = "drain" /\ pending' = pending \cup {msg}
    <3>1. \A n \in InFlight : n \in InFlight'
      <4> SUFFICES ASSUME NEW n \in InFlight PROVE n \in InFlight'
        OBVIOUS
      <4>1. CASE \E i \in DOMAIN channel : n = channel[i].seq
        <5>1. PICK i \in DOMAIN channel : n = channel[i].seq
          BY <4>1
        <5>2. CASE i = 1
          BY <1>3, <2>2, <5>1, <5>2 DEF InFlight
        <5>3. CASE i # 1
          <6>1. i - 1 \in DOMAIN channel' /\ channel'[i - 1] = channel[i]
            BY <1>3, <5>3
          <6> QED BY <5>1, <6>1 DEF InFlight
        <5> QED BY <5>2, <5>3
      <4>2. CASE \E m \in pending : n = m.seq
        BY <2>2, <4>2 DEF InFlight
      <4>3. CASE \E t \in Unsent : n = number[t]
        BY <1>1, <1>4, <4>3 DEF InFlight
      <4> QED BY <4>1, <4>2, <4>3 DEF InFlight
    <3> QED BY <1>1, <3>1 DEF NoGap
  <2> QED BY <1>5, <2>1, <2>2
<1>10. NoDuplicate'
  <2>1. \A i, j \in DOMAIN channel' : channel'[i].seq = channel'[j].seq => i = j
    <3> SUFFICES ASSUME NEW i \in DOMAIN channel', NEW j \in DOMAIN channel',
                        channel'[i].seq = channel'[j].seq
                 PROVE  i = j
      OBVIOUS
    <3>1. /\ i + 1 \in DOMAIN channel /\ channel'[i] = channel[i + 1] /\ i \in Nat
          /\ j + 1 \in DOMAIN channel /\ channel'[j] = channel[j + 1] /\ j \in Nat
      BY <1>3a
    <3>2. i + 1 = j + 1
      BY <3>1 DEF NoDuplicate
    <3> QED BY <3>1, <3>2
  <2>2. \A i \in DOMAIN channel' : channel'[i].seq # msg.seq
    BY <1>3, <1>3a DEF NoDuplicate
  <2>3. \A i \in DOMAIN channel' : \A m \in pending' : channel'[i].seq # m.seq
    BY <1>3, <1>5, <1>3a, <2>2 DEF NoDuplicate
  <2>4. \A m, n \in pending' : m.seq = n.seq => m = n
    BY <1>3, <1>5 DEF NoDuplicate
  <2>5. \A i \in DOMAIN channel' : \A t \in Unsent : channel'[i].seq # number[t]
    BY <1>3, <1>3a DEF NoDuplicate
  <2>6. \A m \in pending' : \A t \in Unsent : m.seq # number[t]
    BY <1>3, <1>5 DEF NoDuplicate
  <2> QED BY <1>1, <1>4, <2>1, <2>3, <2>4, <2>5, <2>6 DEF NoDuplicate
<1> QED BY <1>6, <1>7, <1>8, <1>9, <1>10

\* What the worker applies is the next accepted frame.
LEMMA IngestsNext ==
  ASSUME Inv, Ingest
  PROVE  /\ Len(applied) < Len(accepted)
         /\ applied' = Append(applied, accepted[Len(applied) + 1])
         /\ \E m \in pending : m.seq = Len(applied) + 1 /\ pending' = pending \ {m}
<1>1. PICK m \in pending : /\ Applicable(m) /\ pending' = pending \ {m}
                           /\ applied' = Append(applied, m.frame)
  BY DEF Ingest
<1>2. worker = "drain" /\ m.seq = workerSeq
  BY <1>1 DEF Ingest, Applicable
<1>3. Len(applied) = workerSeq - 1 /\ nextSeq = Len(accepted) /\ workerSeq \in Nat \ {0}
  BY <1>2 DEF Inv, Counters, TypeOK
<1>4. Carries(m.seq, m.frame)
  BY DEF Inv, Carried
<1>5. m.seq = Len(applied) + 1
  BY <1>2, <1>3
<1>6. Len(applied) \in Nat /\ Len(accepted) \in Nat
  BY DEF Inv, TypeOK
<1>7. Len(applied) < Len(accepted) /\ m.frame = accepted[Len(applied) + 1]
  BY <1>3, <1>4, <1>5, <1>6 DEF Carries
<1> QED BY <1>1, <1>5, <1>7

\* Applying a frame removes its number from those on their way.
LEMMA InvIngest == ASSUME Inv, Ingest PROVE Inv'
<1> USE QueueAssumption DEF Inv
<1> USE DEF readerVars, fenceVars
<1>1. PICK m \in pending : m.seq = Len(applied) + 1 /\ pending' = pending \ {m}
  BY IngestsNext
<1>2. /\ UNCHANGED <<left, reader, number, nextSeq, accepted, channel, workerSeq, processed,
                     shutdown, fence, target, woken>>
      /\ worker = "drain" /\ worker' = "publish"
  BY DEF Ingest
<1>3. /\ applied \in Seq(Frames) /\ accepted \in Seq(Frames)
      /\ Len(applied) < Len(accepted) /\ nextSeq = Len(accepted)
  BY IngestsNext DEF TypeOK, Counters
<1>4. accepted[Len(applied) + 1] \in Frames
  BY <1>3
<1>5. applied' \in Seq(Frames) /\ Len(applied') = Len(applied) + 1 /\ Len(applied) \in Nat
  BY <1>3, <1>4, IngestsNext, AppendElements
<1>6. TypeOK'
  BY <1>1, <1>2, <1>5 DEF TypeOK
<1>7. Counters' /\ FrameInHand'
  BY <1>2, <1>3, <1>5 DEF TypeOK, Counters, FrameInHand
<1>8. Unsent' = Unsent /\ \A t \in Unsent : FrameOf(t)' = FrameOf(t)
  BY <1>2 DEF Unsent, FrameOf
<1>9. \A n, f : Carries(n, f) /\ n # m.seq => Carries(n, f)'
  BY <1>1, <1>2, <1>5 DEF TypeOK, Carries
<1>10. /\ \A i \in DOMAIN channel : channel[i].seq # m.seq
       /\ \A x \in pending' : x.seq # m.seq
       /\ \A t \in Unsent : number[t] # m.seq
  BY <1>1 DEF NoDuplicate
<1>11. Carried'
  <2>1. \A i \in DOMAIN channel' : Carries(channel[i].seq, channel[i].frame)'
    BY <1>2, <1>9, <1>10 DEF Carried
  <2>2. \A x \in pending' : Carries(x.seq, x.frame)'
    BY <1>1, <1>9, <1>10 DEF Carried
  <2>3. \A t \in Unsent' : Carries(number[t], FrameOf(t))'
    BY <1>2, <1>8, <1>9, <1>10 DEF Carried
  <2> QED BY <2>1, <2>2, <2>3 DEF Carried
<1>12. NoGap'
  <2>1. \A n \in InFlight : n # m.seq => n \in InFlight'
    BY <1>1, <1>2, <1>8 DEF InFlight
  <2>2. nextSeq \in Nat
    BY DEF TypeOK
  <2> QED BY <1>1, <1>2, <1>5, <2>1, <2>2 DEF NoGap
<1>13. NoDuplicate'
  BY <1>1, <1>2, <1>8 DEF NoDuplicate
<1> QED BY <1>6, <1>7, <1>11, <1>12, <1>13

\* The remaining steps of the worker and those of the fences touch nothing that
\* carries a number.
LEMMA InvOther ==
  ASSUME Inv,
         \/ Publish \/ Notify \/ ReceiveNext \/ Stop \/ RequestShutdown
         \/ \E w \in Fences : SetFence(w) \/ FenceStep(w)
         \/ UNCHANGED vars
  PROVE  Inv'
<1> USE QueueAssumption DEF Inv
<1> USE DEF readerVars, workerVars, fenceVars, vars, FenceStep
<1>1. UNCHANGED <<left, reader, number, nextSeq, accepted, channel, pending, applied>>
  BY DEF Publish, Notify, ReceiveNext, Stop, RequestShutdown, SetFence, Enroll, Check,
         Sleep, Wake
<1>2. \/ UNCHANGED <<worker, workerSeq, processed>>
      \/ /\ worker = "publish" /\ worker' = "notify"
         /\ processed' = workerSeq /\ workerSeq' = workerSeq + 1
      \/ /\ worker \in {"notify", "drain", "receive"}
         /\ worker' \in {"drain", "receive", "stopped"}
         /\ UNCHANGED <<workerSeq, processed>>
  BY DEF Publish, Notify, ReceiveNext, Stop, RequestShutdown, SetFence, Enroll, Check,
         Sleep, Wake
<1>3. fence' \in [Fences -> {"unset", "set", "enrolled", "checked", "asleep",
                             "released", "abandoned"}]
  BY DEF TypeOK, Publish, Notify, ReceiveNext, Stop, RequestShutdown, SetFence, Enroll, Check,
         Sleep, Wake
<1>4. target' \in [Fences -> Nat]
  BY DEF TypeOK, Publish, Notify, ReceiveNext, Stop, RequestShutdown, SetFence, Enroll, Check,
         Sleep, Wake
<1>5. shutdown' \in BOOLEAN
  BY Zenon DEF TypeOK, Publish, Notify, ReceiveNext, Stop, RequestShutdown, SetFence, Enroll,
         Check, Sleep, Wake
<1>6. woken' \in [Fences -> BOOLEAN]
  <2>1. CASE woken' = woken
    BY <2>1 DEF TypeOK
  <2>2. CASE woken' = [w \in Fences |-> woken[w] \/ Enrolled(w)]
    <3>1. \A w \in Fences : (woken[w] \/ Enrolled(w)) \in BOOLEAN
      OBVIOUS
    <3> QED BY <2>2, <3>1, Zenon
  <2>3. CASE \E w \in Fences : woken' = [woken EXCEPT ![w] = FALSE]
    BY <2>3 DEF TypeOK
  <2> QED BY <2>1, <2>2, <2>3 DEF Publish, Notify, ReceiveNext, Stop, RequestShutdown,
         SetFence, Enroll, Check, Sleep, Wake
<1>7. TypeOK'
  BY <1>1, <1>2, <1>3, <1>4, <1>5, <1>6 DEF TypeOK
<1>8. Counters' /\ FrameInHand'
  BY <1>1, <1>2 DEF TypeOK, Counters, FrameInHand
<1>9. Carried' /\ NoDuplicate'
  <2>1. Unsent' = Unsent /\ \A s \in Unsent : FrameOf(s)' = FrameOf(s)
    BY <1>1 DEF Unsent, FrameOf
  <2>2. \A n, f : Carries(n, f)' <=> Carries(n, f)
    BY <1>1 DEF Carries
  <2>3. Carried'
    BY <1>1, <2>1, <2>2 DEF Carried
  <2>4. NoDuplicate'
    BY <1>1, <2>1 DEF NoDuplicate
  <2> QED BY <2>3, <2>4
<1>10. NoGap'
  <2>1. Unsent' = Unsent
    BY <1>1 DEF Unsent
  <2>2. InFlight' = InFlight
    BY <1>1, <2>1 DEF InFlight
  <2>3. worker' # "stopped" => worker # "stopped"
    BY <1>2
  <2> QED BY <1>1, <2>2, <2>3 DEF NoGap
<1> QED BY <1>7, <1>8, <1>9, <1>10

\* The invariant is inductive.
LEMMA Invariance == Spec => []Inv
<1>1. Inv /\ [Next]_vars => Inv'
  BY InvReserve, InvTakeNumber, InvSend, InvReceive, InvIngest, InvOther
     DEF Next, ReaderStep, WorkerStep
<1> QED BY InvInit, <1>1, PTL DEF Spec

-----------------------------------------------------------------------------
\* The readers, the channel, the worker and the fences keep their types.
THEOREM TypeCorrect == Spec => []TypeOK
<1>1. Inv => TypeOK
  BY DEF Inv
<1> QED BY <1>1, Invariance, PTL

\* Reserving before numbering leaves no gaps: while the worker runs, every number
\* taken is applied or on its way, and never twice.
THEOREM NumbersAreSafe == Spec => []NoGapNoDuplicate
<1>1. Inv => NoGapNoDuplicate
  BY DEF Inv, NoGapNoDuplicate
<1> QED BY <1>1, Invariance, PTL

-----------------------------------------------------------------------------
(* Refinement of IngestOrder.                                               *)

\* The fence as IngestOrder sees it.
Seen == [w \in Fences |-> IF Enrolled(w) THEN "set" ELSE fence[w]]

\* A step that leaves the two histories and the fences' targets alone, and
\* changes no fence's visible state, is a stuttering step.
LEMMA Stutters ==
  ASSUME UNCHANGED <<accepted, applied, target>>, Seen' = Seen
  PROVE  UNCHANGED Order!vars
BY DEF Seen, Order!vars

\* A fence step on w changes no other fence.
LEMMA SeenExcept ==
  ASSUME TypeOK, NEW w \in Fences, NEW x, fence' = [fence EXCEPT ![w] = x]
  PROVE  Seen' = [Seen EXCEPT ![w] = IF x \in {"enrolled", "checked", "asleep"} THEN "set" ELSE x]
BY DEF TypeOK, Seen, Enrolled

\* Every step of the queue is a step of IngestOrder or stutters: taking a number
\* accepts a frame, ingesting applies it, and the wait loop's look at the
\* processed number releases the fence.
LEMMA StepSimulation == Inv /\ [Next]_vars => [Order!Next]_(Order!vars)
<1> SUFFICES ASSUME Inv, [Next]_vars PROVE [Order!Next]_(Order!vars)
  OBVIOUS
<1> USE DEF readerVars, workerVars, fenceVars
<1>1. ASSUME NEW s \in Readers, TakeNumber(s) PROVE Order!Next
  <2>1. FrameOf(s) \in Frames
    BY DEF Inv, TypeOK, FrameOf, Frames
  <2>2. Seen' = Seen
    BY <1>1 DEF TakeNumber, Seen, Enrolled
  <2>3. Order!Accept
    BY <1>1, <2>1, <2>2 DEF TakeNumber, Seen, Order!Accept
  <2> QED BY <2>3 DEF Order!Next
<1>2. ASSUME Ingest PROVE Order!Next
  <2>1. Seen' = Seen
    BY <1>2 DEF Ingest, Seen, Enrolled
  <2>2. Order!Apply
    BY <1>2, <2>1, IngestsNext DEF Ingest, Seen, Order!Apply
  <2> QED BY <2>2 DEF Order!Next
<1>3. ASSUME NEW w \in Fences, SetFence(w) PROVE Order!Next
  <2>1. Seen' = [Seen EXCEPT ![w] = "set"] /\ Seen[w] = "unset"
    BY <1>3, SeenExcept DEF SetFence, Inv, Seen, Enrolled
  <2>2. target' = [target EXCEPT ![w] = Len(accepted)] /\ UNCHANGED <<accepted, applied>>
    BY <1>3 DEF SetFence, Inv, Counters
  <2>3. Order!Set(w)
    BY <2>1, <2>2 DEF Seen, Order!Set
  <2> QED BY <2>3 DEF Order!Next
<1>4. ASSUME NEW w \in Fences, Check(w) PROVE [Order!Next]_(Order!vars)
  <2>1. Seen[w] = "set" /\ UNCHANGED <<accepted, applied, target>>
    BY <1>4 DEF Check, Seen, Enrolled
  <2>2. CASE processed >= target[w]
    <3>1. Seen' = [Seen EXCEPT ![w] = "released"]
      BY <1>4, <2>2, SeenExcept DEF Check, Inv
    <3>2. target[w] <= Len(applied)
      BY <2>2 DEF Inv, Counters, TypeOK
    <3>3. Order!Release(w)
      BY <2>1, <3>1, <3>2 DEF Seen, Order!Release
    <3> QED BY <3>3 DEF Order!Next
  <2>3. CASE ~(processed >= target[w])
    <3>1. Seen' = [Seen EXCEPT ![w] = "set"]
      BY <1>4, <2>3, SeenExcept DEF Check, Inv
    <3>2. Seen' = Seen
      BY <2>1, <3>1 DEF Seen
    <3> QED BY <2>1, <3>2, Stutters
  <2> QED BY <2>2, <2>3
<1>5. ASSUME NEW w \in Fences, Wake(w) PROVE [Order!Next]_(Order!vars)
  <2>1. Seen[w] = "set" /\ UNCHANGED <<accepted, applied, target>>
    BY <1>5 DEF Wake, Seen, Enrolled
  <2>2. CASE fence' = [fence EXCEPT ![w] = "set"]
    <3>1. Seen' = [Seen EXCEPT ![w] = "set"]
      BY <2>2, SeenExcept DEF Inv
    <3>2. Seen' = Seen
      BY <2>1, <3>1 DEF Seen
    <3> QED BY <2>1, <3>2, Stutters
  <2>3. CASE fence' = [fence EXCEPT ![w] = "abandoned"]
    <3>1. Seen' = [Seen EXCEPT ![w] = "abandoned"]
      BY <2>3, SeenExcept DEF Inv
    <3>2. Order!Abandon(w)
      BY <2>1, <3>1 DEF Seen, Order!Abandon
    <3> QED BY <3>2 DEF Order!Next
  <2> QED BY <1>5, <2>2, <2>3 DEF Wake
<1>6. ASSUME NEW w \in Fences, Enroll(w) \/ Sleep(w) PROVE UNCHANGED Order!vars
  <2>1. Seen[w] = "set" /\ UNCHANGED <<accepted, applied, target>>
    BY <1>6 DEF Enroll, Sleep, Seen, Enrolled
  <2>2. Seen' = [Seen EXCEPT ![w] = "set"]
    BY <1>6, SeenExcept DEF Enroll, Sleep, Inv
  <2>3. Seen' = Seen
    BY <2>1, <2>2 DEF Seen
  <2> QED BY <2>1, <2>3, Stutters
<1>7. ASSUME \/ \E s \in Readers : Reserve(s) \/ Refuse(s) \/ Send(s)
             \/ Receive \/ Publish \/ Notify \/ ReceiveNext \/ Stop \/ RequestShutdown
             \/ UNCHANGED vars
      PROVE  UNCHANGED Order!vars
  <2>1. UNCHANGED <<accepted, applied, target, fence>>
    BY <1>7 DEF Reserve, Refuse, Send, Receive, Publish, Notify, ReceiveNext, Stop,
                RequestShutdown, vars
  <2>2. Seen' = Seen
    BY <2>1 DEF Seen, Enrolled
  <2> QED BY <2>1, <2>2, Stutters
<1> QED BY <1>1, <1>2, <1>3, <1>4, <1>5, <1>6, <1>7
        DEF Next, ReaderStep, WorkerStep, FenceStep

\* The reorder buffer, the published number and the wait loop together do what
\* IngestOrder says: frames are applied in the order their numbers were taken, and
\* no admission passes before every frame numbered at its acceptance is applied.
THEOREM QueueRefinesOrder == Spec => ImplementsIngestOrder
<1>1. Init => Order!Init
  BY DEF Init, Enrolled, Order!Init
<1> QED BY <1>1, StepSimulation, Invariance, PTL DEF Spec, ImplementsIngestOrder, Order!Spec
=============================================================================
