----------------------- MODULE CheckpointIntakeProofs -----------------------
(***************************************************************************)
(* For any number of clients, requests, body lengths and limits: the quota *)
(* is exact on every path that a checkpoint can take, receipts reach the   *)
(* worker in their order, sync.family returns when what was accepted       *)
(* before it is admitted, Shutdown when nothing is retained, and a process *)
(* that exits has counted what it still retained.                          *)
(***************************************************************************)
EXTENDS CheckpointIntake, FiniteSetTheorems, TLAPS

At(place) == {c \in Clients : status[c] = place}

(* The sequence s holds each member of S once, and nothing else.            *)
Lists(s, S) ==
  /\ s \in Seq(Clients)
  /\ \A i, j \in 1 .. Len(s) : s[i] = s[j] => i = j
  /\ S = {s[i] : i \in 1 .. Len(s)}

(* Along s, the numbers r grow.                                             *)
Grows(s, r) == \A i, j \in 1 .. Len(s) : i < j => r[s[i]] < r[s[j]]

(* The channel, the sequencer, the batch of the execution lock's holder and *)
(* the worker have the checkpoints whose status says so, once each.         *)
Placed ==
  /\ Lists(queue, At("queued"))
  /\ Lists(sequencer, At("sequenced"))
  /\ Lists(exec.batch, At("executing"))
  /\ exec.holder = Nobody => exec.batch = <<>>
  /\ worker.pc \in {"preparing", "record"} => worker.job \in Clients
  /\ \A c \in Clients : status[c] = "preparing" <=> worker.pc = "preparing" /\ worker.job = c

(* The gate counts at least what is in the channel and with the worker.  It *)
(* counts more once the worker has dropped its channel.                     *)
Preparing == IF worker.pc = "preparing" THEN 1 ELSE 0
GateCounts == unadmitted >= Len(queue) + Preparing

Awaited == {c \in Clients : status[c] \in {"accepting", "queued", "preparing"}}

(* Receipt numbers: who has one, that the connection in the acceptance      *)
(* block has the newest, and that the worker takes them in their order.     *)
Numbered ==
  /\ \A c \in Clients :
       /\ receipt[c] <= nextReceipt
       /\ Accepted(c) <=> status[c] \notin {"idle", "reserved", "refused"}
  /\ \A c \in At("accepting") : \A d \in Clients \ {c} : receipt[d] < receipt[c]
  /\ processed <= nextReceipt
  /\ \A c \in Awaited : processed < receipt[c]
  /\ worker.pc \in {"preparing", "record"} =>
       /\ processed < receipt[worker.job]
       /\ \A c \in Awaited \ {worker.job} : receipt[worker.job] < receipt[c]
  /\ worker.pc = "record" => worker.job \notin Awaited
  /\ Grows(queue, receipt)

(* Past its first wait, a request has what it waited for.                   *)
WaitedFor ==
  \A s \in Syncs :
    waiter[s].pc \in {"gate", "drain", "check", "done"} /\ ~shutting
      => waiter[s].target <= processed

QuotaKept ==
  /\ quota = [requests |-> Cardinality(Held), bytes |-> TotalBytes(Held)]
  /\ quota.requests <= RequestLimit /\ quota.bytes <= ByteLimit

(* A closed acceptance gate stays closed, so nothing is retained anew once  *)
(* Shutdown has found the quota empty or the losses are counted.            *)
Closing ==
  /\ shutting => ~accepting
  /\ waiter[Stop].pc # "idle" => ~accepting
  /\ waiter[Stop].pc = "done" => Held = {}
  /\ life # "up" => shutting
  /\ life # "up" => \A c \in Held : Accepted(c) => c \in counted

IntakeInv ==
  TypeOK /\ Placed /\ GateCounts /\ Numbered /\ WaitedFor /\ QuotaKept /\ Closing

-----------------------------------------------------------------------------
(* Lists and numbers.                                                       *)

(* The empty sequence lists nothing.                                        *)
LEMMA ListsEmpty == Lists(<<>>, {})
BY DEF Lists

(* A new element is listed at the end.                                      *)
LEMMA ListsAppend ==
  ASSUME NEW s, NEW S, Lists(s, S), NEW c \in Clients, c \notin S
  PROVE  Lists(Append(s, c), S \cup {c})
<1> DEFINE t == Append(s, c)
<1>1. s \in Seq(Clients) /\ Len(s) \in Nat
  BY DEF Lists
<1>2. t \in Seq(Clients) /\ Len(t) = Len(s) + 1
  BY <1>1
<1>3. /\ \A i \in 1 .. Len(s) : t[i] = s[i]
      /\ t[Len(s) + 1] = c
  BY <1>1
<1>4. \A i \in 1 .. Len(s) : s[i] \in S
  BY DEF Lists
<1>5. \A i, j \in 1 .. Len(t) : t[i] = t[j] => i = j
  BY <1>1, <1>2, <1>3, <1>4 DEF Lists
<1>6. S \cup {c} = {t[i] : i \in 1 .. Len(t)}
  BY <1>1, <1>2, <1>3 DEF Lists
<1> QED BY <1>2, <1>5, <1>6 DEF Lists

(* The tail lists the others, and the head was listed.                      *)
LEMMA ListsTail ==
  ASSUME NEW s, NEW S, Lists(s, S), s # <<>>
  PROVE  /\ Head(s) \in S /\ Head(s) \in Clients
         /\ Lists(Tail(s), S \ {Head(s)})
<1> DEFINE t == Tail(s)
<1>1. s \in Seq(Clients) /\ Len(s) \in Nat /\ Len(s) > 0
  BY DEF Lists
<1>2. t \in Seq(Clients) /\ Len(t) = Len(s) - 1 /\ Head(s) = s[1]
  BY <1>1
<1>3. \A i \in 1 .. Len(t) : t[i] = s[i + 1] /\ i + 1 \in 1 .. Len(s)
  BY <1>1, <1>2
<1>4. \A i, j \in 1 .. Len(t) : t[i] = t[j] => i = j
  BY <1>1, <1>2, <1>3 DEF Lists
<1>5. S \ {Head(s)} = {t[i] : i \in 1 .. Len(t)}
  <2>1. ASSUME NEW x \in S, x # Head(s) PROVE \E i \in 1 .. Len(t) : x = t[i]
    <3>1. PICK k \in 1 .. Len(s) : x = s[k]
      BY DEF Lists
    <3>2. k # 1
      BY <1>2, <2>1, <3>1
    <3>3. k - 1 \in 1 .. Len(t)
      BY <1>1, <1>2, <3>1, <3>2
    <3>4. t[k - 1] = s[(k - 1) + 1] /\ (k - 1) + 1 = k
      BY <1>3, <3>3
    <3> QED BY <3>1, <3>3, <3>4
  <2>2. ASSUME NEW i \in 1 .. Len(t) PROVE t[i] \in S /\ t[i] # Head(s)
    <3>1. 1 \in 1 .. Len(s) /\ i + 1 # 1
      BY <1>1
    <3> QED BY <1>2, <1>3, <3>1 DEF Lists
  <2> QED BY <2>1, <2>2
<1>6. Head(s) \in S /\ Head(s) \in Clients
  <2>1. 1 \in 1 .. Len(s)
    BY <1>1
  <2> QED BY <1>1, <1>2, <2>1 DEF Lists
<1> QED BY <1>2, <1>4, <1>5, <1>6 DEF Lists

(* A list is as long as what it lists is large.                             *)
LEMMA ListsLength ==
  ASSUME NEW s, NEW S, Lists(s, S)
  PROVE  IsFiniteSet(S) /\ Cardinality(S) = Len(s)
<1>1. s \in Seq(Clients) /\ Len(s) \in Nat
  BY DEF Lists
<1>2. IsFiniteSet(1 .. Len(s)) /\ Cardinality(1 .. Len(s)) = Len(s)
  BY <1>1, FS_Interval
<1>3. ExistsBijection(1 .. Len(s), S)
  <2> DEFINE f == [i \in 1 .. Len(s) |-> s[i]]
  <2>1. f \in Bijection(1 .. Len(s), S)
    BY DEF Lists, Bijection, Injection, Surjection, IsInjective
  <2> QED BY <2>1 DEF ExistsBijection
<1> QED BY <1>2, <1>3, FS_Bijection

(* ToSet of a list is what it lists.                                        *)
LEMMA ListsToSet ==
  ASSUME NEW s, NEW S, Lists(s, S)
  PROVE  ToSet(s) = S
<1>1. DOMAIN s = 1 .. Len(s)
  BY DEF Lists
<1> QED BY <1>1 DEF ToSet, Lists

(* Numbers that grow along a list go on growing with a larger one at the    *)
(* end.                                                                     *)
LEMMA GrowsAppend ==
  ASSUME NEW s, NEW S, Lists(s, S), NEW r \in [Clients -> Nat], Grows(s, r),
         NEW c \in Clients, \A d \in S : r[d] < r[c]
  PROVE  Grows(Append(s, c), r)
<1> DEFINE t == Append(s, c)
<1>1. s \in Seq(Clients) /\ Len(s) \in Nat
  BY DEF Lists
<1>2. /\ Len(t) = Len(s) + 1
      /\ \A i \in 1 .. Len(s) : t[i] = s[i] /\ s[i] \in S
      /\ t[Len(s) + 1] = c
  BY <1>1 DEF Lists
<1> QED
  <2> SUFFICES ASSUME NEW i \in 1 .. Len(t), NEW j \in 1 .. Len(t), i < j
               PROVE  r[t[i]] < r[t[j]]
    BY DEF Grows
  <2>1. i \in 1 .. Len(s)
    BY <1>1, <1>2
  <2>2. CASE j \in 1 .. Len(s)
    BY <1>2, <2>1, <2>2 DEF Grows
  <2>3. CASE j = Len(s) + 1
    BY <1>2, <2>1, <2>3
  <2>4. j \in 1 .. Len(s) \/ j = Len(s) + 1
    BY <1>1, <1>2
  <2> QED BY <2>2, <2>3, <2>4

(* They grow along the tail, and the head's is the smallest.                *)
LEMMA GrowsTail ==
  ASSUME NEW s, NEW S, Lists(s, S), s # <<>>, NEW r, Grows(s, r)
  PROVE  /\ Grows(Tail(s), r)
         /\ \A d \in S \ {Head(s)} : r[Head(s)] < r[d]
<1>1. s \in Seq(Clients) /\ Len(s) \in Nat /\ Len(s) > 0
  BY DEF Lists
<1>2. Len(Tail(s)) = Len(s) - 1 /\ Head(s) = s[1]
  BY <1>1
<1>3. \A i \in 1 .. Len(Tail(s)) : Tail(s)[i] = s[i + 1] /\ i + 1 \in 1 .. Len(s)
  BY <1>1, <1>2
<1>4. Grows(Tail(s), r)
  <2> SUFFICES ASSUME NEW i \in 1 .. Len(Tail(s)), NEW j \in 1 .. Len(Tail(s)), i < j
               PROVE  r[Tail(s)[i]] < r[Tail(s)[j]]
    BY DEF Grows
  <2>1. i + 1 < j + 1
    BY <1>1, <1>2
  <2> QED BY <1>3, <2>1 DEF Grows
<1>5. ASSUME NEW d \in S \ {Head(s)} PROVE r[Head(s)] < r[d]
  <2>1. PICK k \in 1 .. Len(s) : d = s[k]
    BY DEF Lists
  <2>2. 1 \in 1 .. Len(s) /\ 1 < k
    BY <1>1, <1>2, <1>5, <2>1
  <2> QED BY <1>2, <2>1, <2>2 DEF Grows
<1> QED BY <1>4, <1>5

(* Numbers of what is not listed do not matter.                             *)
LEMMA GrowsElsewhere ==
  ASSUME NEW s, NEW S, Lists(s, S), NEW r, NEW q, Grows(s, r),
         \A d \in S : q[d] = r[d]
  PROVE  Grows(s, q)
BY DEF Lists, Grows

-----------------------------------------------------------------------------
(* Bytes.                                                                   *)

(* Bytes of disjoint sets of checkpoints add up.                            *)
LEMMA BytesAdd ==
  ASSUME NEW S \in SUBSET Clients, NEW T \in SUBSET Clients, S \cap T = {}
  PROVE  /\ TotalBytes(S) \in Nat
         /\ TotalBytes(S \cup T) = TotalBytes(S) + TotalBytes(T)
<1> DEFINE U(X) == {b \in X \X (1 .. ByteLimit) : b[2] <= bytes[b[1]]}
<1>1. \A X \in SUBSET Clients : IsFiniteSet(U(X))
  <2> SUFFICES ASSUME NEW X \in SUBSET Clients PROVE IsFiniteSet(U(X))
    OBVIOUS
  <2>1. IsFiniteSet(X) /\ IsFiniteSet(1 .. ByteLimit)
    <3>1. IsFiniteSet(X)
      BY IntakeAssumption, FS_Subset
    <3>2. IsFiniteSet(1 .. ByteLimit)
      <4>1. 1 \in Int /\ ByteLimit \in Int
        BY IntakeAssumption
      <4> QED BY <4>1, FS_Interval
    <3> QED BY <3>1, <3>2
  <2>2. IsFiniteSet(X \X (1 .. ByteLimit))
    BY <2>1, FS_Product
  <2> QED BY <2>2, FS_Subset
<1>2. U(S \cup T) = U(S) \cup U(T) /\ U(S) \cap U(T) = {}
  OBVIOUS
<1>3. /\ Cardinality(U(S)) \in Nat /\ Cardinality(U(T)) \in Nat
      /\ Cardinality(U(S) \cup U(T))
           = Cardinality(U(S)) + Cardinality(U(T)) - Cardinality(U(S) \cap U(T))
  BY <1>1, FS_Union, FS_CardinalityType
<1>4. Cardinality(U(S) \cap U(T)) = 0
  BY <1>2, FS_EmptySet
<1>5. /\ TotalBytes(S) = Cardinality(U(S)) /\ TotalBytes(T) = Cardinality(U(T))
      /\ TotalBytes(S \cup T) = Cardinality(U(S \cup T))
  BY DEF TotalBytes
<1> HIDE DEF U
<1>6. Cardinality(U(S \cup T)) = Cardinality(U(S) \cup U(T))
  BY <1>2, Zenon
<1> QED BY <1>3, <1>4, <1>5, <1>6

(* No checkpoint, no bytes.                                                 *)
LEMMA BytesNone == TotalBytes({}) = 0
<1>1. {b \in {} \X (1 .. ByteLimit) : b[2] <= bytes[b[1]]} = {}
  OBVIOUS
<1> QED BY <1>1, FS_EmptySet DEF TotalBytes

(* The bytes of one checkpoint are its body's.                              *)
LEMMA BytesOne ==
  ASSUME NEW c \in Clients, bytes \in Bodies
  PROVE  TotalBytes({c}) = bytes[c]
<1> DEFINE U == {b \in {c} \X (1 .. ByteLimit) : b[2] <= bytes[b[1]]}
<1>1. bytes[c] \in 0 .. ByteLimit /\ ByteLimit \in Nat
  BY IntakeAssumption
<1>2. IsFiniteSet(1 .. bytes[c]) /\ Cardinality(1 .. bytes[c]) = bytes[c]
  <2>1. 1 \in Int /\ bytes[c] \in Int
    BY <1>1
  <2>2. /\ IsFiniteSet(1 .. bytes[c])
        /\ Cardinality(1 .. bytes[c]) = IF 1 > bytes[c] THEN 0 ELSE bytes[c] - 1 + 1
    BY <2>1, FS_Interval
  <2> QED BY <1>1, <2>2
<1>3. ExistsBijection(1 .. bytes[c], U)
  <2> DEFINE f == [i \in 1 .. bytes[c] |-> <<c, i>>]
  <2>1. \A i \in 1 .. bytes[c] : <<c, i>> \in U
    BY <1>1
  <2>2. \A u \in U : u = <<c, u[2]>> /\ u[2] \in 1 .. bytes[c]
    BY <1>1
  <2>3. f \in Injection(1 .. bytes[c], U)
    BY <2>1 DEF Injection, IsInjective
  <2>4. f \in Surjection(1 .. bytes[c], U)
    BY <2>1, <2>2 DEF Surjection
  <2> QED BY <2>3, <2>4 DEF ExistsBijection, Bijection
<1> QED BY <1>2, <1>3, FS_Bijection DEF TotalBytes

-----------------------------------------------------------------------------
(* What a change of status does to the places and to the quota.             *)

(* Checkpoints that move leave their places and come to the new one.        *)
LEMMA MovedAt ==
  ASSUME status \in [Clients -> Retained \cup Gone], NEW S \in SUBSET Clients,
         NEW to \in Retained \cup Gone, status' = Moved(S, to)
  PROVE  /\ status' \in [Clients -> Retained \cup Gone]
         /\ At(to)' = At(to) \cup S
         /\ \A p : p # to => At(p)' = At(p) \ S
         /\ to \in Retained => Held' = Held \cup S
         /\ to \notin Retained => Held' = Held \ S
         /\ \A c \in Clients : status'[c] = IF c \in S THEN to ELSE status[c]
<1>1. \A c \in Clients : status'[c] = IF c \in S THEN to ELSE status[c]
  BY DEF Moved
<1>2. status' \in [Clients -> Retained \cup Gone]
  BY DEF Moved
<1>3. At(to)' = At(to) \cup S
  BY <1>1 DEF At
<1>4. ASSUME NEW p, p # to PROVE At(p)' = At(p) \ S
  BY <1>1, <1>4 DEF At
<1>5. to \in Retained => Held' = Held \cup S
  BY <1>1 DEF Held
<1>6. to \notin Retained => Held' = Held \ S
  BY <1>1 DEF Held
<1> QED BY <1>1, <1>2, <1>3, <1>4, <1>5, <1>6

(* One checkpoint that moves.                                               *)
LEMMA MovedOne ==
  ASSUME status \in [Clients -> Retained \cup Gone], NEW c \in Clients,
         NEW to \in Retained \cup Gone, status' = [status EXCEPT ![c] = to]
  PROVE  /\ status' \in [Clients -> Retained \cup Gone]
         /\ At(to)' = At(to) \cup {c}
         /\ \A p : p # to => At(p)' = At(p) \ {c}
         /\ to \in Retained => Held' = Held \cup {c}
         /\ to \notin Retained => Held' = Held \ {c}
         /\ \A d \in Clients : status'[d] = IF d = c THEN to ELSE status[d]
<1>1. \A d \in Clients : status'[d] = IF d = c THEN to ELSE status[d]
  OBVIOUS
<1>2. status' \in [Clients -> Retained \cup Gone]
  OBVIOUS
<1>3. At(to)' = At(to) \cup {c}
  BY <1>1 DEF At
<1>4. ASSUME NEW p, p # to PROVE At(p)' = At(p) \ {c}
  BY <1>1, <1>4 DEF At
<1>5. to \in Retained => Held' = Held \cup {c}
  BY <1>1 DEF Held
<1>6. to \notin Retained => Held' = Held \ {c}
  BY <1>1 DEF Held
<1> QED BY <1>1, <1>2, <1>3, <1>4, <1>5, <1>6

(* A dropped reservation takes out what it put in.                          *)
LEMMA QuotaReleased ==
  ASSUME QuotaKept, NEW S \in SUBSET Held, Release(S), bytes' = bytes, Held' = Held \ S
  PROVE  QuotaKept' /\ quota' \in [requests: Nat, bytes: Nat]
<1> DEFINE R == Held \ S
<1>1. R \in SUBSET Clients /\ S \in SUBSET Clients /\ R \cap S = {} /\ Held = R \cup S
  BY DEF Held
<1>2. IsFiniteSet(R) /\ IsFiniteSet(S)
  BY <1>1, IntakeAssumption, FS_Subset
<1>3. Cardinality(R) \in Nat /\ Cardinality(S) \in Nat
  BY <1>2, FS_CardinalityType
<1>4. Cardinality(Held) = Cardinality(R) + Cardinality(S)
  <2>1. Cardinality(R \cup S) = Cardinality(R) + Cardinality(S) - Cardinality(R \cap S)
    BY <1>2, FS_Union
  <2>2. Cardinality(R \cap S) = 0
    BY <1>1, FS_EmptySet, Zenon
  <2>3. Cardinality(Held) = Cardinality(R \cup S)
    BY <1>1, Zenon
  <2> HIDE DEF R
  <2> QED BY <1>3, <2>1, <2>2, <2>3
<1>5. /\ TotalBytes(R) \in Nat /\ TotalBytes(S) \in Nat
      /\ TotalBytes(Held) = TotalBytes(R) + TotalBytes(S)
  <2>1. TotalBytes(R) \in Nat /\ TotalBytes(R \cup S) = TotalBytes(R) + TotalBytes(S)
    BY <1>1, BytesAdd
  <2>2. TotalBytes(S) \in Nat
    BY <1>1, BytesAdd
  <2>3. TotalBytes(Held) = TotalBytes(R \cup S)
    BY <1>1, Zenon
  <2> QED BY <2>1, <2>2, <2>3
<1>6. TotalBytes(Held)' = TotalBytes(R)
  BY Zenon DEF TotalBytes
<1>7. Cardinality(Held)' = Cardinality(R)
  BY Zenon
<1>8. quota' = [requests |-> Cardinality(R), bytes |-> TotalBytes(R)]
  <2>1. quota.requests - Cardinality(S) = Cardinality(R)
    BY <1>3, <1>4 DEF QuotaKept
  <2>2. quota.bytes - TotalBytes(S) = TotalBytes(R)
    BY <1>5 DEF QuotaKept
  <2> QED BY <2>1, <2>2 DEF Release
<1>9. Cardinality(R) <= RequestLimit /\ TotalBytes(R) <= ByteLimit
  BY <1>3, <1>4, <1>5, IntakeAssumption DEF QuotaKept
<1> HIDE DEF R
<1> QED BY <1>3, <1>5, <1>6, <1>7, <1>8, <1>9 DEF QuotaKept

(* A new reservation adds its own, and only within the limits.              *)
LEMMA QuotaReserved ==
  ASSUME QuotaKept, bytes \in Bodies, NEW c \in Clients \ Held, WithinQuota(c),
         quota' = [requests |-> quota.requests + 1, bytes |-> quota.bytes + bytes[c]],
         bytes' = bytes, Held' = Held \cup {c}
  PROVE  QuotaKept' /\ quota' \in [requests: Nat, bytes: Nat]
<1> DEFINE R == Held \cup {c}
<1>1. Held \in SUBSET Clients /\ {c} \in SUBSET Clients /\ Held \cap {c} = {}
  BY DEF Held
<1>2. IsFiniteSet(Held)
  BY <1>1, IntakeAssumption, FS_Subset
<1>3. Cardinality(Held) \in Nat /\ Cardinality(R) = Cardinality(Held) + 1
  BY <1>2, FS_CardinalityType, FS_AddElement
<1>4. bytes[c] \in Nat /\ RequestLimit \in Nat /\ ByteLimit \in Nat
  BY IntakeAssumption
<1>5. TotalBytes(Held) \in Nat /\ TotalBytes(R) = TotalBytes(Held) + bytes[c]
  <2>1. TotalBytes(Held) \in Nat /\ TotalBytes(R) = TotalBytes(Held) + TotalBytes({c})
    BY <1>1, BytesAdd
  <2>2. TotalBytes({c}) = bytes[c]
    BY BytesOne
  <2> QED BY <2>1, <2>2
<1>6. TotalBytes(Held)' = TotalBytes(R)
  BY Zenon DEF TotalBytes
<1>7. Cardinality(Held)' = Cardinality(R)
  BY Zenon
<1>8. Cardinality(Held) + 1 <= RequestLimit /\ TotalBytes(Held) + bytes[c] <= ByteLimit
  BY <1>3, <1>4, <1>5 DEF QuotaKept, WithinQuota
<1> HIDE DEF R
<1> QED BY <1>3, <1>4, <1>5, <1>6, <1>7, <1>8 DEF QuotaKept

(* The quota follows neither a checkpoint that only moves on nor anything   *)
(* else.                                                                    *)
LEMMA QuotaSame ==
  ASSUME QuotaKept, bytes' = bytes, quota' = quota, Held' = Held
  PROVE  QuotaKept'
<1>1. TotalBytes(Held)' = TotalBytes(Held) /\ Cardinality(Held)' = Cardinality(Held)
  BY Zenon DEF TotalBytes
<1> QED BY <1>1 DEF QuotaKept

-----------------------------------------------------------------------------
(* What a step keeps that leaves most of the state alone.                   *)

(* The receipt numbers stay in order while none is drawn, the worker stays  *)
(* where it is, and a checkpoint goes on or away.                           *)
LEMMA NumberedKept ==
  ASSUME Numbered, UNCHANGED <<receipt, nextReceipt, processed>>,
         worker'.pc \in {"preparing", "record"} => worker'.pc = worker.pc /\ worker'.job = worker.job,
         \A c \in Clients : Accepted(c) <=> status'[c] \notin {"idle", "reserved", "refused"},
         At("accepting")' \subseteq At("accepting"), Awaited' \subseteq Awaited,
         Grows(queue', receipt)
  PROVE  Numbered'
<1>1. \A c \in Clients : Accepted(c)' <=> Accepted(c)
  BY DEF Accepted
<1> QED BY <1>1 DEF Numbered

(* No step opens the gate again, and while the gate is closed nothing more  *)
(* is held or accepted.                                                     *)
LEMMA ClosingKept ==
  ASSUME Closing, Held' \subseteq Held, receipt' = receipt,
         accepting' => accepting,
         shutting => shutting', shutting' => shutting \/ ~accepting',
         waiter'[Stop].pc # "idle" => waiter[Stop].pc # "idle",
         waiter'[Stop].pc = "done" => waiter[Stop].pc = "done",
         UNCHANGED <<life, counted>>
  PROVE  Closing'
<1>1. \A c \in Held' : Accepted(c)' => Accepted(c)
  BY DEF Accepted
<1> QED BY <1>1 DEF Closing

(* A request that has waited is not overtaken: progress only grows.         *)
LEMMA WaitedForKept ==
  ASSUME WaitedFor, waiter \in [Waiters -> [pc: {"idle", "admission", "gate", "drain", "check", "done"},
                                            target: Nat, asleep: BOOLEAN]],
         processed \in Nat, processed' \in Nat, processed <= processed', shutting => shutting',
         \A s \in Syncs : waiter'[s].pc \in {"gate", "drain", "check", "done"} =>
           /\ waiter[s].pc \in {"gate", "drain", "check", "done"}
           /\ waiter'[s].target = waiter[s].target
  PROVE  WaitedFor'
<1> SUFFICES ASSUME NEW s \in Syncs,
                    waiter'[s].pc \in {"gate", "drain", "check", "done"}, ~shutting'
             PROVE  waiter'[s].target <= processed'
  BY DEF WaitedFor
<1>1. waiter[s].target <= processed /\ waiter'[s].target = waiter[s].target
  BY DEF WaitedFor
<1>2. waiter[s].target \in Nat
  BY DEF Waiters
<1> QED BY <1>1, <1>2

(* Steps of requests and of the process leave the checkpoints where they    *)
(* are, those of the lock's holder release an empty batch.                  *)
LEMMA Settled ==
  ASSUME TypeOK, Placed, GateCounts, Numbered, QuotaKept,
         UNCHANGED <<bytes, status, receipt, quota, nextReceipt, admission, sequencer>>,
         exec'.batch = exec.batch, exec'.holder = Nobody => exec.batch = <<>>
  PROVE  Placed' /\ GateCounts' /\ Numbered' /\ QuotaKept' /\ Held' = Held
<1>1. Held' = Held
  BY DEF Held
<1>2. QuotaKept'
  BY <1>1, QuotaSame
<1>3. \A p : At(p)' = At(p)
  BY DEF At
<1>4. Awaited' = Awaited
  BY DEF Awaited
<1>5. Placed'
  BY <1>3 DEF Placed, admission
<1>6. GateCounts'
  BY DEF GateCounts, Preparing, admission
<1>7. Numbered'
  <2>1. \A c \in Clients : Accepted(c)' <=> Accepted(c)
    BY DEF Accepted
  <2> QED BY <1>3, <1>4, <2>1 DEF Numbered, admission
<1> QED BY <1>1, <1>2, <1>5, <1>6, <1>7

(* A refused connection was in no place yet.                                *)
LEMMA Refused ==
  ASSUME TypeOK, Placed, GateCounts, Numbered, NEW c \in Clients,
         NEW to \in {"reserved", "refused"}, status[c] \in {"idle", "reserved"},
         status' = [status EXCEPT ![c] = to],
         UNCHANGED <<receipt, nextReceipt, admission, sequencer, exec>>
  PROVE  Placed' /\ GateCounts' /\ Numbered'
<1>1. /\ \A p \in {"accepting", "queued", "preparing", "sequenced", "executing"} : At(p)' = At(p)
      /\ Awaited' = Awaited
      /\ \A d \in Clients : status'[d] = "preparing" <=> status[d] = "preparing"
      /\ \A d \in Clients : status'[d] \notin {"idle", "reserved", "refused"}
                              <=> status[d] \notin {"idle", "reserved", "refused"}
  BY DEF At, Awaited, TypeOK
<1>2. Placed'
  BY <1>1 DEF Placed, admission
<1>3. GateCounts'
  BY DEF GateCounts, Preparing, admission
<1>4. Numbered'
  BY <1>1, NumberedKept DEF Numbered, admission
<1> QED BY <1>2, <1>3, <1>4

-----------------------------------------------------------------------------
(* The connections.                                                         *)

(* A reservation is made or refused.                                        *)
LEMMA ReserveStep ==
  ASSUME IntakeInv, NEW c \in Clients, Reserve(c)
  PROVE  IntakeInv'
<1> USE DEF IntakeInv
<1>0. /\ status[c] = "idle" /\ c \notin Held
      /\ UNCHANGED <<bytes, receipt, accepting, nextReceipt, admission, drainage, waiter, ending>>
  BY DEF Reserve, Held, Retained
<1>1. CASE accepting /\ WithinQuota(c)
  <2>1. /\ status' = [status EXCEPT ![c] = "reserved"]
        /\ quota' = [requests |-> quota.requests + 1, bytes |-> quota.bytes + bytes[c]]
    BY <1>1 DEF Reserve
  <2>2. "reserved" \in Retained
    BY DEF Retained
  <2>3. status' \in [Clients -> Retained \cup Gone] /\ Held' = Held \cup {c}
    BY <2>1, <2>2, MovedOne DEF TypeOK
  <2>4. QuotaKept' /\ quota' \in [requests: Nat, bytes: Nat]
    BY <1>0, <1>1, <2>1, <2>3, QuotaReserved DEF TypeOK
  <2>5. TypeOK'
    BY <1>0, <2>3, <2>4 DEF TypeOK, admission, drainage, ending
  <2>6. Placed' /\ GateCounts' /\ Numbered'
    BY <1>0, <2>1, Refused DEF drainage
  <2>7. WaitedFor'
    BY <1>0 DEF WaitedFor, admission, ending
  <2>8. Closing'
    BY <1>0, <1>1 DEF Closing, ending
  <2> QED BY <2>4, <2>5, <2>6, <2>7, <2>8
<1>2. CASE ~(accepting /\ WithinQuota(c))
  <2>1. status' = [status EXCEPT ![c] = "refused"] /\ quota' = quota
    BY <1>2 DEF Reserve
  <2>2. "refused" \in Gone /\ "refused" \notin Retained
    BY DEF Gone, Retained
  <2>3. status' \in [Clients -> Retained \cup Gone] /\ Held' = Held \ {c}
    BY <2>1, <2>2, MovedOne DEF TypeOK
  <2>4. Held' = Held
    BY <1>0, <2>3
  <2>5. TypeOK' /\ QuotaKept'
    BY <1>0, <2>1, <2>3, <2>4, QuotaSame DEF TypeOK, admission, drainage, ending
  <2>6. Placed' /\ GateCounts' /\ Numbered'
    BY <1>0, <2>1, Refused DEF drainage
  <2>7. WaitedFor'
    BY <1>0 DEF WaitedFor, admission, ending
  <2>8. Closing'
    BY <1>0, <2>4, ClosingKept DEF ending
  <2> QED BY <2>5, <2>6, <2>7, <2>8
<1> QED BY <1>1, <1>2

HealthStates == [queued: BOOLEAN, stalled: -1 .. MaxStalls, deferrals: 0 .. MaxDeferrals]

(* The health loop's state before it starts and after it returns.           *)
LEMMA NoHealthType == NoHealth \in HealthStates
BY IntakeAssumption DEF NoHealth, HealthStates

(* A reservation ends without a receipt; if the channel is closed, the      *)
(* daemon stops with it.                                                    *)
LEMMA ReservedEnds ==
  ASSUME IntakeInv, NEW c \in Clients, status[c] = "reserved",
         status' = [status EXCEPT ![c] = "refused"], Release({c}),
         UNCHANGED <<bytes, receipt, nextReceipt, admission, drainage, waiter,
                     wedged, counted, life>>,
         UNCHANGED <<shutting, accepting, health>> \/ ShutDown
  PROVE  IntakeInv'
<1> USE DEF IntakeInv
<1>1. "refused" \in Gone /\ "refused" \notin Retained /\ {c} \in SUBSET Held
  BY DEF Gone, Retained, Held
<1>2. status' \in [Clients -> Retained \cup Gone] /\ Held' = Held \ {c}
  BY <1>1, MovedOne DEF TypeOK
<1>3. QuotaKept' /\ quota' \in [requests: Nat, bytes: Nat]
  BY <1>1, <1>2, QuotaReleased
<1>4. /\ accepting' \in BOOLEAN /\ shutting' \in BOOLEAN /\ health' \in HealthStates
      /\ accepting' => accepting
      /\ shutting => shutting'
      /\ shutting' => shutting \/ ~accepting'
  <2>1. CASE UNCHANGED <<shutting, accepting, health>>
    BY <2>1 DEF TypeOK, HealthStates
  <2>2. CASE ShutDown
    BY <2>2, NoHealthType DEF ShutDown, TypeOK
  <2> QED BY <2>1, <2>2
<1>5. TypeOK'
  BY <1>2, <1>3, <1>4 DEF TypeOK, HealthStates, admission, drainage
<1>6. Placed' /\ GateCounts' /\ Numbered'
  BY Refused DEF drainage
<1>7. WaitedFor'
  BY <1>4 DEF WaitedFor, admission
<1>8. Closing'
  BY <1>2, <1>4, ClosingKept
<1> QED BY <1>3, <1>5, <1>6, <1>7, <1>8

(* A number is drawn, or the closed gate refuses the connection.            *)
LEMMA BeginAcceptStep ==
  ASSUME IntakeInv, NEW c \in Clients, BeginAccept(c)
  PROVE  IntakeInv'
<1> USE DEF IntakeInv
<1>0. /\ status[c] = "reserved" /\ At("accepting") = {}
      /\ UNCHANGED <<bytes, accepting, admission, drainage, waiter, ending>>
  BY DEF BeginAccept, SequencerLockFree, At
<1>1. CASE accepting
  <2>1. /\ status' = [status EXCEPT ![c] = "accepting"]
        /\ nextReceipt' = nextReceipt + 1
        /\ receipt' = [receipt EXCEPT ![c] = nextReceipt + 1]
        /\ quota' = quota
    BY <1>1 DEF BeginAccept
  <2>2. "accepting" \in Retained /\ c \in Held
    BY <1>0 DEF Retained, Held
  <2>3. /\ status' \in [Clients -> Retained \cup Gone] /\ Held' = Held \cup {c}
        /\ At("accepting")' = At("accepting") \cup {c}
        /\ \A p : p # "accepting" => At(p)' = At(p) \ {c}
        /\ \A d \in Clients : status'[d] = IF d = c THEN "accepting" ELSE status[d]
    BY <2>1, <2>2, MovedOne DEF TypeOK
  <2>4. TypeOK' /\ QuotaKept'
    <3>1. Held' = Held
      BY <2>2, <2>3
    <3>2. nextReceipt' \in Nat /\ receipt' \in [Clients -> Nat]
      BY <2>1 DEF TypeOK
    <3> QED BY <1>0, <2>1, <2>3, <3>1, <3>2, QuotaSame DEF TypeOK, admission, drainage, ending
  <2>5. At("queued")' = At("queued") /\ At("sequenced")' = At("sequenced")
        /\ At("executing")' = At("executing")
    BY <1>0, <2>3 DEF At
  <2>6. Placed'
    <3>1. \A d \in Clients : status'[d] = "preparing" <=> status[d] = "preparing"
      BY <1>0, <2>3
    <3> QED BY <1>0, <2>5, <3>1 DEF Placed, admission, drainage
  <2>7. GateCounts'
    BY <1>0 DEF GateCounts, Preparing, admission
  <2>8. Numbered'
    <3>1. /\ receipt'[c] = nextReceipt + 1
          /\ \A d \in Clients : d # c => receipt'[d] = receipt[d]
          /\ \A d \in Clients : receipt[d] <= nextReceipt /\ receipt[d] \in Nat
          /\ nextReceipt \in Nat
      BY <2>1 DEF TypeOK, Numbered
    <3>2. \A d \in Clients :
            /\ receipt'[d] <= nextReceipt'
            /\ Accepted(d)' <=> status'[d] \notin {"idle", "reserved", "refused"}
      BY <2>1, <2>3, <3>1 DEF Numbered, Accepted
    <3>3. \A a \in At("accepting")' : \A d \in Clients \ {a} : receipt'[d] < receipt'[a]
      BY <1>0, <2>3, <3>1
    <3>4. processed \in Nat /\ processed' = processed /\ processed <= nextReceipt
      BY <1>0 DEF Numbered, TypeOK, admission
    <3>5. Awaited' = Awaited \cup {c} /\ c \notin Awaited
      BY <1>0, <2>3 DEF Awaited
    <3>6. \A d \in Awaited' : processed' < receipt'[d]
      BY <3>1, <3>4, <3>5 DEF Numbered, Awaited
    <3>7. ASSUME worker'.pc \in {"preparing", "record"}
          PROVE  /\ processed' < receipt'[worker'.job]
                 /\ \A d \in Awaited' \ {worker'.job} : receipt'[worker'.job] < receipt'[d]
                 /\ worker'.pc = "record" => worker'.job \notin Awaited'
      <4>1. worker' = worker /\ worker.job \in Clients /\ processed < receipt[worker.job]
        BY <1>0, <3>7 DEF admission, Placed, Numbered
      <4>2. worker.job # c
        BY <1>0, <3>1, <3>4, <4>1 DEF Numbered, Accepted
      <4>3. \A d \in Awaited \ {worker.job} : receipt[worker.job] < receipt[d]
        BY <3>7, <4>1 DEF Numbered
      <4>4. worker'.pc = "record" => worker'.job \notin Awaited'
        BY <3>5, <4>1, <4>2 DEF Numbered
      <4> QED BY <3>1, <3>4, <3>5, <4>1, <4>2, <4>3, <4>4 DEF Awaited
    <3>8. Grows(queue', receipt')
      <4>1. \A d \in At("queued") : receipt'[d] = receipt[d]
        BY <1>0, <3>1 DEF At
      <4> QED BY <1>0, <4>1, GrowsElsewhere DEF Numbered, Placed, admission
    <3>9. processed' <= nextReceipt'
      BY <2>1, <3>1, <3>4
    <3> QED BY <3>2, <3>3, <3>6, <3>7, <3>8, <3>9 DEF Numbered
  <2>9. WaitedFor'
    BY <1>0 DEF WaitedFor, admission, ending
  <2>10. Closing'
    BY <1>0, <1>1 DEF Closing, ending
  <2> QED BY <2>4, <2>6, <2>7, <2>8, <2>9, <2>10
<1>2. CASE ~accepting
  <2>1. /\ status' = [status EXCEPT ![c] = "refused"] /\ Release({c})
        /\ UNCHANGED <<bytes, receipt, nextReceipt, accepting, admission, drainage, waiter, ending>>
    BY <1>0, <1>2 DEF BeginAccept
  <2> QED BY <1>0, <2>1, ReservedEnds DEF ending
<1> QED BY <1>1, <1>2

(* The receipt is sent into the channel.                                    *)
LEMMA EndAcceptStep ==
  ASSUME IntakeInv, NEW c \in Clients, EndAccept(c)
  PROVE  IntakeInv'
<1> USE DEF IntakeInv
<1>0. /\ status[c] = "accepting" /\ c \in Held /\ c \in Awaited /\ c \in At("accepting")
      /\ status' = [status EXCEPT ![c] = "queued"]
      /\ unadmitted' = unadmitted + 1 /\ queue' = Append(queue, c)
      /\ UNCHANGED <<bytes, receipt, quota, accepting, nextReceipt, processed, worker,
                     drainage, waiter, ending>>
  BY DEF EndAccept, Held, Retained, Awaited, At
<1>1. /\ status' \in [Clients -> Retained \cup Gone] /\ Held' = Held \cup {c}
      /\ At("queued")' = At("queued") \cup {c}
      /\ \A p : p # "queued" => At(p)' = At(p) \ {c}
      /\ \A d \in Clients : status'[d] = IF d = c THEN "queued" ELSE status[d]
  <2>1. "queued" \in Retained
    BY DEF Retained
  <2> QED BY <1>0, <2>1, MovedOne DEF TypeOK
<1>2. Held' = Held
  BY <1>0, <1>1
<1>3. c \notin At("queued")
  BY <1>0 DEF At
<1>4. queue' \in Seq(Clients) /\ Len(queue') = Len(queue) + 1 /\ Len(queue) \in Nat
  BY <1>0 DEF TypeOK
<1>5. TypeOK' /\ QuotaKept'
  BY <1>0, <1>1, <1>2, <1>4, QuotaSame DEF TypeOK, drainage, ending
<1>6. Placed'
  <2>1. Lists(queue', At("queued")')
    <3>1. Lists(Append(queue, c), At("queued") \cup {c})
      BY <1>3, ListsAppend DEF Placed
    <3> QED BY <1>0, <1>1, <3>1, Zenon
  <2>2. At("sequenced")' = At("sequenced") /\ At("executing")' = At("executing")
    BY <1>0, <1>1 DEF At
  <2>3. \A d \in Clients : status'[d] = "preparing" <=> status[d] = "preparing"
    BY <1>0, <1>1
  <2> QED BY <1>0, <2>1, <2>2, <2>3 DEF Placed, drainage
<1>7. GateCounts'
  BY <1>0, <1>4 DEF GateCounts, Preparing, TypeOK
<1>8. Numbered'
  <2>1. Awaited' = Awaited /\ At("accepting")' \subseteq At("accepting")
    BY <1>0, <1>1 DEF Awaited
  <2>2. \A d \in At("queued") : receipt[d] < receipt[c]
    <3>1. \A d \in At("queued") : d \in Clients \ {c}
      BY <1>3 DEF At
    <3> QED BY <1>0, <3>1 DEF Numbered
  <2>3. Grows(queue', receipt)
    <3>1. Lists(queue, At("queued")) /\ Grows(queue, receipt) /\ receipt \in [Clients -> Nat]
      BY DEF Placed, Numbered, TypeOK
    <3> QED BY <1>0, <2>2, <3>1, GrowsAppend
  <2>4. \A d \in Clients : Accepted(d) <=> status'[d] \notin {"idle", "reserved", "refused"}
    BY <1>0, <1>1 DEF Numbered
  <2> QED BY <1>0, <2>1, <2>3, <2>4, NumberedKept
<1>9. WaitedFor'
  BY <1>0 DEF WaitedFor, ending
<1>10. Closing'
  BY <1>0, <1>2, ClosingKept DEF ending
<1> QED BY <1>5, <1>6, <1>7, <1>8, <1>9, <1>10

-----------------------------------------------------------------------------
(* The ingress worker.                                                      *)

(* The oldest receipt goes from the channel to the worker.                  *)
LEMMA TakeReceiptStep ==
  ASSUME IntakeInv, TakeReceipt
  PROVE  IntakeInv'
<1> USE DEF IntakeInv
<1> DEFINE h == Head(queue)
<1>0. /\ worker.pc = "idle" /\ queue # <<>>
      /\ worker' = [worker EXCEPT !.pc = "preparing", !.job = h]
      /\ status' = Moved({h}, "preparing")
      /\ queue' = Tail(queue)
      /\ UNCHANGED <<bytes, receipt, quota, accepting, nextReceipt, unadmitted, processed,
                     drainage, waiter, ending>>
  BY DEF TakeReceipt
<1>1. h \in At("queued") /\ h \in Clients /\ Lists(Tail(queue), At("queued") \ {h})
  BY <1>0, ListsTail DEF Placed
<1>2. status[h] = "queued" /\ h \in Held /\ h \in Awaited
  BY <1>1 DEF At, Held, Retained, Awaited
<1>3. /\ status' \in [Clients -> Retained \cup Gone] /\ Held' = Held \cup {h}
      /\ \A p : p # "preparing" => At(p)' = At(p) \ {h}
      /\ \A d \in Clients : status'[d] = IF d \in {h} THEN "preparing" ELSE status[d]
  <2>1. "preparing" \in Retained /\ {h} \in SUBSET Clients
    BY <1>1 DEF Retained
  <2>2. status \in [Clients -> Retained \cup Gone]
    BY DEF TypeOK
  <2> QED BY <1>0, <2>1, <2>2, MovedAt
<1>4. Held' = Held
  BY <1>2, <1>3
<1>5. worker' \in [pc: {"idle", "preparing", "record", "stopped"},
                   job: Clients \cup {Nobody}, last: BOOLEAN, panicked: BOOLEAN]
  BY <1>0, <1>1 DEF TypeOK
<1>6. worker'.pc = "preparing" /\ worker'.job = h
  BY <1>0 DEF TypeOK
<1>7. Len(queue') = Len(queue) - 1 /\ Len(queue) \in Nat /\ queue' \in Seq(Clients)
  BY <1>0 DEF TypeOK
<1>8. TypeOK' /\ QuotaKept'
  BY <1>0, <1>3, <1>4, <1>5, <1>7, QuotaSame DEF TypeOK, drainage, ending
<1>9. Placed'
  <2>1. Lists(queue', At("queued")')
    BY <1>0, <1>1, <1>3, Zenon
  <2>2. At("sequenced")' = At("sequenced") /\ At("executing")' = At("executing")
    BY <1>2, <1>3 DEF At
  <2>3. \A d \in Clients :
          status'[d] = "preparing" <=> worker'.pc = "preparing" /\ worker'.job = d
    BY <1>0, <1>3, <1>6 DEF Placed
  <2> QED BY <1>0, <1>1, <1>6, <2>1, <2>2, <2>3 DEF Placed, drainage
<1>10. GateCounts'
  BY <1>0, <1>6, <1>7 DEF GateCounts, Preparing, TypeOK
<1>11. Numbered'
  <2>1. Awaited' = Awaited /\ At("accepting")' = At("accepting")
    BY <1>2, <1>3 DEF Awaited, At
  <2>2. Grows(queue', receipt') /\ \A d \in At("queued") \ {h} : receipt[h] < receipt[d]
    BY <1>0, GrowsTail DEF Placed, Numbered
  <2>3. ASSUME NEW d \in Awaited, d # h PROVE receipt[h] < receipt[d]
    <3>1. CASE status[d] = "queued"
      BY <2>2, <2>3, <3>1 DEF At, Awaited
    <3>2. CASE status[d] = "accepting"
      BY <1>1, <2>3, <3>2 DEF At, Awaited, Numbered
    <3>3. status[d] # "preparing"
      BY <1>0 DEF Placed, Awaited
    <3> QED BY <3>1, <3>2, <3>3 DEF Awaited
  <2>4. \A d \in Clients : Accepted(d)' <=> status'[d] \notin {"idle", "reserved", "refused"}
    BY <1>0, <1>2, <1>3 DEF Numbered, Accepted
  <2> QED BY <1>0, <1>2, <1>6, <2>1, <2>2, <2>3, <2>4 DEF Numbered
<1>12. WaitedFor'
  BY <1>0 DEF WaitedFor, ending
<1>13. Closing'
  BY <1>0, <1>4, ClosingKept DEF ending
<1> QED BY <1>8, <1>9, <1>10, <1>11, <1>12, <1>13

(* The worker has what its state says.                                      *)
LEMMA PreparingJob ==
  ASSUME TypeOK, Placed, GateCounts, worker.pc = "preparing"
  PROVE  /\ worker.job \in Clients /\ status[worker.job] = "preparing"
         /\ worker.job \in Held /\ worker.job \in Awaited
         /\ unadmitted >= 1 /\ unadmitted - 1 \in Nat
<1>1. worker.job \in Clients /\ status[worker.job] = "preparing"
  BY DEF Placed
<1>2. Len(queue) \in Nat /\ unadmitted \in Nat
  BY DEF TypeOK
<1> QED BY <1>1, <1>2 DEF GateCounts, Preparing, Held, Retained, Awaited

(* The gate and the numbers when the worker's checkpoint has left it, for   *)
(* the sequencer or for good.                                               *)
LEMMA JobLeaves ==
  ASSUME TypeOK, Placed, GateCounts, Numbered, worker.pc = "preparing",
         worker'.pc = "record", worker'.job = worker.job,
         NEW to \in {"sequenced", "rejected"},
         \A d \in Clients : status'[d] = IF d \in {worker.job} THEN to ELSE status[d],
         unadmitted' = unadmitted - 1,
         UNCHANGED <<receipt, nextReceipt, processed, queue>>
  PROVE  GateCounts' /\ Numbered'
<1>1. /\ worker.job \in Clients /\ status[worker.job] = "preparing"
      /\ worker.job \in Awaited
  BY PreparingJob
<1>2. Len(queue) \in Nat /\ unadmitted \in Nat
  BY DEF TypeOK
<1>3. GateCounts'
  BY <1>2 DEF GateCounts, Preparing
<1>4. Awaited' = Awaited \ {worker.job} /\ At("accepting")' = At("accepting")
  BY <1>1 DEF Awaited, At
<1>5. \A d \in Clients : Accepted(d)' <=> status'[d] \notin {"idle", "reserved", "refused"}
  BY <1>1 DEF Numbered, Accepted
<1>6. Numbered'
  BY <1>4, <1>5 DEF Numbered
<1> QED BY <1>3, <1>6

(* The checkpoint enters the sequencer.                                     *)
LEMMA AdmitStep ==
  ASSUME IntakeInv, Admit
  PROVE  IntakeInv'
<1> USE DEF IntakeInv
<1> DEFINE j == worker.job
<1>0. /\ worker.pc = "preparing"
      /\ sequencer' = Append(sequencer, j)
      /\ status' = Moved({j}, "sequenced")
      /\ unadmitted' = unadmitted - 1
      /\ UNCHANGED <<bytes, receipt, quota, accepting, nextReceipt, processed, queue,
                     drains, exec, waiter, ending>>
  BY DEF Admit
<1>1. j \in Clients /\ status[j] = "preparing" /\ j \in Held /\ unadmitted - 1 \in Nat
  BY <1>0, PreparingJob
<1>2. PICK b \in BOOLEAN : worker' = [worker EXCEPT !.pc = "record", !.last = b]
  BY Zenon DEF Admit
<1>3. /\ worker' \in [pc: {"idle", "preparing", "record", "stopped"},
                      job: Clients \cup {Nobody}, last: BOOLEAN, panicked: BOOLEAN]
      /\ worker'.pc = "record" /\ worker'.job = j
  BY <1>2 DEF TypeOK
<1>4. /\ status' \in [Clients -> Retained \cup Gone] /\ Held' = Held \cup {j}
      /\ At("sequenced")' = At("sequenced") \cup {j}
      /\ \A p : p # "sequenced" => At(p)' = At(p) \ {j}
      /\ \A d \in Clients : status'[d] = IF d \in {j} THEN "sequenced" ELSE status[d]
  <2>1. "sequenced" \in Retained /\ {j} \in SUBSET Clients
    BY <1>1 DEF Retained
  <2>2. status \in [Clients -> Retained \cup Gone]
    BY DEF TypeOK
  <2>3. status' = Moved({j}, "sequenced")
    BY <1>0
  <2> HIDE DEF j, IntakeInv
  <2> QED BY <2>1, <2>2, <2>3, MovedAt
<1>5. Held' = Held
  BY <1>1, <1>4
<1>6. sequencer' \in Seq(Clients)
  BY <1>0, <1>1 DEF TypeOK
<1>7. TypeOK' /\ QuotaKept'
  BY <1>0, <1>1, <1>3, <1>4, <1>5, <1>6, QuotaSame DEF TypeOK, ending
<1>8. Placed'
  <2>1. Lists(sequencer', At("sequenced")')
    <3>1. j \notin At("sequenced")
      BY <1>1 DEF At
    <3>2. Lists(Append(sequencer, j), At("sequenced") \cup {j})
      BY <1>1, <3>1, ListsAppend DEF Placed
    <3> QED BY <1>0, <1>4, <3>2, Zenon
  <2>2. At("queued")' = At("queued") /\ At("executing")' = At("executing")
    BY <1>1, <1>4 DEF At
  <2>3. \A d \in Clients :
          status'[d] = "preparing" <=> worker'.pc = "preparing" /\ worker'.job = d
    BY <1>0, <1>3, <1>4 DEF Placed
  <2> QED BY <1>0, <1>1, <1>3, <2>1, <2>2, <2>3 DEF Placed
<1>9. GateCounts' /\ Numbered'
  BY <1>0, <1>3, <1>4, JobLeaves
<1>10. WaitedFor'
  BY <1>0 DEF WaitedFor, ending
<1>11. Closing'
  BY <1>0, <1>5, ClosingKept DEF ending
<1> QED BY <1>7, <1>8, <1>9, <1>10, <1>11

(* The checkpoint is rejected and its reservation given back.               *)
LEMMA PrepareFailsStep ==
  ASSUME IntakeInv, NEW panics \in BOOLEAN, PrepareFails(panics)
  PROVE  IntakeInv'
<1> USE DEF IntakeInv
<1> DEFINE j == worker.job
<1>0. /\ worker.pc = "preparing"
      /\ status' = Moved({j}, "rejected") /\ Release({j})
      /\ unadmitted' = unadmitted - 1
      /\ UNCHANGED <<bytes, receipt, accepting, nextReceipt, processed, queue,
                     drainage, waiter, ending>>
  BY DEF PrepareFails, AfterFailure
<1>1. j \in Clients /\ status[j] = "preparing" /\ j \in Held /\ unadmitted - 1 \in Nat
  BY <1>0, PreparingJob
<1>2. PICK b \in BOOLEAN :
        worker' = [worker EXCEPT !.pc = "record", !.panicked = panics, !.last = b]
  BY Zenon DEF PrepareFails
<1>3. /\ worker' \in [pc: {"idle", "preparing", "record", "stopped"},
                      job: Clients \cup {Nobody}, last: BOOLEAN, panicked: BOOLEAN]
      /\ worker'.pc = "record" /\ worker'.job = j
  BY <1>2 DEF TypeOK
<1>4. /\ status' \in [Clients -> Retained \cup Gone] /\ Held' = Held \ {j}
      /\ \A p : p # "rejected" => At(p)' = At(p) \ {j}
      /\ \A d \in Clients : status'[d] = IF d \in {j} THEN "rejected" ELSE status[d]
  <2>1. "rejected" \in Retained \cup Gone /\ "rejected" \notin Retained
    BY DEF Retained, Gone
  <2>2. {j} \in SUBSET Clients /\ status \in [Clients -> Retained \cup Gone]
    BY <1>1 DEF TypeOK
  <2> HIDE DEF j
  <2> QED BY <1>0, <2>1, <2>2, MovedAt
<1>5. QuotaKept' /\ quota' \in [requests: Nat, bytes: Nat]
  BY <1>0, <1>1, <1>4, QuotaReleased
<1>6. TypeOK'
  BY <1>0, <1>1, <1>3, <1>4, <1>5 DEF TypeOK, drainage, ending
<1>7. Placed'
  <2>1. /\ At("queued")' = At("queued") /\ At("executing")' = At("executing")
        /\ At("sequenced")' = At("sequenced")
    BY <1>1, <1>4 DEF At
  <2>2. \A d \in Clients :
          status'[d] = "preparing" <=> worker'.pc = "preparing" /\ worker'.job = d
    BY <1>0, <1>3, <1>4 DEF Placed
  <2> QED BY <1>0, <1>1, <1>3, <2>1, <2>2 DEF Placed, drainage
<1>8. GateCounts' /\ Numbered'
  BY <1>0, <1>3, <1>4, JobLeaves
<1>9. WaitedFor'
  BY <1>0 DEF WaitedFor, ending
<1>10. Closing'
  BY <1>0, <1>4, ClosingKept DEF ending
<1> QED BY <1>5, <1>6, <1>7, <1>8, <1>9, <1>10

(* Notifications wake the requests and change nothing else of them.         *)
LEMMA NotifiedSame ==
  ASSUME TypeOK, waiter' = Notified
  PROVE  /\ waiter' \in [Waiters -> [pc: {"idle", "admission", "gate", "drain", "check", "done"},
                                     target: Nat, asleep: BOOLEAN]]
         /\ \A w \in Waiters : waiter'[w].pc = waiter[w].pc /\ waiter'[w].target = waiter[w].target
BY DEF TypeOK, Notified

(* Progress is recorded; after a panic the channel is dropped.              *)
LEMMA RecordStep ==
  ASSUME IntakeInv, Record
  PROVE  IntakeInv'
<1> USE DEF IntakeInv
<1> DEFINE j == worker.job
<1>0. /\ worker.pc = "record" /\ processed' = receipt[j] /\ waiter' = Notified
      /\ UNCHANGED <<bytes, receipt, nextReceipt, unadmitted, sequencer, exec,
                     wedged, counted, life>>
      /\ health' \in HealthStates
  <2>1. \/ health' = health
        \/ health' = NoHealth
    BY DEF Record, ShutDown
  <2> QED BY <2>1, NoHealthType DEF Record, TypeOK, HealthStates
<1>1. /\ j \in Clients /\ j \notin Awaited /\ processed < receipt[j] /\ receipt[j] \in Nat
      /\ receipt[j] <= nextReceipt /\ \A d \in Awaited : receipt[j] < receipt[d]
      /\ processed \in Nat /\ At("preparing") = {}
  BY <1>0 DEF Placed, Numbered, TypeOK, At
<1>2. drains' \in Nat
  BY DEF Record, TypeOK
<1>3. /\ worker' \in [pc: {"idle", "preparing", "record", "stopped"},
                      job: Clients \cup {Nobody}, last: BOOLEAN, panicked: BOOLEAN]
      /\ worker'.pc \in {"idle", "stopped"}
  <2>1. PICK p \in {"idle", "stopped"} :
          worker' = [worker EXCEPT !.pc = p, !.job = Nobody, !.last = FALSE]
    BY DEF Record
  <2> QED BY <2>1 DEF TypeOK
<1>4. /\ waiter' \in [Waiters -> [pc: {"idle", "admission", "gate", "drain", "check", "done"},
                                  target: Nat, asleep: BOOLEAN]]
      /\ \A w \in Waiters : waiter'[w].pc = waiter[w].pc /\ waiter'[w].target = waiter[w].target
  BY <1>0, NotifiedSame
<1>5. Stop \in Waiters /\ Syncs \subseteq Waiters
  BY DEF Waiters
<1>6. /\ status' \in [Clients -> Retained \cup Gone]
      /\ At("accepting")' = At("accepting") /\ At("sequenced")' = At("sequenced")
      /\ At("executing")' = At("executing") /\ At("preparing")' = At("preparing")
      /\ Lists(queue', At("queued")') /\ Grows(queue', receipt) /\ Len(queue') <= Len(queue)
      /\ Len(queue') \in Nat
      /\ Awaited' \subseteq Awaited /\ Held' \subseteq Held
      /\ \A d \in Clients : status'[d] \notin {"idle", "reserved", "refused"}
                              <=> status[d] \notin {"idle", "reserved", "refused"}
      /\ QuotaKept' /\ quota' \in [requests: Nat, bytes: Nat]
      /\ accepting' \in BOOLEAN /\ shutting' \in BOOLEAN
      /\ accepting' => accepting
      /\ shutting => shutting'
      /\ shutting' => shutting \/ ~accepting'
  <2>1. CASE worker.panicked
    <3> DEFINE S == ToSet(queue)
    <3>1. /\ shutting' = TRUE /\ accepting' = FALSE
          /\ status' = Moved(S, "lost") /\ Release(S) /\ queue' = <<>>
      BY <2>1 DEF Record, ShutDown
    <3>2. S = At("queued")
      BY ListsToSet DEF Placed
    <3>3. S \in SUBSET Clients /\ S \in SUBSET Held /\ \A d \in S : status[d] = "queued"
      BY <3>2 DEF At, Held, Retained
    <3>4. /\ status' \in [Clients -> Retained \cup Gone] /\ Held' = Held \ S
          /\ \A p : p # "lost" => At(p)' = At(p) \ S
          /\ \A d \in Clients : status'[d] = IF d \in S THEN "lost" ELSE status[d]
      <4>1. "lost" \in Retained \cup Gone /\ "lost" \notin Retained
        BY DEF Retained, Gone
      <4>2. status \in [Clients -> Retained \cup Gone]
        BY DEF TypeOK
      <4> HIDE DEF S
      <4> QED BY <3>1, <3>3, <4>1, <4>2, MovedAt
    <3>5. QuotaKept' /\ quota' \in [requests: Nat, bytes: Nat]
      BY <1>0, <3>1, <3>3, <3>4, QuotaReleased
    <3>6. Lists(queue', At("queued")')
      <4>1. At("queued")' = {}
        BY <3>2, <3>4
      <4> QED BY <3>1, <4>1, ListsEmpty, Zenon
    <3>7. Grows(queue', receipt) /\ Len(queue') = 0 /\ Len(queue) \in Nat
      BY <3>1 DEF Grows, TypeOK
    <3>8. /\ At("accepting")' = At("accepting") /\ At("sequenced")' = At("sequenced")
          /\ At("executing")' = At("executing") /\ At("preparing")' = At("preparing")
      BY <3>3, <3>4 DEF At
    <3>9. /\ Awaited' \subseteq Awaited
          /\ \A d \in Clients : status'[d] \notin {"idle", "reserved", "refused"}
                                  <=> status[d] \notin {"idle", "reserved", "refused"}
      BY <3>3, <3>4 DEF Awaited
    <3>10. /\ accepting' \in BOOLEAN /\ shutting' \in BOOLEAN /\ ~accepting' /\ shutting'
           /\ Held' \subseteq Held
      BY <3>1, <3>4
    <3>11. Len(queue') \in Nat /\ Len(queue') <= Len(queue)
      BY <3>7
    <3> HIDE DEF S
    <3> QED BY <3>4, <3>5, <3>6, <3>7, <3>8, <3>9, <3>10, <3>11, Zenon
  <2>2. CASE ~worker.panicked
    <3>1. UNCHANGED <<shutting, accepting, status, quota, queue>>
      BY <2>2 DEF Record
    <3>2. Held' = Held /\ Awaited' = Awaited /\ \A p : At(p)' = At(p)
      BY <3>1 DEF Held, Awaited, At
    <3>3. QuotaKept'
      BY <1>0, <3>1, <3>2, QuotaSame
    <3>4. Len(queue) \in Nat
      BY DEF TypeOK
    <3> QED BY <3>1, <3>2, <3>3, <3>4 DEF TypeOK, Placed, Numbered
  <2> QED BY <2>1, <2>2
<1>7. queue' \in Seq(Clients)
  BY <1>6 DEF Lists
<1>8. TypeOK'
  BY <1>0, <1>1, <1>2, <1>3, <1>4, <1>6, <1>7 DEF TypeOK, HealthStates
<1>9. Placed'
  <2>1. \A d \in Clients :
          status'[d] = "preparing" <=> worker'.pc = "preparing" /\ worker'.job = d
    BY <1>1, <1>3, <1>6 DEF At
  <2> QED BY <1>0, <1>3, <1>6, <2>1 DEF Placed
<1>10. GateCounts'
  <2>1. unadmitted >= Len(queue) /\ Len(queue) \in Nat /\ unadmitted \in Nat
    BY <1>0 DEF GateCounts, Preparing, TypeOK
  <2> QED BY <1>0, <1>3, <1>6, <2>1 DEF GateCounts, Preparing
<1>11. Numbered'
  <2>1. \A d \in Clients : Accepted(d)' <=> status'[d] \notin {"idle", "reserved", "refused"}
    BY <1>0, <1>6 DEF Numbered, Accepted
  <2> QED BY <1>0, <1>1, <1>3, <1>6, <2>1 DEF Numbered
<1>12. WaitedFor'
  <2>1. processed' \in Nat /\ processed <= processed'
    BY <1>0, <1>1
  <2> QED BY <1>1, <1>4, <1>5, <1>6, <2>1, WaitedForKept DEF TypeOK
<1>13. Closing'
  BY <1>0, <1>4, <1>5, <1>6, ClosingKept
<1> QED BY <1>6, <1>8, <1>9, <1>10, <1>11, <1>12, <1>13

(* The worker stops with an empty channel.                                  *)
LEMMA WorkerStopsStep ==
  ASSUME IntakeInv, WorkerStops
  PROVE  IntakeInv'
<1> USE DEF IntakeInv
<1>0. /\ worker.pc = "idle" /\ worker' = [worker EXCEPT !.pc = "stopped"]
      /\ UNCHANGED <<intake, unadmitted, processed, queue, drainage, waiter, ending>>
  BY DEF WorkerStops
<1>1. /\ worker' \in [pc: {"idle", "preparing", "record", "stopped"},
                      job: Clients \cup {Nobody}, last: BOOLEAN, panicked: BOOLEAN]
      /\ worker'.pc = "stopped"
  BY <1>0 DEF TypeOK
<1>2. TypeOK'
  BY <1>0, <1>1 DEF TypeOK, intake, drainage, ending
<1>3. Held' = Held /\ Awaited' = Awaited /\ \A p : At(p)' = At(p)
  BY <1>0 DEF Held, Awaited, At, intake
<1>4. Placed' /\ GateCounts'
  BY <1>0, <1>1, <1>3 DEF Placed, GateCounts, Preparing, intake, drainage
<1>5. Numbered'
  <2>1. \A d \in Clients : Accepted(d) <=> status'[d] \notin {"idle", "reserved", "refused"}
    BY <1>0 DEF Numbered, intake
  <2> QED BY <1>0, <1>1, <1>3, <2>1, NumberedKept DEF Numbered, intake
<1>6. WaitedFor' /\ QuotaKept'
  BY <1>0, <1>3, QuotaSame DEF WaitedFor, intake, ending
<1>7. Closing'
  BY <1>0, <1>3, ClosingKept DEF intake, ending
<1> QED BY <1>2, <1>4, <1>5, <1>6, <1>7

-----------------------------------------------------------------------------
(* The drains and the execution.                                            *)

(* A drain moves the sequencer's checkpoints into the batch of the lock's   *)
(* new holder, all of them or none.                                         *)
LEMMA DrainKeeps ==
  ASSUME IntakeInv, NEW holder \in Waiters \cup {Task}, Drain(holder)
  PROVE  /\ Placed' /\ GateCounts' /\ Numbered' /\ QuotaKept' /\ Held' = Held
         /\ status' \in [Clients -> Retained \cup Gone]
         /\ sequencer' \in Seq(Clients)
         /\ exec' \in [holder: Waiters \cup {Task, Nobody}, batch: Seq(Clients)]
<1> USE DEF IntakeInv
<1> DEFINE batch == IF unadmitted > 0 THEN <<>> ELSE sequencer
           S == ToSet(batch)
<1>0. /\ exec.holder = Nobody
      /\ exec' = [holder |-> holder, batch |-> batch]
      /\ sequencer' = IF unadmitted > 0 THEN sequencer ELSE <<>>
      /\ status' = Moved(S, "executing")
      /\ UNCHANGED <<bytes, receipt, quota, accepting, nextReceipt, admission, ending>>
  BY DEF Drain
<1>1. exec.batch = <<>> /\ At("executing") = {}
  <2>1. exec.batch = <<>>
    BY <1>0 DEF Placed
  <2>2. Lists(<<>>, At("executing"))
    BY <2>1 DEF Placed
  <2> QED BY <2>1, <2>2 DEF Lists
<1>2. /\ Lists(batch, S) /\ S \subseteq At("sequenced")
      /\ Lists(sequencer', At("sequenced") \ S)
  <2>1. CASE unadmitted > 0
    <3>1. batch = <<>> /\ sequencer' = sequencer
      BY <1>0, <2>1
    <3>2. Lists(batch, {})
      BY <3>1, ListsEmpty, Zenon
    <3>3. S = {}
      BY <3>2, ListsToSet
    <3>4. At("sequenced") \ S = At("sequenced")
      BY <3>3
    <3> HIDE DEF batch
    <3>5. Lists(batch, S) /\ S \subseteq At("sequenced")
      BY <3>2, <3>3
    <3>6. Lists(sequencer', At("sequenced") \ S)
      BY <3>1, <3>4, Zenon DEF Placed
    <3> QED BY <3>5, <3>6
  <2>2. CASE ~(unadmitted > 0)
    <3>1. batch = sequencer /\ sequencer' = <<>>
      BY <1>0, <2>2
    <3>2. Lists(sequencer, At("sequenced"))
      BY DEF Placed
    <3>3. S = At("sequenced")
      BY <3>1, <3>2, ListsToSet
    <3>4. At("sequenced") \ S = {}
      BY <3>3
    <3> HIDE DEF batch
    <3>5. Lists(batch, S)
      BY <3>1, <3>2, <3>3, Zenon
    <3>6. Lists(sequencer', At("sequenced") \ S)
      BY <3>1, <3>4, ListsEmpty, Zenon
    <3> QED BY <3>3, <3>5, <3>6
  <2> QED BY <2>1, <2>2
<1> HIDE DEF batch, S
<1>3. S \in SUBSET Clients /\ S \subseteq Held /\ \A d \in S : status[d] = "sequenced"
  BY <1>2 DEF At, Held, Retained
<1>4. /\ status' \in [Clients -> Retained \cup Gone] /\ Held' = Held \cup S
      /\ At("executing")' = At("executing") \cup S
      /\ \A p : p # "executing" => At(p)' = At(p) \ S
      /\ \A d \in Clients : status'[d] = IF d \in S THEN "executing" ELSE status[d]
  <2>1. "executing" \in Retained \cup Gone /\ "executing" \in Retained
    BY DEF Retained
  <2>2. status \in [Clients -> Retained \cup Gone] /\ status' = Moved(S, "executing")
    BY <1>0 DEF TypeOK
  <2> QED BY <1>3, <2>1, <2>2, MovedAt
<1>5. Held' = Held
  BY <1>3, <1>4
<1>6. QuotaKept'
  BY <1>0, <1>5, QuotaSame
<1>7. sequencer' \in Seq(Clients) /\ batch \in Seq(Clients)
  BY <1>2 DEF Lists
<1>8. exec' \in [holder: Waiters \cup {Task, Nobody}, batch: Seq(Clients)]
  BY <1>0, <1>7
<1>9. Placed'
  <2>1. At("queued")' = At("queued") /\ At("executing")' = S
    BY <1>1, <1>3, <1>4 DEF At
  <2>2. Lists(sequencer', At("sequenced")')
    BY <1>2, <1>4, Zenon
  <2>3. exec'.batch = batch /\ exec'.holder # Nobody
    BY <1>0, IntakeAssumption
  <2>4. Lists(exec'.batch, At("executing")')
    BY <1>2, <2>1, <2>3
  <2>5. \A d \in Clients : status'[d] = "preparing" <=> status[d] = "preparing"
    BY <1>3, <1>4
  <2> QED BY <1>0, <2>1, <2>2, <2>3, <2>4, <2>5 DEF Placed, admission
<1>10. GateCounts'
  BY <1>0 DEF GateCounts, Preparing, admission
<1>11. Numbered'
  <2>1. Awaited' = Awaited /\ At("accepting")' = At("accepting")
    BY <1>3, <1>4 DEF Awaited, At
  <2>2. \A d \in Clients : Accepted(d) <=> status'[d] \notin {"idle", "reserved", "refused"}
    BY <1>3, <1>4 DEF Numbered
  <2> QED BY <1>0, <2>1, <2>2, NumberedKept DEF Numbered, admission
<1> QED BY <1>4, <1>5, <1>6, <1>7, <1>8, <1>9, <1>10, <1>11

(* A scheduled drain.                                                       *)
LEMMA TaskDrainsStep ==
  ASSUME IntakeInv, TaskDrains
  PROVE  IntakeInv'
<1> USE DEF IntakeInv
<1>1. /\ Drain(Task) /\ drains' \in Nat
      /\ UNCHANGED <<bytes, receipt, quota, accepting, nextReceipt, admission, waiter, ending>>
  BY DEF TaskDrains, Drain, TypeOK
<1>2. /\ Placed' /\ GateCounts' /\ Numbered' /\ QuotaKept' /\ Held' = Held
      /\ status' \in [Clients -> Retained \cup Gone]
      /\ sequencer' \in Seq(Clients)
      /\ exec' \in [holder: Waiters \cup {Task, Nobody}, batch: Seq(Clients)]
  BY <1>1, DrainKeeps
<1>3. TypeOK'
  BY <1>1, <1>2 DEF TypeOK, admission, ending
<1>4. WaitedFor'
  BY <1>1 DEF WaitedFor, admission, ending
<1>5. Closing'
  BY <1>1, <1>2, ClosingKept DEF ending
<1> QED BY <1>2, <1>3, <1>4, <1>5

(* The first checkpoint of the batch is executed.                           *)
LEMMA ExecuteStep ==
  ASSUME IntakeInv, Execute
  PROVE  IntakeInv'
<1> USE DEF IntakeInv
<1> DEFINE h == Head(exec.batch)
<1>0. /\ exec.batch # <<>>
      /\ status' = Moved({h}, "executed") /\ Release({h})
      /\ exec' = [exec EXCEPT !.batch = Tail(exec.batch)]
      /\ UNCHANGED <<bytes, receipt, accepting, nextReceipt, admission, sequencer, drains,
                     waiter, ending>>
  BY DEF Execute
<1>1. h \in At("executing") /\ h \in Clients /\ Lists(Tail(exec.batch), At("executing") \ {h})
  BY <1>0, ListsTail DEF Placed
<1>2. status[h] = "executing" /\ {h} \in SUBSET Held /\ {h} \in SUBSET Clients
  BY <1>1 DEF At, Held, Retained
<1> HIDE DEF h
<1>3. /\ status' \in [Clients -> Retained \cup Gone] /\ Held' = Held \ {h}
      /\ \A p : p # "executed" => At(p)' = At(p) \ {h}
      /\ \A d \in Clients : status'[d] = IF d \in {h} THEN "executed" ELSE status[d]
  <2>1. "executed" \in Retained \cup Gone /\ "executed" \notin Retained
    BY DEF Retained, Gone
  <2>2. status \in [Clients -> Retained \cup Gone] /\ status' = Moved({h}, "executed")
    BY <1>0 DEF TypeOK
  <2> QED BY <1>2, <2>1, <2>2, MovedAt
<1>4. QuotaKept' /\ quota' \in [requests: Nat, bytes: Nat]
  BY <1>0, <1>2, <1>3, QuotaReleased
<1>5. /\ exec'.batch = Tail(exec.batch) /\ exec'.holder = exec.holder
      /\ exec' \in [holder: Waiters \cup {Task, Nobody}, batch: Seq(Clients)]
  <2>1. Tail(exec.batch) \in Seq(Clients)
    BY <1>1 DEF Lists
  <2> QED BY <1>0, <2>1 DEF TypeOK
<1>6. TypeOK'
  BY <1>0, <1>3, <1>4, <1>5 DEF TypeOK, admission, ending
<1>7. Placed'
  <2>1. At("queued")' = At("queued") /\ At("sequenced")' = At("sequenced")
    BY <1>2, <1>3 DEF At
  <2>2. Lists(exec'.batch, At("executing")')
    BY <1>1, <1>3, <1>5, Zenon
  <2>3. exec'.holder # Nobody
    BY <1>0, <1>5 DEF Placed
  <2>4. \A d \in Clients : status'[d] = "preparing" <=> status[d] = "preparing"
    BY <1>2, <1>3
  <2> QED BY <1>0, <2>1, <2>2, <2>3, <2>4 DEF Placed, admission
<1>8. GateCounts'
  BY <1>0 DEF GateCounts, Preparing, admission
<1>9. Numbered'
  <2>1. Awaited' = Awaited /\ At("accepting")' = At("accepting")
    BY <1>2, <1>3 DEF Awaited, At
  <2>2. \A d \in Clients : Accepted(d) <=> status'[d] \notin {"idle", "reserved", "refused"}
    BY <1>2, <1>3 DEF Numbered
  <2> QED BY <1>0, <2>1, <2>2, NumberedKept DEF Numbered, admission
<1>10. WaitedFor'
  BY <1>0 DEF WaitedFor, admission, ending
<1>11. Closing'
  BY <1>0, <1>3, ClosingKept DEF ending
<1> QED BY <1>4, <1>6, <1>7, <1>8, <1>9, <1>10, <1>11

(* The task's lock is released.                                             *)
LEMMA TaskEndsStep ==
  ASSUME IntakeInv, TaskEnds
  PROVE  IntakeInv'
<1> USE DEF IntakeInv
<1>1. /\ exec.batch = <<>> /\ exec' = [exec EXCEPT !.holder = Nobody]
      /\ UNCHANGED <<intake, admission, sequencer, drains, waiter, ending>>
  BY DEF TaskEnds
<1>2. /\ exec' \in [holder: Waiters \cup {Task, Nobody}, batch: Seq(Clients)]
      /\ exec'.batch = exec.batch
  BY <1>1 DEF TypeOK
<1>3. TypeOK'
  BY <1>1, <1>2 DEF TypeOK, intake, admission, ending
<1>4. Placed' /\ GateCounts' /\ Numbered' /\ QuotaKept' /\ Held' = Held
  BY <1>1, <1>2, Settled DEF intake
<1>5. WaitedFor'
  BY <1>1 DEF WaitedFor, admission, ending
<1>6. Closing'
  BY <1>1, <1>4, ClosingKept DEF intake, ending
<1> QED BY <1>3, <1>4, <1>5, <1>6

-----------------------------------------------------------------------------
(* The requests.                                                            *)

(* The stages of a request.                                                 *)
WaitPc == {"idle", "admission", "gate", "drain", "check", "done"}
WaiterState == [pc: WaitPc, target: Nat, asleep: BOOLEAN]

(* A request goes on to another stage, with or without a new target.        *)
LEMMA WaiterMoves ==
  ASSUME TypeOK, NEW w \in Waiters, NEW pc \in WaitPc, NEW n \in Nat, NEW b \in BOOLEAN,
         \/ waiter' = [waiter EXCEPT ![w].pc = pc, ![w].asleep = b]
         \/ waiter' = [waiter EXCEPT ![w].pc = pc, ![w].target = n]
  PROVE  /\ waiter' \in [Waiters -> WaiterState]
         /\ waiter'[w].pc = pc /\ waiter'[w].target \in {waiter[w].target, n}
         /\ \A v \in Waiters : v # w => waiter'[v] = waiter[v]
<1>1. waiter \in [Waiters -> WaiterState]
  BY DEF TypeOK, WaiterState, WaitPc
<1>2. CASE waiter' = [waiter EXCEPT ![w].pc = pc, ![w].asleep = b]
  BY <1>1, <1>2 DEF WaiterState
<1>3. CASE waiter' = [waiter EXCEPT ![w].pc = pc, ![w].target = n]
  BY <1>1, <1>3 DEF WaiterState
<1> QED BY <1>2, <1>3

(* sync.family reads the newest receipt number.                             *)
LEMMA StartSyncStep ==
  ASSUME IntakeInv, NEW s \in Syncs, StartSync(s)
  PROVE  IntakeInv'
<1> USE DEF IntakeInv
<1>1. /\ waiter' = [waiter EXCEPT ![s].pc = "admission", ![s].target = nextReceipt]
      /\ UNCHANGED <<intake, admission, drainage, ending>>
  BY DEF StartSync
<1>2. /\ waiter' \in [Waiters -> WaiterState] /\ waiter'[s].pc = "admission"
      /\ \A v \in Waiters : v # s => waiter'[v] = waiter[v]
  <2>1. "admission" \in WaitPc /\ s \in Waiters /\ nextReceipt \in Nat
    BY DEF WaitPc, Waiters, TypeOK
  <2> QED BY <1>1, <2>1, WaiterMoves
<1>3. waiter'[Stop] = waiter[Stop]
  BY <1>2, IntakeAssumption DEF Waiters
<1>4. TypeOK'
  BY <1>1, <1>2 DEF TypeOK, intake, admission, drainage, ending, WaiterState, WaitPc
<1>5. Placed' /\ GateCounts' /\ Numbered' /\ QuotaKept' /\ Held' = Held
  BY <1>1, Settled DEF intake, drainage, Placed
<1>6. WaitedFor'
  BY <1>1, <1>2 DEF WaitedFor, admission, ending, Waiters
<1>7. Closing'
  BY <1>1, <1>3, <1>5, ClosingKept DEF intake, ending
<1> QED BY <1>4, <1>5, <1>6, <1>7

(* Shutdown closes the acceptance gate.                                     *)
LEMMA StartStopStep ==
  ASSUME IntakeInv, StartStop
  PROVE  IntakeInv'
<1> USE DEF IntakeInv
<1>1. /\ waiter[Stop].pc = "idle" /\ accepting' = FALSE
      /\ waiter' = [waiter EXCEPT ![Stop].pc = "admission", ![Stop].target = nextReceipt]
      /\ UNCHANGED <<bytes, status, receipt, quota, nextReceipt, admission, drainage, ending>>
  BY DEF StartStop
<1>2. /\ waiter' \in [Waiters -> WaiterState] /\ waiter'[Stop].pc = "admission"
      /\ \A v \in Waiters : v # Stop => waiter'[v] = waiter[v]
  <2>1. "admission" \in WaitPc /\ Stop \in Waiters /\ nextReceipt \in Nat
    BY DEF WaitPc, Waiters, TypeOK
  <2> QED BY <1>1, <2>1, WaiterMoves
<1>3. TypeOK'
  BY <1>1, <1>2 DEF TypeOK, admission, drainage, ending, WaiterState, WaitPc
<1>4. Placed' /\ GateCounts' /\ Numbered' /\ QuotaKept' /\ Held' = Held
  BY <1>1, Settled DEF drainage, Placed
<1>5. WaitedFor'
  BY <1>1, <1>2, IntakeAssumption DEF WaitedFor, admission, ending, Waiters
<1>6. Closing'
  <2>1. \A c \in Held : Accepted(c)' <=> Accepted(c)
    BY <1>1 DEF Accepted
  <2> QED BY <1>1, <1>2, <1>4, <2>1 DEF Closing, ending
<1> QED BY <1>3, <1>4, <1>5, <1>6

(* A request checks what it waits for, sleeps, or gives up at shutdown.     *)
LEMMA WaitStep ==
  ASSUME IntakeInv, NEW w \in Waiters, CheckCondition(w) \/ WaitGivesUp(w)
  PROVE  IntakeInv'
<1> USE DEF IntakeInv
<1>1. UNCHANGED <<intake, admission, drainage, ending>>
  BY DEF CheckCondition, WaitGivesUp
<1>2. PICK pc \in {"admission", "gate", "drain"}, b \in BOOLEAN :
        /\ waiter' = [waiter EXCEPT ![w].pc = pc, ![w].asleep = b]
        /\ waiter[w].pc # "idle" \/ shutting
        /\ \/ shutting
           \/ waiter[w].pc = "admission" /\ pc = "gate" /\ processed >= waiter[w].target
           \/ waiter[w].pc = "gate" /\ pc \in {"gate", "drain"}
           \/ pc = "admission"
  <2>1. CASE CheckCondition(w) /\ Condition(w)
    <3>1. Goto(w, After(w)) /\ waiter[w].pc \in {"admission", "gate"}
      BY <2>1 DEF CheckCondition
    <3>2. CASE waiter[w].pc = "admission"
      BY <2>1, <3>1, <3>2 DEF Goto, After, Condition
    <3>3. CASE waiter[w].pc = "gate"
      BY <3>1, <3>3 DEF Goto, After
    <3> QED BY <3>1, <3>2, <3>3
  <2>2. CASE CheckCondition(w) /\ ~Condition(w)
    <3>1. waiter' = [waiter EXCEPT ![w].asleep = TRUE] /\ waiter[w].pc \in {"admission", "gate"}
      BY <2>2 DEF CheckCondition
    <3>2. waiter' = [waiter EXCEPT ![w].pc = waiter[w].pc, ![w].asleep = TRUE]
      BY <3>1 DEF TypeOK
    <3> QED BY <3>1, <3>2
  <2>3. CASE WaitGivesUp(w)
    BY <2>3 DEF WaitGivesUp, Goto, After
  <2> QED BY <2>1, <2>2, <2>3
<1>3. /\ waiter' \in [Waiters -> WaiterState] /\ waiter'[w].pc = pc
      /\ waiter'[w].target = waiter[w].target
      /\ \A v \in Waiters : v # w => waiter'[v] = waiter[v]
  <2>1. pc \in WaitPc /\ waiter[w].target \in Nat
    BY DEF WaitPc, TypeOK
  <2> QED BY <1>2, <2>1, WaiterMoves
<1>4. TypeOK'
  BY <1>1, <1>3 DEF TypeOK, intake, admission, drainage, ending, WaiterState, WaitPc
<1>5. Placed' /\ GateCounts' /\ Numbered' /\ QuotaKept' /\ Held' = Held
  BY <1>1, Settled DEF intake, drainage, Placed
<1>6. WaitedFor'
  <2> SUFFICES ASSUME NEW s \in Syncs,
                      waiter'[s].pc \in {"gate", "drain", "check", "done"}, ~shutting'
               PROVE  waiter'[s].target <= processed'
    BY DEF WaitedFor
  <2>1. s \in Waiters /\ ~shutting /\ processed' = processed
    BY <1>1 DEF Waiters, ending, admission
  <2>2. CASE s = w
    BY <1>2, <1>3, <2>1, <2>2 DEF WaitedFor, TypeOK
  <2>3. CASE s # w
    BY <1>3, <2>1, <2>3 DEF WaitedFor
  <2> QED BY <2>2, <2>3
<1>7. Closing'
  <2>1. Stop \in Waiters /\ (waiter'[Stop].pc = "done" => waiter[Stop].pc = "done")
    BY <1>2, <1>3 DEF Waiters
  <2>2. waiter'[Stop].pc # "idle" => waiter[Stop].pc # "idle" \/ shutting
    BY <1>2, <1>3, <2>1
  <2>3. \A c \in Held : Accepted(c)' <=> Accepted(c)
    BY <1>1 DEF Accepted, intake
  <2> QED BY <1>1, <1>5, <2>1, <2>2, <2>3 DEF Closing, intake, ending
<1> QED BY <1>4, <1>5, <1>6, <1>7

(* A request drains.                                                        *)
LEMMA WaiterDrainsStep ==
  ASSUME IntakeInv, NEW w \in Waiters, WaiterDrains(w)
  PROVE  IntakeInv'
<1> USE DEF IntakeInv
<1>1. /\ Drain(w) /\ waiter[w].pc = "drain"
      /\ waiter' = [waiter EXCEPT ![w].pc = "check", ![w].asleep = FALSE]
      /\ UNCHANGED <<bytes, receipt, quota, accepting, nextReceipt, admission, drains, ending>>
  BY DEF WaiterDrains, Drain, Goto
<1>2. /\ waiter' \in [Waiters -> WaiterState] /\ waiter'[w].pc = "check"
      /\ waiter'[w].target = waiter[w].target
      /\ \A v \in Waiters : v # w => waiter'[v] = waiter[v]
  <2>1. "check" \in WaitPc /\ waiter[w].target \in Nat
    BY DEF WaitPc, TypeOK
  <2> QED BY <1>1, <2>1, WaiterMoves
<1>3. /\ Placed' /\ GateCounts' /\ Numbered' /\ QuotaKept' /\ Held' = Held
      /\ status' \in [Clients -> Retained \cup Gone]
      /\ sequencer' \in Seq(Clients)
      /\ exec' \in [holder: Waiters \cup {Task, Nobody}, batch: Seq(Clients)]
  BY <1>1, DrainKeeps
<1>4. TypeOK'
  BY <1>1, <1>2, <1>3 DEF TypeOK, admission, ending, WaiterState, WaitPc
<1>5. WaitedFor'
  <2>1. \A s \in Syncs : waiter'[s].pc \in {"gate", "drain", "check", "done"} =>
           /\ waiter[s].pc \in {"gate", "drain", "check", "done"}
           /\ waiter'[s].target = waiter[s].target
    BY <1>1, <1>2 DEF Waiters
  <2>2. processed \in Nat /\ processed' = processed /\ processed <= processed' /\ shutting' = shutting
    BY <1>1 DEF admission, ending, TypeOK
  <2> QED BY <2>1, <2>2, WaitedForKept DEF TypeOK
<1>6. Closing'
  <2>1. /\ waiter'[Stop].pc # "idle" => waiter[Stop].pc # "idle"
        /\ waiter'[Stop].pc = "done" => waiter[Stop].pc = "done"
    BY <1>1, <1>2 DEF Waiters
  <2> QED BY <1>1, <1>3, <2>1, ClosingKept DEF ending
<1> QED BY <1>3, <1>4, <1>5, <1>6

(* A request is finished or goes round again: Shutdown finishes only when   *)
(* nothing is held.                                                         *)
LEMMA CheckFinishedStep ==
  ASSUME IntakeInv, NEW w \in Waiters, CheckFinished(w)
  PROVE  IntakeInv'
<1> USE DEF IntakeInv
<1>1. /\ waiter[w].pc = "check" /\ exec.batch = <<>>
      /\ exec' = [exec EXCEPT !.holder = Nobody]
      /\ UNCHANGED <<intake, admission, sequencer, drains, ending>>
  BY DEF CheckFinished
<1>2. PICK pc \in {"done", "gate", "admission"}, n \in Nat :
        /\ \/ waiter' = [waiter EXCEPT ![w].pc = pc, ![w].asleep = FALSE]
           \/ waiter' = [waiter EXCEPT ![w].pc = pc, ![w].target = n]
        /\ pc = "done" => Finished(w)
        /\ w # Stop => n = waiter[w].target
  <2>1. CASE Finished(w)
    BY <2>1 DEF CheckFinished, Goto, TypeOK
  <2>2. CASE ~Finished(w)
    <3> DEFINE q == IF w = Stop THEN "admission" ELSE "gate"
               m == IF w = Stop THEN nextReceipt ELSE waiter[w].target
    <3>1. waiter' = [waiter EXCEPT ![w].pc = q, ![w].target = m]
      BY <2>2 DEF CheckFinished
    <3>2. m \in Nat /\ q \in {"gate", "admission"} /\ (w # Stop => m = waiter[w].target)
      BY DEF TypeOK
    <3> HIDE DEF q, m
    <3> QED BY <3>1, <3>2
  <2> QED BY <2>1, <2>2
<1>3. /\ waiter' \in [Waiters -> WaiterState] /\ waiter'[w].pc = pc
      /\ waiter'[w].target \in {waiter[w].target, n}
      /\ \A v \in Waiters : v # w => waiter'[v] = waiter[v]
  <2>1. pc \in WaitPc
    BY DEF WaitPc
  <2>2. CASE waiter' = [waiter EXCEPT ![w].pc = pc, ![w].asleep = FALSE]
    BY <2>1, <2>2, WaiterMoves
  <2>3. CASE waiter' = [waiter EXCEPT ![w].pc = pc, ![w].target = n]
    BY <2>1, <2>3, WaiterMoves
  <2> QED BY <1>2, <2>2, <2>3
<1>4. /\ exec' \in [holder: Waiters \cup {Task, Nobody}, batch: Seq(Clients)]
      /\ exec'.batch = exec.batch
  BY <1>1 DEF TypeOK
<1>5. TypeOK'
  BY <1>1, <1>3, <1>4 DEF TypeOK, intake, admission, ending, WaiterState, WaitPc
<1>6. Placed' /\ GateCounts' /\ Numbered' /\ QuotaKept' /\ Held' = Held
  BY <1>1, <1>4, Settled DEF intake
<1>7. WaitedFor'
  <2>1. \A s \in Syncs : waiter'[s].pc \in {"gate", "drain", "check", "done"} =>
           /\ waiter[s].pc \in {"gate", "drain", "check", "done"}
           /\ waiter'[s].target = waiter[s].target
    BY <1>1, <1>2, <1>3, IntakeAssumption DEF Waiters
  <2> QED BY <1>1, <2>1, WaitedForKept DEF admission, ending, TypeOK
<1>8. Closing'
  <2>1. waiter'[Stop].pc # "idle" => waiter[Stop].pc # "idle"
    BY <1>1, <1>2, <1>3 DEF Waiters
  <2>2. waiter'[Stop].pc = "done" => Held = {}
    <3>1. CASE w = Stop /\ pc = "done"
      <4>1. Cardinality(Held) = 0
        BY <1>2, <3>1 DEF Finished, QuotaKept
      <4>2. IsFiniteSet(Held)
        BY IntakeAssumption, FS_Subset DEF Held
      <4> QED BY <4>1, <4>2, FS_EmptySet
    <3>2. CASE ~(w = Stop /\ pc = "done")
      BY <1>3, <3>2 DEF Closing, Waiters
    <3> QED BY <3>1, <3>2
  <2>3. \A c \in Held : Accepted(c)' <=> Accepted(c)
    BY <1>1 DEF Accepted, intake
  <2> QED BY <1>1, <1>6, <2>1, <2>2, <2>3 DEF Closing, intake, ending
<1> QED BY <1>5, <1>6, <1>7, <1>8

-----------------------------------------------------------------------------
(* The end of the process.                                                  *)

(* What every step of the process's end leaves alone.                       *)
LEMMA EndingKeeps ==
  ASSUME TypeOK, Placed, GateCounts, Numbered, QuotaKept, WaitedFor,
         UNCHANGED <<bytes, status, receipt, quota, nextReceipt, admission, drainage, waiter>>,
         shutting => shutting'
  PROVE  Placed' /\ GateCounts' /\ Numbered' /\ QuotaKept' /\ WaitedFor' /\ Held' = Held
<1>1. Placed' /\ GateCounts' /\ Numbered' /\ QuotaKept' /\ Held' = Held
  BY Settled DEF drainage, Placed
<1>2. WaitedFor'
  BY DEF WaitedFor, admission
<1> QED BY <1>1, <1>2

(* Shutdown begins, the health loop turns, or the runtime hangs.            *)
LEMMA ShutDownStep ==
  ASSUME IntakeInv,
         \/ StopTakesEffect \/ InternalShutdown \/ Wedge \/ TraceQueued \/ TraceProcessed
         \/ \E probesOk \in BOOLEAN : HealthCheck(probesOk)
  PROVE  IntakeInv'
<1> USE DEF IntakeInv
<1>1. /\ UNCHANGED <<bytes, status, receipt, quota, nextReceipt, admission, drainage, waiter,
                     counted, life>>
      /\ wedged' \in BOOLEAN /\ health' \in HealthStates
      /\ accepting' \in BOOLEAN /\ shutting' \in BOOLEAN
      /\ accepting' => accepting
      /\ shutting => shutting'
      /\ shutting' => shutting \/ ~accepting'
  <2>0. health \in HealthStates
    BY DEF TypeOK, HealthStates
  <2>1. CASE StopTakesEffect
    BY <2>1, NoHealthType DEF StopTakesEffect, ShutDown, TypeOK
  <2>2. CASE InternalShutdown
    BY <2>2, NoHealthType DEF InternalShutdown, ShutDown, TypeOK
  <2>3. CASE Wedge
    BY <2>0, <2>3 DEF Wedge, intake, TypeOK
  <2>4. CASE TraceQueued
    <3>1. health' \in HealthStates
      BY <2>0, <2>4 DEF TraceQueued, HealthStates
    <3> QED BY <2>4, <3>1 DEF TraceQueued, intake, TypeOK
  <2>5. CASE TraceProcessed
    <3>1. health' \in HealthStates
      <4>1. PICK more \in BOOLEAN :
              health' = [health EXCEPT !.queued = more, !.stalled = -1]
        BY <2>5 DEF TraceProcessed
      <4>2. -1 \in -1 .. MaxStalls
        BY IntakeAssumption
      <4> QED BY <2>0, <4>1, <4>2 DEF HealthStates
    <3> QED BY <2>5, <3>1 DEF TraceProcessed, intake, TypeOK
  <2>6. CASE \E probesOk \in BOOLEAN : HealthCheck(probesOk)
    <3>1. Stalled \in -1 .. MaxStalls /\ Deferred \in 0 .. MaxDeferrals
      BY <2>0, IntakeAssumption DEF Stalled, Deferred, HealthStates
    <3>2. PICK probesOk \in BOOLEAN : HealthCheck(probesOk)
      BY <2>6
    <3>3. CASE ShutDown
      BY <3>2, <3>3, NoHealthType DEF HealthCheck, ShutDown, TypeOK
    <3>4. CASE /\ \E d \in {0, Deferred} :
                    health' = [health EXCEPT !.stalled = Stalled, !.deferrals = d]
               /\ UNCHANGED <<shutting, accepting>>
      <4>1. health' \in HealthStates
        <5>1. PICK d \in {0, Deferred} :
                health' = [health EXCEPT !.stalled = Stalled, !.deferrals = d]
          BY <3>4
        <5>2. d \in 0 .. MaxDeferrals
          BY <3>1, IntakeAssumption
        <5> QED BY <2>0, <3>1, <5>1, <5>2 DEF HealthStates
      <4> QED BY <3>2, <3>4, <4>1 DEF HealthCheck, TypeOK
    <3> QED BY <3>2, <3>3, <3>4 DEF HealthCheck
  <2> QED BY <2>1, <2>2, <2>3, <2>4, <2>5, <2>6
<1>2. TypeOK'
  BY <1>1 DEF TypeOK, HealthStates, admission, drainage
<1>3. Placed' /\ GateCounts' /\ Numbered' /\ QuotaKept' /\ WaitedFor' /\ Held' = Held
  BY <1>1, EndingKeeps
<1>4. Closing'
  BY <1>1, <1>3, ClosingKept
<1> QED BY <1>2, <1>3, <1>4

(* The losses are counted, and the process exits.                           *)
LEMMA ExitStep ==
  ASSUME IntakeInv, CountAbandoned \/ Exit
  PROVE  IntakeInv'
<1> USE DEF IntakeInv
<1>1. UNCHANGED <<intake, admission, drainage, waiter, shutting, wedged, health>>
  BY DEF CountAbandoned, Exit
<1>2. \/ life = "up" /\ shutting /\ life' = "counted" /\ counted' = Held
      \/ life = "counted" /\ life' = "exited" /\ counted' = counted
  BY DEF CountAbandoned, Exit, Held
<1>3. TypeOK'
  <2>1. counted' \subseteq Clients /\ life' \in {"up", "counted", "exited"}
    BY <1>2 DEF TypeOK, Held
  <2> QED BY <1>1, <2>1 DEF TypeOK, intake, admission, drainage
<1>4. Placed' /\ GateCounts' /\ Numbered' /\ QuotaKept' /\ WaitedFor' /\ Held' = Held
  BY <1>1, EndingKeeps DEF intake
<1>5. Closing'
  <2>1. \A c \in Held : Accepted(c)' <=> Accepted(c)
    BY <1>1 DEF Accepted, intake
  <2> QED BY <1>1, <1>2, <1>4, <2>1 DEF Closing, intake
<1> QED BY <1>3, <1>4, <1>5

-----------------------------------------------------------------------------
(* The invariant.                                                           *)

(* It holds at first.                                                       *)
LEMMA IntakeInit == Init => IntakeInv
<1> SUFFICES ASSUME Init PROVE IntakeInv
  OBVIOUS
<1>1. TypeOK
  <2>1. /\ status \in [Clients -> Retained \cup Gone] /\ receipt \in [Clients -> Nat]
        /\ waiter \in [Waiters -> [pc: {"idle", "admission", "gate", "drain", "check", "done"},
                                   target: Nat, asleep: BOOLEAN]]
    BY DEF Init, Gone
  <2>2. /\ worker \in [pc: {"idle", "preparing", "record", "stopped"},
                       job: Clients \cup {Nobody}, last: BOOLEAN, panicked: BOOLEAN]
        /\ exec \in [holder: Waiters \cup {Task, Nobody}, batch: Seq(Clients)]
        /\ quota \in [requests: Nat, bytes: Nat]
    BY DEF Init
  <2>3. health \in HealthStates
    BY NoHealthType DEF Init
  <2> QED BY <2>1, <2>2, <2>3 DEF Init, TypeOK, HealthStates
<1>2. Held = {} /\ Awaited = {} /\ At("queued") = {} /\ At("sequenced") = {}
      /\ At("executing") = {} /\ At("accepting") = {}
  BY DEF Init, Held, Awaited, At, Retained
<1>3. Placed
  BY <1>2, ListsEmpty DEF Init, Placed
<1>4. GateCounts
  BY DEF Init, GateCounts, Preparing
<1>5. Numbered
  <2>1. Grows(queue, receipt)
    BY DEF Init, Grows
  <2> QED BY <1>2, <2>1 DEF Init, Numbered, Accepted
<1>6. WaitedFor
  BY DEF Init, WaitedFor, Waiters
<1>7. QuotaKept
  <2>1. Cardinality(Held) = 0 /\ TotalBytes(Held) = 0
    BY <1>2, FS_EmptySet, BytesNone, Zenon
  <2> QED BY <2>1, IntakeAssumption DEF Init, QuotaKept
<1>8. Closing
  BY <1>2 DEF Init, Closing, Waiters
<1> QED BY <1>1, <1>3, <1>4, <1>5, <1>6, <1>7, <1>8 DEF IntakeInv

(* Every step keeps it.                                                     *)
LEMMA IntakeStep == IntakeInv /\ [Next]_vars => IntakeInv'
<1> SUFFICES ASSUME IntakeInv, [Next]_vars PROVE IntakeInv'
  OBVIOUS
<1>1. ASSUME NEW c \in Clients, Reserve(c) PROVE IntakeInv'
  BY <1>1, ReserveStep
<1>2. ASSUME NEW c \in Clients, BodyFails(c) PROVE IntakeInv'
  BY <1>2, ReservedEnds DEF BodyFails, ending
<1>3. ASSUME NEW c \in Clients, ChannelClosed(c) PROVE IntakeInv'
  BY <1>3, ReservedEnds DEF ChannelClosed
<1>4. ASSUME NEW c \in Clients, BeginAccept(c) PROVE IntakeInv'
  BY <1>4, BeginAcceptStep
<1>5. ASSUME NEW c \in Clients, EndAccept(c) PROVE IntakeInv'
  BY <1>5, EndAcceptStep
<1>6. CASE TakeReceipt \/ Admit \/ Record \/ WorkerStops
  BY <1>6, TakeReceiptStep, AdmitStep, RecordStep, WorkerStopsStep
<1>7. ASSUME NEW panics \in BOOLEAN, PrepareFails(panics) PROVE IntakeInv'
  BY <1>7, PrepareFailsStep
<1>8. CASE TaskDrains \/ Execute \/ TaskEnds
  BY <1>8, TaskDrainsStep, ExecuteStep, TaskEndsStep
<1>9. ASSUME NEW s \in Syncs, StartSync(s) PROVE IntakeInv'
  BY <1>9, StartSyncStep
<1>10. CASE StartStop
  BY <1>10, StartStopStep
<1>11. ASSUME NEW w \in Waiters, WaiterStep(w) PROVE IntakeInv'
  BY <1>11, WaitStep, WaiterDrainsStep, CheckFinishedStep DEF WaiterStep
<1>12. CASE \/ StopTakesEffect \/ InternalShutdown \/ Wedge \/ TraceQueued
            \/ TraceProcessed \/ \E probesOk \in BOOLEAN : HealthCheck(probesOk)
  BY <1>12, ShutDownStep
<1>13. CASE CountAbandoned \/ Exit
  BY <1>13, ExitStep
<1>14. CASE UNCHANGED vars
  <2>1. UNCHANGED <<intake, admission, drainage, waiter, ending>>
    BY <1>14 DEF vars
  <2>2. TypeOK'
    BY <2>1 DEF IntakeInv, TypeOK, intake, admission, drainage, ending
  <2>3. Placed' /\ GateCounts' /\ Numbered' /\ QuotaKept' /\ WaitedFor' /\ Held' = Held
    BY <2>1, EndingKeeps DEF IntakeInv, intake, ending
  <2>4. Closing'
    BY <2>1, <2>3, ClosingKept DEF IntakeInv, intake, ending
  <2> QED BY <2>2, <2>3, <2>4 DEF IntakeInv
<1> QED BY <1>1, <1>2, <1>3, <1>4, <1>5, <1>6, <1>7, <1>8, <1>9, <1>10, <1>11, <1>12,
           <1>13, <1>14
        DEF Next, ConnectionStep, WorkerStep, ExecStep

(* All the intake's state keeps its types, in particular the counters of    *)
(* the quota and of the gate never go below zero (daemon.rs subtracts from  *)
(* unsigned integers).                                                      *)
THEOREM IntakeTypeCorrect == Spec => []TypeOK
<1>1. IntakeInv => TypeOK
  BY DEF IntakeInv
<1> QED BY <1>1, IntakeInit, IntakeStep, PTL DEF Spec

(* A connection that holds a reservation finds room in the channel: the     *)
(* queued receipts and the one being accepted have reservations of their    *)
(* own, and there are at most RequestLimit.                                 *)
LEMMA RoomForReserved ==
  ASSUME IntakeInv, NEW c \in Clients, status[c] = "reserved"
  PROVE  ~QueueFull
<1> USE DEF IntakeInv
<1> DEFINE Q == At("queued")
           A == At("accepting")
<1>1. /\ Q \subseteq Held /\ A \subseteq Held /\ c \in Held /\ c \notin Q \cup A
      /\ Q \cap A = {} /\ Held \subseteq Clients
  BY DEF At, Held, Retained
<1>2. IsFiniteSet(Held)
  BY <1>1, IntakeAssumption, FS_Subset
<1>3. IsFiniteSet(Q) /\ IsFiniteSet(A) /\ IsFiniteSet(Q \cup A)
  BY <1>1, <1>2, FS_Subset
<1>4. Cardinality(Q) \in Nat /\ Cardinality(A) \in Nat /\ Cardinality(Held) \in Nat
  BY <1>2, <1>3, FS_CardinalityType
<1>5. Cardinality(Q \cup A) = Cardinality(Q) + Cardinality(A)
  <2>1. Cardinality(Q \cap A) = 0
    BY <1>1, FS_EmptySet, Zenon
  <2>2. Cardinality(Q \cup A) = Cardinality(Q) + Cardinality(A) - Cardinality(Q \cap A)
    BY <1>3, FS_Union
  <2> HIDE DEF Q, A
  <2> QED BY <1>4, <2>1, <2>2
<1>6. Cardinality((Q \cup A) \cup {c}) = Cardinality(Q \cup A) + 1
  BY <1>1, <1>3, FS_AddElement
<1>7. Cardinality((Q \cup A) \cup {c}) <= Cardinality(Held)
  <2>1. (Q \cup A) \cup {c} \in SUBSET Held
    BY <1>1
  <2> QED BY <1>2, <2>1, FS_Subset
<1>8. Len(queue) = Cardinality(Q)
  BY ListsLength DEF Placed
<1>9. Cardinality(Held) <= RequestLimit /\ RequestLimit \in Nat
  BY IntakeAssumption DEF QuotaKept
<1>10. Cardinality({d \in Clients : status[d] = "accepting"}) = Cardinality(A)
  BY DEF At
<1> HIDE DEF Q, A
<1> QED BY <1>4, <1>5, <1>6, <1>7, <1>8, <1>9, <1>10 DEF QueueFull

(* The quota is exact, within its limits, and the channel has room for all  *)
(* who hold a reservation.                                                  *)
THEOREM QuotaIsExact == Spec => []QuotaExact
<1>1. IntakeInv => QuotaExact
  BY RoomForReserved DEF IntakeInv, QuotaKept, QuotaExact
<1> QED BY <1>1, IntakeInit, IntakeStep, PTL DEF Spec

(* sync.family returns only when what was accepted before it is admitted.   *)
THEOREM SyncsAdmit == Spec => []SyncAdmits
<1>1. IntakeInv => SyncAdmits
  <2> SUFFICES ASSUME IntakeInv, NEW s \in Syncs, waiter[s].pc = "done", ~shutting,
                      NEW c \in Clients, Accepted(c), receipt[c] <= waiter[s].target
               PROVE  Admitted(c)
    BY DEF SyncAdmits
  <2>1. waiter[s].target <= processed
    BY DEF IntakeInv, WaitedFor
  <2>2. waiter[s].target \in Nat /\ processed \in Nat /\ receipt[c] \in Nat
    BY DEF IntakeInv, TypeOK, Waiters
  <2>3. c \notin Awaited
    BY <2>1, <2>2 DEF IntakeInv, Numbered
  <2>4. status[c] \notin {"idle", "reserved", "refused"} /\ status[c] \in Retained \cup Gone
    BY DEF IntakeInv, Numbered, TypeOK
  <2> QED BY <2>3, <2>4 DEF Admitted, Awaited, Retained, Gone
<1> QED BY <1>1, IntakeInit, IntakeStep, PTL DEF Spec

(* An answered Shutdown leaves no accepted checkpoint behind.               *)
THEOREM StopsLoseNothing == Spec => []StopLosesNothing
<1>1. IntakeInv => StopLosesNothing
  <2> SUFFICES ASSUME IntakeInv, waiter[Stop].pc = "done", NEW c \in Clients, Accepted(c)
               PROVE  status[c] \in {"executed", "rejected", "lost"}
    BY DEF StopLosesNothing
  <2>1. status[c] \notin Retained
    BY DEF IntakeInv, Closing, Held
  <2>2. status[c] \notin {"idle", "reserved", "refused"} /\ status[c] \in Retained \cup Gone
    BY DEF IntakeInv, Numbered, TypeOK
  <2> QED BY <2>1, <2>2 DEF Gone
<1> QED BY <1>1, IntakeInit, IntakeStep, PTL DEF Spec

(* What an exited process retained had been counted.                        *)
THEOREM RetainedCounted == Spec => []RetainedWereCounted
<1>1. IntakeInv => RetainedWereCounted
  BY DEF IntakeInv, Closing, Held, RetainedWereCounted
<1> QED BY <1>1, IntakeInit, IntakeStep, PTL DEF Spec
=============================================================================
