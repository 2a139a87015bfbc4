--------------------------- MODULE RefCursorProofs ---------------------------
(***************************************************************************)
(* Type correctness of the ref cursor, and the two theorems about whose    *)
(* record a command is given, for any numbers of commands, records, gaps   *)
(* and expiries.                                                           *)
(*                                                                         *)
(* TypeOK needs that the least and the greatest record of a set that the   *)
(* search picks exist and that the clamp of a seed stays at or above the   *)
(* start of the log.                                                       *)
(*                                                                         *)
(* For the two action properties records are told apart by their numbers,  *)
(* which no expiry changes: position n holds the record Base + n. The      *)
(* invariant says that the record of a command captured while it ran is    *)
(* the first after the captured offset, and that the anchor and the        *)
(* consumed entries of the cursor have smaller numbers than the records of *)
(* the commands still to be enriched. A cursor that the log agrees with    *)
(* then starts before the command's record, which is not consumed, and the *)
(* hint or the start of the search leaves no other candidate before it.    *)
(***************************************************************************)
EXTENDS RefCursor, SequenceTheorems, WellFoundedInduction, TLAPS

-----------------------------------------------------------------------------
(* Least and greatest positions.                                            *)

\* The least element that Min picks exists in every nonempty set of numbers.
LEMMA MinProperty ==
  ASSUME NEW S \in SUBSET Nat, S # {}
  PROVE  Min(S) \in S /\ \A y \in S : Min(S) <= y
<1>1. PICK x \in S : \A y \in S : ~(<<y, x>> \in OpToRel(<, Nat))
  BY NatLessThanWellFounded, WFMin
<1>2. \A y \in S : x <= y
  <2> TAKE y \in S
  <2>1. ~(<<y, x>> \in OpToRel(<, Nat)) /\ x \in Nat /\ y \in Nat
    BY <1>1
  <2>2. ~(y < x)
    BY <2>1 DEF OpToRel
  <2>3. x \in Nat /\ y \in Nat
    OBVIOUS
  <2> QED BY <2>2, <2>3
<1> QED BY <1>2 DEF Min

\* The greatest element that Max picks exists in every nonempty bounded set of numbers.
LEMMA MaxProperty ==
  ASSUME NEW N \in Nat, NEW S \in SUBSET (0..N), S # {}
  PROVE  Max(S) \in S /\ \A y \in S : y <= Max(S)
<1> DEFINE T == {N - x : x \in S}
<1>1. T \in SUBSET Nat /\ T # {}
  <2>1. \A x \in S : N - x \in Nat
    OBVIOUS
  <2>2. PICK x \in S : TRUE
    OBVIOUS
  <2>3. N - x \in T
    OBVIOUS
  <2> QED BY <2>1, <2>3
<1>2. Min(T) \in T /\ \A y \in T : Min(T) <= y
  BY <1>1, MinProperty
<1>3. PICK m \in S : Min(T) = N - m
  BY <1>2
<1>4. \A y \in S : N - m <= N - y
  BY <1>2, <1>3
<1>5. \A y \in S : m >= y
  BY <1>4
<1> QED BY <1>5 DEF Max

-----------------------------------------------------------------------------
(* What the search for an entry returns.                                    *)

\* SelectCandidate returns one of its candidates, and none only if there are none.
LEMMA SelectCandidateType ==
  ASSUME NEW N \in Nat, NEW S \in SUBSET (1..N), NEW hint \in Nat \cup {None}
  PROVE  /\ S = {} => SelectCandidate(S, hint) = None
         /\ S # {} => SelectCandidate(S, hint) \in S
<1> DEFINE after == {n \in S : n - 1 >= hint}
<1>1. CASE S = {}
  BY <1>1 DEF SelectCandidate
<1>2. CASE S # {}
  <2>1. Min(S) \in S /\ Max(S) \in S
    <3>1. S \in SUBSET Nat /\ S \in SUBSET (0..N)
      OBVIOUS
    <3> QED BY <1>2, <3>1, MinProperty, MaxProperty
  <2>2. after # {} => Min(after) \in after
    BY MinProperty
  <2>3. CASE hint = None
    BY <1>2, <2>1, <2>3 DEF SelectCandidate
  <2>4. CASE hint # None
    BY <1>2, <2>1, <2>2, <2>4 DEF SelectCandidate
  <2> QED BY <2>3, <2>4
<1> QED BY <1>1, <1>2

\* What FindEntry returns is a position of the log or nothing.
LEMMA FindEntryType ==
  ASSUME TypeOK, NEW c \in Commands, NEW cur, NEW hint \in Nat \cup {None}
  PROVE  FindEntry(c, cur, hint) \in DOMAIN reflog \cup {None}
<1>1. DOMAIN reflog = 1..Len(reflog) /\ Len(reflog) \in Nat
  BY DEF TypeOK
<1>2. Unconsumed(cur) \subseteq 1..Len(reflog)
  BY <1>1 DEF Unconsumed, Entries
<1>3. \A S \in SUBSET (1..Len(reflog)) : SelectCandidate(S, hint) \in DOMAIN reflog \cup {None}
  BY <1>1, SelectCandidateType
<1>4. FindEntryInLog(c, cur, hint) \in DOMAIN reflog \cup {None}
  BY <1>2, <1>3 DEF FindEntryInLog
<1>5. FindEntryInCommandWindow(c, cur, hint) \in DOMAIN reflog \cup {None}
  BY <1>2, <1>3 DEF FindEntryInCommandWindow
<1> QED BY <1>4, <1>5 DEF FindEntry

Cursors == [offset : Nat \cup {None}, anchor : Anchors \cup {None}, consumed : SUBSET Anchors]

\* Anchors and records ending at an offset have their types.
LEMMA AnchorType ==
  ASSUME TypeOK
  PROVE  /\ \A n \in DOMAIN reflog : n \in Nat /\ n > 0 /\ Anchor(n) \in Anchors /\ reflog[n].id \in Nat
         /\ \A n : RecordEndingAt(n) \in Anchors \cup {None}
<1>1. \A n \in DOMAIN reflog : n \in Nat /\ n > 0 /\ reflog[n] \in Records
  BY DEF TypeOK
<1>2. \A n \in DOMAIN reflog : reflog[n].id \in Nat
  BY <1>1 DEF Records
<1>3. \A n \in DOMAIN reflog : Anchor(n) \in Anchors
  BY <1>1, <1>2 DEF Anchor, Anchors
<1> QED BY <1>1, <1>2, <1>3 DEF RecordEndingAt

\* The commands are commands.
LEMMA CommandType ==
  ASSUME TypeOK, NEW i \in DOMAIN cmds
  PROVE  /\ cmds[i] \in Commands
         /\ cmds[i].kind \in Kinds /\ cmds[i].time \in Nat
         /\ cmds[i].capture \in Nat \cup {None, Pending}
<1>1. cmds[i] \in Commands
  BY DEF TypeOK
<1> QED BY <1>1 DEF Commands

\* The seed that initialize_reflog_cursor gets lies in the log, at or above its start.
LEMMA SeedType ==
  ASSUME TypeOK, NEW c \in Commands, c.capture \in Nat
  PROVE  ClampSeedToOwnEntry(c) \in Nat
<1>1. OwnBefore(c) \in SUBSET Nat /\ \A n \in OwnBefore(c) : n > 0
  BY AnchorType DEF OwnBefore, Entries
<1>2. OwnBefore(c) # {} => Min(OwnBefore(c)) \in OwnBefore(c)
  BY <1>1, MinProperty
<1> QED BY <1>1, <1>2 DEF ClampSeedToOwnEntry

\* Seeding and validating a cursor yields a cursor.
LEMMA CursorType ==
  ASSUME TypeOK, NEW c \in Commands, c.capture # Pending
  PROVE  SeededCursor(c) \in Cursors /\ ValidCursor(SeededCursor(c)) \in Cursors
<1>1. cursor \in Cursors /\ ClearedCursor \in Cursors
  BY DEF TypeOK, Cursors, ClearedCursor
<1>2. SeedsCursor(c) => InitializeReflogCursor(ClampSeedToOwnEntry(c)) \in Cursors
  <2>1. SeedsCursor(c) => c.capture \in Nat
    BY DEF SeedsCursor, Commands
  <2> QED BY <2>1, SeedType, AnchorType DEF InitializeReflogCursor, Cursors
<1>3. SeededCursor(c) \in Cursors
  BY <1>1, <1>2 DEF SeededCursor
<1> QED BY <1>1, <1>3 DEF ValidCursor

\* Consuming an entry moves a cursor to the end of a record, if it moves it.
LEMMA ConsumeType ==
  ASSUME TypeOK, NEW cur \in Cursors, NEW n \in DOMAIN reflog
  PROVE  ConsumeEntry(cur, n) \in Cursors
<1> DEFINE consumed == cur.consumed \cup {Anchor(n)}
           entries  == Entries(StartOffset(cur))
           passed   == {m \in entries : \A k \in entries : k <= m => Anchor(k) \in consumed}
<1>1. consumed \in SUBSET Anchors
  BY AnchorType DEF Cursors
<1>2. passed \in SUBSET (0..Len(reflog)) /\ passed \subseteq DOMAIN reflog /\ Len(reflog) \in Nat
  BY DEF Entries, TypeOK
<1>3. CASE passed = {}
  <2>1. ConsumeEntry(cur, n) = [cur EXCEPT !.consumed = consumed]
    BY <1>3 DEF ConsumeEntry
  <2> QED BY <1>1, <2>1 DEF Cursors
<1>4. CASE passed # {}
  <2>1. Max(passed) \in passed
    BY <1>2, <1>4, MaxProperty
  <2>2. Max(passed) \in Nat /\ Anchor(Max(passed)) \in Anchors
    BY <1>2, <2>1, AnchorType
  <2>3. {a \in consumed : a[1] > Max(passed)} \in SUBSET Anchors
    BY <1>1
  <2>4. ConsumeEntry(cur, n) = [offset |-> Max(passed), anchor |-> Anchor(Max(passed)),
                                consumed |-> {a \in consumed : a[1] > Max(passed)}]
    BY <1>4 DEF ConsumeEntry
  <2> QED BY <2>2, <2>3, <2>4 DEF Cursors
<1> QED BY <1>3, <1>4

-----------------------------------------------------------------------------
(* Steps.                                                                   *)

\* git's log grows by records.
LEMMA WriteType ==
  ASSUME TypeOK, NEW mode \in Kinds \cup {"noop"}, NEW subject \in Subjects \cup {NoSubject},
         NEW time \in Nat, Write(mode, subject, time)
  PROVE  reflog' \in Seq(Records) /\ written' \in Nat
<1>1. [id |-> written + 1, mode |-> mode, subject |-> subject, time |-> time] \in Records
  BY DEF TypeOK, Records
<1> QED BY <1>1 DEF TypeOK, Write

\* Replacing a command by one keeps the commands and their number.
LEMMA CommandsExcept ==
  ASSUME TypeOK, NEW i \in DOMAIN cmds, NEW d \in Commands, cmds' = [cmds EXCEPT ![i] = d]
  PROVE  cmds' \in Seq(Commands) /\ Len(cmds') = Len(cmds)
BY DEF TypeOK

\* Init is well typed.
LEMMA TypeInit == Init => TypeOK
BY RefCursorConstants DEF Init, TypeOK, ClearedCursor

\* The family actor enriches a command.
LEMMA TypeEnrich ==
  ASSUME TypeOK, Enrich
  PROVE  TypeOK'
<1> DEFINE i == enriched + 1
           c == cmds[i]
           valid == ValidCursor(SeededCursor(c))
           found == FindEntry(c, valid, CommandStartHint(c))
<1>1. /\ i \in DOMAIN cmds /\ c.capture # Pending /\ enriched' = i
      /\ UNCHANGED <<reflog, written, clock, untraced, expiries>>
  BY DEF Enrich
<1>2. c \in Commands /\ c.capture \in Nat \cup {None}
  BY <1>1, CommandType
<1>3. SeededCursor(c) \in Cursors /\ valid \in Cursors
  BY <1>1, <1>2, CursorType
<1>4. CommandStartHint(c) \in Nat \cup {None}
  BY <1>2 DEF CommandStartHint
<1>5. found \in DOMAIN reflog \cup {None}
  BY <1>2, <1>4, FindEntryType
<1>6. /\ cursor' \in Cursors
      /\ cmds' \in Seq(Commands) /\ Len(cmds') = Len(cmds)
  <2>1. CASE cursor' = SeededCursor(c) /\ UNCHANGED cmds
    BY <1>3, <2>1 DEF TypeOK
  <2>2. CASE Attribute(i, valid, found)
    <3>1. CASE found = None
      BY <1>3, <2>2, <3>1 DEF TypeOK, Attribute
    <3>2. CASE found # None
      <4>1. found \in DOMAIN reflog
        BY <1>5, <3>2
      <4>2. cursor' = ConsumeEntry(valid, found)
        BY <2>2, <3>2 DEF Attribute
      <4>3. cmds' = [cmds EXCEPT ![i] = [c EXCEPT !.owned = reflog[found].id]]
        BY <2>2, <3>2 DEF Attribute
      <4>4. [c EXCEPT !.owned = reflog[found].id] \in Commands
        BY <1>2, <4>1, AnchorType DEF Commands
      <4> QED BY <1>1, <1>3, <4>1, <4>2, <4>3, <4>4, ConsumeType, CommandsExcept
    <3> QED BY <3>1, <3>2
  <2> QED BY <2>1, <2>2 DEF Enrich
<1>7. enriched' \in 0..Len(cmds')
  BY <1>1, <1>6 DEF TypeOK
<1> QED BY <1>1, <1>6, <1>7 DEF TypeOK, Cursors

\* Every step keeps the types.
LEMMA TypeNext == TypeOK /\ [Next]_vars => TypeOK'
<1> SUFFICES ASSUME TypeOK, [Next]_vars PROVE TypeOK'
  OBVIOUS
<1>1. ASSUME NEW k \in Kinds, NEW argv \in Subjects \cup {NoSubject}, NEW gap \in Gaps,
             Begin(k, argv, gap)
      PROVE  TypeOK'
  <2> DEFINE new == [kind |-> k, argv |-> argv, time |-> clock + gap,
                     status |-> "running", capture |-> Pending,
                     timely |-> FALSE, steady |-> TRUE, rewritten |-> FALSE,
                     entry |-> None, owned |-> None]
  <2>1. gap \in Nat /\ clock + gap \in Nat
    BY RefCursorConstants DEF TypeOK
  <2>2. new \in Commands
    BY <2>1 DEF Commands
  <2>3. cmds' = Append(cmds, new)
    BY <1>1 DEF Begin
  <2>4. cmds' \in Seq(Commands) /\ Len(cmds') = Len(cmds) + 1
    BY <2>2, <2>3 DEF TypeOK
  <2> QED BY <1>1, <2>1, <2>4 DEF TypeOK, Begin
<1>2. ASSUME NEW i \in DOMAIN cmds, NEW subject \in Subjects, Finish(i, subject)
      PROVE  TypeOK'
  <2> DEFINE d == [cmds[i] EXCEPT !.status = "ok", !.entry = written + 1,
                                  !.rewritten = cmds[i].argv \notin {NoSubject, subject}]
  <2>1. cmds[i] \in Commands /\ cmds[i].kind \in Kinds /\ cmds[i].time \in Nat
    BY CommandType
  <2>2. Write(cmds[i].kind, subject, cmds[i].time)
    BY <1>2 DEF Finish
  <2>3. reflog' \in Seq(Records) /\ written' \in Nat
    BY <2>1, <2>2, WriteType
  <2>4. d \in Commands
    <3>1. written + 1 \in Nat
      BY DEF TypeOK
    <3> QED BY <2>1, <3>1 DEF Commands
  <2>5. cmds' = [cmds EXCEPT ![i] = d]
    BY <1>2, <2>1 DEF Finish, Commands
  <2>6. cmds' \in Seq(Commands) /\ Len(cmds') = Len(cmds)
    BY <2>4, <2>5, CommandsExcept
  <2> QED BY <1>2, <2>3, <2>6 DEF TypeOK, Finish
<1>7. ASSUME NEW i \in DOMAIN cmds, FinishInPlace(i)
      PROVE  TypeOK'
  <2>1. cmds[i] \in Commands /\ cmds[i].time \in Nat
    BY CommandType
  <2>2. reflog' \in Seq(Records) /\ written' \in Nat
    <3>1. CASE Write("noop", NoSubject, cmds[i].time)
      BY <2>1, <3>1, WriteType
    <3>2. CASE UNCHANGED <<reflog, written>>
      BY <3>2 DEF TypeOK
    <3> QED BY <1>7, <3>1, <3>2 DEF FinishInPlace
  <2>3. [cmds[i] EXCEPT !.status = "ok"] \in Commands
    BY <2>1 DEF Commands
  <2>4. cmds' \in Seq(Commands) /\ Len(cmds') = Len(cmds)
    BY <1>7, <2>3, CommandsExcept DEF FinishInPlace
  <2> QED BY <1>7, <2>2, <2>4 DEF TypeOK, FinishInPlace
<1>3. ASSUME NEW i \in DOMAIN cmds, Fail(i) \/ Capture(i) \/ LoseCapture(i)
      PROVE  TypeOK'
  <2>1. cmds[i] \in Commands
    BY DEF TypeOK
  <2>2. ReflogStartOffset \in Nat \cup {None}
    BY DEF ReflogStartOffset, TypeOK
  <2>3. \E d \in Commands : cmds' = [cmds EXCEPT ![i] = d]
    <3>1. CASE Fail(i)
      <4>1. [cmds[i] EXCEPT !.status = "failed"] \in Commands
        BY <2>1 DEF Commands
      <4> QED BY <3>1, <4>1 DEF Fail
    <3>2. CASE Capture(i)
      <4>1. [cmds[i] EXCEPT !.capture = ReflogStartOffset,
                            !.timely = (cmds[i].status = "running")] \in Commands
        BY <2>1, <2>2 DEF Commands
      <4>2. cmds' = [cmds EXCEPT ![i] = [cmds[i] EXCEPT !.capture = ReflogStartOffset,
                                            !.timely = (cmds[i].status = "running")]]
        BY <3>2, <2>1 DEF Capture, Commands
      <4> QED BY <4>1, <4>2
    <3>3. CASE LoseCapture(i)
      <4>1. [cmds[i] EXCEPT !.capture = None] \in Commands
        BY <2>1 DEF Commands
      <4> QED BY <3>3, <4>1 DEF LoseCapture
    <3> QED BY <1>3, <3>1, <3>2, <3>3
  <2>4. cmds' \in Seq(Commands) /\ Len(cmds') = Len(cmds)
    BY <2>3, CommandsExcept
  <2> QED BY <1>3, <2>4 DEF TypeOK, Fail, Capture, LoseCapture
<1>4. ASSUME NEW mode \in Kinds \cup {"noop"}, NEW subject \in Subjects \cup {NoSubject},
             Untraced(mode, subject)
      PROVE  TypeOK'
  <2>1. Write(mode, subject, clock) /\ clock \in Nat
    BY <1>4 DEF Untraced, TypeOK
  <2>2. reflog' \in Seq(Records) /\ written' \in Nat
    BY <2>1, WriteType
  <2>3. untraced' \in 0..MaxUntraced
    <3>1. untraced \in 0..MaxUntraced /\ MaxUntraced \in Nat
      BY RefCursorConstants DEF TypeOK
    <3>2. untraced < MaxUntraced /\ untraced' = untraced + 1
      BY <1>4 DEF Untraced
    <3> QED BY <3>1, <3>2
  <2> QED BY <1>4, <2>2, <2>3 DEF TypeOK, Untraced
<1>5. ASSUME NEW n \in DOMAIN reflog, Expire(n)
      PROVE  TypeOK'
  <2>1. \A j \in DOMAIN cmds : cmds[j] \in Commands /\ [cmds[j] EXCEPT !.steady = FALSE] \in Commands
    <3>1. \A d \in Commands : [d EXCEPT !.steady = FALSE] \in Commands
      BY DEF Commands
    <3> QED BY <3>1, CommandType
  <2>2. cmds' \in Seq(Commands) /\ Len(cmds') = Len(cmds)
    <3>1. cmds \in Seq(Commands)
      BY DEF TypeOK
    <3>2. DOMAIN cmds = 1..Len(cmds) /\ Len(cmds) \in Nat
      BY <3>1
    <3>3. cmds' = [j \in DOMAIN cmds |->
                    IF j > enriched /\ cmds[j].capture # Pending
                    THEN [cmds[j] EXCEPT !.steady = FALSE] ELSE cmds[j]]
      BY <1>5 DEF Expire
    <3>4. cmds' \in [1..Len(cmds) -> Commands]
      BY <2>1, <3>2, <3>3
    <3> QED BY <3>2, <3>4
  <2>3. reflog' \in Seq(Records)
    <3>1. reflog \in Seq(Records) /\ n \in 1..Len(reflog)
      BY <1>5 DEF Expire, TypeOK
    <3>2. reflog' = SubSeq(reflog, n + 1, Len(reflog))
      BY <1>5 DEF Expire
    <3> QED BY <3>1, <3>2
  <2>4. expiries' \in 0..MaxExpiries
    <3>1. expiries \in 0..MaxExpiries /\ MaxExpiries \in Nat
      BY RefCursorConstants DEF TypeOK
    <3>2. expiries < MaxExpiries /\ expiries' = expiries + 1
      BY <1>5 DEF Expire
    <3> QED BY <3>1, <3>2
  <2> QED BY <1>5, <2>2, <2>3, <2>4 DEF TypeOK, Expire
<1>6. CASE UNCHANGED vars
  BY <1>6 DEF vars, TypeOK
<1> QED BY <1>1, <1>2, <1>3, <1>4, <1>5, <1>6, <1>7, TypeEnrich DEF Next

\* The log, the commands and the cursor stay within their types: a clamped seed is never
\* negative, every chosen entry exists, and a cursor that moves ends a record.
THEOREM CursorTypeCorrect == Spec => []TypeOK
BY TypeInit, TypeNext, PTL DEF Spec

-----------------------------------------------------------------------------
(* A command's own record.                                                  *)

\* How many records have expired; the record numbered Base + n is at position n.
Base == written - Len(reflog)

Numbered ==
  /\ Len(reflog) <= written
  /\ expiries = 0 => Base = 0
  /\ \A n \in DOMAIN reflog : reflog[n].id = Base + n

\* Only the last command may be running, and commands are enriched when they are over.
Scheduled ==
  \A i \in DOMAIN cmds :
    /\ cmds[i].status = "running" => i = Len(cmds)
    /\ i <= enriched => cmds[i].status # "running" /\ cmds[i].capture # Pending
    /\ i > enriched => cmds[i].owned = None
    /\ cmds[i].timely => cmds[i].capture # Pending
    /\ cmds[i].status # "ok" => cmds[i].entry = None
    /\ expiries = 0 => cmds[i].steady

\* The records of the commands are in their order, and each is what its command wrote.
EntriesInOrder ==
  \A i \in DOMAIN cmds : cmds[i].entry # None =>
    /\ cmds[i].entry \in 1..written
    /\ \A k \in DOMAIN cmds : k > i /\ cmds[k].entry # None => cmds[i].entry < cmds[k].entry
    /\ cmds[i].entry > Base =>
         LET e == reflog[cmds[i].entry - Base]
         IN  /\ e.mode = cmds[i].kind /\ e.time = cmds[i].time
             /\ cmds[i].rewritten <=> cmds[i].argv \notin {NoSubject, e.subject}

\* A log that did not exist at the capture was empty.
CaptureAt(c) == IF c.capture = None THEN 0 ELSE c.capture

\* The first record after a timely capture is the command's own, while none expires.
CapturedBefore ==
  \A i \in DOMAIN cmds : i > enriched /\ cmds[i].timely /\ cmds[i].steady =>
    /\ Base + CaptureAt(cmds[i]) <= written
    /\ cmds[i].status = "running" => Base + CaptureAt(cmds[i]) = written
    /\ cmds[i].entry # None => cmds[i].entry = Base + CaptureAt(cmds[i]) + 1
    /\ \A k \in DOMAIN cmds :
         k > i /\ cmds[k].entry # None => Base + CaptureAt(cmds[i]) < cmds[k].entry

\* The conditions of the two properties on the commands up to k.
Timely(k) == \A j \in 1..k : cmds[j].timely /\ cmds[j].steady /\ cmds[j].owned = cmds[j].entry
Late(k) ==
  /\ expiries = 0
  /\ \A j \in 1..k : /\ Unmistakable(j) /\ MovedIfOk(cmds[j])
                     /\ ~cmds[j].timely => cmds[j].status = "ok" /\ cmds[j].kind # "reset"

\* The anchored and the consumed records of a cursor come before those of the commands
\* from the i-th on; only a cursor at the start of the log has no anchor.
Marks(cur) == cur.consumed \cup ({cur.anchor} \ {None})
Behind(cur, i) ==
  \A a \in Marks(cur) :
    /\ a[2] <= written
    /\ \A k \in DOMAIN cmds : k >= i /\ cmds[k].entry # None => a[2] < cmds[k].entry
Anchored(cur) == cur.offset \notin {None, 0} => cur.anchor # None

CursorBehind ==
  /\ Anchored(cursor)
  /\ Timely(enriched) \/ Late(enriched) => Behind(cursor, enriched + 1)

OwnInv == /\ TypeOK /\ Numbered /\ Scheduled /\ EntriesInOrder /\ CapturedBefore /\ CursorBehind

\* The numbers of the model are numbers, the fields of a command have their types.
LEMMA Sizes ==
  ASSUME TypeOK
  PROVE  /\ Len(reflog) \in Nat /\ DOMAIN reflog = 1..Len(reflog) /\ written \in Nat
         /\ Len(cmds) \in Nat /\ DOMAIN cmds = 1..Len(cmds)
         /\ enriched \in Nat /\ enriched <= Len(cmds) /\ expiries \in Nat
         /\ Base \in Int
BY RefCursorConstants DEF TypeOK, Base

\* A capture is at an offset.
LEMMA CaptureAtNat ==
  ASSUME NEW c \in Commands, c.capture # Pending
  PROVE  CaptureAt(c) \in Nat /\ (c.capture # None => c.capture \in Nat)
BY DEF CaptureAt, Commands

\* The initial state.
LEMMA OwnInit == Init => OwnInv
<1> SUFFICES ASSUME Init PROVE OwnInv
  OBVIOUS
<1>1. TypeOK
  BY TypeInit
<1>2. cmds = <<>> /\ DOMAIN cmds = {} /\ reflog = <<>> /\ Len(reflog) = 0 /\ DOMAIN reflog = {}
  BY DEF Init
<1>3. Numbered /\ Scheduled /\ EntriesInOrder /\ CapturedBefore
  <2>1. Numbered
    <3>1. written = 0
      BY DEF Init
    <3>3. Len(reflog) = 0
      BY <1>2
    <3>2. Base = 0
      BY <3>1, <3>3 DEF Base
    <3> QED BY <1>2, <3>1, <3>2 DEF Numbered
  <2>2. Scheduled
    BY <1>2 DEF Scheduled
  <2>3. EntriesInOrder
    BY <1>2 DEF EntriesInOrder
  <2>4. CapturedBefore
    BY <1>2 DEF CapturedBefore
  <2> QED BY <2>1, <2>2, <2>3, <2>4
<1>4. CursorBehind
  BY DEF Init, CursorBehind, Behind, Marks, Anchored, ClearedCursor
<1> QED BY <1>1, <1>3, <1>4 DEF OwnInv

\* A step that leaves the cursor and the enriched commands alone, and in which git writes
\* only at the end of the log, keeps the cursor behind the records still to be found.
LEMMA BehindKept ==
  ASSUME OwnInv, TypeOK', UNCHANGED <<cursor, enriched>>, written' >= written,
         \A j \in 1..enriched : j \in DOMAIN cmds' /\ cmds'[j] = cmds[j],
         \A k \in DOMAIN cmds' : cmds'[k].entry # None =>
            \/ k \in DOMAIN cmds /\ cmds[k].entry # None /\ cmds'[k].entry = cmds[k].entry
            \/ cmds'[k].entry = written + 1,
         expiries' = 0 =>
            expiries = 0 /\ \A n \in DOMAIN reflog : n \in DOMAIN reflog' /\ reflog'[n] = reflog[n]
  PROVE  CursorBehind'
<1>1. TypeOK /\ CursorBehind
  BY DEF OwnInv
<1>2. Timely(enriched)' => Timely(enriched)
  BY DEF Timely
<1>3. Late(enriched)' => Late(enriched)
  BY DEF Late, Unmistakable, MovedIfOk
<1>4. ASSUME Behind(cursor, enriched + 1)
      PROVE  Behind(cursor, enriched + 1)'
  <2> SUFFICES ASSUME NEW a \in Marks(cursor)
               PROVE  /\ a[2] <= written'
                      /\ \A k \in DOMAIN cmds' : k >= enriched + 1 /\ cmds'[k].entry # None =>
                            a[2] < cmds'[k].entry
    BY DEF Behind, Marks
  <2>1. a[2] \in Nat
    BY <1>1 DEF Marks, TypeOK, Anchors
  <2>2. a[2] <= written /\ written \in Nat /\ written' \in Nat
    BY <1>1, <1>4, Sizes DEF Behind, TypeOK
  <2> QED BY <1>4, <2>1, <2>2 DEF Behind
<1>5. Anchored(cursor)'
  BY <1>1 DEF CursorBehind, Anchored
<1> QED BY <1>1, <1>2, <1>3, <1>4, <1>5 DEF CursorBehind

-----------------------------------------------------------------------------
(* Steps of git and of the reader.                                          *)

\* A command begins.
LEMMA OwnBegin ==
  ASSUME OwnInv, TypeOK', NEW k \in Kinds, NEW argv \in Subjects \cup {NoSubject}, NEW gap \in Gaps,
         Begin(k, argv, gap)
  PROVE  OwnInv'
<1> USE DEF OwnInv
<1> DEFINE new == [kind |-> k, argv |-> argv, time |-> clock + gap,
                   status |-> "running", capture |-> Pending,
                   timely |-> FALSE, steady |-> TRUE, rewritten |-> FALSE,
                   entry |-> None, owned |-> None]
<1>1. /\ cmds' = Append(cmds, new) /\ Idle
      /\ UNCHANGED <<reflog, written, enriched, cursor, untraced, expiries>>
  BY DEF Begin
<1>2. /\ DOMAIN cmds' = 1..(Len(cmds) + 1) /\ Len(cmds') = Len(cmds) + 1
      /\ \A j \in DOMAIN cmds : j \in DOMAIN cmds' /\ cmds'[j] = cmds[j]
      /\ \A j \in DOMAIN cmds' : j \in DOMAIN cmds \/ j = Len(cmds) + 1
      /\ cmds'[Len(cmds) + 1] = new
  BY <1>1, Sizes DEF TypeOK
<1> HIDE DEF new
<1>3. new.status = "running" /\ new.timely = FALSE /\ new.owned = None /\ new.entry = None /\ new.steady
  BY DEF new
<1>4. Base' = Base /\ Numbered'
  BY <1>1 DEF Base, Numbered
<1>5. Scheduled'
  BY <1>1, <1>2, <1>3, Sizes DEF Scheduled, Idle
<1>6. EntriesInOrder'
  BY <1>1, <1>2, <1>3, <1>4 DEF EntriesInOrder
<1>7. CapturedBefore'
  BY <1>1, <1>2, <1>3, <1>4 DEF CapturedBefore, CaptureAt
<1>8. CursorBehind'
  BY <1>1, <1>2, <1>3, Sizes, BehindKept
<1> QED BY <1>4, <1>5, <1>6, <1>7, <1>8

\* What a record written at the end of the log means for the numbering.
LEMMA WriteNumbered ==
  ASSUME TypeOK, Numbered, NEW mode, NEW subject, NEW time, Write(mode, subject, time),
         UNCHANGED expiries
  PROVE  /\ Numbered' /\ Base' = Base /\ written' = written + 1 /\ written' - Base \in DOMAIN reflog'
         /\ \A n \in DOMAIN reflog : n \in DOMAIN reflog' /\ reflog'[n] = reflog[n]
         /\ reflog'[written' - Base] =
              [id |-> written + 1, mode |-> mode, subject |-> subject, time |-> time]
<1> DEFINE e == [id |-> written + 1, mode |-> mode, subject |-> subject, time |-> time]
<1>1. reflog' = Append(reflog, e) /\ written' = written + 1
  BY DEF Write
<1>2. /\ Len(reflog') = Len(reflog) + 1 /\ DOMAIN reflog' = 1..(Len(reflog) + 1)
      /\ \A n \in DOMAIN reflog : reflog'[n] = reflog[n]
      /\ reflog'[Len(reflog) + 1] = e
  BY <1>1, Sizes DEF TypeOK
<1>3. e.id = written + 1
  OBVIOUS
<1> HIDE DEF e
<1>4. Base' = Base /\ written' - Base = Len(reflog) + 1
  BY <1>1, <1>2, Sizes DEF Base
<1>5. \A n \in DOMAIN reflog' : reflog'[n].id = Base + n
  <2> TAKE n \in DOMAIN reflog'
  <2>1. CASE n \in DOMAIN reflog
    BY <1>2, <2>1 DEF Numbered
  <2>2. CASE n = Len(reflog) + 1
    BY <1>1, <1>2, <1>3, <1>4, <2>2, Sizes
  <2> QED BY <1>2, <2>1, <2>2, Sizes
<1>6. Numbered'
  BY <1>1, <1>2, <1>4, <1>5, Sizes DEF Numbered
<1> QED BY <1>1, <1>2, <1>4, <1>6, Sizes DEF e

\* git ends a command with a record.
LEMMA OwnFinish ==
  ASSUME OwnInv, TypeOK', NEW i \in DOMAIN cmds, NEW subject \in Subjects, Finish(i, subject)
  PROVE  OwnInv'
<1> USE DEF OwnInv
<1> DEFINE d == [cmds[i] EXCEPT !.status = "ok", !.entry = written + 1,
                                !.rewritten = cmds[i].argv \notin {NoSubject, subject}]
           e == [id |-> written + 1, mode |-> cmds[i].kind, subject |-> subject, time |-> cmds[i].time]
<1>1. /\ cmds[i].status = "running" /\ Write(cmds[i].kind, subject, cmds[i].time)
      /\ UNCHANGED <<enriched, cursor, clock, untraced, expiries>>
  BY DEF Finish
<1>2. cmds[i] \in Commands
  BY CommandType
<1>3. cmds' = [cmds EXCEPT ![i] = d]
  BY <1>2 DEF Finish, Commands
<1>4. /\ d.status = "ok" /\ d.entry = written + 1 /\ d.kind = cmds[i].kind /\ d.time = cmds[i].time
      /\ d.rewritten <=> d.argv \notin {NoSubject, subject}
      /\ d.owned = cmds[i].owned /\ d.capture = cmds[i].capture
      /\ d.timely = cmds[i].timely /\ d.steady = cmds[i].steady
  BY <1>2 DEF Commands
<1>13. d.entry # None
  BY <1>4, Sizes, RefCursorConstants
<1>5. e.mode = cmds[i].kind /\ e.subject = subject /\ e.time = cmds[i].time
  OBVIOUS
<1>6. /\ Numbered' /\ Base' = Base /\ written' = written + 1 /\ written' - Base \in DOMAIN reflog'
      /\ \A n \in DOMAIN reflog : n \in DOMAIN reflog' /\ reflog'[n] = reflog[n]
      /\ reflog'[written' - Base] = e
  BY <1>1, WriteNumbered
<1> HIDE DEF d, e
<1>7. /\ DOMAIN cmds' = DOMAIN cmds /\ Len(cmds') = Len(cmds) /\ cmds'[i] = d
      /\ \A j \in DOMAIN cmds : j # i => cmds'[j] = cmds[j]
  BY <1>3, Sizes DEF TypeOK
<1>8. i = Len(cmds) /\ i > enriched /\ \A j \in DOMAIN cmds : j > i => FALSE
  BY <1>1, Sizes DEF Scheduled
<1>9. Scheduled'
  BY <1>1, <1>4, <1>7, <1>8 DEF Scheduled
<1>10. EntriesInOrder'
  <2> SUFFICES ASSUME NEW j \in DOMAIN cmds', cmds'[j].entry # None
               PROVE  /\ cmds'[j].entry \in 1..written'
                      /\ \A k \in DOMAIN cmds' : k > j /\ cmds'[k].entry # None =>
                            cmds'[j].entry < cmds'[k].entry
                      /\ cmds'[j].entry > Base' =>
                           /\ reflog'[cmds'[j].entry - Base'].mode = cmds'[j].kind
                           /\ reflog'[cmds'[j].entry - Base'].time = cmds'[j].time
                           /\ cmds'[j].rewritten <=>
                                cmds'[j].argv \notin {NoSubject, reflog'[cmds'[j].entry - Base'].subject}
    BY DEF EntriesInOrder
  <2>1. CASE j = i
    BY <1>4, <1>5, <1>6, <1>7, <1>8, <1>13, <2>1, Sizes
  <2>2. CASE j # i
    <3>1. cmds'[j] = cmds[j] /\ cmds[j].entry \in 1..written
      BY <1>7, <2>2 DEF EntriesInOrder
    <3>2. \A k \in DOMAIN cmds' : k > j /\ cmds'[k].entry # None => cmds'[j].entry < cmds'[k].entry
      BY <1>4, <1>7, <3>1, Sizes DEF EntriesInOrder
    <3>3. cmds[j].entry > Base => cmds[j].entry - Base \in DOMAIN reflog
      BY <3>1, Sizes DEF Base
    <3> QED BY <1>6, <1>7, <3>1, <3>2, <3>3, Sizes DEF EntriesInOrder
  <2> QED BY <2>1, <2>2
<1>11. CapturedBefore'
  <2> SUFFICES ASSUME NEW j \in DOMAIN cmds', j > enriched', cmds'[j].timely, cmds'[j].steady
               PROVE  /\ Base' + CaptureAt(cmds'[j]) <= written'
                      /\ cmds'[j].status = "running" => Base' + CaptureAt(cmds'[j]) = written'
                      /\ cmds'[j].entry # None => cmds'[j].entry = Base' + CaptureAt(cmds'[j]) + 1
                      /\ \A k \in DOMAIN cmds' :
                           k > j /\ cmds'[k].entry # None => Base' + CaptureAt(cmds'[j]) < cmds'[k].entry
    BY DEF CapturedBefore
  <2>1. j \in DOMAIN cmds /\ j > enriched /\ cmds[j].timely /\ cmds[j].steady
    BY <1>1, <1>4, <1>7
  <2>2. CaptureAt(cmds'[j]) = CaptureAt(cmds[j])
    BY <1>4, <1>7 DEF CaptureAt
  <2>3. CaptureAt(cmds[j]) \in Nat
    BY <2>1, CommandType, CaptureAtNat DEF Scheduled
  <2>4. CASE j = i
    BY <1>1, <1>4, <1>6, <1>7, <1>8, <2>1, <2>2, <2>3, <2>4, Sizes DEF CapturedBefore
  <2>5. CASE j # i
    <3>1. cmds'[j] = cmds[j] /\ cmds[j].status # "running"
      BY <1>7, <1>8, <2>1, <2>5 DEF Scheduled
    <3>2. \A k \in DOMAIN cmds' : k > j /\ cmds'[k].entry # None =>
             Base + CaptureAt(cmds[j]) < cmds'[k].entry
      <4> TAKE k \in DOMAIN cmds'
      <4>1. CASE k = i
        <5>1. Base + CaptureAt(cmds[j]) <= written
          BY <2>1 DEF CapturedBefore
        <5> QED BY <1>4, <1>7, <2>3, <4>1, <5>1, Sizes
      <4>2. CASE k # i
        BY <1>7, <2>1, <4>2 DEF CapturedBefore
      <4> QED BY <4>1, <4>2
    <3> QED BY <1>6, <2>1, <2>3, <3>1, <3>2, Sizes DEF CapturedBefore
  <2> QED BY <2>4, <2>5
<1>12. CursorBehind'
  BY <1>1, <1>4, <1>6, <1>7, <1>8, <1>13, Sizes, BehindKept
<1> QED BY <1>6, <1>9, <1>10, <1>11, <1>12

\* git ends a command that left HEAD in place, with a record of that or without one.
LEMMA OwnFinishInPlace ==
  ASSUME OwnInv, TypeOK', NEW i \in DOMAIN cmds, FinishInPlace(i)
  PROVE  OwnInv'
<1> USE DEF OwnInv
<1>1. /\ cmds[i].status = "running" /\ cmds' = [cmds EXCEPT ![i] = [cmds[i] EXCEPT !.status = "ok"]]
      /\ UNCHANGED <<enriched, cursor, clock, untraced, expiries>>
  BY DEF FinishInPlace
<1>2. cmds[i] \in Commands
  BY CommandType
<1>3. /\ DOMAIN cmds' = DOMAIN cmds /\ Len(cmds') = Len(cmds)
      /\ \A j \in DOMAIN cmds : j # i => cmds'[j] = cmds[j]
      /\ cmds'[i] = [cmds[i] EXCEPT !.status = "ok"]
  BY <1>1, Sizes DEF TypeOK
<1>4. /\ i = Len(cmds) /\ i > enriched /\ cmds[i].entry = None
      /\ \A j \in DOMAIN cmds : j # i => cmds[j].status # "running"
  BY <1>1, Sizes DEF Scheduled
<1>5. \A j \in DOMAIN cmds :
        /\ cmds'[j].entry = cmds[j].entry /\ cmds'[j].kind = cmds[j].kind
        /\ cmds'[j].time = cmds[j].time /\ cmds'[j].argv = cmds[j].argv
        /\ cmds'[j].rewritten = cmds[j].rewritten /\ cmds'[j].owned = cmds[j].owned
        /\ cmds'[j].capture = cmds[j].capture /\ cmds'[j].timely = cmds[j].timely
        /\ cmds'[j].steady = cmds[j].steady /\ cmds'[j].status # "running"
        /\ cmds'[j].status # "ok" => cmds[j].status # "ok"
  BY <1>2, <1>3, <1>4 DEF Commands
<1>6. /\ Numbered' /\ Base' = Base /\ written' \in Nat /\ written <= written'
      /\ \A n \in DOMAIN reflog : n \in DOMAIN reflog' /\ reflog'[n] = reflog[n]
  <2>1. CASE Write("noop", NoSubject, cmds[i].time)
    <3>1. /\ Numbered' /\ Base' = Base /\ written' = written + 1
          /\ \A n \in DOMAIN reflog : n \in DOMAIN reflog' /\ reflog'[n] = reflog[n]
      BY <1>1, <2>1, WriteNumbered
    <3>2. written \in Nat
      BY Sizes
    <3> QED BY <3>1, <3>2
  <2>2. CASE UNCHANGED <<reflog, written>>
    BY <1>1, <2>2, Sizes DEF Numbered, Base
  <2> QED BY <2>1, <2>2 DEF FinishInPlace
<1>7. Scheduled'
  BY <1>1, <1>3, <1>4, <1>5, Sizes DEF Scheduled
<1>8. EntriesInOrder'
  <2>1. \A j \in DOMAIN cmds : cmds[j].entry # None =>
           /\ cmds[j].entry \in 1..written'
           /\ cmds[j].entry > Base => cmds[j].entry - Base \in DOMAIN reflog
    <3> SUFFICES ASSUME NEW j \in DOMAIN cmds, cmds[j].entry # None
                 PROVE  /\ cmds[j].entry \in 1..written'
                        /\ cmds[j].entry > Base => cmds[j].entry - Base \in DOMAIN reflog
      OBVIOUS
    <3>1. cmds[j].entry \in 1..written
      BY DEF EntriesInOrder
    <3>2. /\ Len(reflog) \in Nat /\ DOMAIN reflog = 1..Len(reflog) /\ written \in Nat
          /\ Base = written - Len(reflog)
      BY Sizes DEF Base
    <3>3. cmds[j].entry \in 1..written'
      BY <1>6, <3>1, <3>2
    <3> HIDE DEF Base
    <3>4. cmds[j].entry > Base => cmds[j].entry - Base \in 1..Len(reflog)
      BY <3>1, <3>2
    <3> QED BY <3>2, <3>3, <3>4
  <2> QED BY <1>3, <1>5, <1>6, <2>1 DEF EntriesInOrder
<1>9. CapturedBefore'
  <2>1. \A j \in DOMAIN cmds : j > enriched /\ cmds[j].timely => CaptureAt(cmds[j]) \in Nat
    BY CommandType, CaptureAtNat DEF Scheduled
  <2>2. \A j \in DOMAIN cmds : CaptureAt(cmds'[j]) = CaptureAt(cmds[j])
    BY <1>5 DEF CaptureAt
  <2> QED BY <1>1, <1>3, <1>5, <1>6, <2>1, <2>2, Sizes DEF CapturedBefore
<1>10. CursorBehind'
  <2>1. \A j \in 1..enriched : j \in DOMAIN cmds' /\ cmds'[j] = cmds[j]
    BY <1>3, <1>4, Sizes
  <2> QED BY <1>1, <1>3, <1>5, <1>6, <2>1, Sizes, BehindKept
<1> QED BY <1>6, <1>7, <1>8, <1>9, <1>10

\* A command ends without a record, or the reader notes the length of the log or drops it.
LEMMA OwnCommand ==
  ASSUME OwnInv, TypeOK', NEW i \in DOMAIN cmds, Fail(i) \/ Capture(i) \/ LoseCapture(i)
  PROVE  OwnInv'
<1> USE DEF OwnInv
<1>1. UNCHANGED <<reflog, written, enriched, cursor, clock, untraced, expiries>>
  BY DEF Fail, Capture, LoseCapture
<1>2. cmds[i] \in Commands
  BY CommandType
<1>3. /\ DOMAIN cmds' = DOMAIN cmds /\ Len(cmds') = Len(cmds)
      /\ \A j \in DOMAIN cmds : j # i => cmds'[j] = cmds[j]
  BY Sizes DEF TypeOK, Fail, Capture, LoseCapture
<1>4. Base' = Base /\ Numbered'
  BY <1>1 DEF Base, Numbered
<1>5. i > enriched
  BY Sizes DEF Scheduled, Fail, Capture, LoseCapture
<1>6. /\ cmds'[i].entry = cmds[i].entry /\ cmds'[i].kind = cmds[i].kind
      /\ cmds'[i].time = cmds[i].time /\ cmds'[i].argv = cmds[i].argv
      /\ cmds'[i].rewritten = cmds[i].rewritten /\ cmds'[i].steady = cmds[i].steady
      /\ cmds'[i].owned = cmds[i].owned
      /\ cmds'[i].status = "ok" <=> cmds[i].status = "ok"
      /\ cmds'[i].status = "running" => cmds[i].status = "running"
  BY <1>2 DEF Fail, Capture, LoseCapture, Commands
<1>7. ASSUME Fail(i) \/ LoseCapture(i)
      PROVE  Scheduled' /\ CapturedBefore'
  <2>1. /\ cmds'[i].timely = cmds[i].timely
        /\ cmds'[i].timely => cmds'[i].capture = cmds[i].capture
        /\ cmds'[i].status # "ok"  => cmds'[i].entry = None
    BY <1>2, <1>7 DEF Fail, LoseCapture, Commands, Scheduled
  <2>2. Scheduled'
    <3> SUFFICES ASSUME NEW j \in DOMAIN cmds
                 PROVE  /\ cmds'[j].status = "running" => j = Len(cmds)
                        /\ j <= enriched => cmds'[j].status # "running" /\ cmds'[j].capture # Pending
                        /\ j > enriched => cmds'[j].owned = None
                        /\ cmds'[j].timely => cmds'[j].capture # Pending
                        /\ cmds'[j].status # "ok" => cmds'[j].entry = None
                        /\ expiries = 0 => cmds'[j].steady
      BY <1>1, <1>3 DEF Scheduled
    <3>1. CASE j = i
      BY <1>5, <1>6, <2>1, <3>1, Sizes DEF Scheduled
    <3>2. CASE j # i
      BY <1>3, <3>2 DEF Scheduled
    <3> QED BY <3>1, <3>2
  <2>3. CapturedBefore'
    BY <1>1, <1>3, <1>4, <1>6, <2>1 DEF CapturedBefore, CaptureAt
  <2> QED BY <2>2, <2>3
<1>8. ASSUME Capture(i)
      PROVE  Scheduled' /\ CapturedBefore'
  <2>1. /\ cmds'[i].capture = ReflogStartOffset /\ cmds'[i].status = cmds[i].status
        /\ cmds'[i].timely <=> cmds[i].status = "running"
    BY <1>2, <1>8 DEF Capture, Commands
  <2>2. ReflogStartOffset # Pending /\ Base + CaptureAt(cmds'[i]) = written
    BY <2>1, RefCursorConstants, Sizes DEF ReflogStartOffset, CaptureAt, Base, Numbered
  <2>3. Scheduled'
    BY <1>1, <1>3, <1>5, <1>6, <2>1, <2>2 DEF Scheduled
  <2>4. CapturedBefore'
    <3> SUFFICES ASSUME NEW j \in DOMAIN cmds', j > enriched', cmds'[j].timely, cmds'[j].steady
                 PROVE  /\ Base' + CaptureAt(cmds'[j]) <= written'
                        /\ cmds'[j].status = "running" => Base' + CaptureAt(cmds'[j]) = written'
                        /\ cmds'[j].entry # None => cmds'[j].entry = Base' + CaptureAt(cmds'[j]) + 1
                        /\ \A k \in DOMAIN cmds' :
                             k > j /\ cmds'[k].entry # None => Base' + CaptureAt(cmds'[j]) < cmds'[k].entry
      BY DEF CapturedBefore
    <3>1. CASE j = i
      <4>1. cmds'[i].status = "running" /\ \A k \in DOMAIN cmds' : ~(k > i)
        BY <1>3, <2>1, <3>1, Sizes DEF Scheduled
      <4>2. cmds'[i].entry = None
        BY <1>3, <2>3, <4>1 DEF Scheduled
      <4> QED BY <1>1, <1>4, <2>2, <3>1, <4>1, <4>2, Sizes
    <3>2. CASE j # i
      <4>1. cmds'[j] = cmds[j] /\ j \in DOMAIN cmds /\ j > enriched
        BY <1>1, <1>3, <3>2
      <4>2. \A k \in DOMAIN cmds' : cmds'[k].status = cmds[k].status /\ cmds'[k].entry = cmds[k].entry
        BY <1>3, <1>6, <2>1
      <4> QED BY <1>1, <1>3, <1>4, <4>1, <4>2 DEF CapturedBefore
    <3> QED BY <3>1, <3>2
  <2> QED BY <2>3, <2>4
<1>9. EntriesInOrder'
  BY <1>1, <1>3, <1>4, <1>6 DEF EntriesInOrder
<1>10. CursorBehind'
  BY <1>1, <1>3, <1>5, <1>6, Sizes, BehindKept
<1> QED BY <1>4, <1>7, <1>8, <1>9, <1>10

\* A git process that is not traced writes a record.
LEMMA OwnUntraced ==
  ASSUME OwnInv, TypeOK', NEW mode, NEW subject, Untraced(mode, subject)
  PROVE  OwnInv'
<1> USE DEF OwnInv
<1>1. /\ Idle /\ Write(mode, subject, clock)
      /\ UNCHANGED <<cmds, enriched, cursor, clock, expiries>>
  BY DEF Untraced
<1>2. /\ Numbered' /\ Base' = Base /\ written' = written + 1
      /\ \A n \in DOMAIN reflog : n \in DOMAIN reflog' /\ reflog'[n] = reflog[n]
  BY <1>1, WriteNumbered
<1>3. Scheduled'
  BY <1>1 DEF Scheduled
<1>4. EntriesInOrder'
  <2>1. \A i \in DOMAIN cmds : cmds[i].entry # None =>
           /\ cmds[i].entry \in 1..written'
           /\ cmds[i].entry > Base => cmds[i].entry - Base \in DOMAIN reflog
    <3>1. written \in Nat /\ written' = written + 1
      BY <1>2, Sizes
    <3>2. \A i \in DOMAIN cmds : cmds[i].entry # None => cmds[i].entry \in 1..written
      BY DEF EntriesInOrder
    <3> QED BY <3>1, <3>2, Sizes DEF Base
  <2> QED BY <1>1, <1>2, <2>1 DEF EntriesInOrder
<1>5. CapturedBefore'
  <2>1. \A i \in DOMAIN cmds : i > enriched /\ cmds[i].timely /\ cmds[i].steady =>
           CaptureAt(cmds[i]) \in Nat /\ cmds[i].status # "running"
    BY <1>1, CommandType, CaptureAtNat DEF Scheduled, Idle
  <2> QED BY <1>1, <1>2, <2>1, Sizes DEF CapturedBefore
<1>6. CursorBehind'
  BY <1>1, <1>2, Sizes, BehindKept
<1> QED BY <1>2, <1>3, <1>4, <1>5, <1>6

\* Records expire.
LEMMA OwnExpire ==
  ASSUME OwnInv, TypeOK', NEW n \in DOMAIN reflog, Expire(n)
  PROVE  OwnInv'
<1> USE DEF OwnInv
<1>1. /\ reflog' = SubSeq(reflog, n + 1, Len(reflog)) /\ expiries' = expiries + 1
      /\ UNCHANGED <<written, enriched, cursor, clock, untraced>>
  BY DEF Expire
<1>2. /\ Len(reflog') = Len(reflog) - n
      /\ \A m \in DOMAIN reflog' : m + n \in DOMAIN reflog /\ reflog'[m] = reflog[m + n]
  <2>1. \A m \in (n + 1)..Len(reflog) : reflog[m] \in Records
    BY Sizes DEF TypeOK
  <2>2. n \in Nat /\ n > 0 /\ n <= Len(reflog)
    BY Sizes
  <2>3. /\ Len(reflog') = IF n + 1 <= Len(reflog) THEN Len(reflog) - (n + 1) + 1 ELSE 0
        /\ \A m \in 1..(Len(reflog) - (n + 1) + 1) : reflog'[m] = reflog[n + 1 + m - 1]
    <3>1. n + 1 \in Int /\ Len(reflog) \in Int
      BY <2>2, Sizes
    <3>2. /\ Len(SubSeq(reflog, n + 1, Len(reflog))) =
                IF n + 1 <= Len(reflog) THEN Len(reflog) - (n + 1) + 1 ELSE 0
          /\ \A m \in 1..(Len(reflog) - (n + 1) + 1) :
                SubSeq(reflog, n + 1, Len(reflog))[m] = reflog[n + 1 + m - 1]
      BY <2>1, <3>1, SubSeqProperties
    <3> QED BY <1>1, <3>2
  <2>4. Len(reflog') = Len(reflog) - n
    BY <2>2, <2>3, Sizes
  <2>5. DOMAIN reflog' = 1..Len(reflog')
    BY DEF TypeOK
  <2>6. \A m \in DOMAIN reflog' : m + n \in DOMAIN reflog /\ reflog'[m] = reflog[m + n]
    <3> TAKE m \in DOMAIN reflog'
    <3>1. m \in 1..(Len(reflog) - n) /\ n + 1 + m - 1 = m + n
      BY <2>2, <2>4, <2>5, Sizes
    <3>2. m \in 1..(Len(reflog) - (n + 1) + 1) /\ m + n \in 1..Len(reflog)
      BY <2>2, <3>1, Sizes
    <3>3. reflog'[m] = reflog[n + 1 + m - 1]
      BY <2>3, <3>2
    <3> QED BY <3>1, <3>2, <3>3, Sizes
  <2> QED BY <2>4, <2>6
<1>3. DOMAIN reflog' = 1..(Len(reflog) - n) /\ n \in Nat /\ n > 0 /\ n <= Len(reflog)
  BY <1>2, Sizes DEF TypeOK
<1>4. Base' = Base + n
  BY <1>1, <1>2, <1>3, Sizes DEF Base
<1>5. Numbered'
  <2>1. \A m \in DOMAIN reflog' : reflog'[m].id = Base' + m
    <3> TAKE m \in DOMAIN reflog'
    <3>1. m + n \in DOMAIN reflog /\ reflog'[m] = reflog[m + n] /\ m \in Nat
      BY <1>2, <1>3
    <3>2. reflog[m + n].id = Base + (m + n)
      BY <3>1 DEF Numbered
    <3> QED BY <1>3, <1>4, <3>1, <3>2, Sizes
  <2>2. Len(reflog') <= written' /\ expiries' # 0
    BY <1>1, <1>2, <1>3, Sizes DEF Numbered
  <2> QED BY <2>1, <2>2 DEF Numbered
<1>6. DOMAIN cmds' = DOMAIN cmds /\ Len(cmds') = Len(cmds)
  BY Sizes DEF TypeOK, Expire
<1>7. \A i \in DOMAIN cmds :
        /\ cmds'[i].entry = cmds[i].entry /\ cmds'[i].kind = cmds[i].kind
        /\ cmds'[i].time = cmds[i].time /\ cmds'[i].argv = cmds[i].argv
        /\ cmds'[i].rewritten = cmds[i].rewritten /\ cmds'[i].owned = cmds[i].owned
        /\ cmds'[i].status = cmds[i].status /\ cmds'[i].capture = cmds[i].capture
        /\ cmds'[i].timely = cmds[i].timely
        /\ i <= enriched => cmds'[i] = cmds[i]
        /\ i > enriched /\ cmds[i].timely => cmds'[i].steady = FALSE
  <2> TAKE i \in DOMAIN cmds
  <2>1. cmds[i] \in Commands
    BY CommandType
  <2>2. cmds'[i] = IF i > enriched /\ cmds[i].capture # Pending
                   THEN [cmds[i] EXCEPT !.steady = FALSE] ELSE cmds[i]
    BY DEF Expire
  <2>3. cmds[i].timely => cmds[i].capture # Pending
    BY DEF Scheduled
  <2> QED BY <2>1, <2>2, <2>3, Sizes DEF Commands
<1>8. Scheduled'
  BY <1>1, <1>6, <1>7, Sizes DEF Scheduled
<1>9. EntriesInOrder'
  <2> SUFFICES ASSUME NEW j \in DOMAIN cmds', cmds'[j].entry # None
               PROVE  /\ cmds'[j].entry \in 1..written'
                      /\ \A k \in DOMAIN cmds' : k > j /\ cmds'[k].entry # None =>
                            cmds'[j].entry < cmds'[k].entry
                      /\ cmds'[j].entry > Base' =>
                           /\ reflog'[cmds'[j].entry - Base'].mode = cmds'[j].kind
                           /\ reflog'[cmds'[j].entry - Base'].time = cmds'[j].time
                           /\ cmds'[j].rewritten <=>
                                cmds'[j].argv \notin {NoSubject, reflog'[cmds'[j].entry - Base'].subject}
    BY DEF EntriesInOrder
  <2>1. j \in DOMAIN cmds /\ cmds[j].entry # None /\ cmds[j].entry \in 1..written
    BY <1>6, <1>7 DEF EntriesInOrder
  <2>2. ASSUME cmds[j].entry > Base'
        PROVE  /\ cmds[j].entry > Base
               /\ reflog'[cmds[j].entry - Base'] = reflog[cmds[j].entry - Base]
    <3>1. cmds[j].entry - Base' \in DOMAIN reflog' /\ (cmds[j].entry - Base') + n = cmds[j].entry - Base
      BY <1>3, <1>4, <2>1, <2>2, Sizes DEF Base
    <3>2. cmds[j].entry > Base
      BY <1>3, <1>4, <2>1, <2>2, Sizes
    <3>3. reflog'[cmds[j].entry - Base'] = reflog[(cmds[j].entry - Base') + n]
      BY <1>2, <1>3, <3>1
    <3> QED BY <3>1, <3>2, <3>3
  <2>3. /\ cmds'[j].entry = cmds[j].entry /\ cmds'[j].kind = cmds[j].kind
        /\ cmds'[j].time = cmds[j].time /\ cmds'[j].argv = cmds[j].argv
        /\ cmds'[j].rewritten = cmds[j].rewritten
    BY <1>7, <2>1
  <2>4. \A k \in DOMAIN cmds' : k > j /\ cmds'[k].entry # None => cmds[j].entry < cmds'[k].entry
    BY <1>6, <1>7, <2>1 DEF EntriesInOrder
  <2>5. cmds[j].entry > Base =>
          /\ reflog[cmds[j].entry - Base].mode = cmds[j].kind
          /\ reflog[cmds[j].entry - Base].time = cmds[j].time
          /\ cmds[j].rewritten <=> cmds[j].argv \notin {NoSubject, reflog[cmds[j].entry - Base].subject}
    BY <2>1 DEF EntriesInOrder
  <2> QED BY <1>1, <2>1, <2>2, <2>3, <2>4, <2>5
<1>10. CapturedBefore'
  BY <1>1, <1>6, <1>7 DEF CapturedBefore
<1>11. CursorBehind'
  <2>1. expiries' # 0 /\ written' >= written
    BY <1>1, Sizes
  <2>2. \A j \in 1..enriched : j \in DOMAIN cmds' /\ cmds'[j] = cmds[j]
    BY <1>6, <1>7, Sizes
  <2>3. \A k \in DOMAIN cmds' : cmds'[k].entry # None =>
          k \in DOMAIN cmds /\ cmds[k].entry # None /\ cmds'[k].entry = cmds[k].entry
    BY <1>6, <1>7
  <2> QED BY <1>1, <2>1, <2>2, <2>3, BehindKept
<1> QED BY <1>5, <1>8, <1>9, <1>10, <1>11

-----------------------------------------------------------------------------
(* The search for the record of the next command.                           *)

\* The next command is over and captured, and it is one the properties speak of.
NextCommand(i) ==
  /\ i = enriched + 1 /\ i \in DOMAIN cmds
  /\ cmds[i].status # "running" /\ cmds[i].capture # Pending
  /\ \/ Timely(enriched) /\ cmds[i].timely /\ cmds[i].steady
     \/ Late(i)

\* A record that git wrote for a command looks like the command's, unless a hook
\* replaced its subject; it is then still one of the command's kind and time.
LEMMA OwnRecord ==
  ASSUME OwnInv, NEW i \in DOMAIN cmds, cmds[i].entry # None, cmds[i].entry > Base
  PROVE  LET p == cmds[i].entry - Base
         IN  /\ p \in DOMAIN reflog /\ p \in Nat /\ p > 0
             /\ reflog[p].id = cmds[i].entry /\ Anchor(p) = <<p, cmds[i].entry>>
             /\ reflog[p].mode # "noop" /\ PrefixMatches(cmds[i], reflog[p])
             /\ InCommandWindow(cmds[i], reflog[p])
             /\ ~cmds[i].rewritten => Matches(cmds[i], reflog[p])
<1> USE DEF OwnInv
<1> DEFINE p == cmds[i].entry - Base
<1>1. cmds[i].entry \in 1..written
  BY DEF EntriesInOrder
<1>2. p \in DOMAIN reflog /\ p \in Nat /\ p > 0 /\ Base + p = cmds[i].entry
  BY <1>1, Sizes DEF Base
<1>3. reflog[p].id = cmds[i].entry
  BY <1>2 DEF Numbered
<1>4. /\ reflog[p].mode = cmds[i].kind /\ reflog[p].time = cmds[i].time
      /\ cmds[i].rewritten <=> cmds[i].argv \notin {NoSubject, reflog[p].subject}
  BY DEF EntriesInOrder
<1>5. cmds[i].kind \in Kinds /\ cmds[i].time \in Nat
  BY CommandType
<1>6. reflog[p].mode # "noop"
  BY <1>4, <1>5, RefCursorConstants
<1>7. InCommandWindow(cmds[i], reflog[p])
  BY <1>4, <1>5 DEF InCommandWindow
<1>8. PrefixMatches(cmds[i], reflog[p])
  BY <1>4 DEF PrefixMatches
<1>9. ~cmds[i].rewritten => Matches(cmds[i], reflog[p])
  BY <1>4, <1>8 DEF Matches, ExpectedMessage
<1>10. Anchor(p) = <<p, cmds[i].entry>>
  BY <1>3 DEF Anchor
<1> QED BY <1>2, <1>3, <1>6, <1>7, <1>8, <1>9, <1>10

\* The seed of a cold cursor is at most the captured offset, and before the record of the
\* command and of every later one.
LEMMA SeedBefore ==
  ASSUME OwnInv, NEW i, NextCommand(i), SeedsCursor(cmds[i])
  PROVE  LET seed == ClampSeedToOwnEntry(cmds[i])
         IN  /\ seed \in Nat /\ seed < Len(reflog) /\ Base + seed <= written
             /\ \A k \in DOMAIN cmds :
                  k >= i /\ cmds[k].entry # None => Base + seed < cmds[k].entry
<1> USE DEF OwnInv
<1> DEFINE c == cmds[i]
           seed == ClampSeedToOwnEntry(c)
<1>1. i \in DOMAIN cmds /\ i \in Nat /\ i > enriched
  BY Sizes DEF NextCommand
<1>2. c \in Commands /\ c.capture \in Nat /\ c.capture < Len(reflog) /\ CaptureAt(c) = c.capture
  BY <1>1, CommandType, CaptureAtNat DEF NextCommand, SeedsCursor, CaptureAt
<1>3. OwnBefore(c) \in SUBSET Nat /\ \A n \in OwnBefore(c) : n \in DOMAIN reflog /\ n > 0 /\ n <= c.capture
  BY <1>2, AnchorType DEF OwnBefore, Entries
<1>4. OwnBefore(c) # {} => Min(OwnBefore(c)) \in OwnBefore(c)
  BY <1>3, MinProperty
<1>5. seed \in Nat /\ seed <= c.capture
  BY <1>2, <1>3, <1>4 DEF ClampSeedToOwnEntry
<1>6. seed < Len(reflog) /\ Base + seed <= written
  BY <1>2, <1>5, Sizes DEF Base
<1>7. \A k \in DOMAIN cmds : cmds[k].entry # None => cmds[k].entry \in Nat
  BY DEF EntriesInOrder
<1>8. CASE c.timely /\ c.steady
  <2>1. \A k \in DOMAIN cmds : k >= i /\ cmds[k].entry # None => Base + c.capture < cmds[k].entry
    <3> TAKE k \in DOMAIN cmds
    <3>1. CASE k = i
      BY <1>1, <1>2, <1>8, <3>1, Sizes DEF CapturedBefore
    <3>2. CASE k # i
      BY <1>1, <1>2, <1>8, <3>2, Sizes DEF CapturedBefore
    <3> QED BY <3>1, <3>2
  <2> QED BY <1>2, <1>5, <1>6, <1>7, <2>1, Sizes
<1>9. CASE ~(c.timely /\ c.steady)
  <2>1. Late(i) /\ Base = 0
    BY <1>9 DEF NextCommand, Late, Numbered
  <2>2. Unmistakable(i) /\ (~c.timely => c.status = "ok" /\ c.kind # "reset") /\ c.steady
    BY <1>1, <2>1, Sizes DEF Late, Scheduled
  <2>3. c.entry # None /\ c.kind # "reset" /\ ~c.rewritten
    BY <1>1, <1>9, <2>1, <2>2, Sizes DEF Unmistakable, Late, MovedIfOk
  <2>4. c.entry \in Nat /\ c.entry > 0
    BY <1>1, <2>3 DEF EntriesInOrder
  <2>5. /\ c.entry \in DOMAIN reflog /\ reflog[c.entry].mode # "noop"
        /\ Matches(c, reflog[c.entry])
    BY <1>1, <2>1, <2>3, <2>4, OwnRecord
  <2>6. \A n \in OwnBefore(c) : n = c.entry
    BY <2>1, <2>2, <2>4 DEF OwnBefore, Entries, Unmistakable, Numbered
  <2>7. seed < c.entry
    <3>1. CASE OwnBefore(c) = {}
      <4>1. ~(c.entry - 1 < c.capture)
        BY <2>3, <2>4, <2>5, <3>1 DEF OwnBefore, Entries
      <4>2. seed = c.capture
        BY <3>1 DEF ClampSeedToOwnEntry
      <4> QED BY <1>2, <2>4, <4>1, <4>2
    <3>2. CASE OwnBefore(c) # {}
      BY <1>4, <2>4, <2>6, <3>2 DEF ClampSeedToOwnEntry
    <3> QED BY <3>1, <3>2
  <2>8. \A k \in DOMAIN cmds : k >= i /\ cmds[k].entry # None => c.entry <= cmds[k].entry
    BY <1>1, <1>7, <2>3, <2>4, Sizes DEF EntriesInOrder
  <2> QED BY <1>5, <1>6, <1>7, <2>1, <2>4, <2>7, <2>8
<1> QED BY <1>8, <1>9

\* The cursor with which the search begins is behind the command's record.
LEMMA SeededBehind ==
  ASSUME OwnInv, NEW i, NextCommand(i)
  PROVE  Anchored(SeededCursor(cmds[i])) /\ Behind(SeededCursor(cmds[i]), i)
<1> USE DEF OwnInv
<1> DEFINE c == cmds[i]
           seed == ClampSeedToOwnEntry(c)
<1>1. Timely(enriched) \/ Late(enriched)
  BY Sizes DEF NextCommand, Late
<1>2. CASE ~SeedsCursor(c)
  BY <1>1, <1>2 DEF SeededCursor, CursorBehind, NextCommand
<1>3. CASE SeedsCursor(c)
  <2>1. SeededCursor(c) = [offset |-> seed, anchor |-> RecordEndingAt(seed), consumed |-> {}]
    BY <1>3 DEF SeededCursor, InitializeReflogCursor
  <2>2. /\ seed \in Nat /\ seed < Len(reflog) /\ Base + seed <= written
        /\ \A k \in DOMAIN cmds : k >= i /\ cmds[k].entry # None => Base + seed < cmds[k].entry
    BY <1>3, SeedBefore
  <2> HIDE DEF seed
  <2>3. seed \in DOMAIN reflog => RecordEndingAt(seed) = <<seed, Base + seed>>
    BY DEF RecordEndingAt, Anchor, Numbered
  <2>4. seed \notin DOMAIN reflog => RecordEndingAt(seed) = None /\ seed = 0
    BY <2>2, Sizes DEF RecordEndingAt
  <2>5. Behind(SeededCursor(c), i)
    <3> SUFFICES ASSUME NEW a \in Marks(SeededCursor(c))
                 PROVE  /\ a[2] <= written
                        /\ \A k \in DOMAIN cmds : k >= i /\ cmds[k].entry # None => a[2] < cmds[k].entry
      BY DEF Behind
    <3>1. a = RecordEndingAt(seed) /\ a # None
      BY <2>1 DEF Marks
    <3>2. a = <<seed, Base + seed>>
      BY <2>3, <2>4, <3>1
    <3>3. a[2] = Base + seed
      BY <3>2
    <3> QED BY <2>2, <3>3
  <2>6. seed # 0 => RecordEndingAt(seed) # None
    BY <2>4, AnchorType, RefCursorConstants DEF RecordEndingAt, Anchors
  <2> QED BY <2>1, <2>5, <2>6 DEF Anchored
<1> QED BY <1>2, <1>3

\* Forgetting a cursor that the log disagrees with keeps it behind, and what is kept starts
\* before the command's record, which has not been consumed.
LEMMA ValidBehind ==
  ASSUME OwnInv, NEW i \in DOMAIN cmds, NEW cur \in Cursors, Anchored(cur), Behind(cur, i)
  PROVE  /\ Anchored(ValidCursor(cur)) /\ Behind(ValidCursor(cur), i)
         /\ cmds[i].entry # None /\ cmds[i].entry > Base =>
              cmds[i].entry - Base \in Unconsumed(ValidCursor(cur))
<1> USE DEF OwnInv
<1> DEFINE v == ValidCursor(cur)
<1>1. v \in {cur, ClearedCursor}
  BY DEF ValidCursor
<1>2. Marks(ClearedCursor) = {} /\ ClearedCursor.offset = None
  BY DEF Marks, ClearedCursor
<1>3. Anchored(v) /\ Behind(v, i)
  BY <1>1, <1>2 DEF Anchored, Behind
<1>4. ASSUME cmds[i].entry # None, cmds[i].entry > Base
      PROVE  cmds[i].entry - Base \in Unconsumed(v)
  <2> DEFINE p == cmds[i].entry - Base
  <2>1. /\ p \in DOMAIN reflog /\ p \in Nat /\ p > 0 /\ reflog[p].mode # "noop"
        /\ Anchor(p) = <<p, cmds[i].entry>> /\ cmds[i].entry = Base + p /\ Base \in Int
    <3>1. cmds[i].entry \in Nat
      BY <1>4 DEF EntriesInOrder
    <3> QED BY <1>4, <3>1, OwnRecord, Sizes
  <2> HIDE DEF p
  <2>2. i \in Nat
    BY Sizes
  <2>3. \A a \in Marks(v) : a[2] < Base + p
    BY <1>3, <1>4, <2>1, <2>2 DEF Behind
  <2>4. Anchor(p) \notin v.consumed
    BY <2>1, <2>3 DEF Marks
  <2>5. StartOffset(v) \in Nat /\ StartOffset(v) < p
    <3>1. CASE v.offset = None \/ v.offset = 0
      BY <2>1, <3>1 DEF StartOffset
    <3>2. CASE v.offset # None /\ v.offset # 0
      <4>1. v = cur
        BY <1>1, <1>2, <3>2
      <4>2. v.offset \in Nat /\ v.anchor # None
        BY <1>3, <3>2, <4>1 DEF Cursors, Anchored
      <4>3. v.anchor = RecordEndingAt(v.offset)
        BY <1>2, <3>2, <4>1, <4>2 DEF ValidCursor
      <4>4. v.offset \in DOMAIN reflog /\ v.anchor = <<v.offset, Base + v.offset>>
        BY <4>2, <4>3 DEF RecordEndingAt, Anchor, Numbered
      <4>5. v.anchor[2] = Base + v.offset /\ v.anchor \in Marks(v)
        BY <4>2, <4>4 DEF Marks
      <4>6. Base + v.offset < Base + p
        BY <2>3, <4>5
      <4> QED BY <2>1, <3>2, <4>2, <4>6 DEF StartOffset
    <3> QED BY <3>1, <3>2
  <2> QED BY <2>1, <2>4, <2>5 DEF Unconsumed, Entries, p
<1> QED BY <1>3, <1>4

\* A candidate that starts at the hint, or is the least one without a hint, is selected.
LEMMA SelectOwn ==
  ASSUME NEW N \in Nat, NEW S \in SUBSET (1..N), NEW p \in S, NEW hint \in Nat \cup {None},
         hint = None => \A n \in S : p <= n,
         hint # None => p - 1 = hint
  PROVE  SelectCandidate(S, hint) = p
<1> DEFINE after == {n \in S : n - 1 >= hint}
<1>1. S # {} /\ S \in SUBSET Nat /\ after \in SUBSET Nat
  <2>1. S \in SUBSET Nat
    OBVIOUS
  <2>2. after \subseteq S
    OBVIOUS
  <2> QED BY <2>1, <2>2
<1>2. CASE hint = None
  <2>1. Min(S) \in S /\ Min(S) <= p /\ p <= Min(S)
    <3>1. Min(S) \in S /\ \A y \in S : Min(S) <= y
      BY <1>1, MinProperty
    <3> QED BY <1>2, <3>1
  <2>2. Min(S) = p
    <3>1. Min(S) \in Nat /\ p \in Nat
      BY <1>1, <2>1
    <3> QED BY <2>1, <3>1
  <2> QED BY <1>1, <1>2, <2>2 DEF SelectCandidate
<1>3. CASE hint # None
  <2>1. hint \in Nat /\ p \in after /\ \A n \in after : p <= n
    BY <1>1, <1>3
  <2>2. Min(after) \in after /\ Min(after) <= p /\ p <= Min(after)
    BY <1>1, <2>1, MinProperty
  <2>3. Min(after) = p
    BY <1>1, <2>1, <2>2
  <2> QED BY <1>1, <1>3, <2>1, <2>3 DEF SelectCandidate
<1> QED BY <1>2, <1>3

\* The only candidate is selected.
LEMMA SelectOnly ==
  ASSUME NEW N \in Nat, NEW S \in SUBSET (1..N), NEW p \in S, \A n \in S : n = p,
         NEW hint \in Nat \cup {None}
  PROVE  SelectCandidate(S, hint) = p
BY SelectCandidateType

\* A command captured while it ran: its record is the first after the captured offset, and
\* either the hint says so or the search begins there.
LEMMA TimelyHint ==
  ASSUME OwnInv, NEW i, NextCommand(i), cmds[i].timely, cmds[i].steady, cmds[i].entry # None
  PROVE  LET p == cmds[i].entry - Base
             v == ValidCursor(SeededCursor(cmds[i]))
             hint == CommandStartHint(cmds[i])
         IN  /\ cmds[i].entry > Base /\ hint \in Nat \cup {None}
             /\ hint = None => \A n \in Unconsumed(v) : p <= n
             /\ hint # None => p - 1 = hint
<1> USE DEF OwnInv
<1> DEFINE c == cmds[i]
           p == c.entry - Base
           v == ValidCursor(SeededCursor(c))
           hint == CommandStartHint(c)
<1>1. i \in DOMAIN cmds /\ i > enriched /\ c \in Commands /\ c.capture # Pending
  BY Sizes, CommandType DEF NextCommand
<1>2. CaptureAt(c) \in Nat /\ (c.capture # None => c.capture \in Nat)
  BY <1>1, CaptureAtNat
<1>3. c.entry = Base + CaptureAt(c) + 1
  BY <1>1 DEF CapturedBefore
<1>4. c.entry > Base /\ p = CaptureAt(c) + 1
  BY <1>2, <1>3, Sizes
<1>5. p \in DOMAIN reflog
  BY <1>1, <1>4, OwnRecord
<1>6. hint \in Nat \cup {None}
  BY <1>2 DEF CommandStartHint
<1>7. hint # None => p - 1 = hint
  <2>1. hint \in {c.capture, None}
    BY DEF CommandStartHint
  <2> QED BY <1>2, <1>4, <2>1 DEF CaptureAt
<1>8. ASSUME hint = None
      PROVE  \A n \in Unconsumed(v) : p <= n
  <2>1. \A n \in Unconsumed(v) : n \in Nat /\ n > 0
    BY AnchorType DEF Unconsumed, Entries
  <2>2. CASE c.capture = None
    BY <1>4, <2>1, <2>2 DEF CaptureAt
  <2>3. CASE c.capture # None
    <3>1. c.capture \in Nat /\ p = c.capture + 1 /\ c.capture < Len(reflog)
      BY <1>2, <1>4, <1>5, <2>3, Sizes DEF CaptureAt
    <3>2. cursor.offset = None /\ SeedsCursor(c) /\ ClampSeedToOwnEntry(c) = c.capture
      BY <1>8, <2>3, <3>1 DEF CommandStartHint, SeedsCursor
    <3>3. SeededCursor(c) = [offset |-> c.capture, anchor |-> RecordEndingAt(c.capture), consumed |-> {}]
      BY <3>2 DEF SeededCursor, InitializeReflogCursor
    <3>4. v = SeededCursor(c) /\ v.offset = c.capture
      BY <3>1, <3>3, Sizes DEF ValidCursor
    <3>5. StartOffset(v) = c.capture
      BY <2>3, <3>4 DEF StartOffset
    <3> QED BY <2>1, <3>1, <3>5 DEF Unconsumed, Entries
  <2> QED BY <2>2, <2>3
<1> QED BY <1>4, <1>6, <1>7, <1>8

\* The search finds the record of a command captured while it ran; the record of a commit
\* whose subject a hook replaced is found or nothing is, if no other record has its subject.
LEMMA TimelyFound ==
  ASSUME OwnInv, NEW i, NextCommand(i), cmds[i].timely, cmds[i].steady, cmds[i].entry # None
  PROVE  LET p == cmds[i].entry - Base
             v == ValidCursor(SeededCursor(cmds[i]))
             found == FindEntry(cmds[i], v, CommandStartHint(cmds[i]))
         IN  /\ p \in DOMAIN reflog /\ reflog[p].id = cmds[i].entry
             /\ ~cmds[i].rewritten => found = p
             /\ (~\E n \in DOMAIN reflog : Matches(cmds[i], reflog[n])) => found \in {None, p}
<1> USE DEF OwnInv
<1> DEFINE c == cmds[i]
           p == c.entry - Base
           v == ValidCursor(SeededCursor(c))
           hint == CommandStartHint(c)
           exact == {n \in Unconsumed(v) : Matches(c, reflog[n])}
           near == {n \in Unconsumed(v) : /\ PrefixMatches(c, reflog[n])
                                          /\ InCommandWindow(c, reflog[n])}
<1>1. i \in DOMAIN cmds /\ c \in Commands /\ c.capture # Pending
  BY CommandType DEF NextCommand
<1>2. /\ c.entry > Base /\ hint \in Nat \cup {None}
      /\ hint = None => \A n \in Unconsumed(v) : p <= n
      /\ hint # None => p - 1 = hint
  BY TimelyHint
<1>3. /\ p \in DOMAIN reflog /\ reflog[p].id = c.entry /\ PrefixMatches(c, reflog[p])
      /\ InCommandWindow(c, reflog[p]) /\ (~c.rewritten => Matches(c, reflog[p]))
  BY <1>1, <1>2, OwnRecord
<1>4. SeededCursor(c) \in Cursors
  BY <1>1, CursorType
<1>5. p \in Unconsumed(v)
  BY <1>1, <1>2, <1>4, SeededBehind, ValidBehind
<1>6. Unconsumed(v) \subseteq 1..Len(reflog) /\ Len(reflog) \in Nat /\ 0 \notin DOMAIN reflog
  BY Sizes DEF Unconsumed, Entries
<1>7. None \notin DOMAIN reflog
  BY Sizes, RefCursorConstants
<1> HIDE DEF p, v, hint
<1>8. ASSUME ~c.rewritten PROVE FindEntry(c, v, hint) = p
  <2>1. p \in exact /\ exact \in SUBSET (1..Len(reflog)) /\ (hint = None => \A n \in exact : p <= n)
    BY <1>2, <1>3, <1>5, <1>6, <1>8
  <2>2. SelectCandidate(exact, hint) = p
    BY <1>2, <1>6, <2>1, SelectOwn
  <2> QED BY <1>3, <1>7, <2>2 DEF FindEntry, FindEntryInLog
<1>9. ASSUME ~\E n \in DOMAIN reflog : Matches(c, reflog[n])
      PROVE  FindEntry(c, v, hint) \in {None, p}
  <2>1. exact = {}
    BY <1>6, <1>9, Sizes
  <2>2. SelectCandidate(exact, hint) = None
    BY <2>1 DEF SelectCandidate
  <2>3. p \in near /\ near \in SUBSET (1..Len(reflog)) /\ (hint = None => \A n \in near : p <= n)
    BY <1>2, <1>3, <1>5, <1>6
  <2>4. SelectCandidate(near, hint) = p
    BY <1>2, <1>6, <2>3, SelectOwn
  <2>5. FindEntryInCommandWindow(c, v, hint) \in {None, p}
    BY <2>4 DEF FindEntryInCommandWindow
  <2> QED BY <2>2, <2>5 DEF FindEntry, FindEntryInLog
<1> QED BY <1>3, <1>8, <1>9 DEF p, v, hint

\* The search finds the record of a command that cannot be mistaken, wherever its capture lies.
LEMMA LateFound ==
  ASSUME OwnInv, NEW i, NextCommand(i), Late(i), cmds[i].entry # None
  PROVE  LET p == cmds[i].entry - Base
         IN  /\ p \in DOMAIN reflog /\ reflog[p].id = cmds[i].entry
             /\ FindEntry(cmds[i], ValidCursor(SeededCursor(cmds[i])), CommandStartHint(cmds[i])) = p
<1> USE DEF OwnInv
<1> DEFINE c == cmds[i]
           p == c.entry - Base
           v == ValidCursor(SeededCursor(c))
           hint == CommandStartHint(c)
           exact == {n \in Unconsumed(v) : Matches(c, reflog[n])}
<1>1. i \in DOMAIN cmds /\ i \in Nat /\ c \in Commands /\ c.capture # Pending
  BY CommandType, Sizes DEF NextCommand
<1>2. c.entry \in Nat /\ c.entry > 0 /\ Base = 0 /\ Unmistakable(i)
  BY <1>1, Sizes DEF EntriesInOrder, Late, Numbered
<1>3. p \in DOMAIN reflog /\ reflog[p].id = c.entry /\ Matches(c, reflog[p]) /\ p = c.entry
  BY <1>1, <1>2, OwnRecord DEF Unmistakable
<1>4. SeededCursor(c) \in Cursors
  BY <1>1, CursorType
<1>5. p \in Unconsumed(v)
  BY <1>1, <1>2, <1>4, SeededBehind, ValidBehind
<1>6. Unconsumed(v) \subseteq 1..Len(reflog) /\ Len(reflog) \in Nat /\ DOMAIN reflog = 1..Len(reflog)
  BY Sizes DEF Unconsumed, Entries
<1>7. hint \in Nat \cup {None}
  BY <1>1, CaptureAtNat DEF CommandStartHint
<1>8. \A n \in exact : n = p
  BY <1>2, <1>3, <1>6 DEF Unmistakable, Numbered
<1> HIDE DEF p, v, hint
<1>9. SelectCandidate(exact, hint) = p
  BY <1>3, <1>5, <1>6, <1>7, <1>8, SelectOnly
<1>10. None # p
  BY <1>3, <1>6, RefCursorConstants
<1>11. FindEntry(c, v, hint) = p
  BY <1>9, <1>10 DEF FindEntry, FindEntryInLog
<1> QED BY <1>3, <1>11 DEF p, v, hint

-----------------------------------------------------------------------------
(* Enrichment.                                                              *)

\* Whatever its command is, a cursor away from the start of the log gets an anchor.
LEMMA AnchoredAlways ==
  ASSUME OwnInv, NEW c \in Commands, c.capture # Pending
  PROVE  /\ Anchored(SeededCursor(c)) /\ Anchored(ValidCursor(SeededCursor(c)))
         /\ \A n \in DOMAIN reflog : Anchored(ConsumeEntry(ValidCursor(SeededCursor(c)), n))
<1> USE DEF OwnInv
<1>1. \A n \in DOMAIN reflog : Anchor(n) # None
  BY AnchorType, RefCursorConstants DEF Anchors
<1>2. Anchored(SeededCursor(c))
  <2> DEFINE seed == ClampSeedToOwnEntry(c)
  <2>1. CASE ~SeedsCursor(c)
    BY <2>1 DEF SeededCursor, CursorBehind
  <2>2. CASE SeedsCursor(c)
    <3>1. c.capture \in Nat /\ c.capture < Len(reflog)
      BY <2>2, CaptureAtNat DEF SeedsCursor
    <3>2. OwnBefore(c) \in SUBSET Nat /\ \A n \in OwnBefore(c) : n > 0 /\ n <= c.capture
      BY <3>1, AnchorType DEF OwnBefore, Entries
    <3>3. OwnBefore(c) # {} => Min(OwnBefore(c)) \in OwnBefore(c)
      BY <3>2, MinProperty
    <3>4. seed \in Nat /\ seed <= c.capture
      BY <3>1, <3>2, <3>3 DEF ClampSeedToOwnEntry
    <3>5. SeededCursor(c) = [offset |-> seed, anchor |-> RecordEndingAt(seed), consumed |-> {}]
      BY <2>2 DEF SeededCursor, InitializeReflogCursor
    <3> HIDE DEF seed
    <3>6. seed # 0 => RecordEndingAt(seed) # None
      BY <1>1, <3>1, <3>4, Sizes DEF RecordEndingAt
    <3> QED BY <3>5, <3>6 DEF Anchored
  <2> QED BY <2>1, <2>2
<1>3. Anchored(ValidCursor(SeededCursor(c)))
  BY <1>2 DEF ValidCursor, ClearedCursor, Anchored
<1>4. ASSUME NEW cur \in Cursors, Anchored(cur), NEW n \in DOMAIN reflog
      PROVE  Anchored(ConsumeEntry(cur, n))
  <2> DEFINE consumed == cur.consumed \cup {Anchor(n)}
             entries  == Entries(StartOffset(cur))
             passed   == {m \in entries : \A k \in entries : k <= m => Anchor(k) \in consumed}
  <2>1. CASE passed = {}
    <3>1. ConsumeEntry(cur, n) = [cur EXCEPT !.consumed = consumed]
      BY <2>1 DEF ConsumeEntry
    <3> HIDE DEF consumed
    <3>2. ConsumeEntry(cur, n).offset = cur.offset /\ ConsumeEntry(cur, n).anchor = cur.anchor
      BY <3>1 DEF Cursors
    <3> QED BY <1>4, <3>2 DEF Anchored
  <2>2. CASE passed # {}
    <3>1. passed \in SUBSET (0..Len(reflog)) /\ passed \subseteq DOMAIN reflog /\ Len(reflog) \in Nat
      BY Sizes DEF Entries
    <3>2. Max(passed) \in DOMAIN reflog
      BY <2>2, <3>1, MaxProperty
    <3>3. ConsumeEntry(cur, n) = [offset |-> Max(passed), anchor |-> Anchor(Max(passed)),
                                  consumed |-> {a \in consumed : a[1] > Max(passed)}]
      BY <2>2 DEF ConsumeEntry
    <3> HIDE DEF consumed, passed
    <3> QED BY <1>1, <3>2, <3>3 DEF Anchored
  <2> QED BY <2>1, <2>2
<1>5. ValidCursor(SeededCursor(c)) \in Cursors
  BY CursorType
<1> QED BY <1>2, <1>3, <1>4, <1>5

\* Consuming an entry marks no other record.
LEMMA ConsumeMarks ==
  ASSUME TypeOK, NEW cur \in Cursors, NEW n \in DOMAIN reflog
  PROVE  Marks(ConsumeEntry(cur, n)) \subseteq Marks(cur) \cup {Anchor(n)}
<1> DEFINE consumed == cur.consumed \cup {Anchor(n)}
           entries  == Entries(StartOffset(cur))
           passed   == {m \in entries : \A k \in entries : k <= m => Anchor(k) \in consumed}
<1>1. CASE passed = {}
  <2>1. ConsumeEntry(cur, n) = [cur EXCEPT !.consumed = consumed]
    BY <1>1 DEF ConsumeEntry
  <2>2. ConsumeEntry(cur, n).consumed = consumed /\ ConsumeEntry(cur, n).anchor = cur.anchor
    BY <2>1 DEF Cursors
  <2> QED BY <2>2 DEF Marks
<1>2. CASE passed # {}
  <2>1. passed \in SUBSET (0..Len(reflog)) /\ Len(reflog) \in Nat
    BY Sizes DEF Entries
  <2>2. Max(passed) \in passed
    BY <1>2, <2>1, MaxProperty
  <2>3. Max(passed) \in Nat
    BY <2>1, <2>2
  <2>4. Anchor(Max(passed)) \in consumed
    <3>1. Max(passed) \in entries /\ \A k \in entries : k <= Max(passed) => Anchor(k) \in consumed
      BY <2>2
    <3>2. Max(passed) <= Max(passed)
      BY <2>3
    <3> QED BY <3>1, <3>2
  <2>5. ConsumeEntry(cur, n) = [offset |-> Max(passed), anchor |-> Anchor(Max(passed)),
                                consumed |-> {a \in consumed : a[1] > Max(passed)}]
    BY <1>2 DEF ConsumeEntry
  <2>6. /\ ConsumeEntry(cur, n).consumed \subseteq consumed
        /\ ConsumeEntry(cur, n).anchor = Anchor(Max(passed))
    BY <2>5
  <2> QED BY <2>4, <2>6 DEF Marks
<1> QED BY <1>1, <1>2

\* What an enrichment leaves as it is.
LEMMA EnrichFrame ==
  ASSUME OwnInv, TypeOK', Enrich
  PROVE  LET i == enriched + 1
             v == ValidCursor(SeededCursor(cmds[i]))
             found == FindEntry(cmds[i], v, CommandStartHint(cmds[i]))
         IN  /\ i \in DOMAIN cmds /\ cmds[i] \in Commands /\ enriched' = i
             /\ cmds[i].status # "running" /\ cmds[i].capture # Pending
             /\ UNCHANGED <<reflog, written, clock, untraced, expiries>>
             /\ DOMAIN cmds' = DOMAIN cmds /\ Len(cmds') = Len(cmds)
             /\ \A j \in DOMAIN cmds :
                  /\ j # i => cmds'[j] = cmds[j]
                  /\ cmds'[j].entry = cmds[j].entry /\ cmds'[j].kind = cmds[j].kind
                  /\ cmds'[j].time = cmds[j].time /\ cmds'[j].argv = cmds[j].argv
                  /\ cmds'[j].rewritten = cmds[j].rewritten /\ cmds'[j].steady = cmds[j].steady
                  /\ cmds'[j].status = cmds[j].status /\ cmds'[j].timely = cmds[j].timely
                  /\ cmds'[j].capture = cmds[j].capture
             /\ cmds[i].status = "failed" => cursor' = SeededCursor(cmds[i]) /\ cmds' = cmds
             /\ cmds[i].status = "ok" =>
                  /\ found = None => cursor' = v /\ cmds' = cmds
                  /\ found # None => /\ cursor' = ConsumeEntry(v, found)
                                     /\ cmds'[i].owned = reflog[found].id
<1> USE DEF OwnInv
<1> DEFINE i == enriched + 1
           v == ValidCursor(SeededCursor(cmds[i]))
           found == FindEntry(cmds[i], v, CommandStartHint(cmds[i]))
<1>1. /\ i \in DOMAIN cmds /\ enriched' = i /\ cmds[i].status # "running" /\ cmds[i].capture # Pending
      /\ UNCHANGED <<reflog, written, clock, untraced, expiries>>
      /\ \/ cmds[i].status = "failed" /\ cursor' = SeededCursor(cmds[i]) /\ cmds' = cmds
         \/ cmds[i].status = "ok" /\ Attribute(i, v, found)
  BY DEF Enrich
<1>2. cmds[i] \in Commands
  BY <1>1, CommandType
<1> HIDE DEF v, found
<1>3. CASE cmds' = cmds
  <2>1. cmds[i].status = "ok" => found = None \/ cursor' = ConsumeEntry(v, found)
    BY <1>1 DEF Attribute
  <2>2. cmds[i].status = "ok" /\ found # None => cmds'[i].owned = reflog[found].id
    BY <1>1, <1>2, <1>3 DEF Attribute, Commands
  <2> QED BY <1>1, <1>2, <1>3, <2>1, <2>2 DEF Attribute, v, found
<1>4. CASE cmds' # cmds
  <2>1. /\ cmds[i].status = "ok" /\ found # None /\ cursor' = ConsumeEntry(v, found)
        /\ cmds' = [cmds EXCEPT ![i].owned = reflog[found].id]
    BY <1>1, <1>4 DEF Attribute
  <2>2. cmds'[i] = [cmds[i] EXCEPT !.owned = reflog[found].id]
    BY <1>1, <2>1
  <2>3. /\ cmds'[i].owned = reflog[found].id /\ cmds'[i].entry = cmds[i].entry
        /\ cmds'[i].kind = cmds[i].kind /\ cmds'[i].time = cmds[i].time
        /\ cmds'[i].argv = cmds[i].argv /\ cmds'[i].rewritten = cmds[i].rewritten
        /\ cmds'[i].steady = cmds[i].steady /\ cmds'[i].status = cmds[i].status
        /\ cmds'[i].timely = cmds[i].timely /\ cmds'[i].capture = cmds[i].capture
    BY <1>2, <2>2 DEF Commands
  <2>4. /\ DOMAIN cmds' = DOMAIN cmds /\ Len(cmds') = Len(cmds)
        /\ \A j \in DOMAIN cmds : j # i => cmds'[j] = cmds[j]
    BY <2>1, Sizes DEF TypeOK
  <2> HIDE DEF i
  <2>5. cmds[i].status # "failed"
    BY <2>1
  <2>6. \A j \in DOMAIN cmds :
                  /\ j # i => cmds'[j] = cmds[j]
                  /\ cmds'[j].entry = cmds[j].entry /\ cmds'[j].kind = cmds[j].kind
                  /\ cmds'[j].time = cmds[j].time /\ cmds'[j].argv = cmds[j].argv
                  /\ cmds'[j].rewritten = cmds[j].rewritten /\ cmds'[j].steady = cmds[j].steady
                  /\ cmds'[j].status = cmds[j].status /\ cmds'[j].timely = cmds[j].timely
                  /\ cmds'[j].capture = cmds[j].capture
    BY <2>3, <2>4
  <2> QED BY <1>1, <1>2, <2>1, <2>3, <2>4, <2>5, <2>6 DEF i, v, found
<1> QED BY <1>3, <1>4

\* The record attributed to a command that the properties speak of is its own.
LEMMA EnrichFinds ==
  ASSUME OwnInv, TypeOK', Enrich, NextCommand(enriched + 1), cmds[enriched + 1].entry # None,
         cmds[enriched + 1].status = "ok", ~cmds[enriched + 1].rewritten
  PROVE  LET i == enriched + 1
             p == cmds[i].entry - Base
         IN  /\ p \in DOMAIN reflog /\ reflog[p].id = cmds[i].entry
             /\ cmds'[i].owned = cmds[i].entry
             /\ cursor' = ConsumeEntry(ValidCursor(SeededCursor(cmds[i])), p)
<1> DEFINE i == enriched + 1
           p == cmds[i].entry - Base
           v == ValidCursor(SeededCursor(cmds[i]))
           found == FindEntry(cmds[i], v, CommandStartHint(cmds[i]))
<1>1. p \in DOMAIN reflog /\ reflog[p].id = cmds[i].entry /\ found = p
  <2>1. CASE cmds[i].timely /\ cmds[i].steady
    BY <2>1, TimelyFound
  <2>2. CASE ~(cmds[i].timely /\ cmds[i].steady)
    <3>1. Late(i)
      BY <2>2 DEF NextCommand
    <3> QED BY <3>1, LateFound
  <2> QED BY <2>1, <2>2
<1>2. p # None
  BY <1>1, Sizes, RefCursorConstants DEF OwnInv
<1>3. found # None => cursor' = ConsumeEntry(v, found) /\ cmds'[i].owned = reflog[found].id
  BY EnrichFrame
<1> HIDE DEF i, p, v, found
<1> QED BY <1>1, <1>2, <1>3 DEF i, p, v, found

\* The family actor enriches a command.
LEMMA OwnEnrich ==
  ASSUME OwnInv, TypeOK', Enrich
  PROVE  OwnInv'
<1> USE DEF OwnInv
<1> SUFFICES ASSUME NEW i \in {enriched + 1} PROVE OwnInv'
  OBVIOUS
<1>0. i = enriched + 1
  OBVIOUS
<1> DEFINE c == cmds[i]
           v == ValidCursor(SeededCursor(c))
           found == FindEntry(c, v, CommandStartHint(c))
<1>1. /\ i \in DOMAIN cmds /\ c \in Commands /\ enriched' = i
      /\ c.status # "running" /\ c.capture # Pending
      /\ UNCHANGED <<reflog, written, clock, untraced, expiries>>
      /\ DOMAIN cmds' = DOMAIN cmds /\ Len(cmds') = Len(cmds)
      /\ \A j \in DOMAIN cmds :
           /\ j # i => cmds'[j] = cmds[j]
           /\ cmds'[j].entry = cmds[j].entry /\ cmds'[j].kind = cmds[j].kind
           /\ cmds'[j].time = cmds[j].time /\ cmds'[j].argv = cmds[j].argv
           /\ cmds'[j].rewritten = cmds[j].rewritten /\ cmds'[j].steady = cmds[j].steady
           /\ cmds'[j].status = cmds[j].status /\ cmds'[j].timely = cmds[j].timely
           /\ cmds'[j].capture = cmds[j].capture
  BY <1>0, EnrichFrame
<1>2. /\ c.status = "failed" => cursor' = SeededCursor(c) /\ cmds' = cmds
      /\ c.status = "ok" =>
           /\ found = None => cursor' = v /\ cmds' = cmds
           /\ found # None => /\ cursor' = ConsumeEntry(v, found)
                              /\ cmds'[i].owned = reflog[found].id
  BY <1>0, EnrichFrame
<1>3. c.status \in {"ok", "failed"}
  BY <1>1 DEF Commands
<1>4. Base' = Base /\ Numbered'
  BY <1>1 DEF Base, Numbered
<1>5. Scheduled'
  <2> SUFFICES ASSUME NEW j \in DOMAIN cmds
               PROVE  /\ cmds[j].status = "running" => j = Len(cmds)
                      /\ j <= i => cmds[j].status # "running" /\ cmds[j].capture # Pending
                      /\ j > i => cmds'[j].owned = None
                      /\ cmds[j].timely => cmds[j].capture # Pending
                      /\ cmds[j].status # "ok" => cmds[j].entry = None
                      /\ expiries = 0 => cmds[j].steady
    BY <1>1 DEF Scheduled
  <2>1. j <= i => j <= enriched \/ j = i
    BY <1>0, Sizes
  <2>2. j > i => j # i /\ j > enriched
    BY <1>0, Sizes
  <2> QED BY <1>1, <2>1, <2>2 DEF Scheduled
<1>6. EntriesInOrder'
  BY <1>1, <1>4 DEF EntriesInOrder
<1>7. CapturedBefore'
  <2>1. \A j \in DOMAIN cmds : j > i => j > enriched
    BY <1>0, Sizes
  <2>2. \A j \in DOMAIN cmds : CaptureAt(cmds'[j]) = CaptureAt(cmds[j])
    BY <1>1 DEF CaptureAt
  <2> QED BY <1>1, <1>4, <2>1, <2>2 DEF CapturedBefore
<1>8. Anchored(cursor')
  <2>1. found \in DOMAIN reflog \cup {None}
    <3>1. CommandStartHint(c) \in Nat \cup {None}
      BY <1>1, CaptureAtNat DEF CommandStartHint
    <3> QED BY <1>1, <3>1, FindEntryType
  <2>2. /\ Anchored(SeededCursor(c)) /\ Anchored(v)
        /\ \A n \in DOMAIN reflog : Anchored(ConsumeEntry(v, n))
    BY <1>1, AnchoredAlways
  <2> HIDE DEF c, v, found
  <2> QED BY <1>2, <1>3, <2>1, <2>2
<1>9. ASSUME Timely(i)' \/ Late(i)'
      PROVE  Behind(cursor, i + 1)'
  <2>1. \A j \in 1..i : j \in DOMAIN cmds
    BY <1>0, <1>1, Sizes
  <2>2. Timely(i)' => Timely(enriched) /\ c.timely /\ c.steady /\ cmds'[i].owned = c.entry
    <3>1. i \in 1..i /\ \A j \in 1..enriched : j \in 1..i /\ j # i
      BY <1>0, Sizes
    <3> QED BY <1>1, <2>1, <3>1 DEF Timely
  <2>3. Late(i)' => Late(i)
    <3>1. \A j \in DOMAIN cmds : \A e : Matches(cmds'[j], e) = Matches(cmds[j], e)
      BY <1>1 DEF Matches, PrefixMatches, ExpectedMessage
    <3>2. \A j \in DOMAIN cmds : Unmistakable(j)' => Unmistakable(j)
      BY <1>1, <3>1 DEF Unmistakable
    <3>3. \A j \in DOMAIN cmds : MovedIfOk(cmds'[j]) => MovedIfOk(cmds[j])
      BY <1>1 DEF MovedIfOk
    <3> QED BY <1>1, <2>1, <3>2, <3>3 DEF Late
  <2>4. NextCommand(i)
    BY <1>0, <1>1, <1>9, <2>2, <2>3 DEF NextCommand
  <2>5. Behind(SeededCursor(c), i) /\ Anchored(SeededCursor(c))
    BY <2>4, SeededBehind
  <2>6. SeededCursor(c) \in Cursors /\ v \in Cursors
    BY <1>1, CursorType
  <2>7. Behind(v, i)
    BY <1>1, <2>5, <2>6, ValidBehind
  <2>8. \A k \in DOMAIN cmds : k >= i + 1 => k >= i /\ k > i
    BY <1>0, Sizes
  <2>9. found \in DOMAIN reflog \cup {None}
    <3>1. CommandStartHint(c) \in Nat \cup {None}
      BY <1>1, CaptureAtNat DEF CommandStartHint
    <3> QED BY <1>1, <3>1, FindEntryType
  <2>10. c.status = "ok" /\ found # None => cmds'[i].owned = c.entry
    <3>1. Late(i) /\ c.status = "ok" => c.entry # None /\ ~c.rewritten
      BY <1>0, <1>1, Sizes DEF Late, MovedIfOk, Unmistakable
    <3>2. Late(i) /\ c.status = "ok" => cmds'[i].owned = c.entry
      BY <1>0, <2>4, <3>1, EnrichFinds
    <3> QED BY <1>9, <2>2, <2>3, <3>2
  <2>11. Behind(cursor', i + 1)
    <3>1. CASE c.status = "failed" \/ found = None
      <4>1. Behind(SeededCursor(c), i + 1) /\ Behind(v, i + 1)
        BY <2>5, <2>7, <2>8 DEF Behind
      <4> HIDE DEF c, v, found
      <4> QED BY <1>2, <1>3, <3>1, <4>1
    <3>2. CASE c.status = "ok" /\ found # None
      <4>1. found \in DOMAIN reflog /\ reflog[found].id = c.entry /\ cursor' = ConsumeEntry(v, found)
        BY <1>2, <2>9, <2>10, <3>2
      <4>2. Anchor(found) = <<found, c.entry>> /\ c.entry # None
        BY <4>1, AnchorType, RefCursorConstants DEF Anchor
      <4>3. Marks(ConsumeEntry(v, found)) \subseteq Marks(v) \cup {Anchor(found)}
        BY <2>6, <4>1, ConsumeMarks
      <4>4. /\ c.entry <= written
            /\ \A k \in DOMAIN cmds : k > i /\ cmds[k].entry # None => c.entry < cmds[k].entry
        BY <1>1, <4>2, Sizes DEF EntriesInOrder
      <4> HIDE DEF c, v, found
      <4>5. ASSUME NEW a \in Marks(cursor')
            PROVE  /\ a[2] <= written
                   /\ \A k \in DOMAIN cmds : k >= i + 1 /\ cmds[k].entry # None => a[2] < cmds[k].entry
        <5>1. CASE a \in Marks(v)
          BY <2>7, <2>8, <5>1 DEF Behind
        <5>2. CASE a = Anchor(found)
          <6>1. a[2] = c.entry
            BY <4>2, <5>2
          <6> QED BY <2>8, <4>4, <6>1
        <5> QED BY <4>1, <4>3, <4>5, <5>1, <5>2
      <4> QED BY <4>5 DEF Behind
    <3> HIDE DEF c, v, found
    <3> QED BY <1>3, <3>1, <3>2
  <2> QED BY <1>1, <2>11 DEF Behind, Marks
<1>10. CursorBehind'
  <2>1. enriched' = i /\ Anchored(cursor)'
    BY <1>1, <1>8 DEF Anchored
  <2>2. Timely(enriched)' => Timely(i)'
    BY <2>1 DEF Timely
  <2>3. Late(enriched)' => Late(i)'
    BY <2>1 DEF Late
  <2>4. Behind(cursor, i + 1)' => Behind(cursor, enriched + 1)'
    BY <2>1 DEF Behind
  <2> QED BY <1>9, <2>1, <2>2, <2>3, <2>4 DEF CursorBehind
<1> QED BY <1>4, <1>5, <1>6, <1>7, <1>10

\* Every step keeps the invariant.
LEMMA OwnNext == OwnInv /\ [Next]_vars => OwnInv'
<1> SUFFICES ASSUME OwnInv, [Next]_vars PROVE OwnInv'
  OBVIOUS
<1>1. TypeOK'
  BY TypeNext DEF OwnInv
<1>2. CASE UNCHANGED vars
  BY <1>2 DEF vars, OwnInv, TypeOK, Numbered, Scheduled, EntriesInOrder, CapturedBefore, CaptureAt,
       CursorBehind, Timely, Late, Unmistakable, MovedIfOk, Behind, Marks, Anchored, Base
<1>3. CASE Next
  BY <1>1, <1>3, OwnBegin, OwnFinish, OwnFinishInPlace, OwnCommand, OwnUntraced, OwnExpire, OwnEnrich DEF Next
<1> QED BY <1>2, <1>3

\* Only the family actor enriches.
LEMMA EnrichesByEnrich ==
  ASSUME OwnInv, [Next]_vars, NEW i, Enriches(i)
  PROVE  Enrich /\ i = enriched + 1
<1>1. enriched \in Nat /\ enriched' # enriched /\ i = enriched + 1
  <2>1. enriched \in Nat /\ enriched' = i /\ enriched = i - 1
    BY Sizes DEF OwnInv, Enriches
  <2>2. enriched' \in Nat
    BY TypeNext, Sizes DEF OwnInv, TypeOK
  <2> QED BY <2>1, <2>2
<1> QED BY <1>1 DEF Next, vars, Begin, Finish, FinishInPlace, Fail, Capture,
                  LoseCapture, Untraced, Expire

\* An enrichment of a command that was captured while it ran and, if it ended well, moved
\* HEAD, after commands that were given theirs, gives it its own record, or, if a hook
\* replaced its subject and no other record has it, its own or none.
LEMMA TimelyStep ==
  ASSUME OwnInv, [Next]_vars, NEW i \in DOMAIN cmds, Enriches(i), MovedIfOk(cmds[i]),
         \A j \in 1..i : cmds[j].timely /\ cmds[j].steady,
         \A j \in 1..(i - 1) : cmds[j].owned = cmds[j].entry
  PROVE  /\ ~cmds[i].rewritten => cmds'[i].owned = cmds[i].entry
         /\ (~\E n \in DOMAIN reflog : Matches(cmds[i], reflog[n])) =>
               cmds'[i].owned \in {None, cmds[i].entry}
<1>1. Enrich /\ i = enriched + 1 /\ TypeOK'
  BY EnrichesByEnrich, TypeNext DEF OwnInv
<1>2. i \in Nat /\ enriched \in Nat /\ i - 1 = enriched /\ i \in 1..i
  BY <1>1, Sizes DEF OwnInv
<1> DEFINE v == ValidCursor(SeededCursor(cmds[i]))
           found == FindEntry(cmds[i], v, CommandStartHint(cmds[i]))
           p == cmds[i].entry - Base
<1>3. /\ cmds[i] \in Commands /\ cmds[i].status # "running" /\ cmds[i].capture # Pending
      /\ cmds[i].status = "failed" => cmds' = cmds
      /\ cmds[i].status = "ok" => /\ found = None => cmds' = cmds
                                  /\ found # None => cmds'[i].owned = reflog[found].id
  BY <1>1, EnrichFrame
<1>4. Timely(enriched)
  BY <1>2 DEF Timely
<1>5. NextCommand(i)
  BY <1>1, <1>2, <1>3, <1>4 DEF NextCommand
<1>6. cmds[i].owned = None /\ (cmds[i].status # "ok" => cmds[i].entry = None)
  BY <1>1, <1>2 DEF OwnInv, Scheduled
<1>7. cmds[i].status \in {"ok", "failed"}
  BY <1>3 DEF Commands
<1>8. CASE cmds[i].status = "failed"
  BY <1>3, <1>6, <1>8
<1>9. CASE cmds[i].status = "ok"
  <2>1. /\ p \in DOMAIN reflog /\ reflog[p].id = cmds[i].entry
        /\ ~cmds[i].rewritten => found = p
        /\ (~\E n \in DOMAIN reflog : Matches(cmds[i], reflog[n])) => found \in {None, p}
    BY <1>2, <1>5, <1>9, TimelyFound DEF MovedIfOk
  <2>2. p # None
    BY <2>1, Sizes, RefCursorConstants DEF OwnInv
  <2> HIDE DEF p, found
  <2> QED BY <1>3, <1>6, <1>9, <2>1, <2>2
<1> QED BY <1>7, <1>8, <1>9

\* An enrichment of a command that cannot be mistaken gives it its own record, although its
\* capture may lie past that record.
LEMMA LateStep ==
  ASSUME OwnInv, [Next]_vars, NEW i \in DOMAIN cmds, Enriches(i), expiries = 0,
         \A j \in 1..i :
            /\ Unmistakable(j) /\ MovedIfOk(cmds[j])
            /\ ~cmds[j].timely => cmds[j].status = "ok" /\ cmds[j].kind # "reset"
  PROVE  cmds'[i].owned = cmds[i].entry
<1>1. Enrich /\ i = enriched + 1 /\ TypeOK'
  BY EnrichesByEnrich, TypeNext DEF OwnInv
<1>2. i \in Nat /\ i \in 1..i
  BY <1>1, Sizes DEF OwnInv
<1>3. /\ cmds[i] \in Commands /\ cmds[i].status # "running" /\ cmds[i].capture # Pending
      /\ cmds[i].status = "failed" => cmds' = cmds
  BY <1>1, EnrichFrame
<1>4. Late(i)
  BY DEF Late
<1>5. NextCommand(i) /\ ~cmds[i].rewritten
  BY <1>1, <1>2, <1>3, <1>4 DEF NextCommand, Unmistakable
<1>6. cmds[i].owned = None /\ (cmds[i].status # "ok" => cmds[i].entry = None)
  BY <1>1, Sizes DEF OwnInv, Scheduled
<1>7. cmds[i].status \in {"ok", "failed"}
  BY <1>3 DEF Commands
<1>8. CASE cmds[i].status = "failed"
  BY <1>3, <1>6, <1>8
<1>9. CASE cmds[i].status = "ok"
  BY <1>1, <1>2, <1>5, <1>9, EnrichFinds DEF MovedIfOk
<1> QED BY <1>7, <1>8, <1>9

\* The invariant holds throughout.
LEMMA OwnAlways == Spec => []OwnInv
BY OwnInit, OwnNext, PTL DEF Spec

\* enrich_command gives a command that moved HEAD the record that it wrote, and one that
\* failed none, whatever records look like it, if it and the commands before it were captured
\* while they ran, no record expired between the capture and the enrichment of one of them,
\* each command before it was given what it wrote, and no hook replaced its subject.
THEOREM TimelyCommandsOwn == Spec => TimelyOwnsItsEntry
<1>1. OwnInv /\ [Next]_vars =>
        [\A i \in DOMAIN cmds :
          /\ Enriches(i) /\ MovedIfOk(cmds[i])
          /\ \A j \in 1..i : cmds[j].timely /\ cmds[j].steady
          /\ \A j \in 1..(i - 1) : cmds[j].owned = cmds[j].entry
          => /\ ~cmds[i].rewritten => cmds'[i].owned = cmds[i].entry
             /\ (~\E n \in DOMAIN reflog : Matches(cmds[i], reflog[n])) =>
                   cmds'[i].owned \in {None, cmds[i].entry}]_vars
  BY TimelyStep
<1> QED BY <1>1, OwnAlways, PTL DEF Spec, TimelyOwnsItsEntry

\* enrich_command gives commits that cannot be mistaken for one another each its own record
\* even when the reader noted the length of the log only after the command had written, as
\* long as no record has expired and every command before that did not fail moved HEAD.
THEOREM LateCommandsOwn == Spec => LateOwnsItsEntry
<1>1. OwnInv /\ [Next]_vars =>
        [\A i \in DOMAIN cmds :
          /\ Enriches(i) /\ expiries = 0
          /\ \A j \in 1..i :
                /\ Unmistakable(j) /\ MovedIfOk(cmds[j])
                /\ ~cmds[j].timely => cmds[j].status = "ok" /\ cmds[j].kind # "reset"
          => cmds'[i].owned = cmds[i].entry]_vars
  BY LateStep
<1> QED BY <1>1, OwnAlways, PTL DEF Spec, LateOwnsItsEntry
=============================================================================
