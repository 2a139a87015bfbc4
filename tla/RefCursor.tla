----------------------------- MODULE RefCursor -----------------------------
(***************************************************************************)
(* How the daemon finds the reflog entry of a finished git command.  The   *)
(* HEAD reflog of one worktree is written by git; the trace reader notes   *)
(* its length at some moment after the command began, and the family actor *)
(* reads the log only after the command has ended, one command at a time   *)
(* in the order in which they began.  Every record has length one, so the  *)
(* record at position n starts at offset n - 1 and ends at offset n; its   *)
(* id stands for its pair of object ids.  The git processes of one         *)
(* worktree exclude one another; the daemon lags behind them.              *)
(***************************************************************************)
EXTENDS Integers, Sequences, FiniteSets, FiniteSetsExt

CONSTANTS
    Kinds,          \* the commands: commit, commit --amend, reset to a target
    Subjects,       \* subjects of commits, targets of resets
    NoSubject,      \* the argument list gives no message (an editor is used), no target
    None,           \* no offset, no record, no entry
    Pending,        \* the reader has not noted the reflog's length yet
    Gaps,           \* seconds that may pass before a git process
    MaxCommands, MaxLag, MaxUntraced, MaxExpiries

ASSUME RefCursorConstants ==
    /\ Kinds \subseteq {"commit", "amend", "reset"}
    /\ Gaps \subseteq Nat
    /\ {MaxCommands, MaxLag, MaxUntraced, MaxExpiries} \subseteq Nat
    /\ NoSubject \notin Subjects
    /\ None \notin Nat \cup {Pending} /\ None \notin Nat \X Nat
    /\ Pending \notin Nat

VARIABLES
    reflog,     \* the records of logs/HEAD
    written,    \* the number of records git has written so far
    cmds,       \* the traced commands, in the order in which they began
    enriched,   \* how many of them the family actor has enriched
    cursor,     \* offsets, anchors and consumed entries of the HEAD key
    clock, untraced, expiries

vars == <<reflog, written, cmds, enriched, cursor, clock, untraced, expiries>>

Records == [id : Nat, mode : Kinds \cup {"noop"}, subject : Subjects \cup {NoSubject},
            time : Nat]

\* A record together with the offset at which it ends.
Anchors == Nat \X Nat

Commands ==
    [kind : Kinds, argv : Subjects \cup {NoSubject}, time : Nat,
     status : {"running", "ok", "failed"},
     capture : Nat \cup {None, Pending},    \* reflog_start_offsets of HEAD
     timely : BOOLEAN,      \* captured while the command ran
     steady : BOOLEAN,      \* no record expired from its capture to its enrichment
     rewritten : BOOLEAN,   \* a hook recorded another subject than argv gave
     entry : Nat \cup {None},               \* the record that moved HEAD for it
     owned : Nat \cup {None}]               \* the record attributed to it

ClearedCursor == [offset |-> None, anchor |-> None, consumed |-> {}]

\* The log, the commands and the cursor stay within their types; in particular a
\* clamped seed is never negative.
TypeOK ==
    /\ reflog \in Seq(Records)
    /\ written \in Nat /\ clock \in Nat
    /\ cmds \in Seq(Commands) /\ enriched \in 0..Len(cmds)
    /\ cursor \in [offset : Nat \cup {None}, anchor : Anchors \cup {None},
                   consumed : SUBSET Anchors]
    /\ untraced \in 0..MaxUntraced /\ expiries \in 0..MaxExpiries

Init ==
    /\ reflog = <<>> /\ written = 0
    /\ cmds = <<>> /\ enriched = 0
    /\ cursor = ClearedCursor
    /\ clock = 0 /\ untraced = 0 /\ expiries = 0

-----------------------------------------------------------------------------
(* git *)

Idle == \A i \in DOMAIN cmds : cmds[i].status # "running"

Write(mode, subject, time) ==
    /\ reflog' = Append(reflog, [id |-> written + 1, mode |-> mode,
                                 subject |-> subject, time |-> time])
    /\ written' = written + 1

Begin(kind, argv, gap) ==
    /\ Idle /\ Len(cmds) < MaxCommands /\ Len(cmds) - enriched < MaxLag
    /\ kind # "commit" => written > 0
    /\ clock' = clock + gap
    /\ cmds' = Append(cmds, [kind |-> kind, argv |-> argv, time |-> clock + gap,
                             status |-> "running", capture |-> Pending,
                             timely |-> FALSE, steady |-> TRUE, rewritten |-> FALSE,
                             entry |-> None, owned |-> None])
    /\ UNCHANGED <<reflog, written, enriched, cursor, untraced, expiries>>

\* A commit-msg hook or the editor decides the subject that a commit records; a
\* reset that moves HEAD names its target.
Finish(i, subject) ==
    /\ cmds[i].status = "running"
    /\ cmds[i].kind = "reset" => subject = cmds[i].argv
    /\ Write(cmds[i].kind, subject, cmds[i].time)
    /\ cmds' = [cmds EXCEPT ![i].status = "ok", ![i].entry = written + 1,
                            ![i].rewritten = cmds[i].argv \notin {NoSubject, subject}]
    /\ UNCHANGED <<enriched, cursor, clock, untraced, expiries>>

\* A reset to where HEAD is and an amend that changes nothing within the second
\* record that HEAD stays; a reset of paths records nothing.  A path is taken for a
\* target, unless it follows "--".
FinishInPlace(i) ==
    /\ cmds[i].status = "running" /\ cmds[i].kind # "commit"
    /\ \/ Write("noop", NoSubject, cmds[i].time)
       \/ UNCHANGED <<reflog, written>>
    /\ cmds' = [cmds EXCEPT ![i].status = "ok"]
    /\ UNCHANGED <<enriched, cursor, clock, untraced, expiries>>

Fail(i) ==
    /\ cmds[i].status = "running"
    /\ cmds' = [cmds EXCEPT ![i].status = "failed"]
    /\ UNCHANGED <<reflog, written, enriched, cursor, clock, untraced, expiries>>

Untraced(mode, subject) ==
    /\ Idle /\ untraced < MaxUntraced
    /\ mode # "commit" => written > 0
    /\ (mode = "noop") <=> (subject = NoSubject)
    /\ Write(mode, subject, clock)
    /\ untraced' = untraced + 1
    /\ UNCHANGED <<cmds, enriched, cursor, clock, expiries>>

\* Expiry rewrites the file without its oldest records: later ones move down.
Expire(n) ==
    /\ expiries < MaxExpiries
    /\ n \in 1..Len(reflog)
    /\ reflog' = SubSeq(reflog, n + 1, Len(reflog))
    /\ cmds' = [i \in DOMAIN cmds |->
                  IF i > enriched /\ cmds[i].capture # Pending
                  THEN [cmds[i] EXCEPT !.steady = FALSE] ELSE cmds[i]]
    /\ expiries' = expiries + 1
    /\ UNCHANGED <<written, enriched, cursor, clock, untraced>>

-----------------------------------------------------------------------------
(* The trace reader *)

\* A log that does not exist yet has no length to note.
ReflogStartOffset == IF written = 0 THEN None ELSE Len(reflog)

\* The reader walks the logs when it handles the command's frame, however long
\* after git wrote that; until then nothing of the command is sequenced.
Capture(i) ==
    /\ cmds[i].capture = Pending
    /\ cmds' = [cmds EXCEPT ![i].capture = ReflogStartOffset,
                            ![i].timely = cmds[i].status = "running"]
    /\ UNCHANGED <<reflog, written, enriched, cursor, clock, untraced, expiries>>

\* The root was closed while the reader walked the logs: the offsets are dropped.
LoseCapture(i) ==
    /\ cmds[i].capture = Pending /\ cmds[i].status # "running"
    /\ cmds' = [cmds EXCEPT ![i].capture = None]
    /\ UNCHANGED <<reflog, written, enriched, cursor, clock, untraced, expiries>>

-----------------------------------------------------------------------------
(* The cursor *)

\* ReflogAnchor of the record at n; of read_reflog_record_ending_at(n).
Anchor(n) == <<n, reflog[n].id>>
RecordEndingAt(n) == IF n \in DOMAIN reflog THEN Anchor(n) ELSE None

\* Records that leave HEAD where it is are not entries.
Entries(offset) == {n \in DOMAIN reflog : n > offset /\ reflog[n].mode # "noop"}

\* The prefix "commit" is also one of "commit (amend):".
PrefixMatches(c, e) == e.mode = c.kind \/ (c.kind = "commit" /\ e.mode = "amend")

\* The message that the argument list predicts, if it gives a subject.
ExpectedMessage(c, e) == c.argv # NoSubject => e.mode = c.kind /\ e.subject = c.argv

Matches(c, e) == PrefixMatches(c, e) /\ ExpectedMessage(c, e)

\* A commit knows its own entry; a reset is not clamped.
OwnBefore(c) ==
    {n \in Entries(0) : c.kind # "reset" /\ n - 1 < c.capture /\ Matches(c, reflog[n])}

ClampSeedTooFar(c) ==
    IF OwnBefore(c) = {} THEN c.capture ELSE Min(OwnBefore(c)) - 2
ClampSeedToOwnEntry(c) ==
    IF OwnBefore(c) = {} THEN c.capture ELSE Min(OwnBefore(c)) - 1

InitializeReflogCursor(seed) ==
    [offset |-> seed, anchor |-> RecordEndingAt(seed), consumed |-> {}]

\* No cursor yet, and records after the captured offset make it authoritative.
SeedsCursor(c) ==
    cursor.offset = None /\ c.capture # None /\ c.capture < Len(reflog)

\* A captured offset never moves a cursor that exists.
SeededCursorAlways(c) ==
    IF SeedsCursor(c) THEN InitializeReflogCursor(ClampSeedToOwnEntry(c))
    ELSE IF cursor.offset # None /\ c.capture # None /\ c.capture > cursor.offset
    THEN InitializeReflogCursor(c.capture) ELSE cursor
SeededCursor(c) ==
    IF SeedsCursor(c) THEN InitializeReflogCursor(ClampSeedToOwnEntry(c)) ELSE cursor

\* It biases the choice instead, once there is a cursor or the seed was clamped.
CommandStartHint(c) ==
    IF \/ cursor.offset # None
       \/ SeedsCursor(c) /\ ClampSeedToOwnEntry(c) # c.capture
    THEN c.capture ELSE None

\* A cursor that the log no longer agrees with is forgotten.
ValidCursorByLength(cur) ==
    IF cur.offset # None /\ cur.offset > Len(reflog) THEN ClearedCursor ELSE cur
ValidCursor(cur) ==
    IF /\ cur.offset # None /\ cur.offset # 0
       /\ \/ cur.offset > Len(reflog)
          \/ cur.anchor # None /\ cur.anchor # RecordEndingAt(cur.offset)
    THEN ClearedCursor ELSE cur

StartOffset(cur) == IF cur.offset = None THEN 0 ELSE cur.offset

Unconsumed(cur) == {n \in Entries(StartOffset(cur)) : Anchor(n) \notin cur.consumed}

SelectCandidate(candidates, hint) ==
    LET after == {n \in candidates : n - 1 >= hint}
    IN  CASE candidates = {} -> None
          [] candidates # {} /\ hint = None -> Min(candidates)
          [] candidates # {} /\ hint # None ->
                IF after # {} THEN Min(after) ELSE Max(candidates)

FindEntryInLog(c, cur, hint) ==
    SelectCandidate({n \in Unconsumed(cur) : Matches(c, reflog[n])}, hint)

InCommandWindow(c, e) == e.time \in (c.time - 1)..(c.time + 1)

\* Without a hint nothing is guessed: there must be just one candidate.
FindEntryInCommandWindow(c, cur, hint) ==
    LET candidates == {n \in Unconsumed(cur) : /\ PrefixMatches(c, reflog[n])
                                               /\ InCommandWindow(c, reflog[n])}
    IN  IF hint # None \/ Cardinality(candidates) = 1
        THEN SelectCandidate(candidates, hint) ELSE None

\* A hook may have replaced a commit's subject: if no entry has the expected
\* message, any commit entry of the command's seconds will do.
FindEntry(c, cur, hint) ==
    LET exact == FindEntryInLog(c, cur, hint)
    IN  IF exact # None \/ c.argv = NoSubject \/ c.kind = "reset" THEN exact
        ELSE FindEntryInCommandWindow(c, cur, hint)

\* The cursor moves over the consumed entries that follow it without a gap.
ConsumeEntry(cur, n) ==
    LET consumed == cur.consumed \cup {Anchor(n)}
        entries  == Entries(StartOffset(cur))
        passed   == {m \in entries : \A k \in entries : k <= m => Anchor(k) \in consumed}
    IN  IF passed = {} THEN [cur EXCEPT !.consumed = consumed]
        ELSE [offset   |-> Max(passed),
              anchor   |-> Anchor(Max(passed)),
              consumed |-> {a \in consumed : a[1] > Max(passed)}]

\* A command without an entry of its own leaves the cursor as it was found.
Attribute(i, cur, found) ==
    IF found = None
    THEN cursor' = cur /\ UNCHANGED cmds
    ELSE /\ cursor' = ConsumeEntry(cur, found)
         /\ cmds' = [cmds EXCEPT ![i].owned = reflog[found].id]

Enrich ==
    LET i == enriched + 1
        c == cmds[i]
        valid == ValidCursor(SeededCursor(c))
    IN  /\ i \in DOMAIN cmds
        /\ c.status # "running" /\ c.capture # Pending
        /\ enriched' = i
        /\ \/ /\ c.status = "failed"
              /\ cursor' = SeededCursor(c) /\ UNCHANGED cmds
           \/ /\ c.status = "ok"
              /\ Attribute(i, valid, FindEntry(c, valid, CommandStartHint(c)))
        /\ UNCHANGED <<reflog, written, clock, untraced, expiries>>

-----------------------------------------------------------------------------

Next ==
    \/ \E kind \in Kinds, argv \in Subjects \cup {NoSubject}, gap \in Gaps :
          Begin(kind, argv, gap)
    \/ \E i \in DOMAIN cmds :
          \/ \E subject \in Subjects : Finish(i, subject)
          \/ FinishInPlace(i)
          \/ Fail(i)
          \/ Capture(i)
          \/ LoseCapture(i)
    \/ \E mode \in Kinds \cup {"noop"}, subject \in Subjects \cup {NoSubject} :
          Untraced(mode, subject)
    \/ \E n \in DOMAIN reflog : Expire(n)
    \/ Enrich

Spec == Init /\ [][Next]_vars

-----------------------------------------------------------------------------
(* Properties *)

Enriches(i) == enriched = i - 1 /\ enriched' = i

\* The command failed, or it moved HEAD.
MovedIfOk(c) == c.status = "ok" => c.entry # None

\* enrich_command attributes to a command that moved HEAD the record that it
\* wrote, and to one that failed none, whatever equal-looking records others wrote
\* before and after it.  This holds of a command if it and all commands before it
\* were captured while they ran, no record expired between the capture of one of
\* them and its enrichment (records may expire between commands), and each command
\* before it was given what it wrote: so the first command to be given a wrong
\* record, or none, is one of the two exceptions.  A commit whose subject a hook
\* replaced gets, when no record has the subject of its argument list, its own
\* record or none.  Of a command that left HEAD in place nothing is claimed:
\* select_candidate_with_hint gives it an equal-looking record of another, if there
\* is one.
TimelyOwnsItsEntry ==
    [][\A i \in DOMAIN cmds :
          /\ Enriches(i) /\ MovedIfOk(cmds[i])
          /\ \A j \in 1..i : cmds[j].timely /\ cmds[j].steady
          /\ \A j \in 1..(i - 1) : cmds[j].owned = cmds[j].entry
          => /\ ~cmds[i].rewritten => cmds'[i].owned = cmds[i].entry
             /\ (~\E n \in DOMAIN reflog : Matches(cmds[i], reflog[n])) =>
                   cmds'[i].owned \in {None, cmds[i].entry}]_vars

\* No record but its own looks like the command's.
Unmistakable(i) ==
    /\ ~cmds[i].rewritten
    /\ \A n \in DOMAIN reflog :
          Matches(cmds[i], reflog[n]) => reflog[n].id = cmds[i].entry

\* A capture that races past the record of its own command, or past those of
\* later commands, loses no record: commits that cannot be mistaken for one
\* another are each given their own, by the clamp while there is no cursor and
\* by the in-order cursor afterwards.  The conditions, on the command and on those
\* before it: nothing has expired so far, each that did not fail moved HEAD, no
\* hook replaced a subject, and only commits were captured late (a reset is not clamped
\* and a failed command has no record to clamp to).  For the first
\* traced commit of a repository this is more than the ingestion spec allows: it
\* is to fail closed (see ColdFailsClosed).
LateOwnsItsEntry ==
    [][\A i \in DOMAIN cmds :
          /\ Enriches(i) /\ expiries = 0
          /\ \A j \in 1..i :
                /\ Unmistakable(j) /\ MovedIfOk(cmds[j])
                /\ ~cmds[j].timely => cmds[j].status = "ok" /\ cmds[j].kind # "reset"
          => cmds'[i].owned = cmds[i].entry]_vars

\* What docs/daemon-trace2-ingestion-spec.md says of a cold start: while no cursor
\* exists, a command that moved HEAD in a repository with older records, captured
\* after it had ended or not at all, is attributed no record and only seeds the
\* baseline.
ColdFailsClosed ==
    [][\A i \in DOMAIN cmds :
          /\ Enriches(i) /\ cursor.offset = None /\ ~cmds[i].timely
          /\ cmds[i].entry # None
          /\ \E n \in DOMAIN reflog : reflog[n].id < cmds[i].entry
          => cmds'[i].owned = None]_vars

-----------------------------------------------------------------------------
=============================================================================
