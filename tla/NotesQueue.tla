----------------------------- MODULE NotesQueue -----------------------------
(***************************************************************************)
(* The notes database of git-ai with an HTTP notes backend                 *)
(* (src/src/notes/db.rs), the upload pass of the telemetry worker          *)
(* (flush_notes) and the cache warming of src/src/git/notes_api.rs.  One   *)
(* table is at once the queue of notes to upload and the cache of notes    *)
(* read.  Several processes open it: command line processes write notes    *)
(* while a daemon uploads, and a daemon that has given up its lock may     *)
(* still upload while its successor does.                                  *)
(*                                                                         *)
(* Clocks are left out: a lock is held or stale, a retry is due or not.    *)
(* The content of a note is a version number; the server keeps the last    *)
(* version it stored.                                                      *)
(***************************************************************************)
EXTENDS Naturals, FiniteSets

CONSTANTS
  Commits,
  Uploaders,     \* processes that run flush_notes
  MaxVersion,    \* bound: contents written for one commit
  MaxAttempts,   \* attempts < 6 in the code
  MaxCrashes     \* bound: crashes of uploaders

ASSUME NotesAssumption ==
  /\ MaxVersion \in Nat \ {0}
  /\ MaxAttempts \in Nat \ {0}
  /\ MaxCrashes \in Nat

VARIABLES
  note,      \* the table notes
  written,   \* the last version written by this machine
  remote,    \* the server's notes
  fetching,  \* commits a reader found missing and asks the server for
  up,        \* the uploaders
  crashes

vars == <<note, written, remote, fetching, up, crashes>>

Versions == 1 .. MaxVersion
None == 0

NoNote == [content |-> None, synced |-> FALSE, attempts |-> 0,
           lock |-> "free", due |-> TRUE]
Idle == [pc |-> "idle", rows |-> {}, sent |-> [c \in Commits |-> None], ok |-> FALSE]

Note == [content: Versions \cup {None}, synced: BOOLEAN,
         attempts: Nat, lock: {"free", "held", "stale"}, due: BOOLEAN]
Uploader == [pc: {"idle", "selected", "locked", "sending", "answered"},
             rows: SUBSET Commits, sent: [Commits -> Versions \cup {None}],
             ok: BOOLEAN]

TypeOK ==
  /\ note \in [Commits -> Note]
  /\ written \in [Commits -> Versions \cup {None}]
  /\ remote \in [Commits -> Versions \cup {None}]
  /\ fetching \subseteq Commits
  /\ up \in [Uploaders -> Uploader]
  /\ crashes \in Nat

Init ==
  /\ note = [c \in Commits |-> NoNote]
  /\ written = [c \in Commits |-> None]
  /\ remote = [c \in Commits |-> None]
  /\ fetching = {}
  /\ up = [u \in Uploaders |-> Idle]
  /\ crashes = 0

Present(c) == note[c].content # None

-----------------------------------------------------------------------------
(* upsert_note: a changed content is queued again from its first attempt;   *)
(* the lock is left alone.                                                  *)
Upsert(c, v) ==
  /\ v >= written[c]
  /\ note' = [note EXCEPT ![c] =
       IF @.content = None THEN [NoNote EXCEPT !.content = v]
       ELSE IF @.content = v THEN @
       ELSE [@ EXCEPT !.content = v, !.synced = FALSE, !.attempts = 0, !.due = TRUE]]
  /\ written' = [written EXCEPT ![c] = v]
  /\ UNCHANGED <<remote, fetching, up, crashes>>

(* warm_cache_for_commits: look for the missing notes, ask the server, and  *)
(* cache what it returns as synced, whatever has been written meanwhile.    *)
FetchMissing(c) ==
  /\ ~Present(c)
  /\ c \notin fetching
  /\ fetching' = fetching \cup {c}
  /\ UNCHANGED <<note, written, remote, up, crashes>>

(* http_fetch_and_cache_notes: the answer and its cache_synced_notes in one *)
(* step.  In the code the note may change on the server between the two;    *)
(* the older version that is cached then is still a content that the server *)
(* accepted, which is all that NoNoteLost and NotesSettle ask of a synced   *)
(* row.                                                                     *)
FetchDone(c) ==
  /\ c \in fetching
  /\ fetching' = fetching \ {c}
  /\ note' = IF remote[c] = None THEN note
             ELSE [note EXCEPT ![c].content = remote[c], ![c].synced = TRUE]
  /\ UNCHANGED <<written, remote, up, crashes>>

(* Mutant: eviction takes the rows that are still to be uploaded.           *)
EvictableAny(c) == Present(c)

(* What evict_stale_cache deletes.                                          *)
Evictable(c) == Present(c) /\ note[c].synced

Evict(S) ==
  /\ S # {} /\ \A c \in S : Evictable(c)
  /\ note' = [c \in Commits |-> IF c \in S THEN NoNote ELSE note[c]]
  /\ UNCHANGED <<written, remote, fetching, up, crashes>>

-----------------------------------------------------------------------------
(* flush_notes.  dequeue_pending is three statements outside a transaction: *)
(* stale locks are released and the eligible rows selected, the rows are    *)
(* locked, and their contents read.                                         *)

(* Mutant: the locks a crashed uploader left are never released.            *)
UnlockedKeepingStale(n) == n

Unlocked(n) == IF ~n.synced /\ n.lock = "stale" THEN [n EXCEPT !.lock = "free"] ELSE n

Eligible(n) ==
  /\ n.content # None /\ ~n.synced
  /\ n.lock = "free" /\ n.due
  /\ n.attempts < MaxAttempts

Select(u) ==
  LET released == [c \in Commits |-> Unlocked(note[c])]
      rows == {c \in Commits : Eligible(released[c])}
  IN /\ up[u].pc = "idle"
     /\ note' = released
     /\ up' = IF rows = {} THEN up
              ELSE [up EXCEPT ![u].pc = "selected", ![u].rows = rows]
     /\ UNCHANGED <<written, remote, fetching, crashes>>

LockRows(u) ==
  /\ up[u].pc = "selected"
  /\ note' = [c \in Commits |-> IF c \in up[u].rows /\ Present(c)
                                THEN [note[c] EXCEPT !.lock = "held"] ELSE note[c]]
  /\ up' = [up EXCEPT ![u].pc = "locked"]
  /\ UNCHANGED <<written, remote, fetching, crashes>>

ReadRows(u) ==
  LET rows == {c \in up[u].rows : Present(c)} IN
  /\ up[u].pc = "locked"
  /\ up' = [up EXCEPT ![u] =
              IF rows = {} THEN Idle
              ELSE [pc |-> "sending", rows |-> rows, ok |-> FALSE,
                    sent |-> [c \in Commits |-> IF c \in rows THEN note[c].content
                                                              ELSE None]]]
  /\ UNCHANGED <<note, written, remote, fetching, crashes>>

(* Mutant: an answer that reports failed entries counts as a success.       *)
AcceptedPartly(u, stored) == TRUE

(* failure_count = 0                                                        *)
Accepted(u, stored) == stored = up[u].rows

(* The server stores some of the entries.  The answer says how many failed, *)
(* not which; a lost answer is an error, whatever was stored.               *)
Upload(u, stored, answered) ==
  /\ up[u].pc = "sending"
  /\ stored \subseteq up[u].rows
  /\ remote' = [c \in Commits |-> IF c \in stored THEN up[u].sent[c] ELSE remote[c]]
  /\ up' = [up EXCEPT ![u].pc = "answered", ![u].ok = answered /\ Accepted(u, stored)]
  /\ UNCHANGED <<note, written, fetching, crashes>>

(* mark_synced: by commit alone.                                            *)
MarkSynced(u) ==
  /\ up[u].pc = "answered" /\ up[u].ok
  /\ note' = [c \in Commits |-> IF c \in up[u].rows /\ Present(c)
                THEN [note[c] EXCEPT !.synced = TRUE, !.lock = "free"] ELSE note[c]]
  /\ up' = [up EXCEPT ![u] = Idle]
  /\ UNCHANGED <<written, remote, fetching, crashes>>

(* Mutant: attempts count down from zero instead of up to the limit.        *)
FailedCountingDown(n) ==
  [n EXCEPT !.lock = "free", !.due = FALSE, !.attempts = @ - 1]

Failed(n) == [n EXCEPT !.lock = "free", !.due = FALSE, !.attempts = @ + 1]

(* mark_failed: WHERE synced = 0, with a backoff.                           *)
MarkFailed(u) ==
  /\ up[u].pc = "answered" /\ ~up[u].ok
  /\ note' = [c \in Commits |-> IF c \in up[u].rows /\ Present(c) /\ ~note[c].synced
                THEN Failed(note[c]) ELSE note[c]]
  /\ up' = [up EXCEPT ![u] = Idle]
  /\ UNCHANGED <<written, remote, fetching, crashes>>

Crash(u) ==
  /\ up[u].pc # "idle"
  /\ crashes < MaxCrashes
  /\ crashes' = crashes + 1
  /\ up' = [up EXCEPT ![u] = Idle]
  /\ UNCHANGED <<note, written, remote, fetching>>

(* Time: ten minutes pass over a lock, a backoff runs out.                  *)
LockGrowsStale(c) ==
  /\ note[c].lock = "held"
  /\ note' = [note EXCEPT ![c].lock = "stale"]
  /\ UNCHANGED <<written, remote, fetching, up, crashes>>

RetryFallsDue(c) ==
  /\ Present(c) /\ ~note[c].due
  /\ note' = [note EXCEPT ![c].due = TRUE]
  /\ UNCHANGED <<written, remote, fetching, up, crashes>>

-----------------------------------------------------------------------------
Flush(u) ==
  \/ Select(u) \/ LockRows(u) \/ ReadRows(u)
  \/ \E stored \in SUBSET Commits, answered \in BOOLEAN : Upload(u, stored, answered)
  \/ MarkSynced(u) \/ MarkFailed(u)

Next ==
  \/ \E c \in Commits : \/ \E v \in Versions : Upsert(c, v)
                        \/ FetchMissing(c) \/ FetchDone(c)
                        \/ LockGrowsStale(c) \/ RetryFallsDue(c)
  \/ \E S \in SUBSET Commits : Evict(S)
  \/ \E u \in Uploaders : Flush(u) \/ Crash(u)

Spec == Init /\ [][Next]_vars

(* The flush loop runs every three seconds and time passes.  Writers,       *)
(* readers, evictions, crashes and the server's answers are not fair.       *)
FairSpec ==
  /\ Spec
  /\ \A u \in Uploaders : WF_vars(Flush(u))
  /\ \A c \in Commits : WF_vars(LockGrowsStale(c)) /\ WF_vars(RetryFallsDue(c))

-----------------------------------------------------------------------------
(* Properties.                                                              *)

(* A note that was written is in the local table or on the server: no       *)
(* partial answer, crash, late acknowledgement or eviction loses it.        *)
NoNoteLost ==
  \A c \in Commits : written[c] # None => Present(c) \/ remote[c] # None

(* A note waiting for upload is uploaded in the end, or has used up its     *)
(* attempts: no crash between the lock and the acknowledgement, and no      *)
(* second uploader, leaves it locked for good.  With a backend that is      *)
(* configured and accepts the login: flush_notes returns at once otherwise  *)
(* and the note waits.                                                      *)
NotesSettle ==
  \A c \in Commits :
    (Present(c) /\ ~note[c].synced)
      ~> (~Present(c) \/ note[c].synced \/ note[c].attempts >= MaxAttempts)

(* What the comment of upsert_note promises of a changed content: it is     *)
(* queued for upload again, so a row marked as synced holds what the server *)
(* holds.                                                                   *)
SyncedIsCurrent ==
  \A c \in Commits : Present(c) /\ note[c].synced => remote[c] = note[c].content
=============================================================================
