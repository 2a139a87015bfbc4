-------------------------- MODULE NotesQueueProofs --------------------------
(***************************************************************************)
(* For any commits, uploaders, contents and crashes: the table and the     *)
(* uploaders keep their types, and no written note is lost.                *)
(***************************************************************************)
EXTENDS NotesQueue, TLAPS

(* The records that the actions build.                                      *)
LEMMA IdleTyped == Idle \in Uploader
BY DEF Idle, Uploader, None

(* The absent row.                                                          *)
LEMMA NoNoteTyped == NoNote \in Note
BY DEF NoNote, Note, None

(* Every column that an upload pass or the clock rewrites keeps its type.   *)
LEMMA NoteColumns ==
  ASSUME NEW n \in Note
  PROVE  /\ \A l \in {"free", "held", "stale"} : [n EXCEPT !.lock = l] \in Note
         /\ \A d \in BOOLEAN : [n EXCEPT !.due = d] \in Note
         /\ [n EXCEPT !.synced = TRUE, !.lock = "free"] \in Note
         /\ \A v \in Versions \cup {None} : [n EXCEPT !.content = v, !.synced = TRUE] \in Note
         /\ \A v \in Versions \cup {None} :
              [n EXCEPT !.content = v, !.synced = FALSE, !.attempts = 0, !.due = TRUE] \in Note
         /\ Failed(n) \in Note
         /\ Unlocked(n) \in Note
<1>1. \A l \in {"free", "held", "stale"} : [n EXCEPT !.lock = l] \in Note
  BY DEF Note
<1>2. \A d \in BOOLEAN : [n EXCEPT !.due = d] \in Note
  BY DEF Note
<1>3. [n EXCEPT !.synced = TRUE, !.lock = "free"] \in Note
  BY DEF Note
<1>4. \A v \in Versions \cup {None} : [n EXCEPT !.content = v, !.synced = TRUE] \in Note
  BY DEF Note
<1>5. \A v \in Versions \cup {None} :
        [n EXCEPT !.content = v, !.synced = FALSE, !.attempts = 0, !.due = TRUE] \in Note
  BY DEF Note
<1>6. Failed(n) \in Note
  <2>1. n.attempts + 1 \in Nat
    BY DEF Note
  <2> QED BY <2>1 DEF Note, Failed
<1>7. Unlocked(n) \in Note
  <2>1. CASE ~n.synced /\ n.lock = "stale"
    BY <1>1, <2>1 DEF Unlocked
  <2>2. CASE ~(~n.synced /\ n.lock = "stale")
    BY <2>2 DEF Unlocked
  <2> QED BY <2>1, <2>2
<1> QED BY <1>1, <1>2, <1>3, <1>4, <1>5, <1>6, <1>7

(* TypeOK is inductive by itself.                                           *)
LEMMA TypeStep == TypeOK /\ [Next]_vars => TypeOK'
<1> SUFFICES ASSUME TypeOK, [Next]_vars PROVE TypeOK'
  OBVIOUS
<1> USE DEF TypeOK
<1>1. ASSUME NEW c \in Commits, NEW v \in Versions, Upsert(c, v) PROVE TypeOK'
  <2>1. [NoNote EXCEPT !.content = v] \in Note
    BY DEF NoNote, Note, None
  <2>2. note' \in [Commits -> Note]
    BY <1>1, <2>1, NoteColumns DEF Upsert
  <2> QED BY <1>1, <2>2 DEF Upsert
<1>2. ASSUME NEW c \in Commits, FetchMissing(c) PROVE TypeOK'
  BY <1>2 DEF FetchMissing
<1>3. ASSUME NEW c \in Commits, FetchDone(c) PROVE TypeOK'
  <2>1. [note[c] EXCEPT !.content = remote[c], !.synced = TRUE] \in Note
    BY NoteColumns
  <2>2. note' \in [Commits -> Note]
    <3>1. note' = note \/ note' = [note EXCEPT ![c] =
                            [note[c] EXCEPT !.content = remote[c], !.synced = TRUE]]
      BY <1>3 DEF FetchDone
    <3> QED BY <2>1, <3>1
  <2> QED BY <1>3, <2>2 DEF FetchDone
<1>4. ASSUME NEW S \in SUBSET Commits, Evict(S) PROVE TypeOK'
  BY <1>4, NoNoteTyped DEF Evict
<1>5. ASSUME NEW u \in Uploaders, Select(u) PROVE TypeOK'
  <2>1. note' \in [Commits -> Note]
    BY <1>5, NoteColumns DEF Select
  <2>2. up' \in [Uploaders -> Uploader]
    <3>1. PICK rows \in SUBSET Commits :
            \/ up' = up
            \/ up' = [up EXCEPT ![u].pc = "selected", ![u].rows = rows]
      BY <1>5 DEF Select
    <3> QED BY <3>1 DEF Uploader
  <2> QED BY <1>5, <2>1, <2>2 DEF Select
<1>6. ASSUME NEW u \in Uploaders, LockRows(u) PROVE TypeOK'
  <2>1. note' \in [Commits -> Note]
    BY <1>6, NoteColumns DEF LockRows
  <2>2. up' \in [Uploaders -> Uploader]
    BY <1>6 DEF LockRows, Uploader
  <2> QED BY <1>6, <2>1, <2>2 DEF LockRows
<1>7. ASSUME NEW u \in Uploaders, ReadRows(u) PROVE TypeOK'
  <2>1. up' \in [Uploaders -> Uploader]
    BY <1>7, IdleTyped DEF ReadRows, Uploader, Note
  <2> QED BY <1>7, <2>1 DEF ReadRows
<1>8. ASSUME NEW u \in Uploaders, NEW stored \in SUBSET Commits, NEW a \in BOOLEAN,
             Upload(u, stored, a)
      PROVE TypeOK'
  <2>1. up' \in [Uploaders -> Uploader]
    <3>1. PICK b \in BOOLEAN :
            up' = [up EXCEPT ![u].pc = "answered", ![u].ok = b]
      BY <1>8, Zenon DEF Upload, Accepted
    <3> QED BY <3>1 DEF Uploader
  <2>2. remote' \in [Commits -> Versions \cup {None}]
    BY <1>8 DEF Upload, Uploader
  <2> QED BY <1>8, <2>1, <2>2 DEF Upload
<1>9. ASSUME NEW u \in Uploaders, MarkSynced(u) PROVE TypeOK'
  <2>1. note' \in [Commits -> Note]
    BY <1>9, NoteColumns DEF MarkSynced
  <2> QED BY <1>9, <2>1, IdleTyped DEF MarkSynced
<1>10. ASSUME NEW u \in Uploaders, MarkFailed(u) PROVE TypeOK'
  <2>1. note' \in [Commits -> Note]
    BY <1>10, NoteColumns DEF MarkFailed
  <2> QED BY <1>10, <2>1, IdleTyped DEF MarkFailed
<1>11. ASSUME NEW u \in Uploaders, Crash(u) PROVE TypeOK'
  BY <1>11, IdleTyped DEF Crash
<1>12. ASSUME NEW c \in Commits, LockGrowsStale(c) \/ RetryFallsDue(c) PROVE TypeOK'
  <2>1. PICK n \in Note : note' = [note EXCEPT ![c] = n]
    <3>1. CASE LockGrowsStale(c)
      BY <3>1, NoteColumns DEF LockGrowsStale
    <3>2. CASE RetryFallsDue(c)
      BY <3>2, NoteColumns DEF RetryFallsDue
    <3> QED BY <1>12, <3>1, <3>2
  <2> QED BY <1>12, <2>1 DEF LockGrowsStale, RetryFallsDue
<1>13. CASE UNCHANGED vars
  BY <1>13 DEF vars
<1> QED BY <1>1, <1>2, <1>3, <1>4, <1>5, <1>6, <1>7, <1>8, <1>9, <1>10, <1>11, <1>12,
           <1>13 DEF Next, Flush

(* The table, the server's notes and the uploaders stay within their types. *)
THEOREM TypeCorrect == Spec => []TypeOK
<1>1. Init => TypeOK
  BY NotesAssumption, IdleTyped, NoNoteTyped DEF Init, TypeOK, None
<1> QED BY <1>1, TypeStep, PTL DEF Spec

-----------------------------------------------------------------------------
(* Why nothing is lost: a synced row is on the server in some version, an   *)
(* uploader that was told of success has put all its rows there, and what   *)
(* it sends is the content of a row.                                        *)
Sending(u) == up[u].pc = "sending" => \A c \in up[u].rows : up[u].sent[c] # None
Stored(u) == up[u].pc = "answered" /\ up[u].ok => \A c \in up[u].rows : remote[c] # None
SyncedIsRemote == \A c \in Commits : Present(c) /\ note[c].synced => remote[c] # None

KeptInv ==
  /\ TypeOK
  /\ NoNoteLost
  /\ SyncedIsRemote
  /\ \A u \in Uploaders : Sending(u) /\ Stored(u)

(* Every step keeps it: only Evict removes a row, and takes synced ones;    *)
(* only MarkSynced and FetchDone mark a row, and the server has it.         *)
LEMMA KeptStep == KeptInv /\ [Next]_vars => KeptInv'
<1> SUFFICES ASSUME KeptInv, [Next]_vars PROVE KeptInv'
  OBVIOUS
<1>0. TypeOK /\ TypeOK'
  BY TypeStep DEF KeptInv
<1> USE DEF NoNoteLost, SyncedIsRemote, Present
<1> DEFINE Uploads == \A u \in Uploaders : Sending(u) /\ Stored(u)
<1>k. NoNoteLost /\ SyncedIsRemote /\ Uploads
  BY DEF KeptInv
<1> HIDE DEF Uploads
<1>q. ASSUME NoNoteLost', SyncedIsRemote', Uploads' PROVE KeptInv'
  BY <1>0, <1>q DEF KeptInv, Uploads
(* A step that leaves the uploaders and the server alone keeps Uploads.     *)
<1>u. ASSUME UNCHANGED <<up, remote>> PROVE Uploads'
  BY <1>k, <1>u DEF Uploads, Sending, Stored
(* So does one after which an uploader neither sends nor is answered.       *)
<1>i. ASSUME NEW u \in Uploaders, UNCHANGED remote,
             \A w \in Uploaders \ {u} : up'[w] = up[w],
             up'[u].pc \notin {"sending", "answered"}
      PROVE Uploads'
  BY <1>k, <1>i DEF Uploads, Sending, Stored
<1>1. ASSUME NEW c \in Commits, NEW v \in Versions, Upsert(c, v) PROVE KeptInv'
  <2>1. v # None /\ UNCHANGED <<up, remote>>
    BY <1>1 DEF Versions, None, Upsert
  <2>2. note'[c].content = v /\ (note'[c].synced => note'[c] = note[c])
    BY <1>0, <1>1, <2>1 DEF Upsert, TypeOK, Note, NoNote
  <2>3. \A d \in Commits \ {c} : note'[d] = note[d] /\ written'[d] = written[d]
    BY <1>0, <1>1 DEF Upsert, TypeOK
  <2> QED BY <1>k, <1>q, <1>u, <2>1, <2>2, <2>3
<1>2. ASSUME NEW c \in Commits, FetchMissing(c) PROVE KeptInv'
  BY <1>2, <1>k, <1>q, <1>u DEF FetchMissing
<1>3. ASSUME NEW c \in Commits, FetchDone(c) PROVE KeptInv'
  <2>1. UNCHANGED <<up, remote, written>>
    BY <1>3 DEF FetchDone
  <2>2. CASE remote[c] = None
    BY <1>3, <1>k, <1>q, <1>u, <2>1, <2>2 DEF FetchDone
  <2>3. CASE remote[c] # None
    <3>1. note'[c].content = remote[c] /\ \A d \in Commits \ {c} : note'[d] = note[d]
      BY <1>0, <1>3, <2>3 DEF FetchDone, TypeOK, Note
    <3> QED BY <1>k, <1>q, <1>u, <2>1, <2>3, <3>1
  <2> QED BY <2>2, <2>3
<1>4. ASSUME NEW S \in SUBSET Commits, Evict(S) PROVE KeptInv'
  <2>1. UNCHANGED <<up, remote, written>>
    BY <1>4 DEF Evict
  <2>2. \A d \in Commits : \/ note'[d] = note[d]
                           \/ note'[d].content = None /\ Present(d) /\ note[d].synced
    BY <1>0, <1>4 DEF Evict, Evictable, TypeOK, NoNote
  <2> QED BY <1>k, <1>q, <1>u, <2>1, <2>2
<1>5. ASSUME NEW u \in Uploaders, Select(u) PROVE KeptInv'
  <2>1. UNCHANGED <<remote, written>>
    BY <1>5 DEF Select
  <2>2. \A d \in Commits : note'[d].content = note[d].content
                           /\ note'[d].synced = note[d].synced
    BY <1>0, <1>5 DEF Select, Unlocked, TypeOK, Note
  <2>3. up'[u].pc \in {"idle", "selected"} /\ \A w \in Uploaders \ {u} : up'[w] = up[w]
    <3>1. PICK rows \in SUBSET Commits :
            \/ up' = up
            \/ up' = [up EXCEPT ![u].pc = "selected", ![u].rows = rows]
      BY <1>5 DEF Select
    <3>2. up[u].pc = "idle" /\ up \in [Uploaders -> Uploader]
      BY <1>5 DEF Select, KeptInv, TypeOK
    <3>3. CASE up' = up
      BY <3>2, <3>3
    <3>4. CASE up' = [up EXCEPT ![u].pc = "selected", ![u].rows = rows]
      BY <3>2, <3>4 DEF Uploader
    <3> QED BY <3>1, <3>3, <3>4
  <2> QED BY <1>k, <1>q, <1>i, <2>1, <2>2, <2>3
<1>6. ASSUME NEW u \in Uploaders, LockRows(u) PROVE KeptInv'
  <2>1. UNCHANGED <<remote, written>>
    BY <1>6 DEF LockRows
  <2>2. \A d \in Commits : note'[d].content = note[d].content
                           /\ note'[d].synced = note[d].synced
    BY <1>0, <1>6 DEF LockRows, TypeOK, Note
  <2>3. up'[u].pc = "locked" /\ \A w \in Uploaders \ {u} : up'[w] = up[w]
    BY <1>0, <1>6 DEF LockRows, TypeOK, Uploader
  <2> QED BY <1>k, <1>q, <1>i, <2>1, <2>2, <2>3
<1>7. ASSUME NEW u \in Uploaders, ReadRows(u) PROVE KeptInv'
  <2>1. UNCHANGED <<note, remote, written>>
    BY <1>7 DEF ReadRows
  <2>2. \A w \in Uploaders \ {u} : up'[w] = up[w]
    BY <1>0, <1>7 DEF ReadRows, TypeOK
  <2>3. \/ up'[u].pc = "idle"
        \/ up'[u].pc = "sending" /\ \A d \in up'[u].rows : up'[u].sent[d] # None
    BY <1>0, <1>7 DEF ReadRows, TypeOK, Idle, Uploader
  <2>4. Uploads'
    BY <1>k, <2>1, <2>2, <2>3 DEF Uploads, Sending, Stored
  <2> QED BY <1>k, <1>q, <2>1, <2>4
<1>8. ASSUME NEW u \in Uploaders, NEW stored \in SUBSET Commits, NEW a \in BOOLEAN,
             Upload(u, stored, a)
      PROVE KeptInv'
  <2>1. UNCHANGED <<note, written>> /\ up[u].rows \subseteq Commits
    BY <1>0, <1>8 DEF Upload, TypeOK, Uploader
  <2>2. \A d \in Commits : remote'[d] = (IF d \in stored THEN up[u].sent[d] ELSE remote[d])
    BY <1>8 DEF Upload
  <2>3. \A d \in stored : up[u].sent[d] # None
    BY <1>k, <1>8 DEF Upload, Uploads, Sending
  <2>4. \A d \in Commits : remote[d] # None \/ d \in stored => remote'[d] # None
    BY <2>2, <2>3
  <2>5. \A w \in Uploaders \ {u} : up'[w] = up[w]
    BY <1>0, <1>8 DEF Upload, TypeOK
  <2>6. /\ up'[u].pc = "answered" /\ up'[u].rows = up[u].rows
        /\ up'[u].ok => stored = up[u].rows
    BY <1>0, <1>8 DEF Upload, Accepted, TypeOK, Uploader
  <2>7. \A w \in Uploaders : up[w].rows \subseteq Commits
    BY <1>0 DEF TypeOK, Uploader
  <2>8. Uploads'
    BY <1>k, <2>1, <2>4, <2>5, <2>6, <2>7 DEF Uploads, Sending, Stored
  <2> QED BY <1>k, <1>q, <2>1, <2>4, <2>8
<1>9. ASSUME NEW u \in Uploaders, MarkSynced(u) PROVE KeptInv'
  <2>1. UNCHANGED <<remote, written>>
    BY <1>9 DEF MarkSynced
  <2>2. \A d \in up[u].rows : remote[d] # None
    BY <1>k, <1>9 DEF MarkSynced, Uploads, Stored
  <2>3. \A d \in Commits : note'[d].content = note[d].content
                           /\ (note'[d].synced => note[d].synced \/ d \in up[u].rows)
    <3> TAKE d \in Commits
    <3>1. note[d] \in Note /\ note'[d] =
            IF d \in up[u].rows /\ Present(d)
            THEN [note[d] EXCEPT !.synced = TRUE, !.lock = "free"] ELSE note[d]
      BY <1>0, <1>9 DEF MarkSynced, TypeOK
    <3> QED BY <3>1 DEF Note
  <2>4. up'[u].pc = "idle" /\ \A w \in Uploaders \ {u} : up'[w] = up[w]
    BY <1>0, <1>9 DEF MarkSynced, TypeOK, Idle
  <2> QED BY <1>k, <1>q, <1>i, <2>1, <2>2, <2>3, <2>4
<1>10. ASSUME NEW u \in Uploaders, MarkFailed(u) PROVE KeptInv'
  <2>1. UNCHANGED <<remote, written>>
    BY <1>10 DEF MarkFailed
  <2>2. \A d \in Commits : note'[d].content = note[d].content
                           /\ note'[d].synced = note[d].synced
    <3> TAKE d \in Commits
    <3>1. note[d] \in Note /\ (note'[d] = Failed(note[d]) \/ note'[d] = note[d])
      BY <1>0, <1>10 DEF MarkFailed, TypeOK
    <3> QED BY <3>1 DEF Failed, Note
  <2>3. up'[u].pc = "idle" /\ \A w \in Uploaders \ {u} : up'[w] = up[w]
    BY <1>0, <1>10 DEF MarkFailed, TypeOK, Idle
  <2> QED BY <1>k, <1>q, <1>i, <2>1, <2>2, <2>3
<1>11. ASSUME NEW u \in Uploaders, Crash(u) PROVE KeptInv'
  <2>1. UNCHANGED <<note, remote, written>>
    BY <1>11 DEF Crash
  <2>2. up'[u].pc = "idle" /\ \A w \in Uploaders \ {u} : up'[w] = up[w]
    BY <1>0, <1>11 DEF Crash, TypeOK, Idle
  <2> QED BY <1>k, <1>q, <1>i, <2>1, <2>2
<1>12. ASSUME NEW c \in Commits, LockGrowsStale(c) \/ RetryFallsDue(c) PROVE KeptInv'
  <2>1. UNCHANGED <<up, remote, written>>
    BY <1>12 DEF LockGrowsStale, RetryFallsDue
  <2>2. \A d \in Commits : note'[d].content = note[d].content
                           /\ note'[d].synced = note[d].synced
    BY <1>0, <1>12 DEF LockGrowsStale, RetryFallsDue, TypeOK, Note
  <2> QED BY <1>k, <1>q, <1>u, <2>1, <2>2
<1>13. CASE UNCHANGED vars
  BY <1>13, <1>k, <1>q, <1>u DEF vars
<1> QED BY <1>1, <1>2, <1>3, <1>4, <1>5, <1>6, <1>7, <1>8, <1>9, <1>10, <1>11, <1>12,
           <1>13 DEF Next, Flush

(* A written note is in the local table or on the server, whatever uploads  *)
(* overlap, answers are lost or partial, processes crash and rows are       *)
(* evicted (flush_notes, mark_synced, evict_stale_cache).                   *)
THEOREM NotesKept == Spec => []NoNoteLost
<1>1. Init => KeptInv
  <2>1. Init => TypeOK
    BY NotesAssumption, IdleTyped, NoNoteTyped DEF Init, TypeOK, None
  <2> QED BY <2>1 DEF Init, KeptInv, NoNoteLost, SyncedIsRemote, Present, Sending, Stored,
                      Idle, NoNote, None
<1>2. KeptInv => NoNoteLost
  BY DEF KeptInv
<1> QED BY <1>1, <1>2, KeptStep, PTL DEF Spec
=============================================================================
