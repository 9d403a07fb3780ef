--------------------------- MODULE TranscriptStore ---------------------------
(***************************************************************************)
(* How the messages of one session reach the database: update_session and  *)
(* truncate_session_messages of storage/sqlite.rs with their cache of      *)
(* fingerprints, and the tasks that call them. A turn and a compaction     *)
(* hold the session's lock; a task that changes one field of a session (its*)
(* persona, its workspace, its notes, its status) takes no lock, reads the *)
(* whole session and writes the whole session back.                        *)
(*                                                                         *)
(* A message is a body, and its fingerprint is the body. Positions count   *)
(* from 1. Operators whose name has a _ are not the code: each is the      *)
(* definition that follows it with one plausible mistake.                  *)
(***************************************************************************)
EXTENDS Naturals, Sequences, FiniteSets

CONSTANTS
  Threads,        (* tokio tasks alive at once: a bound                     *)
  Bodies,         (* bodies of messages                                     *)
  Cuts,           (* positions users truncate from                          *)
  MaxTurns, MaxEdits, MaxVisits, MaxCuts, MaxFaults, MaxCrashes,
                  (* bounds: turns, changes a turn makes, visits of a task  *)
                  (* without the lock, truncations and compactions, failing *)
                  (* statements, crashes                                    *)
  None            (* no thread, no cache entry                              *)

ASSUME NoneIsNothing == None \notin Threads /\ None \notin Nat /\ None \notin Seq(Bodies)
ASSUME CutsArePositions == Cuts \subseteq Nat \ {0}

VARIABLES
  rows,           (* session_transcript: seq -> body                        *)
  running,        (* sessions.task_status is "running"                      *)
  cache,          (* the fingerprints last written, or None                 *)
  active,         (* the session is in active_runs                          *)
  lock,           (* the thread that holds the session's lock               *)
  thread,         (* per thread: where it is and the session it read        *)
  kept,           (* history: the transcript as those with the lock left it *)
  overlapped,     (* history: two writes overlapped, and may have left holes*)
  undone,         (* history: an old copy was written over a newer one      *)
  revived,        (* history: an old "running" was written after the turn   *)
  used            (* how many of each bounded event there were              *)

stored == <<rows, running>>
memory == <<cache, active, lock>>
history == <<kept, overlapped, undone, revived>>
vars == <<stored, memory, thread, history, used>>

-----------------------------------------------------------------------------
(* Threads *)

(* first: no save of this turn was attempted. old: the rows changed since  *)
(* the thread read them, by someone it should not have missed (history).   *)
Idle == [pc |-> "idle", kind |-> "none", copy |-> <<>>, running |-> FALSE,
         first |-> FALSE, from |-> 1, length |-> None, old |-> FALSE]

Holders == {"turn", "compact", "truncate"}
Visitors == {"status", "field", "post"}
SavingPcs == {"length", "write", "record", "cutCache"}
LoadedPcs == {"edit", "diverge", "length", "write", "record"}
Pcs == {"idle", "lock", "read", "readRows", "end", "cut", "cutCache"} \cup LoadedPcs

At(t, p) == thread[t].pc = p
Become(t, record) == thread' = [thread EXCEPT ![t] = record]
Goto(t, p) == Become(t, [thread[t] EXCEPT !.pc = p])
Arrive(record) == \E t \in Threads : At(t, "idle") /\ Become(t, record)

Count(event, limit) ==
  /\ used[event] < limit
  /\ used' = [used EXCEPT ![event] = @ + 1]

Fault == Count("fault", MaxFaults)

(* The thread is done; a compaction or a truncation gives the lock back.   *)
Leave(t) ==
  /\ Become(t, Idle)
  /\ lock' = IF lock = t THEN None ELSE lock

Init ==
  /\ rows = <<>> /\ running = FALSE
  /\ cache = None /\ active = FALSE /\ lock = None
  /\ thread = [t \in Threads |-> Idle]
  /\ kept = <<>> /\ overlapped = FALSE /\ undone = FALSE /\ revived = FALSE
  /\ used = [e \in {"turn", "edit", "visit", "cut", "fault", "crash"} |-> 0]

-----------------------------------------------------------------------------
(* Who comes *)

(* A run got its guard, see SessionRuns, and enters                        *)
(* process_message_internal.                                               *)
StartTurn ==
  /\ ~active
  /\ Count("turn", MaxTurns)
  /\ active' = TRUE
  /\ Arrive([Idle EXCEPT !.pc = "lock", !.kind = "turn", !.first = TRUE])
  /\ UNCHANGED <<stored, cache, lock, history>>

StartTruncate_ZeroBased(n) ==
  /\ ~active
  /\ Count("cut", MaxCuts)
  /\ Arrive([Idle EXCEPT !.pc = "lock", !.kind = "truncate", !.from = n - 1])
  /\ UNCHANGED <<stored, memory, history>>

(* truncate_session_messages and compact_session_now refuse while a run is *)
(* active, and then wait for the lock.                                     *)
StartTruncate(n) ==
  /\ ~active
  /\ Count("cut", MaxCuts)
  /\ Arrive([Idle EXCEPT !.pc = "lock", !.kind = "truncate", !.from = n])
  /\ UNCHANGED <<stored, memory, history>>

StartCompact ==
  /\ ~active
  /\ Count("cut", MaxCuts)
  /\ Arrive([Idle EXCEPT !.pc = "lock", !.kind = "compact"])
  /\ UNCHANGED <<stored, memory, history>>

(* set_session_persona, the workspace of a session, the notes tool, a      *)
(* reverted snapshot: one field. A scheduled reminder posts a message.     *)
StartVisit(kind) ==
  /\ Count("visit", MaxVisits)
  /\ Arrive([Idle EXCEPT !.pc = "read", !.kind = kind])
  /\ UNCHANGED <<stored, memory, history>>

TakeLock_Passes(t) ==
  /\ At(t, "lock")
  /\ \/ lock = None /\ lock' = t
     \/ thread[t].kind = "truncate" /\ UNCHANGED lock
  /\ Goto(t, IF thread[t].kind = "truncate" THEN "cut" ELSE "read")
  /\ UNCHANGED <<stored, cache, active, history, used>>

TakeLock(t) ==
  /\ At(t, "lock")
  /\ lock = None
  /\ lock' = t
  /\ Goto(t, IF thread[t].kind = "truncate" THEN "cut" ELSE "read")
  /\ UNCHANGED <<stored, cache, active, history, used>>

-----------------------------------------------------------------------------
(* get_session *)

(* The row of sessions and the rows of session_transcript are two          *)
(* statements without a transaction around them.                           *)
ReadSession(t) ==
  /\ At(t, "read")
  /\ Become(t, [thread[t] EXCEPT !.pc = "readRows", !.running = running])
  /\ UNCHANGED <<stored, memory, history, used>>

(* ORDER BY seq: a position without a row is passed over.                  *)
Load(r) ==
  [k \in 1..Cardinality(DOMAIN r) |->
     r[CHOOSE i \in DOMAIN r : Cardinality({j \in DOMAIN r : j <= i}) = k]]

Appended(s) == {Append(s, b) : b \in Bodies}

(* What the thread goes on with: a turn adds the message it was sent and   *)
(* says running; a reminder is added; TaskStatusGuard and the setters of   *)
(* one field leave the messages alone.                                     *)
FirstCopies(kind, s) == IF kind \in {"turn", "post"} THEN Appended(s) ELSE {s}

ReadRows(t) ==
  /\ At(t, "readRows")
  /\ thread[t].kind = "status" => thread[t].running
  /\ \E s \in FirstCopies(thread[t].kind, Load(rows)) :
       Become(t, [thread[t] EXCEPT !.copy = s,
         !.pc = IF thread[t].kind = "compact" THEN "edit" ELSE "diverge",
         !.running = thread[t].kind = "turn" \/ (@ /\ thread[t].kind # "status")])
  /\ UNCHANGED <<stored, memory, history, used>>

(* TaskStatusGuard finds the session not running. *)
ReadsNothingToDo(t) ==
  /\ At(t, "readRows")
  /\ thread[t].kind = "status" /\ ~thread[t].running
  /\ Leave(t)
  /\ UNCHANGED <<stored, cache, active, history, used>>

(* The turn returns before it made its TaskStatusGuard. *)
ReadFails(t) ==
  /\ thread[t].pc \in {"read", "readRows"}
  /\ Fault
  /\ Leave(t)
  /\ active' = (active /\ thread[t].kind # "turn")
  /\ UNCHANGED <<stored, cache, history>>

-----------------------------------------------------------------------------
(* update_session *)

Saving(t) == thread[t].pc \in SavingPcs
SomeoneElseSaves(t) == \E u \in Threads \ {t} : Saving(u)

(* Those who read before the rows changed: a thread without the lock       *)
(* misses everyone's writes; one with the lock must not miss another's     *)
(* with it.                                                                *)
Outdates(t, u) ==
  /\ thread[u].pc \in LoadedPcs
  /\ rows' # rows
  /\ thread[t].kind \in Holders \/ thread[u].kind \in Visitors

(* The step of t that changes the rows takes t to record.                  *)
Wrote(t, record) ==
  thread' = [u \in Threads |->
    IF u = t THEN record
    ELSE IF Outdates(t, u) THEN [thread[u] EXCEPT !.old = TRUE] ELSE thread[u]]

(* The first position where the cache and the copy differ.                 *)
Divergence(stale, s) ==
  LET both == {i \in DOMAIN stale : i \in DOMAIN s}
      differ == {i \in both : stale[i] # s[i]}
  IN IF differ # {} THEN CHOOSE i \in differ : \A j \in differ : i <= j
                    ELSE Cardinality(both) + 1

Diverges(t) ==
  /\ At(t, "diverge")
  /\ Become(t, [thread[t] EXCEPT !.pc = "length",
       !.from = IF cache = None THEN 1 ELSE Divergence(cache, thread[t].copy)])
  /\ overlapped' = (overlapped \/ SomeoneElseSaves(t))
  /\ UNCHANGED <<stored, memory, kept, undone, revived, used>>

ReadsLength(t) ==
  /\ At(t, "length")
  /\ Become(t, [thread[t] EXCEPT !.pc = "write",
       !.length = IF cache = None THEN None ELSE Len(cache)])
  /\ UNCHANGED <<stored, memory, history, used>>

(* Rows from the divergence on are deleted when there may be any, and the  *)
(* messages from there on are inserted, or replace what is there.          *)
Rewritten(t) ==
  LET s == thread[t].copy
      from == thread[t].from
      deletes == thread[t].length = None \/ thread[t].length >= from
  IN [i \in {j \in DOMAIN rows : j < from \/ ~deletes} \cup (from..Len(s)) |->
        IF i \in from..Len(s) THEN s[i] ELSE rows[i]]

(* The transaction. *)
Writes(t) ==
  /\ At(t, "write")
  /\ rows' = Rewritten(t)
  /\ running' = thread[t].running
  /\ Wrote(t, [thread[t] EXCEPT !.pc = "record"])
  /\ LET mine == thread[t] IN
       /\ kept' = CASE mine.kind \in Holders -> mine.copy
                    [] mine.kind = "post" -> Append(kept, mine.copy[Len(mine.copy)])
                    [] OTHER -> kept
       /\ undone' = (mine.kind \notin Holders /\ (undone \/ mine.old))
       /\ revived' = IF mine.kind = "turn" THEN FALSE
                     ELSE revived \/ (mine.running /\ ~active)
  /\ UNCHANGED <<memory, overlapped, used>>

(* Where a thread goes after a save. A turn that said it is idle is over.  *)
Saved(t) ==
  IF thread[t].kind \in Holders
  THEN /\ Become(t, [thread[t] EXCEPT
              !.pc = IF thread[t].kind = "turn" /\ ~thread[t].running THEN "end" ELSE "edit",
              !.first = FALSE, !.from = 1, !.length = None])
       /\ UNCHANGED lock
  ELSE Leave(t)

(* The cache follows once the transaction is committed. *)
Records(t) ==
  /\ At(t, "record")
  /\ cache' = thread[t].copy
  /\ Saved(t)
  /\ UNCHANGED <<stored, active, history, used>>

(* The first save of a turn may fail, any other ends what it belongs to.   *)
Failed(t) ==
  \/ thread[t].first /\ Saved(t)
  \/ ~thread[t].first /\ thread[t].kind = "turn" /\ Goto(t, "end") /\ UNCHANGED lock
  \/ thread[t].kind # "turn" /\ Leave(t)

WriteFails_Records(t) ==
  /\ At(t, "write")
  /\ Fault
  /\ cache' = thread[t].copy
  /\ Failed(t)
  /\ UNCHANGED <<stored, active, history>>

WriteFails(t) ==
  /\ At(t, "write")
  /\ Fault
  /\ Failed(t)
  /\ UNCHANGED <<stored, cache, active, history>>

-----------------------------------------------------------------------------
(* truncate_session_messages *)

Below(f, n) == [i \in {j \in DOMAIN f : j < n} |-> f[i]]

CutsRows(t) ==
  /\ At(t, "cut")
  /\ rows' = Below(rows, thread[t].from)
  /\ Wrote(t, [thread[t] EXCEPT !.pc = "cutCache"])
  /\ kept' = Below(kept, thread[t].from)
  /\ overlapped' = (overlapped \/ SomeoneElseSaves(t))
  /\ UNCHANGED <<running, memory, undone, revived, used>>

CutsCache(t) ==
  /\ At(t, "cutCache")
  /\ cache' = IF cache = None THEN None ELSE Below(cache, thread[t].from)
  /\ Leave(t)
  /\ UNCHANGED <<stored, active, history, used>>

CutFails(t) ==
  /\ At(t, "cut")
  /\ Fault
  /\ Leave(t)
  /\ UNCHANGED <<stored, cache, active, history>>

-----------------------------------------------------------------------------
(* Turns and compactions *)

(* A prefix of the messages becomes one message, the summary.              *)
Summarised(s, b, n) == <<b>> \o SubSeq(s, n + 1, Len(s))
Compacted(s) == {Summarised(s, b, n) : b \in Bodies, n \in 1..Len(s)}

(* A reply grows while it streams in, an old tool result is cut short.     *)
Overwritten(s) == {[s EXCEPT ![i] = b] : b \in Bodies, i \in 1..Len(s)}

(* A change of the copy. It may be saved at once, with later ones, or never*)
(* if the turn is cut off.                                                 *)
Edits(t) ==
  /\ At(t, "edit")
  /\ Count("edit", MaxEdits)
  /\ LET s == thread[t].copy IN
     \E new \in Overwritten(s) \cup Compacted(s)
                  \cup (IF thread[t].kind = "turn" THEN Appended(s) ELSE {}) :
       Become(t, [thread[t] EXCEPT !.copy = new])
  /\ UNCHANGED <<stored, memory, history>>

Saves(t) ==
  /\ At(t, "edit")
  /\ Goto(t, "diverge")
  /\ UNCHANGED <<stored, memory, history, used>>

CompactionEnds(t) ==
  /\ At(t, "edit") /\ thread[t].kind = "compact"
  /\ Leave(t)
  /\ UNCHANGED <<stored, cache, active, history, used>>

(* The last save says that the session is idle. *)
TurnCompletes(t) ==
  /\ At(t, "edit") /\ thread[t].kind = "turn"
  /\ Become(t, [thread[t] EXCEPT !.pc = "diverge", !.running = FALSE])
  /\ UNCHANGED <<stored, memory, history, used>>

(* A cancellation, or an error of a provider or a tool. *)
TurnAborts(t) ==
  /\ At(t, "edit") /\ thread[t].kind = "turn"
  /\ Goto(t, "end")
  /\ UNCHANGED <<stored, memory, history, used>>

TurnEnds_NoGuard(t) ==
  /\ At(t, "end")
  /\ lock' = None /\ active' = FALSE
  /\ Become(t, Idle)
  /\ UNCHANGED <<stored, cache, history, used>>

(* Dropping TaskStatusGuard spawns the task that resets the status; the    *)
(* lock and the run guard go too.                                          *)
TurnEnds(t) ==
  /\ At(t, "end")
  /\ lock' = None /\ active' = FALSE
  /\ Become(t, [Idle EXCEPT !.pc = "read", !.kind = "status"])
  /\ UNCHANGED <<stored, cache, history, used>>

-----------------------------------------------------------------------------
(* The process dies and starts again. What is stored is what counts then.  *)
IsTranscript(r) == DOMAIN r = 1..Cardinality(DOMAIN r)

Crash ==
  /\ Count("crash", MaxCrashes)
  /\ thread' = [t \in Threads |-> Idle]
  /\ cache' = None /\ active' = FALSE /\ lock' = None
  /\ kept' = Load(rows) /\ undone' = FALSE
  /\ overlapped' = (overlapped /\ ~IsTranscript(rows))
  /\ UNCHANGED <<stored, revived>>

Save(t) == Diverges(t) \/ ReadsLength(t) \/ Writes(t) \/ Records(t) \/ WriteFails(t)
Read(t) == ReadSession(t) \/ ReadRows(t) \/ ReadsNothingToDo(t) \/ ReadFails(t)
Truncate(t) == CutsRows(t) \/ CutsCache(t) \/ CutFails(t)
Work(t) ==
  \/ Edits(t) \/ Saves(t) \/ CompactionEnds(t)
  \/ TurnCompletes(t) \/ TurnAborts(t) \/ TurnEnds(t)

Next ==
  \/ StartTurn \/ StartCompact \/ Crash
  \/ \E n \in Cuts : StartTruncate(n)
  \/ \E kind \in {"field", "post"} : StartVisit(kind)
  \/ \E t \in Threads : TakeLock(t) \/ Read(t) \/ Save(t) \/ Truncate(t) \/ Work(t)

Spec == Init /\ [][Next]_vars

-----------------------------------------------------------------------------
(* Invariants *)

ThreadRecords ==
  [pc : Pcs, kind : {"none"} \cup Holders \cup Visitors, copy : Seq(Bodies),
   running : BOOLEAN, first : BOOLEAN, from : Nat \ {0}, length : Nat \cup {None},
   old : BOOLEAN]

(* The tables, the cache and every copy a task holds have their types.     *)
TypeOK ==
  /\ DOMAIN rows \subseteq Nat \ {0} /\ rows \in [DOMAIN rows -> Bodies]
  /\ running \in BOOLEAN /\ active \in BOOLEAN
  /\ cache \in Seq(Bodies) \cup {None}
  /\ lock \in Threads \cup {None}
  /\ thread \in [Threads -> ThreadRecords]
  /\ kept \in Seq(Bodies)
  /\ overlapped \in BOOLEAN /\ undone \in BOOLEAN /\ revived \in BOOLEAN
  /\ used \in [{"turn", "edit", "visit", "cut", "fault", "crash"} -> Nat]

(* Unless two writes of the session overlapped, a save leaves exactly the  *)
(* messages its caller holds, with no row too many, and the cache never    *)
(* claims rows that are not there, whatever failed and whatever was        *)
(* truncated: update_session works from the cache and does not look at the *)
(* rows.                                                                   *)
CacheTellsTheRows ==
  ~overlapped =>
    /\ \A t \in Threads : At(t, "record") => rows = thread[t].copy
    /\ cache # None /\ (\A t \in Threads : thread[t].pc \notin {"record", "cutCache"})
         => rows = cache

(* Whoever holds the session's lock works on what the last one with the    *)
(* lock left: no turn writes a truncated history straight back. And what   *)
(* they left, with the messages posted since, is what is stored, unless a  *)
(* task without the lock wrote an old copy over it.                        *)
HistoryKept ==
  /\ \A t \in Threads :
       thread[t].kind \in Holders /\ thread[t].pc \in LoadedPcs => ~thread[t].old
  /\ ~overlapped /\ ~undone => rows = kept

(* A session says it is running only while a turn is, or until the turn's  *)
(* TaskStatusGuard has written its reset, unless an operation failed, the  *)
(* process died, or a copy read during the turn was written after it.      *)
RunningIsOwned ==
  running =>
    \/ active \/ revived \/ used["fault"] + used["crash"] > 0
    \/ \E t \in Threads : thread[t].kind = "status" /\ thread[t].pc # "record"
=============================================================================
