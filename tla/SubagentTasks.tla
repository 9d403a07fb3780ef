---------------------------- MODULE SubagentTasks ----------------------------
(***************************************************************************)
(* The subagents of one parent session (agent/subagent_manager.rs): the    *)
(* child's run, the parent's tool call that waits for it, the requests     *)
(* that stop, detach and resume it, and the rows of subagent_tasks they    *)
(* all write (storage/sqlite.rs).                                          *)
(*                                                                         *)
(* A task is one run of a child session; resuming a session makes a new    *)
(* task. update_subagent_task writes back a whole row that was read in     *)
(* another statement: every such pair is two steps here. The end of a run  *)
(* has no await, so that an abort cannot cut it, but other threads run     *)
(* between its statements. Operators whose name has a _ are not the code:  *)
(* each is the definition that follows it with one plausible mistake.      *)
(***************************************************************************)
EXTENDS Naturals, FiniteSets, Sequences

CONSTANTS
  Tasks, Sessions,
  Tool,           (* the call of the parent's turn: it has one at a time    *)
  Web,            (* resume requests of the web page                        *)
  MaxRetries,     (* subagent_task_max_retries                              *)
  Disturbances,   (* which of "failure" (of a provider), "timeout" (of a    *)
                  (* wait), "detach", "stop", "resume" (by the web page),   *)
                  (* "cancel" (of the turn), "crash" happen                 *)
  MaxDisturbances, MaxTurns,
                  (* bounds: how many of them, and how many messages of the *)
                  (* user                                                   *)
  None

ASSUME ConfigNat == MaxRetries \in Nat
ASSUME NoneIsNothing == None \notin Tasks \cup Sessions
ASSUME ToolIsNoRequest == Tool \notin Web

VARIABLES
  row,            (* per task: its row in subagent_tasks                    *)
  born,           (* per session: its tasks, in the order they were made    *)
  tied,           (* tasks whose created_at, kept in whole seconds, is not  *)
                  (* later than that of a task of the session made before   *)
  child,          (* per task: its tokio task                               *)
  chan,           (* per task: the oneshot channel of its outcome           *)
  active,         (* active_subagents: per session, the task of the handle  *)
  held,           (* pending_results: per session, the task whose receiver  *)
                  (* no wait has taken yet                                  *)
  call,           (* per caller: how far it is                              *)
  stop,           (* per task: its stop_subagent                            *)
  detached,       (* tasks whose handle got the detach signal               *)
  detach,         (* per session: its detach_subagent                       *)
  parent,         (* the turn of the parent session                         *)
  wake,           (* a wake-up of the parent that is not acted upon yet     *)
  told,           (* history: how often the parent got a task's outcome     *)
  overwritten,    (* history: tasks whose row was written back over a       *)
                  (* change made since it was read                          *)
  used            (* how many disturbances and messages there were          *)

channels == <<chan, active, held>>
requests == <<stop, detached, detach>>
memory == <<child, channels, call, requests, parent, wake>>
history == <<told, overwritten, used>>
vars == <<row, born, tied, memory, history>>

-----------------------------------------------------------------------------
(* completed_at is set exactly in the rows that are not "running".         *)
Outcomes == {"completed", "failed", "cancelled"}
Statuses == {"none", "running", "interrupted"} \cup Outcomes
Rows == [status : Statuses, told : BOOLEAN, background : BOOLEAN]
Terminal(r) == r.status \in Outcomes \cup {"interrupted"}
NoRow == [status |-> "none", told |-> FALSE, background |-> FALSE]
NoChild == [at |-> "none", by |-> Tool, retries |-> 0, outcome |-> "completed", copy |-> NoRow,
            woke |-> FALSE]
NoCall == [at |-> "none", session |-> None, task |-> None, background |-> FALSE,
           marks |-> None, copy |-> NoRow]
NoStop == [at |-> "none", copy |-> NoRow]
NoDetach == [at |-> "none", marks |-> None, copy |-> NoRow]

Callers == {Tool} \cup Web
SessionOf(t) == CHOOSE s \in Sessions : \E i \in DOMAIN born[s] : born[s][i] = t
(* What ORDER BY created_at DESC LIMIT 1 may return.                       *)
Newest(s) == {born[s][i] : i \in {k \in DOMAIN born[s] :
                                    \A j \in DOMAIN born[s] : j > k => born[s][j] \in tied}}
Alive(t) == child[t].at \notin {"none", "gone"}
Unannounced == {t \in Tasks : Terminal(row[t]) /\ ~row[t].told}

Disturb(event) ==
  /\ event \in Disturbances /\ used.events < MaxDisturbances
  /\ used' = [used EXCEPT !.events = @ + 1]

(* update_subagent_task with the copy read earlier, changed by the caller. *)
WriteBack(t, copy, status) ==
  /\ row' = [row EXCEPT ![t] = [copy EXCEPT !.status = status]]
  /\ overwritten' = IF row[t] = copy THEN overwritten ELSE overwritten \cup {t}

Init ==
  /\ row = [t \in Tasks |-> NoRow] /\ born = [s \in Sessions |-> <<>>] /\ tied = {}
  /\ child = [t \in Tasks |-> NoChild] /\ chan = [t \in Tasks |-> "none"]
  /\ active = [s \in Sessions |-> None] /\ held = [s \in Sessions |-> None]
  /\ call = [c \in Callers |-> NoCall]
  /\ stop = [t \in Tasks |-> NoStop] /\ detached = {}
  /\ detach = [s \in Sessions |-> NoDetach]
  /\ parent = [at |-> "idle", merging |-> {}] /\ wake = FALSE
  /\ told = [t \in Tasks |-> 0] /\ overwritten = {}
  /\ used = [events |-> 0, turns |-> 0]

-----------------------------------------------------------------------------
(* Starting a child *)

MayCall(c) == call[c].at = "none" /\ (c = Tool => parent.at = "busy")

(* spawn_subagent makes a session; resume_subagent takes one that has no   *)
(* handle. What the check saw may have changed when the row is created.    *)
SpawnBegins(c, s, background) ==
  /\ MayCall(c) /\ c = Tool
  /\ born[s] = <<>>
  /\ call' = [call EXCEPT ![c] = [NoCall EXCEPT !.at = "checked", !.session = s,
                                                !.background = background]]
  /\ UNCHANGED <<row, born, tied, child, channels, requests, parent, wake, history>>

ResumeChecks(c, s, background) ==
  /\ MayCall(c)
  /\ born[s] # <<>> /\ active[s] = None
  /\ IF c = Tool THEN UNCHANGED used ELSE Disturb("resume")
  /\ call' = [call EXCEPT ![c] = [NoCall EXCEPT !.at = "checked", !.session = s,
                                                !.background = background]]
  /\ UNCHANGED <<row, born, tied, child, channels, requests, parent, wake, told,
                 overwritten>>

(* The row, the receiver of a foreground run, and the task are made ...    *)
Launches(c, t) ==
  LET s == call[c].session  foreground == ~call[c].background IN
  /\ call[c].at = "checked" /\ row[t].status = "none"
  /\ row' = [row EXCEPT ![t] = [@ EXCEPT !.status = "running",
                                         !.background = ~foreground]]
  /\ born' = [born EXCEPT ![s] = Append(@, t)]
  /\ UNCHANGED tied \/ (born[s] # <<>> /\ tied' = tied \cup {t})
  /\ child' = [child EXCEPT ![t] = [@ EXCEPT !.at = "working", !.by = c]]
  /\ held' = IF foreground THEN [held EXCEPT ![s] = t] ELSE held
  /\ chan' = LET left == IF foreground /\ held[s] # None
                         THEN [chan EXCEPT ![held[s]] = "dropped"] ELSE chan
             IN  [left EXCEPT ![t] = IF foreground THEN "open" ELSE "none"]
  /\ call' = [call EXCEPT ![c] = [@ EXCEPT !.at = "spawned", !.task = t]]
  /\ UNCHANGED <<active, requests, parent, wake, history>>

(* ... and then, with the task already running, its handle is registered.  *)
Registers(c) ==
  /\ call[c].at = "spawned"
  /\ active' = [active EXCEPT ![call[c].session] = call[c].task]
  /\ call' = [call EXCEPT ![c] = IF c = Tool /\ ~@.background
                                 THEN [@ EXCEPT !.at = "open"] ELSE NoCall]
  /\ UNCHANGED <<row, born, tied, child, chan, held, requests, parent, wake,
                 history>>

-----------------------------------------------------------------------------
(* The child's run *)

ChildStep(t, at) ==
  /\ child' = [child EXCEPT ![t].at = at]
  /\ UNCHANGED <<row, born, tied, channels, call, requests, parent, wake, history>>

(* An iteration counts its tools in the row and the next one begins.       *)
ChildReadsRow(t) ==
  /\ child[t].at = "working"
  /\ child' = [child EXCEPT ![t] = [@ EXCEPT !.at = "counting",
                                             !.copy = row[t]]]
  /\ UNCHANGED <<row, born, tied, channels, call, requests, parent, wake, history>>

ChildCounts(t) ==
  /\ child[t].at = "counting"
  /\ WriteBack(t, child[t].copy, child[t].copy.status)
  /\ child' = [child EXCEPT ![t] = [@ EXCEPT !.at = "working",
                                             !.copy = NoRow]]
  /\ UNCHANGED <<born, tied, channels, call, requests, parent, wake, told, used>>

Ends(t, outcome) ==
  /\ child' = [child EXCEPT ![t] = [@ EXCEPT !.at = "ending",
                                             !.outcome = outcome]]
  /\ UNCHANGED <<row, born, tied, channels, call, requests, parent, wake, told,
                 overwritten>>

(* "completed" stands for partial too.                                     *)
ChildCompletes(t) == child[t].at = "working" /\ Ends(t, "completed") /\ UNCHANGED used

ChildFails_AlwaysRetries(t) ==
  /\ child[t].at = "working"
  /\ Disturb("failure")
  /\ child' = [child EXCEPT ![t] = [@ EXCEPT !.at = "backoff",
                                             !.retries = child[t].retries + 1]]
  /\ UNCHANGED <<row, born, tied, channels, call, requests, parent, wake, told,
                 overwritten>>

ChildFails(t) ==
  /\ child[t].at = "working"
  /\ Disturb("failure")
  /\ \/ /\ child[t].retries < MaxRetries
        /\ child' = [child EXCEPT ![t] = [@ EXCEPT !.at = "backoff",
                                                   !.retries = child[t].retries + 1]]
        /\ UNCHANGED <<row, born, tied, channels, call, requests, parent, wake,
                       told, overwritten>>
     \/ Ends(t, "failed")             (* not retryable, or no retry is left *)

ChildRetries(t) == child[t].at = "backoff" /\ ChildStep(t, "working")

(* recv() returns when the stop has sent, and also when nobody has the     *)
(* sender any more: it lives in the handle.                                *)
Cancelled(t) ==
  \/ stop[t].at = "aborting"
  \/ /\ active[SessionOf(t)] # t /\ stop[t].at = "none"
     /\ \A c \in Callers : call[c].at = "spawned" => call[c].task # t

ChildCancelled(t) ==
  /\ child[t].at \in {"working", "backoff"}
  /\ Cancelled(t)
  /\ Ends(t, "cancelled")
  /\ UNCHANGED used

ChildReadsLast(t) ==
  /\ child[t].at = "ending"
  /\ child' = [child EXCEPT ![t] = [@ EXCEPT !.at = "writing",
                                             !.copy = row[t]]]
  /\ UNCHANGED <<row, born, tied, channels, call, requests, parent, wake, history>>

ChildWritesEnd(t) ==
  /\ child[t].at = "writing"
  /\ WriteBack(t, child[t].copy, child[t].outcome)
  /\ child' = [child EXCEPT ![t] = [@ EXCEPT !.at = "delivering",
                                             !.copy = NoRow]]
  /\ UNCHANGED <<born, tied, channels, call, requests, parent, wake, told, used>>

(* deliver() tells whether a receiver is there; then the guard is dropped, *)
(* which removes the handle of the session.                                *)
Leave(t, chan2, awake) ==
  /\ chan' = chan2
  /\ wake' = (wake \/ awake)
  /\ child' = [child EXCEPT ![t] = [NoChild EXCEPT !.at = "gone", !.by = child[t].by,
                                               !.woke = awake]]
  /\ active' = [active EXCEPT ![SessionOf(t)] = None]
  /\ UNCHANGED <<born, tied, held, call, requests, parent, told, used>>

Sent(t) == IF chan[t] = "open" THEN [chan EXCEPT ![t] = "sent"] ELSE chan

ChildDelivers(t) ==
  /\ child[t].at = "delivering"
  /\ Leave(t, Sent(t), chan[t] # "open")
  /\ UNCHANGED <<row, overwritten>>

(* Aborted at an await: only the guard of a foreground run looks at the    *)
(* row. It reads it, writes "failed" into a row that has not ended, sends  *)
(* what it knows, and never wakes the parent.                              *)
ChildAborted(t) ==
  /\ child[t].at \in {"working", "backoff"} /\ stop[t].at = "aborting"
  /\ UNCHANGED <<row, overwritten>>
  /\ IF chan[t] # "none" /\ ~Terminal(row[t])
     THEN /\ child' = [child EXCEPT ![t] = [@ EXCEPT !.at = "dropping",
                                                     !.copy = row[t]]]
          /\ UNCHANGED <<born, tied, channels, call, requests, parent, wake, told,
                         used>>
     ELSE Leave(t, Sent(t), FALSE)

ChildDropped(t) ==
  /\ child[t].at = "dropping"
  /\ WriteBack(t, child[t].copy, "failed")
  /\ Leave(t, Sent(t), FALSE)

-----------------------------------------------------------------------------
(* The parent's tool call waits *)

(* The call returns: its receiver is dropped, whatever was sent into it.   *)
DropReceiver(t) ==
  chan' = IF chan[t] \in {"open", "sent"} THEN [chan EXCEPT ![t] = "dropped"] ELSE chan

WaitBegins ==
  /\ call[Tool].at = "open"
  /\ held' = [held EXCEPT ![call[Tool].session] = None]
  /\ call' = [call EXCEPT ![Tool].at = "waiting"]
  /\ UNCHANGED <<row, born, tied, child, chan, active, requests, parent, wake,
                 history>>

WaitReceives_NoMark ==
  LET t == call[Tool].task IN
  /\ call[Tool].at = "waiting" /\ chan[t] = "sent"
  /\ chan' = [chan EXCEPT ![t] = "taken"]
  /\ told' = [told EXCEPT ![t] = @ + 1]
  /\ call' = [call EXCEPT ![Tool] = NoCall]
  /\ UNCHANGED <<row, born, tied, child, active, held, requests, parent, wake,
                 overwritten, used>>

(* The outcome is returned, and the newest task of the session is marked.  *)
WaitReceives ==
  LET t == call[Tool].task IN
  /\ call[Tool].at = "waiting" /\ chan[t] = "sent"
  /\ chan' = [chan EXCEPT ![t] = "taken"]
  /\ told' = [told EXCEPT ![t] = @ + 1]
  /\ \E n \in Newest(call[Tool].session) :
       row' = IF Terminal(row[n]) THEN [row EXCEPT ![n].told = TRUE] ELSE row
  /\ call' = [call EXCEPT ![Tool] = NoCall]
  /\ UNCHANGED <<born, tied, child, active, held, requests, parent, wake,
                 overwritten, used>>

(* A slice ends with nothing received and the deadline over. The receiver  *)
(* lives on while mark_subagent_background reads the row and writes it     *)
(* back; the background column is not among those written.                 *)
WaitTimesOut ==
  /\ call[Tool].at = "waiting" /\ chan[call[Tool].task] = "open"
  /\ Disturb("timeout")
  /\ call' = [call EXCEPT ![Tool].at = "timedOut"]
  /\ UNCHANGED <<row, born, tied, child, channels, requests, parent, wake, told,
                 overwritten>>

TimeoutReadsRow ==
  /\ call[Tool].at = "timedOut"
  /\ \E n \in Newest(call[Tool].session) :
       call' = [call EXCEPT ![Tool] = [@ EXCEPT !.at = "marking", !.marks = n,
                                                !.copy = row[n]]]
  /\ UNCHANGED <<row, born, tied, child, channels, requests, parent, wake, history>>

TimeoutReturns_Marks ==
  /\ call[Tool].at = "marking"
  /\ row' = [row EXCEPT ![call[Tool].marks].told = TRUE]
  /\ DropReceiver(call[Tool].task)
  /\ call' = [call EXCEPT ![Tool] = NoCall]
  /\ UNCHANGED <<born, tied, child, active, held, requests, parent, wake, history>>

TimeoutReturns ==
  /\ call[Tool].at = "marking"
  /\ IF call[Tool].copy.background THEN UNCHANGED <<row, overwritten>>
     ELSE WriteBack(call[Tool].marks, call[Tool].copy, call[Tool].copy.status)
  /\ DropReceiver(call[Tool].task)
  /\ call' = [call EXCEPT ![Tool] = NoCall]
  /\ UNCHANGED <<born, tied, child, active, held, requests, parent, wake, told,
                 used>>

(* select! takes any branch that is ready: a detach is seen although the   *)
(* outcome is there too, and the outcome is dropped with the receiver.     *)
WaitSeesDetach ==
  /\ call[Tool].at = "waiting" /\ call[Tool].task \in detached
  /\ call' = [call EXCEPT ![Tool].at = "leaving"]
  /\ UNCHANGED <<row, born, tied, child, channels, requests, parent, wake, history>>

DetachReturns ==
  /\ call[Tool].at = "leaving"
  /\ DropReceiver(call[Tool].task)
  /\ call' = [call EXCEPT ![Tool] = NoCall]
  /\ UNCHANGED <<row, born, tied, child, active, held, requests, parent, wake,
                 history>>

-----------------------------------------------------------------------------
(* Requests *)

(* detach_subagent: the signal of the handle, then the newest row.         *)
DetachAsks(s) ==
  /\ active[s] # None /\ detach[s].at = "none"
  /\ Disturb("detach")
  /\ detached' = detached \cup {active[s]}
  /\ detach' = [detach EXCEPT ![s].at = "signalled"]
  /\ UNCHANGED <<row, born, tied, child, channels, call, stop, parent, wake, told,
                 overwritten>>

DetachReadsRow(s) ==
  /\ detach[s].at = "signalled"
  /\ \E n \in Newest(s) :
       detach' = [detach EXCEPT ![s] = [at |-> "marking", marks |-> n, copy |-> row[n]]]
  /\ UNCHANGED <<row, born, tied, child, channels, call, stop, detached, parent,
                 wake, history>>

DetachWritesRow(s) ==
  /\ detach[s].at = "marking"
  /\ detach' = [detach EXCEPT ![s] = NoDetach]
  /\ IF detach[s].copy.background THEN UNCHANGED <<row, overwritten>>
     ELSE WriteBack(detach[s].marks, detach[s].copy, detach[s].copy.status)
  /\ UNCHANGED <<born, tied, child, channels, call, stop, detached, parent, wake,
                 told, used>>

(* stop_subagent, asked for one child or for all of a stopped session.     *)
StopBegins(t) ==
  /\ \E s \in Sessions : active[s] = t
  /\ stop[t].at = "none"
  /\ Disturb("stop")
  /\ active' = [active EXCEPT ![SessionOf(t)] = None]
  /\ stop' = [stop EXCEPT ![t] = [at |-> "read", copy |-> row[t]]]
  /\ UNCHANGED <<row, born, tied, child, chan, held, call, detached, detach, parent,
                 wake, told, overwritten>>

StopWritesRow(t) ==
  /\ stop[t].at = "read"
  /\ WriteBack(t, stop[t].copy, "cancelled")
  /\ stop' = [stop EXCEPT ![t] = [at |-> "aborting", copy |-> NoRow]]
  /\ UNCHANGED <<born, tied, child, channels, call, detached, detach, parent, wake,
                 told, used>>

StopReturns(t) ==
  /\ stop[t].at = "aborting" /\ child[t].at = "gone"
  /\ stop' = [stop EXCEPT ![t] = NoStop]
  /\ UNCHANGED <<row, born, tied, child, channels, call, detached, detach, parent,
                 wake, history>>

-----------------------------------------------------------------------------
(* The parent's turns *)

(* A message of the user, or a wake-up that finds a result to deliver,     *)
(* starts a turn; it lists the results and tells and marks each. A wake-up *)
(* of a busy parent stays parked until the turn has ended.                 *)
TurnBegins ==
  /\ parent.at = "idle"
  /\ \/ /\ used.turns < MaxTurns /\ used' = [used EXCEPT !.turns = @ + 1]
        /\ UNCHANGED wake
     \/ /\ wake /\ Unannounced # {}
        /\ wake' = FALSE /\ UNCHANGED used
  /\ parent' = [at |-> "merging", merging |-> Unannounced]
  /\ UNCHANGED <<row, born, tied, child, channels, call, requests, told,
                 overwritten>>

WakeFindsNothing ==
  /\ parent.at = "idle" /\ wake /\ Unannounced = {}
  /\ wake' = FALSE
  /\ UNCHANGED <<row, born, tied, child, channels, call, requests, parent, history>>

Merges(t) ==
  /\ parent.at = "merging" /\ t \in parent.merging
  /\ told' = [told EXCEPT ![t] = @ + 1]
  /\ row' = [row EXCEPT ![t].told = TRUE]
  /\ parent' = [parent EXCEPT !.merging = @ \ {t}]
  /\ UNCHANGED <<born, tied, child, channels, call, requests, wake, overwritten,
                 used>>

TurnMerged ==
  /\ parent.at = "merging" /\ parent.merging = {}
  /\ parent' = [parent EXCEPT !.at = "busy"]
  /\ UNCHANGED <<row, born, tied, child, channels, call, requests, wake, history>>

TurnEnds ==
  /\ parent.at = "busy" /\ call[Tool].at = "none"
  /\ parent' = [parent EXCEPT !.at = "idle"]
  /\ UNCHANGED <<row, born, tied, child, channels, call, requests, wake, history>>

(* A cancelled turn drops the future of its tool call at an await. A       *)
(* receiver that no wait has taken stays in pending_results.               *)
TurnCancelled ==
  /\ parent.at = "busy" /\ call[Tool].at \in {"checked", "open", "waiting", "timedOut", "leaving"}
  /\ Disturb("cancel")
  /\ IF call[Tool].at \in {"checked", "open"} THEN UNCHANGED chan ELSE DropReceiver(call[Tool].task)
  /\ call' = [call EXCEPT ![Tool] = NoCall]
  /\ parent' = [parent EXCEPT !.at = "idle"]
  /\ UNCHANGED <<row, born, tied, child, active, held, requests, wake, told,
                 overwritten>>

-----------------------------------------------------------------------------
(* The process dies, and starts again: what was running is "interrupted".  *)
Recovered_Nothing(r) == r

Recovered_EveryRow(r) == IF r.status = "none" THEN r ELSE [r EXCEPT !.status = "interrupted"]

Recovered(r) == IF r.status = "running" THEN [r EXCEPT !.status = "interrupted"] ELSE r

CrashAndRestart ==
  /\ Disturb("crash")
  /\ row' = [t \in Tasks |-> Recovered(row[t])]
  /\ child' = [t \in Tasks |-> IF Alive(t) THEN [NoChild EXCEPT !.at = "gone", !.by = child[t].by]
                                       ELSE child[t]]
  /\ chan' = [t \in Tasks |-> IF chan[t] = "none" THEN "none" ELSE "dropped"]
  /\ active' = [s \in Sessions |-> None] /\ held' = [s \in Sessions |-> None]
  /\ call' = [c \in Callers |-> NoCall]
  /\ stop' = [t \in Tasks |-> NoStop] /\ detached' = {}
  /\ detach' = [s \in Sessions |-> NoDetach]
  /\ parent' = [at |-> "idle", merging |-> {}] /\ wake' = FALSE
  /\ UNCHANGED <<born, tied, told, overwritten>>

-----------------------------------------------------------------------------
Runs(t) == \/ ChildReadsRow(t) \/ ChildCounts(t) \/ ChildCompletes(t) \/ ChildRetries(t)
           \/ ChildCancelled(t) \/ ChildReadsLast(t) \/ ChildWritesEnd(t)
           \/ ChildDelivers(t) \/ ChildAborted(t) \/ ChildDropped(t)

Waits == \/ WaitBegins \/ WaitReceives \/ TimeoutReadsRow \/ TimeoutReturns
         \/ WaitSeesDetach \/ DetachReturns

Turn == TurnMerged \/ TurnEnds \/ WakeFindsNothing \/ \E t \in Tasks : Merges(t)

Next ==
  \/ \E s \in Sessions, b \in BOOLEAN : SpawnBegins(Tool, s, b)
  \/ \E c \in Callers, s \in Sessions, b \in BOOLEAN : ResumeChecks(c, s, b)
  \/ \E c \in Callers : Registers(c) \/ \E t \in Tasks : Launches(c, t)
  \/ \E t \in Tasks : Runs(t) \/ ChildFails(t)
  \/ Waits \/ WaitTimesOut
  \/ \E s \in Sessions : DetachAsks(s) \/ DetachReadsRow(s) \/ DetachWritesRow(s)
  \/ \E t \in Tasks : StopBegins(t) \/ StopWritesRow(t) \/ StopReturns(t)
  \/ TurnBegins \/ Turn \/ TurnCancelled
  \/ CrashAndRestart

Spec == Init /\ [][Next]_vars

-----------------------------------------------------------------------------
(* Properties *)

(* The types of the variables.                                             *)
TypeOK ==
  /\ row \in [Tasks -> Rows]
  /\ born \in [Sessions -> Seq(Tasks)] /\ tied \subseteq Tasks
  /\ child \in [Tasks -> [at : {"none", "working", "counting", "backoff", "ending", "writing",
                                "delivering", "dropping", "gone"},
                          by : Callers, retries : 0..MaxRetries, outcome : Outcomes, copy : Rows,
                          woke : BOOLEAN]]
  /\ chan \in [Tasks -> {"none", "open", "sent", "taken", "dropped"}]
  /\ active \in [Sessions -> Tasks \cup {None}] /\ held \in [Sessions -> Tasks \cup {None}]
  /\ call \in [Callers -> [at : {"none", "checked", "spawned", "open", "waiting", "timedOut",
                                 "marking", "leaving"},
                           session : Sessions \cup {None}, task : Tasks \cup {None},
                           background : BOOLEAN, marks : Tasks \cup {None}, copy : Rows]]
  /\ stop \in [Tasks -> [at : {"none", "read", "aborting"}, copy : Rows]]
  /\ detached \subseteq Tasks
  /\ detach \in [Sessions -> [at : {"none", "signalled", "marking"}, marks : Tasks \cup {None},
                              copy : Rows]]
  /\ parent \in [at : {"idle", "merging", "busy"}, merging : SUBSET Tasks]
  /\ wake \in BOOLEAN
  /\ told \in [Tasks -> Nat] /\ overwritten \subseteq Tasks
  /\ used \in [events : Nat, turns : Nat]

(* A run that is over says so in its row, whichever of its own end, a      *)
(* stop, an abort and a restart ended it, unless a copy read before was    *)
(* written back over it.                                                   *)
EndedRunsSaySo ==
  \A t \in Tasks \ overwritten : child[t].at = "gone" => Terminal(row[t])

(* "delivered exactly once": the waiter and the turn's merge never both    *)
(* tell an outcome, unless a write-back took the mark away, a resume from  *)
(* the web page put a newer task in the way of the mark, or the second of  *)
(* created_at does not tell the task from an older one of its session,     *)
(* which then got the mark.                                                *)
ResumedByWeb(t) ==
  \E i, j \in DOMAIN born[SessionOf(t)] :
    i < j /\ born[SessionOf(t)][i] = t /\ child[born[SessionOf(t)][j]].by # Tool

ToldOnce ==
  \A t \in Tasks \ overwritten : told[t] > 1 => ResumedByWeb(t) \/ t \in tied

(* A task that is marked was told: the waiter marks the newest task of the *)
(* session it finds, which is its own unless the web page launched one, or *)
(* the second of created_at does not tell the next one as newer.           *)
Followed(t) ==
  \E s \in Sessions : \E i, j \in DOMAIN born[s] :
    j = i + 1 /\ born[s][i] = t /\ born[s][j] \in tied

MarkedWasTold ==
  \A t \in Tasks : row[t].told /\ child[t].by = Tool => told[t] > 0 \/ Followed(t)

(* The outcome in a row is replaced only while a stop of the task is under *)
(* way, which found the handle and meets the end of the run, or by a copy  *)
(* read before.                                                            *)
OutcomesStay ==
  [][\A t \in Tasks : Terminal(row[t]) /\ row'[t].status # row[t].status =>
       stop[t].at # "none" \/ t \in overwritten']_vars

(* "its terminal state wakes the parent through the merge path": a child   *)
(* that ends while nobody waits for it wakes the parent.                   *)
EndsWakeTheParent ==
  \A t \in Tasks :
    child[t].at = "gone" /\ chan[t] = "dropped" /\ ~row[t].told => child[t].woke
=============================================================================
