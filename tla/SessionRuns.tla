---------------------------- MODULE SessionRuns ----------------------------
(***************************************************************************)
(* How the runs of one chat session are started, chained, stopped and      *)
(* woken: agent/runtime/lifecycle.rs and queue.rs, the entry and the exit  *)
(* of a turn in turn.rs, and the send handlers of web/routes.              *)
(*                                                                         *)
(* A thread is one tokio task: a request handler, a delayed dispatch, a    *)
(* wake-up or a run. Each step of a thread reads or writes one piece of    *)
(* shared state, because no lock covers two of them. The queue is the      *)
(* abstract MessageQueue; QueuedMessages shows the SQL implements it.      *)
(*                                                                         *)
(* Goals are kept apart (a goal round is a message the run itself may      *)
(* enqueue, valid or not when it is claimed), and so are the subagents (a  *)
(* task is a result that appears). Operators whose name has a _ are not    *)
(* the code: each is the definition that follows it with one plausible     *)
(* mistake.                                                                *)
(***************************************************************************)
EXTENDS Naturals, FiniteSets, Sequences

CONSTANTS
  Threads,        (* tokio tasks alive at once: a bound                     *)
  Messages,       (* messages users send                                    *)
  Rounds,         (* messages goal rounds enqueue                           *)
  Tasks,          (* background subagent tasks                              *)
  MaxWakeTurns,   (* setting subagent_auto_resume_max_turns                 *)
  MaxStops, MaxSendNow, MaxRemovals, MaxDirect, MaxTimeouts, MaxFaults,
  MaxCrashes,    
                  (* bounds: how often each request, timeout, failing       *)
                  (* operation and crash happens                            *)
  None            (* no thread, no entry                                    *)

Entries == Messages \cup Rounds

ASSUME NoneIsNothing == None \notin Threads /\ None \notin Entries
ASSUME TasksAreNoEntries == Tasks \cap Entries = {}
ASSUME RoundsAreNoMessages == Rounds \cap Messages = {}
ASSUME MaxWakeTurnsNat == MaxWakeTurns \in Nat

VARIABLES
  waiting, before, claimed,   (* the durable queue, see MessageQueue        *)
  transcript,     (* per entry and task: times it was saved to the session  *)
  finished,       (* tasks whose row is in a terminal state                 *)
  notified,       (* tasks whose row has notified_at set                    *)
  active,         (* the thread that holds the session's RunGuard           *)
  cancel,         (* the session's cancel flag                              *)
  stopped,        (* the session is in stopped_sessions                     *)
  parked,         (* the session is in pending_wakes                        *)
  wakeTurns,      (* the auto_wake_turns counter                            *)
  thread,         (* per thread: where it is and what it carries            *)
  sent,           (* history: messages whose enqueue was acknowledged       *)
  removed,        (* history: entries a request or a check deleted          *)
  used            (* how many of each bounded request there were            *)

queue == <<waiting, before, claimed>>
results == <<finished, notified>>
memory == <<active, cancel, stopped, parked, wakeTurns>>
history == <<sent, removed, used>>
vars == <<queue, transcript, results, memory, thread, history>>

Q == INSTANCE MessageQueue WITH Ids <- Entries, Orders <- {}

-----------------------------------------------------------------------------
(* Threads *)

(* from: "dispatch" for a thread that checks parked wakes after the claim, *)
(* as dispatch_queued_messages does; "request" for an HTTP or WS handler.  *)
Idle == [pc |-> "idle", from |-> "request", kind |-> "none", entry |-> None,
         carry |-> {}]

Handler(p, e) == [Idle EXCEPT !.pc = p, !.entry = e]
Dispatch == [Idle EXCEPT !.pc = "spawn", !.from = "dispatch"]
Wake == [Idle EXCEPT !.pc = "wake"]

RunPcs == {"merge", "save", "dequeue", "loop", "complete", "finish", "drop"}
HoldingPcs == RunPcs \cup {"recheck", "claim", "reject", "empty", "wakeRecheck", "wakeDrop"}
Pcs == HoldingPcs \cup
       {"idle", "resume", "spawn", "start", "settle", "after", "busy", "cancel",
        "stopCancel", "stopGoal", "wake", "wakeCheck", "wakeTasks", "wakeStart",
        "wakePark"}

At(t, p) == thread[t].pc = p
Goto(t, p) == thread' = [thread EXCEPT ![t].pc = p]
Become(t, record) == thread' = [thread EXCEPT ![t] = record]
Exit(t) == Become(t, Idle)

Free == {t \in Threads : At(t, "idle")}

(* A request or a callback arrives on some idle thread. *)
Arrive(record) == \E t \in Free : Become(t, record)

Count(request, limit) ==
  /\ used[request] < limit
  /\ used' = [used EXCEPT ![request] = @ + 1]

Init ==
  /\ Q!Init
  /\ transcript = [x \in Entries \cup Tasks |-> 0]
  /\ finished = {} /\ notified = {}
  /\ active = None /\ cancel = FALSE /\ stopped = FALSE /\ parked = FALSE
  /\ wakeTurns = 0
  /\ thread = [t \in Threads |-> Idle]
  /\ sent = {} /\ removed = {}
  /\ used = [r \in {"stop", "sendNow", "remove", "direct", "timeout", "fault", "crash"} |-> 0]

-----------------------------------------------------------------------------
(* Requests *)

(* enqueue_send_message and the websocket SessionSend: enqueue, resume the *)
(* queue, dispatch.                                                        *)
Send(m) ==
  /\ m \in Messages \ sent
  /\ Q!Enqueue(m)
  /\ sent' = sent \cup {m}
  /\ Arrive(Handler("resume", None))
  /\ UNCHANGED <<transcript, results, memory, removed, used>>

(* resume_session_queue, for a send and for send_queued_message_now.       *)
Resume(t) ==
  /\ At(t, "resume")
  /\ stopped' = FALSE
  /\ Goto(t, IF thread[t].entry = None THEN "spawn" ELSE "busy")
  /\ UNCHANGED <<queue, transcript, results, active, cancel, parked, wakeTurns, history>>

(* send_queued_message_now: the message must still be pending.             *)
SendNow(e) ==
  /\ Count("sendNow", MaxSendNow)
  /\ Q!Promote(e)
  /\ Arrive(Handler("resume", e))
  /\ UNCHANGED <<transcript, results, memory, sent, removed>>

SendNowBusy(t) ==
  /\ At(t, "busy")
  /\ IF active # None THEN Goto(t, "cancel") ELSE Become(t, Dispatch)
  /\ UNCHANGED <<queue, transcript, results, memory, history>>

SendNowCancel(t) ==
  /\ At(t, "cancel")
  /\ cancel' = TRUE
  /\ Exit(t)
  /\ UNCHANGED <<queue, transcript, results, active, stopped, parked, wakeTurns, history>>

(* cancel_queued_message deletes the row whatever its status.              *)
Remove(e) ==
  /\ Count("remove", MaxRemovals)
  /\ Q!Remove(e)
  /\ removed' = removed \cup {e}
  /\ UNCHANGED <<transcript, results, memory, thread, sent>>

(* stop_session *)
Stop ==
  /\ Count("stop", MaxStops)
  /\ stopped' = TRUE
  /\ Arrive(Handler("stopCancel", None))
  /\ UNCHANGED <<queue, transcript, results, active, cancel, parked, wakeTurns,
                 sent, removed>>

StopCancel(t) ==
  /\ At(t, "stopCancel")
  /\ cancel' = TRUE
  /\ Goto(t, "stopGoal")
  /\ UNCHANGED <<queue, transcript, results, active, stopped, parked, wakeTurns, history>>

(* The goal is paused and its pending rounds are deleted one by one; a     *)
(* revision conflict ends the closure before that.                         *)
StopRemovesRound(t) ==
  /\ At(t, "stopGoal")
  /\ \E r \in Rounds \cap waiting : Q!Remove(r) /\ removed' = removed \cup {r}
  /\ UNCHANGED <<transcript, results, memory, thread, sent, used>>

StopReturns(t) ==
  /\ At(t, "stopGoal")
  /\ Exit(t)
  /\ UNCHANGED <<queue, transcript, results, memory, history>>

-----------------------------------------------------------------------------
(* try_start_run: the entry of active_runs is taken and the cancel flag    *)
(* renewed under the lock of the entry.                                    *)

TryStartRun(t) ==
  /\ active = None
  /\ active' = t
  /\ cancel' = FALSE

DropGuard == active' = None

(* process_message, for Discord, the scheduler and the command line: a run *)
(* without a queue row, which is refused when the session is busy and does *)
(* not look at stopped.                                                    *)
StartDirect ==
  /\ Count("direct", MaxDirect)
  /\ \E t \in Free : /\ TryStartRun(t)
                     /\ Become(t, [Idle EXCEPT !.pc = "merge", !.kind = "direct"])
  /\ UNCHANGED <<queue, transcript, results, stopped, parked, wakeTurns, sent, removed>>
-----------------------------------------------------------------------------
(* spawn_next_queued_message_run *)

(* It returns to dispatch_queued_messages, which goes on, or to a request. *)
Returned(t) ==
  IF thread[t].from = "dispatch" THEN [Idle EXCEPT !.pc = "after", !.from = "dispatch"]
                                 ELSE Idle

SpawnChecksStopped(t) ==
  /\ At(t, "spawn")
  /\ IF stopped THEN Become(t, Returned(t)) ELSE Goto(t, "start")
  /\ UNCHANGED <<queue, transcript, results, memory, history>>

SpawnStarts(t) ==
  /\ At(t, "start")
  /\ \/ TryStartRun(t) /\ Goto(t, "recheck")
     \/ active # None /\ Become(t, Returned(t)) /\ UNCHANGED <<active, cancel>>
  /\ UNCHANGED <<queue, transcript, results, stopped, parked, wakeTurns, history>>

SpawnRechecks_KeepsGuard(t) ==
  /\ At(t, "recheck")
  /\ IF stopped THEN Become(t, Returned(t)) ELSE Goto(t, "claim")
  /\ UNCHANGED <<queue, transcript, results, memory, history>>

SpawnRechecks_Never(t) ==
  /\ At(t, "recheck")
  /\ Goto(t, "claim")
  /\ UNCHANGED <<queue, transcript, results, memory, history>>

(* stopped_sessions is read again under the guard: a stop that came before *)
(* the guard, and so before the cancel flag was renewed, is seen here.     *)
SpawnRechecks(t) ==
  /\ At(t, "recheck")
  /\ IF stopped THEN DropGuard /\ Become(t, Returned(t))
                ELSE Goto(t, "claim") /\ UNCHANGED active
  /\ UNCHANGED <<queue, transcript, results, cancel, stopped, parked, wakeTurns, history>>

SpawnClaims_DeletesRow(t) ==
  /\ At(t, "claim")
  /\ \E e \in waiting :
       /\ Q!Remove(e)
       /\ Become(t, [Idle EXCEPT !.pc = "merge", !.from = "dispatch",
                                 !.kind = "queued", !.entry = e])
  /\ UNCHANGED <<transcript, results, memory, history>>

(* The row already in flight, or the head of the queue, becomes a run; a   *)
(* goal round whose goal is no longer active is rejected.                  *)
SpawnClaims(t) ==
  /\ At(t, "claim")
  /\ \E e \in Entries :
       /\ \/ e \in claimed /\ UNCHANGED queue
          \/ Q!Claim(e)
       /\ \/ Become(t, [Idle EXCEPT !.pc = "merge", !.from = "dispatch",
                                    !.kind = "queued", !.entry = e])
          \/ e \in Rounds /\ thread' = [thread EXCEPT ![t] = [@ EXCEPT !.pc = "reject",
                                                                       !.entry = e]]
  /\ UNCHANGED <<transcript, results, memory, history>>

SpawnRejectsRound(t) ==
  /\ At(t, "reject")
  /\ LET r == thread[t].entry IN
       /\ IF r \in waiting \cup claimed THEN Q!Remove(r) ELSE UNCHANGED queue
       /\ removed' = removed \cup {r}
  /\ thread' = [thread EXCEPT ![t] = [@ EXCEPT !.pc = "recheck",
                                               !.entry = None]]
  /\ UNCHANGED <<transcript, results, memory, sent, used>>

SpawnFindsNothing(t) ==
  /\ At(t, "claim")
  /\ waiting \cup claimed = {}
  /\ Goto(t, "empty")
  /\ UNCHANGED <<queue, transcript, results, memory, history>>

(* A database error (a locked or failing database) ends the dispatch, and  *)
(* a guard it holds goes with it: nobody tries again.                      *)
SpawnFails(t) ==
  /\ thread[t].pc \in {"start", "claim", "reject"}
  /\ Count("fault", MaxFaults)
  /\ IF active = t THEN DropGuard ELSE UNCHANGED active
  /\ Become(t, Returned(t))
  /\ UNCHANGED <<queue, transcript, results, cancel, stopped, parked, wakeTurns,
                 sent, removed>>

SpawnDropsGuard_Forgets(t) ==
  /\ At(t, "empty")
  /\ Goto(t, "settle")
  /\ UNCHANGED <<queue, transcript, results, memory, history>>

SpawnDropsGuard(t) ==
  /\ At(t, "empty")
  /\ DropGuard
  /\ Goto(t, "settle")
  /\ UNCHANGED <<queue, transcript, results, cancel, stopped, parked, wakeTurns, history>>

(* check_pending_wake once the queue is drained. The wake-up runs in a     *)
(* task of its own.                                                        *)
SpawnSettles(t) ==
  /\ At(t, "settle")
  /\ IF parked /\ ~stopped
     THEN /\ parked' = FALSE
          /\ \E u \in Free : thread' = [thread EXCEPT ![t] = Returned(t), ![u] = Wake]
     ELSE Become(t, Returned(t)) /\ UNCHANGED parked
  /\ UNCHANGED <<queue, transcript, results, active, cancel, stopped, wakeTurns, history>>

(* dispatch_queued_messages: check_pending_wake after the claim. *)
DispatchChecksWake(t) ==
  /\ At(t, "after")
  /\ IF parked /\ ~stopped THEN parked' = FALSE /\ Become(t, Wake)
                           ELSE Exit(t) /\ UNCHANGED parked
  /\ UNCHANGED <<queue, transcript, results, active, cancel, stopped, wakeTurns, history>>

-----------------------------------------------------------------------------
(* wake_for_subagent_results and start_wake_turn *)

(* A background task ends: its row is terminal, then the parent is woken.  *)
TaskFinishes(k) ==
  /\ k \notin finished
  /\ finished' = finished \cup {k}
  /\ Arrive(Wake)
  /\ UNCHANGED <<queue, transcript, notified, memory, history>>

(* Messages in the queue are taken to carry the results on their own run.  *)
WakeYields(t) ==
  /\ At(t, "wake")
  /\ IF waiting \cup claimed # {} THEN Exit(t) ELSE Goto(t, "wakeCheck")
  /\ UNCHANGED <<queue, transcript, results, memory, history>>

WakeChecks(t) ==
  /\ At(t, "wakeCheck")
  /\ Goto(t, IF stopped \/ active # None THEN "wakePark" ELSE "wakeTasks")
  /\ UNCHANGED <<queue, transcript, results, memory, history>>

WakeReadsTasks(t) ==
  /\ At(t, "wakeTasks")
  /\ IF wakeTurns >= MaxWakeTurns \/ finished \subseteq notified
     THEN Exit(t) ELSE Goto(t, "wakeStart")
  /\ UNCHANGED <<queue, transcript, results, memory, history>>

WakeStarts(t) ==
  /\ At(t, "wakeStart")
  /\ \/ TryStartRun(t) /\ Goto(t, "wakeRecheck")
     \/ active # None /\ Goto(t, "wakePark") /\ UNCHANGED <<active, cancel>>
  /\ UNCHANGED <<queue, transcript, results, stopped, parked, wakeTurns, history>>

(* A list that cannot be read ends the wake-up. *)
WakeFails(t) ==
  /\ thread[t].pc \in {"wake", "wakeTasks"}
  /\ Count("fault", MaxFaults)
  /\ Exit(t)
  /\ UNCHANGED <<queue, transcript, results, memory, sent, removed>>

WakeParks(t) ==
  /\ At(t, "wakePark")
  /\ parked' = TRUE
  /\ Exit(t)
  /\ UNCHANGED <<queue, transcript, results, active, cancel, stopped, wakeTurns, history>>

WakeRechecks(t) ==
  /\ At(t, "wakeRecheck")
  /\ IF stopped
     THEN parked' = TRUE /\ Goto(t, "wakeDrop")
     ELSE /\ Become(t, [Idle EXCEPT !.pc = "merge", !.from = "dispatch", !.kind = "wake"])
          /\ UNCHANGED parked
  /\ UNCHANGED <<queue, transcript, results, active, cancel, stopped, wakeTurns, history>>

WakeDropsGuard(t) ==
  /\ At(t, "wakeDrop")
  /\ DropGuard
  /\ Exit(t)
  /\ UNCHANGED <<queue, transcript, results, cancel, stopped, parked, wakeTurns, history>>

-----------------------------------------------------------------------------
(* process_message_internal *)

RunMerges_NotifiedAgain(t) ==
  /\ At(t, "merge")
  /\ notified' = notified \cup finished
  /\ thread' = [thread EXCEPT ![t] = [@ EXCEPT !.carry = finished \cup ({thread[t].entry} \ {None}),
                                               !.pc = "save"]]
  /\ wakeTurns' = IF thread[t].kind = "wake" THEN wakeTurns + 1 ELSE 0
  /\ UNCHANGED <<queue, transcript, finished, active, cancel, stopped, parked, history>>

RunMerges_CountsDown(t) ==
  /\ At(t, "merge")
  /\ notified' = notified \cup finished
  /\ thread' = [thread EXCEPT ![t] = [@ EXCEPT !.carry = finished \cup ({thread[t].entry} \ {None}),
                                               !.pc = "save"]]
  /\ wakeTurns' = IF thread[t].kind = "wake" THEN wakeTurns + 1 ELSE wakeTurns - 1
  /\ UNCHANGED <<queue, transcript, finished, active, cancel, stopped, parked, history>>

(* merge_pending_subagent_results: every undelivered result goes into the  *)
(* copy of the session the run works on and is marked notified (a mark     *)
(* that fails is only logged); then the message does. A wake turn with     *)
(* nothing to say ends there. The streak of wake turns is counted.         *)
RunMerges(t) ==
  /\ At(t, "merge")
  /\ LET found == finished \ notified
         message == {thread[t].entry} \ {None}
     IN /\ \/ notified' = notified \cup found /\ UNCHANGED used
           \/ /\ Count("fault", MaxFaults)
              /\ \E k \in found : notified' = notified \cup (found \ {k})
        /\ thread' = [thread EXCEPT ![t] = [@ EXCEPT !.carry = found \cup message,
                                                     !.pc = IF thread[t].kind = "wake" /\ found = {} THEN "drop" ELSE "save"]]
  /\ wakeTurns' = IF thread[t].kind = "wake" THEN wakeTurns + 1 ELSE 0
  /\ UNCHANGED <<queue, transcript, finished, active, cancel, stopped, parked, sent, removed>>

(* update_session: what the run holds and the database does not. *)
Save(t, p) ==
  /\ transcript' = [x \in Entries \cup Tasks |->
       IF x \in thread[t].carry THEN transcript[x] + 1 ELSE transcript[x]]
  /\ thread' = [thread EXCEPT ![t] = [@ EXCEPT !.carry = {}, !.pc = p]]

(* The first save. A failure is only logged, and the row is deleted after  *)
(* it all the same.                                                        *)
RunSaves(t) ==
  /\ At(t, "save")
  /\ LET next == IF thread[t].kind = "queued" THEN "dequeue" ELSE "loop" IN
       \/ Save(t, next) /\ UNCHANGED used
       \/ Count("fault", MaxFaults) /\ Goto(t, next) /\ UNCHANGED transcript
  /\ UNCHANGED <<queue, results, memory, sent, removed>>

RunDequeues_Never(t) ==
  /\ At(t, "dequeue")
  /\ Goto(t, "loop")
  /\ UNCHANGED <<queue, transcript, results, memory, history>>

(* delete_queued_message, whose failure is only logged too. *)
RunDequeues(t) ==
  /\ At(t, "dequeue")
  /\ LET e == thread[t].entry IN
       \/ e \in waiting \cup claimed /\ Q!Remove(e) /\ UNCHANGED used
       \/ e \notin waiting \cup claimed /\ UNCHANGED <<queue, used>>
       \/ Count("fault", MaxFaults) /\ UNCHANGED queue
  /\ Goto(t, "loop")
  /\ UNCHANGED <<transcript, results, memory, sent, removed>>

(* The iterations of the turn see the cancel flag before a provider call   *)
(* or a tool; only the check at the top of an iteration saves first.       *)
RunIterates(t) ==
  /\ At(t, "loop")
  /\ \/ cancel /\ Save(t, "drop")
     \/ cancel /\ Goto(t, "drop") /\ UNCHANGED transcript
     \/ ~cancel /\ Goto(t, "complete") /\ UNCHANGED transcript
  /\ UNCHANGED <<queue, results, memory, history>>

(* A provider, tool or database error ends the run: before the first save  *)
(* (the session cannot be read), in an iteration or at the last save.      *)
RunErrs(t) ==
  /\ thread[t].pc \in {"merge", "loop", "complete"}
  /\ Count("fault", MaxFaults)
  /\ Goto(t, "drop")
  /\ UNCHANGED <<queue, transcript, results, memory, sent, removed>>

(* The scheduler gives its run 290 seconds. The future is dropped where it *)
(* stands, and with it the guard; what follows in process_message never    *)
(* runs, the dispatch included.                                            *)
RunTimesOut(t) ==
  /\ At(t, "loop") /\ thread[t].kind = "direct"
  /\ Count("timeout", MaxTimeouts)
  /\ DropGuard
  /\ Exit(t)
  /\ UNCHANGED <<queue, transcript, results, cancel, stopped, parked, wakeTurns,
                 sent, removed>>

(* The turn is over: the whole reply is saved. *)
RunCompletes(t) ==
  /\ At(t, "complete")
  /\ Save(t, "finish")
  /\ UNCHANGED <<queue, results, memory, history>>

(* maybe_queue_goal_round may enqueue a round.                             *)
RunFinishes(t) ==
  /\ At(t, "finish")
  /\ \/ \E r \in Rounds \ removed : transcript[r] = 0 /\ Q!Enqueue(r)
     \/ UNCHANGED queue
  /\ Goto(t, "drop")
  /\ UNCHANGED <<transcript, results, memory, history>>

RunDropsGuard_NoDispatch(t) ==
  /\ At(t, "drop")
  /\ DropGuard
  /\ Exit(t)
  /\ UNCHANGED <<queue, transcript, results, cancel, stopped, parked, wakeTurns, history>>

(* The guard is dropped, then dispatch_queued_messages hands the queue on. *)
RunDropsGuard(t) ==
  /\ At(t, "drop")
  /\ DropGuard
  /\ Become(t, Dispatch)
  /\ UNCHANGED <<queue, transcript, results, cancel, stopped, parked, wakeTurns, history>>

-----------------------------------------------------------------------------
(* The process dies and starts again: tasks and in-memory maps are gone,   *)
(* subagents that were running are failed by                               *)
(* fail_stale_running_subagent_tasks, the queue is not dispatched.         *)
Crash ==
  /\ Count("crash", MaxCrashes)
  /\ thread' = [t \in Threads |-> Idle]
  /\ active' = None /\ cancel' = FALSE /\ stopped' = FALSE /\ parked' = FALSE
  /\ wakeTurns' = 0
  /\ \E failed \in SUBSET (Tasks \ finished) : finished' = finished \cup failed
  /\ UNCHANGED <<queue, transcript, notified, sent, removed>>

Spawn(t) ==
  \/ SpawnChecksStopped(t) \/ SpawnStarts(t) \/ SpawnRechecks(t) \/ SpawnClaims(t)
  \/ SpawnRejectsRound(t) \/ SpawnFindsNothing(t) \/ SpawnDropsGuard(t)
  \/ SpawnSettles(t) \/ DispatchChecksWake(t)

WakeUp(t) ==
  \/ WakeYields(t) \/ WakeChecks(t) \/ WakeReadsTasks(t) \/ WakeStarts(t)
  \/ WakeParks(t) \/ WakeRechecks(t) \/ WakeDropsGuard(t)

Run(t) ==
  \/ RunMerges(t) \/ RunSaves(t) \/ RunDequeues(t) \/ RunIterates(t)
  \/ RunCompletes(t) \/ RunFinishes(t) \/ RunDropsGuard(t)

Request(t) ==
  Resume(t) \/ SendNowBusy(t) \/ SendNowCancel(t) \/ StopCancel(t) \/ StopReturns(t)

(* What tokio keeps scheduling. *)
ThreadStep(t) == Request(t) \/ Spawn(t) \/ WakeUp(t) \/ Run(t)

(* What users, subagents and failures do. *)
Environment ==
  \/ \E m \in Messages : Send(m)
  \/ \E e \in Entries : SendNow(e) \/ Remove(e)
  \/ \E k \in Tasks : TaskFinishes(k)
  \/ Stop \/ StartDirect \/ Crash

Next ==
  \/ Environment
  \/ \E t \in Threads :
       \/ ThreadStep(t)
       \/ StopRemovesRound(t)
       \/ SpawnFails(t) \/ WakeFails(t) \/ RunErrs(t) \/ RunTimesOut(t)

Spec == Init /\ [][Next]_vars

(* Every spawned task is polled until it is done, and a run ends: it has   *)
(* an iteration ceiling and its provider calls time out.                   *)
FairSpec == Spec /\ \A t \in Threads : WF_vars(ThreadStep(t))
-----------------------------------------------------------------------------
(* Invariants *)

ThreadRecords ==
  [pc : Pcs, from : {"request", "dispatch"}, kind : {"none", "queued", "wake", "direct"},
   entry : Entries \cup {None}, carry : SUBSET (Entries \cup Tasks)]

TypeOK ==
  /\ Q!TypeOK
  /\ transcript \in [Entries \cup Tasks -> Nat]
  /\ finished \subseteq Tasks /\ notified \subseteq Tasks
  /\ active \in Threads \cup {None}
  /\ cancel \in BOOLEAN /\ stopped \in BOOLEAN /\ parked \in BOOLEAN
  /\ wakeTurns \in Nat
  /\ thread \in [Threads -> ThreadRecords]
  /\ sent \subseteq Messages /\ removed \subseteq Entries
  /\ used \in [{"stop", "sendNow", "remove", "direct", "timeout", "fault", "crash"} -> Nat]

(* The entry of active_runs belongs to exactly the thread between          *)
(* try_start_run and the drop of its RunGuard, on every path out of        *)
(* spawn_next_queued_message_run, start_wake_turn and the run: never two   *)
(* runs of one session, never a guard left behind by an early return.      *)
GuardHeld == \A t \in Threads : thread[t].pc \in HoldingPcs <=> active = t

(* Once stop_session has set the cancel flag, and until a send or a resume *)
(* takes the session out of stopped_sessions, every run the queue or a     *)
(* wake-up started is cancelled or about to be: also one that was being    *)
(* started while the stop came in.                                         *)
StopHolds ==
  stopped /\ (\A t \in Threads : ~At(t, "stopCancel")) =>
    \A t \in Threads :
      thread[t].pc \in RunPcs /\ thread[t].kind \in {"queued", "wake"} => cancel

Faultless == used["fault"] = 0

(* As long as no operation failed, an acknowledged message is never lost,  *)
(* whatever crashes: until a user removes it, it is in the queue or in the *)
(* saved transcript.                                                       *)
NoMessageLost ==
  Faultless =>
    \A m \in sent \ removed : m \in waiting \cup claimed \/ transcript[m] > 0

(* The claim hands a row out again only when a crash, or a delete that     *)
(* failed, cut its delivery short: each may repeat a message once.         *)
RepeatsNeedFailures ==
  \A e \in Entries : transcript[e] <= 1 + used["crash"] + used["fault"]

(* "Delivered exactly once": as long as no operation failed, no result is  *)
(* told to the parent twice, even across crashes, and without a crash one  *)
(* that is marked notified is in the transcript or in the hands of the run *)
(* that is about to save it.                                               *)
ResultsExactlyOnce ==
  Faultless =>
    /\ \A k \in Tasks : transcript[k] <= 1
    /\ used["crash"] = 0 =>
         \A k \in notified : transcript[k] = 1 \/ \E t \in Threads : k \in thread[t].carry

-----------------------------------------------------------------------------
(* Liveness *)

(* A run, a claim or a wake-up always lets go of the session.              *)
GuardReleased == \A t \in Threads : (active = t) ~> (active # t)

(* What waits while a run is in its turn is dispatched when the run ends,  *)
(* unless the session is stopped.                                          *)
RunEndDispatches ==
  \A m \in Messages :
    (m \in waiting /\ \E t \in Threads : At(t, "loop")) ~> (m \notin waiting \/ stopped)

(* The same for a message that comes in while the session is busy for any  *)
(* reason.                                                                 *)
BusySendDispatched ==
  \A m \in Messages : (m \in waiting /\ active # None) ~> (m \notin waiting \/ stopped)
=============================================================================
