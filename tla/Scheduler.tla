----------------------------- MODULE Scheduler -----------------------------
(***************************************************************************)
(* The scheduled jobs: the polling loop, its job tasks and the requests    *)
(* that edit a job (scheduler/mod.rs), the statements they run on the      *)
(* scheduled_jobs table (storage/sqlite.rs), the prompt a task sends       *)
(* (scheduler/executor.rs) and the one worker that runs prompts, one       *)
(* after the other (agent/runtime/scheduler_facade.rs).                    *)
(*                                                                         *)
(* Time is abstract: a row is due or it is not. Each statement is a step;  *)
(* the edits read a whole row, and write a whole row back in another       *)
(* statement. Operators whose name has a _ are not the code: each is the   *)
(* definition that follows it with one plausible mistake.                  *)
(***************************************************************************)
EXTENDS Naturals, FiniteSets, Sequences

CONSTANTS
  Jobs,
  OneShots,       (* jobs with schedule_type one_shot; the others recur     *)
  Unparsable,     (* recurring jobs of an earlier version whose expression  *)
                  (* the parser refuses                                     *)
  Processes,      (* OSA processes that share the database                  *)
  Runs,           (* executions alive at once: a bound                      *)
  Calls,          (* edit requests alive at once: a bound                   *)
  MaxConcurrent, MaxRetries,                     (* the SchedulerConfig     *)
  MaxDue, MaxRunNow, MaxToggles, MaxRemovals, MaxFailures, MaxTimeouts,
  MaxFaults, MaxCrashes,
                  (* bounds: how often a row becomes due, each edit         *)
                  (* happens, a prompt fails, an executor gives up, a       *)
                  (* statement fails, a process dies                        *)
  None

ASSUME JobKinds == OneShots \subseteq Jobs /\ Unparsable \subseteq Jobs \ OneShots
ASSUME NoneIsNoJob == None \notin Jobs /\ None \notin Processes
ASSUME ConfigNat == MaxConcurrent \in Nat \ {0} /\ MaxRetries \in Nat

VARIABLES
  row,            (* per job: its row in scheduled_jobs                     *)
  loop,           (* per process: "off", or "on" once start() returned      *)
  listed,         (* per process: what its tick has still to look at        *)
  run,            (* per execution: its task and its prompt                 *)
  channel,        (* per process: run_prompt_tx, the prompts not yet taken  *)
  call,           (* per edit request: the row it read                      *)
  ran,            (* history: per job, prompts the worker started           *)
  reopened,       (* history: jobs whose row left "running" while a task    *)
                  (* of theirs was alive, and still is                      *)
  used            (* how many of each bounded event there were              *)

history == <<ran, reopened, used>>
vars == <<row, loop, listed, run, channel, call, history>>

-----------------------------------------------------------------------------
(* Rows. "new" and "deleted" stand for a row that is not there.            *)

RunStates == {"scheduled", "running", "completed", "failed"}
Rows == [state : RunStates \cup {"new", "deleted"}, enabled : BOOLEAN,
         attempts : Nat, due : BOOLEAN]

OneShot(j) == j \in OneShots
Exists(j) == row[j].state \in RunStates
Created == [state |-> "scheduled", enabled |-> TRUE, attempts |-> 0, due |-> FALSE]
NotThere == [Created EXCEPT !.state = "new"]

(* An UPDATE of a row that was deleted changes nothing.                    *)
Update(j, r) == row' = IF Exists(j) THEN [row EXCEPT ![j] = r] ELSE row

(* Executions: the spawned task ("none" once it returned) and its prompt.  *)
NoRun == [process |-> None, job |-> None, attempt |-> 0, task |-> "none",
          prompt |-> "none", waited |-> FALSE]

Live(j) == {r \in Runs : run[r].job = j /\ run[r].task # "none"}
FreeRuns == {r \in Runs : run[r].task = "none" /\ run[r].prompt = "none"}
Permits(p) == MaxConcurrent - Cardinality({r \in Runs : run[r].process = p /\ run[r].task # "none"})
Working(p) == \E r \in Runs : run[r].process = p /\ run[r].prompt = "running"

NoCall == [op |-> "none", process |-> None, job |-> None, read |-> NotThere]

Count(event, limit) ==
  /\ used[event] < limit
  /\ used' = [used EXCEPT ![event] = @ + 1]

(* The jobs of X left "running" behind the back of a task.                 *)
Reopen(X) ==
  reopened' = {j \in reopened \cup X :
                 \E r \in Runs : run'[r].job = j /\ run'[r].task # "none"}

Init ==
  /\ row = [j \in Jobs |-> IF j \in Unparsable THEN [Created EXCEPT !.due = TRUE] ELSE NotThere]
  /\ loop = [p \in Processes |-> "off"]
  /\ listed = [p \in Processes |-> {}]
  /\ run = [r \in Runs |-> NoRun]
  /\ channel = [p \in Processes |-> <<>>]
  /\ call = [c \in Calls |-> NoCall]
  /\ ran = [j \in Jobs |-> 0] /\ reopened = {}
  /\ used = [e \in {"due", "runNow", "toggle", "remove", "failure", "timeout", "fault",
                    "crash"} |-> 0]

-----------------------------------------------------------------------------
(* The process and its loop *)

Recovered == {j \in Jobs : row[j].enabled /\ row[j].state = "running"}

Boot_NoRecovery(p) ==
  /\ loop[p] = "off"
  /\ loop' = [loop EXCEPT ![p] = "on"]
  /\ UNCHANGED <<row, listed, run, channel, call, history>>

(* start(): interrupted jobs are scheduled again, at once. A recovery that *)
(* fails is logged and the loop starts all the same.                       *)
Boot(p) ==
  /\ loop[p] = "off"
  /\ loop' = [loop EXCEPT ![p] = "on"]
  /\ UNCHANGED <<listed, run, channel, call, ran>>
  /\ \/ /\ row' = [j \in Jobs |-> IF j \in Recovered
                                  THEN [row[j] EXCEPT !.state = "scheduled", !.due = TRUE]
                                  ELSE row[j]]
        /\ Reopen({j \in Recovered : Live(j) # {}})
        /\ UNCHANGED used
     \/ /\ Count("fault", MaxFaults)
        /\ UNCHANGED <<row, reopened>>

(* Everything the process holds in memory is lost; the rows are not.       *)
Crash(p) ==
  /\ loop[p] = "on"
  /\ Count("crash", MaxCrashes)
  /\ loop' = [loop EXCEPT ![p] = "off"]
  /\ listed' = [listed EXCEPT ![p] = {}]
  /\ run' = [r \in Runs |-> IF run[r].process = p THEN NoRun ELSE run[r]]
  /\ channel' = [channel EXCEPT ![p] = <<>>]
  /\ call' = [c \in Calls |-> IF call[c].process = p THEN NoCall ELSE call[c]]
  /\ Reopen({})
  /\ UNCHANGED <<row, ran>>

TimePasses(j) ==
  /\ Exists(j) /\ ~row[j].due
  /\ Count("due", MaxDue)
  /\ row' = [row EXCEPT ![j].due = TRUE]
  /\ UNCHANGED <<loop, listed, run, channel, call, ran, reopened>>

Claimable(j) == row[j].state = "scheduled" /\ row[j].enabled /\ row[j].due

(* tick() reads the enabled, scheduled rows; those not due are skipped.    *)
TickLists(p) ==
  /\ loop[p] = "on" /\ listed[p] = {}
  /\ \E j \in Jobs : Claimable(j)
  /\ listed' = [listed EXCEPT ![p] = {[job |-> j, attempts |-> row[j].attempts] :
                                        j \in {k \in Jobs : Claimable(k)}}]
  /\ UNCHANGED <<row, loop, run, channel, call, history>>

LooksAt(p, l) ==
  /\ l \in listed[p]
  /\ listed' = [listed EXCEPT ![p] = @ \ {l}]

TickClaims_ByListing(p, l) ==
  /\ LooksAt(p, l) /\ l.job \notin Unparsable
  /\ Permits(p) > 0
  /\ Update(l.job, [row[l.job] EXCEPT !.state = "running", !.attempts = @ + 1, !.due = FALSE])
  /\ \E r \in FreeRuns :
       run' = [run EXCEPT ![r] = [process |-> p, job |-> l.job, attempt |-> l.attempts + 1,
                                  task |-> "spawned", prompt |-> "none", waited |-> FALSE]]
  /\ UNCHANGED <<loop, channel, call, history>>

(* A permit, the claim (a guarded UPDATE), the spawned task. The attempt   *)
(* number the task decides by comes from the listing, not from the claim.  *)
TickClaims(p, l) ==
  /\ LooksAt(p, l) /\ l.job \notin Unparsable
  /\ Permits(p) > 0
  /\ Claimable(l.job)
  /\ row' = [row EXCEPT ![l.job] =
               [row[l.job] EXCEPT !.state = "running", !.attempts = row[l.job].attempts + 1,
                                  !.due = OneShot(l.job)]]
  /\ \E r \in FreeRuns :
       run' = [run EXCEPT ![r] = [process |-> p, job |-> l.job, attempt |-> l.attempts + 1,
                                  task |-> "spawned", prompt |-> "none", waited |-> FALSE]]
  /\ UNCHANGED <<loop, channel, call, history>>

(* No permit, or the row is no longer claimable.                           *)
TickSkips(p, l) ==
  /\ LooksAt(p, l) /\ l.job \notin Unparsable
  /\ Permits(p) = 0 \/ ~Claimable(l.job)
  /\ UNCHANGED <<row, loop, run, channel, call, history>>

(* A failing claim or a failing write abandons the rest of the tick.       *)
TickFails(p) ==
  /\ listed[p] # {}
  /\ Count("fault", MaxFaults)
  /\ listed' = [listed EXCEPT ![p] = {}]
  /\ UNCHANGED <<row, loop, run, channel, call, ran, reopened>>

(* The parser refuses the expression: the job fails without being claimed. *)
TickRejects(p, l) ==
  /\ LooksAt(p, l) /\ l.job \in Unparsable
  /\ Update(l.job, [row[l.job] EXCEPT !.state = "failed", !.due = TRUE])
  /\ UNCHANGED <<loop, run, channel, call, history>>

-----------------------------------------------------------------------------
(* The task of an execution, and the prompt worker *)

(* execute() sends the prompt and waits for its answer.                    *)
TaskSends(r) ==
  LET p == run[r].process IN
  /\ run[r].task = "spawned"
  /\ channel' = [channel EXCEPT ![p] = Append(@, r)]
  /\ run' = [run EXCEPT ![r] = [@ EXCEPT !.task = "waiting",
                                         !.prompt = "queued",
                                         !.waited = Working(p) \/ channel[p] # <<>>]]
  /\ UNCHANGED <<row, loop, listed, call, history>>

(* The executor's 300 seconds. The worker gives a prompt 290, so they run  *)
(* out first only for a prompt that had others ahead of it. The prompt     *)
(* stays in the channel.                                                   *)
TaskGivesUp(r) ==
  /\ run[r].task = "waiting" /\ run[r].waited
  /\ Count("timeout", MaxTimeouts)
  /\ run' = [run EXCEPT ![r].task = "err"]
  /\ UNCHANGED <<row, loop, listed, channel, call, ran, reopened>>

WorkerStarts(p) ==
  /\ channel[p] # <<>> /\ ~Working(p)
  /\ channel' = [channel EXCEPT ![p] = Tail(@)]
  /\ run' = [run EXCEPT ![Head(channel[p])].prompt = "running"]
  /\ ran' = [ran EXCEPT ![run[Head(channel[p])].job] = @ + 1]
  /\ UNCHANGED <<row, loop, listed, call, reopened, used>>

(* The answer is lost on a task that gave up.                              *)
Answer(r, result) ==
  /\ run[r].prompt = "running"
  /\ run' = [run EXCEPT ![r] =
               IF run[r].task = "none" THEN NoRun
               ELSE [run[r] EXCEPT !.prompt = "none",
                                   !.task = IF run[r].task = "waiting" THEN result
                                            ELSE run[r].task]]
  /\ UNCHANGED <<row, loop, listed, channel, call, ran, reopened>>

WorkerAnswers(r) == Answer(r, "ok") /\ UNCHANGED used

(* The session is missing or busy, the turn fails, or 290 seconds pass.    *)
WorkerFails(r) == Count("failure", MaxFailures) /\ Answer(r, "err")

(* What finish_scheduled_job writes for a task that saw "ok" or "err".     *)
Finished_Enabled(j, result, attempt) ==
  IF result = "ok"
  THEN [state |-> IF OneShot(j) THEN "completed" ELSE "scheduled",
        enabled |-> row[j].enabled, attempts |-> 0, due |-> OneShot(j)]
  ELSE [row[j] EXCEPT !.state = IF attempt <= MaxRetries THEN "scheduled" ELSE "failed",
                      !.due = attempt > MaxRetries]

Finished_Retries(j, result, attempt) ==
  IF result = "ok"
  THEN [state |-> IF OneShot(j) THEN "completed" ELSE "scheduled",
        enabled |-> row[j].enabled /\ ~OneShot(j), attempts |-> 0,
        due |-> OneShot(j)]
  ELSE [row[j] EXCEPT !.state = IF attempt <= MaxRetries + 1 THEN "scheduled" ELSE "failed",
                      !.due = attempt > MaxRetries + 1]

Finished(j, result, attempt) ==
  IF result = "ok"
  THEN [state |-> IF OneShot(j) THEN "completed" ELSE "scheduled",
        enabled |-> row[j].enabled /\ ~OneShot(j), attempts |-> 0,
        due |-> OneShot(j)]
  ELSE [row[j] EXCEPT !.state = IF attempt <= MaxRetries THEN "scheduled" ELSE "failed",
                      !.due = attempt > MaxRetries]

TaskFinishes_KeepsPermit(r) ==
  LET j == run[r].job  result == run[r].task IN
  /\ result \in {"ok", "err"}
  /\ Update(j, Finished(j, result, run[r].attempt))
  /\ run' = [run EXCEPT ![r].task = "kept"]
  /\ UNCHANGED <<loop, listed, channel, call, history>>

(* The row is written whatever it says by now; a write that fails is only  *)
(* logged. The permit goes with the task.                                  *)
TaskFinishes(r) ==
  LET j == run[r].job  result == run[r].task IN
  /\ result \in {"ok", "err"}
  /\ run' = [run EXCEPT ![r] = IF @.prompt = "none" THEN NoRun ELSE [@ EXCEPT !.task = "none"]]
  /\ \/ /\ Update(j, Finished(j, result, run[r].attempt))
        /\ UNCHANGED used
     \/ /\ Count("fault", MaxFaults)
        /\ UNCHANGED row
  /\ Reopen({})
  /\ UNCHANGED <<loop, listed, channel, call, ran>>

-----------------------------------------------------------------------------
(* Requests *)

Request(p, op, j) ==
  /\ loop[p] = "on"
  /\ \E c \in Calls :
       /\ call[c].op = "none"
       /\ call' = [call EXCEPT ![c] = [op |-> op, process |-> p, job |-> j, read |-> row[j]]]
  /\ UNCHANGED <<row, loop, listed, run, channel, ran, reopened>>

Return(c) == call' = [call EXCEPT ![c] = NoCall]

AddJob(p, j) ==
  /\ loop[p] = "on" /\ row[j].state = "new"
  /\ row' = [row EXCEPT ![j] = Created]
  /\ UNCHANGED <<loop, listed, run, channel, call, history>>

(* run_now, toggle_job and remove_job read the row, and refuse or go on.   *)
RunNowReads(p, j) ==
  /\ Exists(j) /\ row[j].state # "running"
  /\ Count("runNow", MaxRunNow) /\ Request(p, "runNow", j)

CanToggle(j) ==
  row[j].enabled \/ (~(OneShot(j) /\ row[j].state = "completed") /\ j \notin Unparsable)

ToggleReads(p, j) ==
  /\ Exists(j) /\ CanToggle(j)
  /\ Count("toggle", MaxToggles) /\ Request(p, "toggle", j)

RemoveRefuses(j) == row[j].state = "running"

RemoveChecks(p, j) ==
  /\ Exists(j) /\ ~RemoveRefuses(j)
  /\ Count("remove", MaxRemovals) /\ Request(p, "remove", j)

(* What the request writes over the whole row, from the row it read.       *)
Edited(op, old) ==
  IF op = "runNow"
  THEN [state |-> "scheduled", enabled |-> TRUE, attempts |-> 0, due |-> TRUE]
  ELSE IF old.enabled THEN [old EXCEPT !.enabled = FALSE]
  ELSE [old EXCEPT !.enabled = TRUE, !.state = "scheduled", !.due = FALSE]

EditWrites(c) ==
  LET j == call[c].job  new == Edited(call[c].op, call[c].read) IN
  /\ call[c].op \in {"runNow", "toggle"}
  /\ UNCHANGED <<loop, listed, run, channel, ran, used>>
  /\ Update(j, new)
  /\ Reopen(IF new.state # "running" /\ Live(j) # {} THEN {j} ELSE {})
  /\ Return(c)

RemoveDeletes(c) ==
  /\ call[c].op = "remove"
  /\ Update(call[c].job, [NotThere EXCEPT !.state = "deleted"])
  /\ Return(c)
  /\ UNCHANGED <<loop, listed, run, channel, history>>

-----------------------------------------------------------------------------
Tick(p) == TickLists(p) \/ \E l \in listed[p] : TickClaims(p, l) \/ TickSkips(p, l) \/ TickRejects(p, l)
Task(r) == TaskSends(r) \/ TaskFinishes(r)
Worker(p) == WorkerStarts(p) \/ \E r \in Runs : run[r].process = p /\ WorkerAnswers(r)

Next ==
  \/ \E p \in Processes : Boot(p) \/ Crash(p) \/ Tick(p) \/ TickFails(p) \/ Worker(p)
  \/ \E r \in Runs : Task(r) \/ TaskGivesUp(r) \/ WorkerFails(r)
  \/ \E j \in Jobs : TimePasses(j)
  \/ \E p \in Processes, j \in Jobs :
       AddJob(p, j) \/ RunNowReads(p, j) \/ ToggleReads(p, j) \/ RemoveChecks(p, j)
  \/ \E c \in Calls : EditWrites(c) \/ RemoveDeletes(c)

Spec == Init /\ [][Next]_vars

(* The loop wakes every second, tokio polls the tasks and the worker, and  *)
(* a prompt ends: its 290 seconds run out. A process that died comes back. *)
FairSpec ==
  /\ Spec
  /\ \A p \in Processes : WF_vars(Boot(p)) /\ WF_vars(Tick(p)) /\ WF_vars(Worker(p))
  /\ \A r \in Runs : WF_vars(Task(r))

-----------------------------------------------------------------------------
(* Properties *)

(* The types of the variables.                                             *)
TypeOK ==
  /\ row \in [Jobs -> Rows]
  /\ loop \in [Processes -> {"off", "on"}]
  /\ listed \in [Processes -> SUBSET [job : Jobs, attempts : Nat]]
  /\ run \in [Runs -> [process : Processes \cup {None}, job : Jobs \cup {None},
                       attempt : Nat, task : {"none", "spawned", "waiting", "ok", "err"},
                       prompt : {"none", "queued", "running"}, waited : BOOLEAN]]
  /\ channel \in [Processes -> Seq(Runs)]
  /\ call \in [Calls -> [op : {"none", "runNow", "toggle", "remove"},
                         process : Processes \cup {None}, job : Jobs \cup {None}, read : Rows]]
  /\ ran \in [Jobs -> Nat] /\ reopened \subseteq Jobs
  /\ used \in [{"due", "runNow", "toggle", "remove", "failure", "timeout", "fault", "crash"}
               -> Nat]

(* A job has one task at a time, unless a request, or the start of another *)
(* process, took its row out of "running" while its task was alive.        *)
OneTaskAtATime ==
  \A j \in Jobs \ reopened : \A r, s \in Live(j) : r = s

(* A job marked completed is disabled, whatever edits raced with its end.  *)
CompletedIsDisabled ==
  \A j \in Jobs : row[j].state = "completed" => ~row[j].enabled

(* Retries end: nobody having asked for more, a one-shot job runs once,    *)
(* once per retry, and once per process that died under it.                *)
OneShotRunsBounded ==
  \A j \in OneShots : ran[j] <= 1 + MaxRetries + used["crash"]

(* A job that is due is claimed unless it is removed, however many wait    *)
(* for the permits and for the one worker.                                 *)
DueJobsRun ==
  \A j \in Jobs \ Unparsable : Claimable(j) ~> row[j].state \in {"running", "deleted"}

(* A run ends: the row of a claimed job leaves "running", also when the    *)
(* process dies.                                                           *)
RunningEnds ==
  \A j \in Jobs : row[j].state = "running" ~> row[j].state # "running"
=============================================================================
