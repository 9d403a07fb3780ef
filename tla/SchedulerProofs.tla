-------------------------- MODULE SchedulerProofs --------------------------
(***************************************************************************)
(* Proofs about Scheduler, for any jobs, processes, executions, requests   *)
(* and bounds: its type invariant, that a job whose row was not taken out  *)
(* of "running" has one task at most, that completed rows are disabled,    *)
(* and that retries end. Each step lemma has one step per action.          *)
(***************************************************************************)
EXTENDS Scheduler, FiniteSetTheorems, TLAPS

RunRecords ==
  [process : Processes \cup {None}, job : Jobs \cup {None}, attempt : Nat,
   task : {"none", "spawned", "waiting", "ok", "err"},
   prompt : {"none", "queued", "running"}, waited : BOOLEAN]
CallRecords ==
  [op : {"none", "runNow", "toggle", "remove"}, process : Processes \cup
    {None},
   job : Jobs \cup {None}, read : Rows]
Events == {"due", "runNow", "toggle", "remove", "failure", "timeout", "fault",
  "crash"}

(* A task works on a job the parser accepts, in a process.                 *)
TasksHaveJobs ==
  \A r \in Runs : run[r].task # "none" =>
    run[r].job \in Jobs \ Unparsable /\ run[r].process \in Processes

(* The row of a job with a task says "running", or the job was deleted     *)
(* between the check and the deletion of remove_job, unless it is one of   *)
(* the reopened.                                                           *)
TasksHoldRows ==
  \A r \in Runs : run[r].task # "none" /\ run[r].job \notin reopened =>
    row[run[r].job].state \in {"running", "deleted"}

IInv == TypeOK /\ TasksHaveJobs /\ TasksHoldRows /\ OneTaskAtATime

(* TypeOK with the record sets named.                                      *)
Typed ==
  /\ row \in [Jobs -> Rows]
  /\ loop \in [Processes -> {"off", "on"}]
  /\ listed \in [Processes -> SUBSET [job : Jobs, attempts : Nat]]
  /\ run \in [Runs -> RunRecords]
  /\ channel \in [Processes -> Seq(Runs)]
  /\ call \in [Calls -> CallRecords]
  /\ ran \in [Jobs -> Nat] /\ reopened \subseteq Jobs
  /\ used \in [Events -> Nat]

(* Rows stay rows when their fields are replaced by values of their types. *)
LEMMA RowUpdates ==
  ASSUME NEW r \in Rows, NEW s \in RunStates, NEW d \in BOOLEAN
  PROVE  /\ [r EXCEPT !.state = s, !.due = d] \in Rows
         /\ \A n \in Nat : [r EXCEPT !.state = s, !.attempts = n, !.due = d]
           \in Rows
  BY DEF Rows

LEMMA TypedIsTypeOK == TypeOK <=> Typed
  BY DEF TypeOK, Typed, RunRecords, CallRecords, Events

(* Every step keeps the types; that tasks have jobs is needed where a task *)
(* writes the row of its job.                                              *)
LEMMA TypedStep == Typed /\ TasksHaveJobs /\ [Next]_vars => Typed'
<1> SUFFICES ASSUME Typed, TasksHaveJobs, [Next]_vars PROVE Typed'
  OBVIOUS
<1> USE DEF Typed, Events
<1>1. ASSUME NEW p \in Processes, Boot(p) PROVE Typed'
  <2>1. \A j \in Jobs : [row[j] EXCEPT !.state = "scheduled", !.due = TRUE]
    \in Rows
    BY RowUpdates DEF RunStates
  <2>2. row' \in [Jobs -> Rows]
    <3>1. CASE UNCHANGED row
      BY <3>1
    <3>2. CASE row' = [j \in Jobs |-> IF j \in Recovered
                                      THEN [row[j] EXCEPT !.state =
                                        "scheduled", !.due = TRUE]
                                      ELSE row[j]]
      BY <3>2, <2>1
    <3>. QED  BY <1>1, <3>1, <3>2 DEF Boot
  <2>3. reopened' \subseteq Jobs
    BY <1>1 DEF Boot, Reopen, Recovered
  <2>4. used' \in [Events -> Nat]
    <3>1. UNCHANGED used \/ Count("fault", MaxFaults)
      BY <1>1 DEF Boot
    <3>. QED  BY <3>1 DEF Count
  <2>. QED  BY <1>1, <2>2, <2>3, <2>4 DEF Boot
<1>2. ASSUME NEW p \in Processes, Crash(p) PROVE Typed'
  <2>1. NoRun \in RunRecords /\ NoCall \in CallRecords
    BY DEF NoRun, NoCall, NotThere, Created, RunRecords, CallRecords, Rows,
      RunStates
  <2>2. run' \in [Runs -> RunRecords] /\ call' \in [Calls -> CallRecords]
    BY <1>2, <2>1 DEF Crash
  <2>3. channel' \in [Processes -> Seq(Runs)]
    BY <1>2 DEF Crash
  <2>. QED  BY <1>2, <2>2, <2>3 DEF Crash, Count, Reopen
<1>3. ASSUME NEW p \in Processes, TickLists(p) PROVE Typed'
  <2>1. \A j \in Jobs : row[j].attempts \in Nat
    BY DEF Rows
  <2>2. listed' \in [Processes -> SUBSET [job : Jobs, attempts : Nat]]
    BY <1>3, <2>1 DEF TickLists
  <2>. QED  BY <1>3, <2>2 DEF TickLists, history
<1>4. ASSUME NEW p \in Processes, NEW l \in listed[p], TickClaims(p, l) PROVE
  Typed'
  <2>1. l \in [job : Jobs, attempts : Nat]
    BY <1>4
  <2>2. [row[l.job] EXCEPT !.state = "running", !.attempts =
    row[l.job].attempts + 1,
                           !.due = OneShot(l.job)] \in Rows
    <3>1. row[l.job] \in Rows /\ row[l.job].attempts + 1 \in Nat
      BY <2>1 DEF Rows
    <3>2. OneShot(l.job) \in BOOLEAN
      BY DEF OneShot
    <3>. QED  BY <3>1, <3>2 DEF Rows, RunStates
  <2>3. row' \in [Jobs -> Rows]
    <3>1. row' = [row EXCEPT ![l.job] = [row[l.job] EXCEPT
                    !.state = "running", !.attempts = row[l.job].attempts + 1,
                    !.due = OneShot(l.job)]]
      BY <1>4 DEF TickClaims
    <3>. QED  BY <2>1, <2>2, <3>1
  <2>4. [process |-> p, job |-> l.job, attempt |-> l.attempts + 1, task |->
    "spawned",
         prompt |-> "none", waited |-> FALSE] \in RunRecords
    BY <2>1 DEF RunRecords
  <2>5. run' \in [Runs -> RunRecords]
    BY <1>4, <2>4 DEF TickClaims
  <2>. QED  BY <1>4, <2>3, <2>5 DEF TickClaims, LooksAt, history
<1>5. ASSUME NEW p \in Processes, NEW l \in listed[p], TickSkips(p, l) PROVE
  Typed'
  BY <1>5 DEF TickSkips, Count, Update, Reopen, Request, Return, LooksAt,
    Answer, history
<1>6. ASSUME NEW p \in Processes, NEW l \in listed[p], TickRejects(p, l) PROVE
  Typed'
  <2>1. l.job \in Jobs
    BY <1>6
  <2>2. [row[l.job] EXCEPT !.state = "failed", !.due = TRUE] \in Rows
    BY <2>1, RowUpdates DEF RunStates
  <2>3. row' \in [Jobs -> Rows]
    BY <1>6, <2>2 DEF TickRejects, Update
  <2>. QED  BY <1>6, <2>3 DEF TickRejects, LooksAt, history
<1>7. ASSUME NEW p \in Processes, TickFails(p) PROVE Typed'
  BY <1>7 DEF TickFails, Count, Update, Reopen, Request, Return, LooksAt,
    Answer, history
<1>8. ASSUME NEW p \in Processes, WorkerStarts(p) PROVE Typed'
  <2>1. Head(channel[p]) \in Runs /\ Tail(channel[p]) \in Seq(Runs)
    BY <1>8 DEF WorkerStarts
  <2>2. [run[Head(channel[p])] EXCEPT !.prompt = "running"] \in RunRecords
    BY <2>1 DEF RunRecords
  <2>3. run' \in [Runs -> RunRecords]
    BY <1>8, <2>2 DEF WorkerStarts
  <2>4. ran' \in [Jobs -> Nat]
    <3>1. PICK k : ran' = [ran EXCEPT ![k] = ran[k] + 1]
      BY <1>8 DEF WorkerStarts
    <3>2. \A j \in Jobs : ran'[j] = ran[j] \/ ran'[j] = ran[j] + 1
      BY <3>1
    <3>3. ASSUME NEW j \in Jobs PROVE ran'[j] \in Nat
      <4>1. ran[j] \in Nat /\ ran[j] + 1 \in Nat
        BY DEF Typed
      <4>2. CASE ran'[j] = ran[j]
        BY <4>1, <4>2
      <4>3. CASE ran'[j] = ran[j] + 1
        BY <4>1, <4>3
      <4>. QED  BY <3>2, <4>2, <4>3
    <3>. QED  BY <3>1, <3>3
  <2>5. channel' \in [Processes -> Seq(Runs)]
    BY <1>8, <2>1 DEF WorkerStarts
  <2>. QED  BY <1>8, <2>3, <2>4, <2>5 DEF WorkerStarts
<1>9. ASSUME NEW r \in Runs, WorkerAnswers(r) PROVE Typed'
  <2>0. run[r] \in RunRecords /\ NoRun \in RunRecords
    BY DEF NoRun, RunRecords
  <2>1. \A t \in {"ok", "err", run[r].task} :
          [run[r] EXCEPT !.prompt = "none", !.task = t] \in RunRecords
    BY <2>0 DEF RunRecords
  <2>2. run' = [run EXCEPT ![r] = run'[r]]
    BY <1>9 DEF WorkerAnswers, Answer
  <2>3. run'[r] \in RunRecords
    <3>1. CASE run[r].task = "none"
      BY <1>9, <2>0, <3>1 DEF WorkerAnswers, Answer
    <3>2. CASE run[r].task # "none"
      <4>1. CASE run[r].task = "waiting"
        <5>1. run'[r] = [run[r] EXCEPT !.prompt = "none", !.task = "ok"]
          BY <1>9, <3>2, <4>1 DEF WorkerAnswers, Answer
        <5>. QED  BY <2>1, <5>1
      <4>2. CASE run[r].task # "waiting"
        <5>1. run'[r] = [run[r] EXCEPT !.prompt = "none", !.task = run[r].task]
          BY <1>9, <3>2, <4>2 DEF WorkerAnswers, Answer
        <5>. QED  BY <2>1, <5>1
      <4>. QED  BY <4>1, <4>2
    <3>. QED  BY <3>1, <3>2
  <2>4. run' \in [Runs -> RunRecords]
    BY <2>2, <2>3
  <2>. QED  BY <1>9, <2>4 DEF WorkerAnswers, Answer, Count, history
<1>10. ASSUME NEW r \in Runs, WorkerFails(r) PROVE Typed'
  <2>0. run[r] \in RunRecords /\ NoRun \in RunRecords
    BY DEF NoRun, RunRecords
  <2>1. \A t \in {"ok", "err", run[r].task} :
          [run[r] EXCEPT !.prompt = "none", !.task = t] \in RunRecords
    BY <2>0 DEF RunRecords
  <2>2. run' = [run EXCEPT ![r] = run'[r]]
    BY <1>10 DEF WorkerFails, Answer
  <2>3. run'[r] \in RunRecords
    <3>1. CASE run[r].task = "none"
      BY <1>10, <2>0, <3>1 DEF WorkerFails, Answer
    <3>2. CASE run[r].task # "none"
      <4>1. CASE run[r].task = "waiting"
        <5>1. run'[r] = [run[r] EXCEPT !.prompt = "none", !.task = "err"]
          BY <1>10, <3>2, <4>1 DEF WorkerFails, Answer
        <5>. QED  BY <2>1, <5>1
      <4>2. CASE run[r].task # "waiting"
        <5>1. run'[r] = [run[r] EXCEPT !.prompt = "none", !.task = run[r].task]
          BY <1>10, <3>2, <4>2 DEF WorkerFails, Answer
        <5>. QED  BY <2>1, <5>1
      <4>. QED  BY <4>1, <4>2
    <3>. QED  BY <3>1, <3>2
  <2>4. run' \in [Runs -> RunRecords]
    BY <2>2, <2>3
  <2>. QED  BY <1>10, <2>4 DEF WorkerFails, Answer, Count, history
<1>11. ASSUME NEW r \in Runs, TaskSends(r) PROVE Typed'
  <2>0. run[r] \in RunRecords /\ run[r].process \in Processes
    BY <1>11 DEF TaskSends, TasksHaveJobs
  <2>1. \A w \in BOOLEAN :
          [run[r] EXCEPT !.task = "waiting", !.prompt = "queued", !.waited =
            w] \in RunRecords
    BY <2>0 DEF RunRecords
  <2>2. Append(channel[run[r].process], r) \in Seq(Runs)
    BY <2>0
  <2>3. channel' \in [Processes -> Seq(Runs)]
    BY <1>11, <2>0, <2>2 DEF TaskSends
  <2>4. (Working(run[r].process) \/ channel[run[r].process] # <<>>) \in BOOLEAN
    BY DEF Working
  <2>5. run' \in [Runs -> RunRecords]
    BY <1>11, <2>1, <2>4 DEF TaskSends
  <2>. QED  BY <1>11, <2>3, <2>5 DEF TaskSends, history
<1>12. ASSUME NEW r \in Runs, TaskFinishes(r) PROVE Typed'
  <2>0. run[r].task \in {"ok", "err"} /\ run[r] \in RunRecords
    BY <1>12 DEF TaskFinishes
  <2>1. run[r].job \in Jobs /\ run[r].attempt \in Nat
    BY <2>0 DEF TasksHaveJobs, RunRecords
  <2>2. Finished(run[r].job, run[r].task, run[r].attempt) \in Rows
    <3>1. row[run[r].job] \in Rows
      BY <2>1
    <3>2. CASE run[r].task = "ok"
      BY <3>1, <3>2 DEF Finished, Rows, RunStates, OneShot
    <3>3. CASE run[r].task = "err"
      <4>1. (IF run[r].attempt <= MaxRetries THEN "scheduled" ELSE "failed")
        \in RunStates
            /\ (run[r].attempt > MaxRetries) \in BOOLEAN
        BY DEF RunStates
      <4>. QED  BY <3>1, <3>3, <4>1, RowUpdates DEF Finished
    <3>. QED  BY <2>0, <3>2, <3>3
  <2>3. row' \in [Jobs -> Rows]
    BY <1>12, <2>1, <2>2 DEF TaskFinishes, Update
  <2>4. NoRun \in RunRecords /\ [run[r] EXCEPT !.task = "none"] \in RunRecords
    BY <2>0 DEF RunRecords, NoRun
  <2>5. run' \in [Runs -> RunRecords]
    BY <1>12, <2>4 DEF TaskFinishes
  <2>6. used' \in [Events -> Nat]
    <3>1. UNCHANGED used \/ Count("fault", MaxFaults)
      BY <1>12 DEF TaskFinishes
    <3>. QED  BY <3>1 DEF Count
  <2>7. reopened' \subseteq Jobs
    BY <1>12 DEF TaskFinishes, Reopen
  <2>. QED  BY <1>12, <2>3, <2>5, <2>6, <2>7 DEF TaskFinishes
<1>13. ASSUME NEW r \in Runs, TaskGivesUp(r) PROVE Typed'
  <2>0. [run[r] EXCEPT !.task = "err"] \in RunRecords
    BY DEF RunRecords
  <2>1. run' \in [Runs -> RunRecords]
    BY <1>13, <2>0 DEF TaskGivesUp
  <2>. QED  BY <1>13, <2>1 DEF TaskGivesUp, Count
<1>14. ASSUME NEW j \in Jobs, TimePasses(j) PROVE Typed'
  <2>1. row' \in [Jobs -> Rows]
    BY <1>14 DEF TimePasses, Rows
  <2>. QED  BY <1>14, <2>1 DEF TimePasses, Count
<1>15. ASSUME NEW p \in Processes, NEW j \in Jobs, AddJob(p, j) PROVE Typed'
  <2>1. Created \in Rows
    BY DEF Created, Rows, RunStates
  <2>. QED  BY <1>15, <2>1 DEF AddJob, history
<1>16. ASSUME NEW p \in Processes, NEW j \in Jobs, RunNowReads(p, j) PROVE
  Typed'
  <2>1. \A op \in {"runNow", "toggle", "remove"} :
          [op |-> op, process |-> p, job |-> j, read |-> row[j]] \in
            CallRecords
    BY DEF CallRecords
  <2>2. call' \in [Calls -> CallRecords]
    BY <1>16, <2>1 DEF RunNowReads, Request
  <2>. QED  BY <1>16, <2>2 DEF RunNowReads, Request, Count
<1>17. ASSUME NEW p \in Processes, NEW j \in Jobs, ToggleReads(p, j) PROVE
  Typed'
  <2>1. \A op \in {"runNow", "toggle", "remove"} :
          [op |-> op, process |-> p, job |-> j, read |-> row[j]] \in
            CallRecords
    BY DEF CallRecords
  <2>2. call' \in [Calls -> CallRecords]
    BY <1>17, <2>1 DEF ToggleReads, Request
  <2>. QED  BY <1>17, <2>2 DEF ToggleReads, Request, Count
<1>18. ASSUME NEW p \in Processes, NEW j \in Jobs, RemoveChecks(p, j) PROVE
  Typed'
  <2>1. \A op \in {"runNow", "toggle", "remove"} :
          [op |-> op, process |-> p, job |-> j, read |-> row[j]] \in
            CallRecords
    BY DEF CallRecords
  <2>2. call' \in [Calls -> CallRecords]
    BY <1>18, <2>1 DEF RemoveChecks, Request
  <2>. QED  BY <1>18, <2>2 DEF RemoveChecks, Request, Count
<1>19. ASSUME NEW c \in Calls, EditWrites(c) PROVE Typed'
  <2>1. Edited(call[c].op, call[c].read) \in Rows
    <3>1. call[c].read \in Rows /\ "scheduled" \in RunStates
      BY DEF CallRecords, RunStates
    <3>2. \A d \in BOOLEAN : [call[c].read EXCEPT !.enabled = d] \in Rows
      BY <3>1 DEF Rows
    <3>3. [call[c].read EXCEPT !.enabled = TRUE, !.state = "scheduled",
                               !.due = FALSE] \in Rows
      BY <3>1 DEF Rows
    <3>4. [state |-> "scheduled", enabled |-> TRUE, attempts |-> 0,
           due |-> TRUE] \in Rows
      BY <3>1 DEF Rows
    <3>. QED  BY <3>2, <3>3, <3>4 DEF Edited
  <2>2. NoCall \in CallRecords
    BY DEF NoCall, NotThere, Created, CallRecords, Rows, RunStates
  <2>3. reopened' \subseteq reopened \cup {call[c].job}
    BY <1>19 DEF EditWrites, Reopen
  <2>4. call[c].job \in Jobs \cup {None} /\ \A r \in Runs : run'[r].job = None
    => run'[r].task = "none"
    BY <1>19, NoneIsNoJob DEF EditWrites, CallRecords, TasksHaveJobs
  <2>5. reopened' \subseteq Jobs
    BY <1>19, <2>4 DEF EditWrites, Reopen
  <2>. QED  BY <1>19, <2>1, <2>2, <2>5 DEF EditWrites, Update, Return
<1>20. ASSUME NEW c \in Calls, RemoveDeletes(c) PROVE Typed'
  <2>1. [NotThere EXCEPT !.state = "deleted"] \in Rows
    BY DEF NotThere, Created, Rows, RunStates
  <2>2. NoCall \in CallRecords
    BY DEF NoCall, NotThere, Created, CallRecords, Rows, RunStates
  <2>. QED  BY <1>20, <2>1, <2>2 DEF RemoveDeletes, Update, Return, history
<1>21. CASE UNCHANGED vars
  BY <1>21 DEF vars, history
<1>. QED
  BY <1>1, <1>2, <1>3, <1>4, <1>5, <1>6, <1>7, <1>8, <1>9, <1>10, <1>11,
    <1>12, <1>13, <1>14, <1>15, <1>16, <1>17, <1>18, <1>19, <1>20, <1>21 DEF
    Next, Tick, Task, Worker

(* Only a claim makes a task, and it refuses what the parser refuses.      *)
LEMMA TasksHaveJobsStep == Typed /\ TasksHaveJobs /\ [Next]_vars =>
  TasksHaveJobs'
<1> SUFFICES ASSUME Typed, TasksHaveJobs, [Next]_vars PROVE TasksHaveJobs'
  OBVIOUS
<1> USE DEF Typed, TasksHaveJobs
<1>1. ASSUME NEW p \in Processes, Boot(p) PROVE TasksHaveJobs'
  BY <1>1 DEF Boot, NoRun, RunRecords, Count, Update, Reopen, Request, Return,
    LooksAt, Answer, history
<1>2. ASSUME NEW p \in Processes, Crash(p) PROVE TasksHaveJobs'
  BY <1>2 DEF Crash, NoRun, RunRecords, Count, Update, Reopen, Request,
    Return, LooksAt, Answer, history
<1>3. ASSUME NEW p \in Processes, TickLists(p) PROVE TasksHaveJobs'
  BY <1>3 DEF TickLists, NoRun, RunRecords, Count, Update, Reopen, Request,
    Return, LooksAt, Answer, history
<1>4. ASSUME NEW p \in Processes, NEW l \in listed[p], TickClaims(p, l) PROVE
  TasksHaveJobs'
  BY <1>4 DEF TickClaims, NoRun, RunRecords, Count, Update, Reopen, Request,
    Return, LooksAt, Answer, history
<1>5. ASSUME NEW p \in Processes, NEW l \in listed[p], TickSkips(p, l) PROVE
  TasksHaveJobs'
  BY <1>5 DEF TickSkips, NoRun, RunRecords, Count, Update, Reopen, Request,
    Return, LooksAt, Answer, history
<1>6. ASSUME NEW p \in Processes, NEW l \in listed[p], TickRejects(p, l) PROVE
  TasksHaveJobs'
  BY <1>6 DEF TickRejects, NoRun, RunRecords, Count, Update, Reopen, Request,
    Return, LooksAt, Answer, history
<1>7. ASSUME NEW p \in Processes, TickFails(p) PROVE TasksHaveJobs'
  BY <1>7 DEF TickFails, NoRun, RunRecords, Count, Update, Reopen, Request,
    Return, LooksAt, Answer, history
<1>8. ASSUME NEW p \in Processes, WorkerStarts(p) PROVE TasksHaveJobs'
  <2>1. Head(channel[p]) \in Runs
    BY <1>8 DEF WorkerStarts
  <2>. QED  BY <1>8, <2>1 DEF WorkerStarts, RunRecords
<1>9. ASSUME NEW r \in Runs, WorkerAnswers(r) PROVE TasksHaveJobs'
  <2>0. run[r] \in RunRecords /\ \A s \in Runs \ {r} : run'[s] = run[s]
    BY <1>9 DEF WorkerAnswers, Answer
  <2>1. run'[r].task # "none" =>
          run[r].task # "none" /\ run'[r].job = run[r].job
          /\ run'[r].process = run[r].process
    BY <1>9, <2>0 DEF WorkerAnswers, Answer, NoRun, RunRecords
  <2>. QED  BY <1>9, <2>0, <2>1 DEF WorkerAnswers, Answer, Count
<1>10. ASSUME NEW r \in Runs, WorkerFails(r) PROVE TasksHaveJobs'
  <2>0. run[r] \in RunRecords /\ \A s \in Runs \ {r} : run'[s] = run[s]
    BY <1>10 DEF WorkerFails, Answer
  <2>1. run'[r].task # "none" =>
          run[r].task # "none" /\ run'[r].job = run[r].job
          /\ run'[r].process = run[r].process
    BY <1>10, <2>0 DEF WorkerFails, Answer, NoRun, RunRecords
  <2>. QED  BY <1>10, <2>0, <2>1 DEF WorkerFails, Answer, Count
<1>11. ASSUME NEW r \in Runs, TaskSends(r) PROVE TasksHaveJobs'
  BY <1>11 DEF TaskSends, NoRun, RunRecords, Count, Update, Reopen, Request,
    Return, LooksAt, Answer, history
<1>12. ASSUME NEW r \in Runs, TaskFinishes(r) PROVE TasksHaveJobs'
  BY <1>12 DEF TaskFinishes, NoRun, RunRecords, Count, Update, Reopen,
    Request, Return, LooksAt, Answer, history
<1>13. ASSUME NEW r \in Runs, TaskGivesUp(r) PROVE TasksHaveJobs'
  BY <1>13 DEF TaskGivesUp, NoRun, RunRecords, Count, Update, Reopen, Request,
    Return, LooksAt, Answer, history
<1>14. ASSUME NEW j \in Jobs, TimePasses(j) PROVE TasksHaveJobs'
  BY <1>14 DEF TimePasses, NoRun, RunRecords, Count, Update, Reopen, Request,
    Return, LooksAt, Answer, history
<1>15. ASSUME NEW p \in Processes, NEW j \in Jobs, AddJob(p, j) PROVE
  TasksHaveJobs'
  BY <1>15 DEF AddJob, NoRun, RunRecords, Count, Update, Reopen, Request,
    Return, LooksAt, Answer, history
<1>16. ASSUME NEW p \in Processes, NEW j \in Jobs, RunNowReads(p, j) PROVE
  TasksHaveJobs'
  BY <1>16 DEF RunNowReads, NoRun, RunRecords, Count, Update, Reopen, Request,
    Return, LooksAt, Answer, history
<1>17. ASSUME NEW p \in Processes, NEW j \in Jobs, ToggleReads(p, j) PROVE
  TasksHaveJobs'
  BY <1>17 DEF ToggleReads, NoRun, RunRecords, Count, Update, Reopen, Request,
    Return, LooksAt, Answer, history
<1>18. ASSUME NEW p \in Processes, NEW j \in Jobs, RemoveChecks(p, j) PROVE
  TasksHaveJobs'
  BY <1>18 DEF RemoveChecks, NoRun, RunRecords, Count, Update, Reopen,
    Request, Return, LooksAt, Answer, history
<1>19. ASSUME NEW c \in Calls, EditWrites(c) PROVE TasksHaveJobs'
  BY <1>19 DEF EditWrites, NoRun, RunRecords, Count, Update, Reopen, Request,
    Return, LooksAt, Answer, history
<1>20. ASSUME NEW c \in Calls, RemoveDeletes(c) PROVE TasksHaveJobs'
  BY <1>20 DEF RemoveDeletes, NoRun, RunRecords, Count, Update, Reopen,
    Request, Return, LooksAt, Answer, history
<1>21. CASE UNCHANGED vars
  BY <1>21 DEF vars, history
<1>. QED
  BY <1>1, <1>2, <1>3, <1>4, <1>5, <1>6, <1>7, <1>8, <1>9, <1>10, <1>11,
    <1>12, <1>13, <1>14, <1>15, <1>16, <1>17, <1>18, <1>19, <1>20, <1>21 DEF
    Next, Tick, Task, Worker

(* A step that takes the row of a job with a task out of "running" is a    *)
(* reopening, the end of its only task, or the claim of a job that had no  *)
(* task.                                                                   *)
LEMMA OneTaskStep == IInv /\ [Next]_vars => (TasksHoldRows /\ OneTaskAtATime)'
<1> SUFFICES ASSUME IInv, [Next]_vars PROVE (TasksHoldRows /\ OneTaskAtATime)'
  OBVIOUS
<1>0. Typed
  BY TypedIsTypeOK DEF IInv
<1> USE <1>0 DEF IInv, Typed, TasksHaveJobs, TasksHoldRows, OneTaskAtATime,
  Live
<1>1. ASSUME NEW p \in Processes, Boot(p) PROVE (TasksHoldRows /\
  OneTaskAtATime)'
  <2>0. run' = run
    BY <1>1 DEF Boot
  <2>1. CASE UNCHANGED <<row, reopened>>
    BY <2>0, <2>1
  <2>2. CASE /\ row' = [j \in Jobs |-> IF j \in Recovered
                                       THEN [row[j] EXCEPT !.state =
                                         "scheduled", !.due = TRUE]
                                       ELSE row[j]]
             /\ Reopen({j \in Recovered : Live(j) # {}})
    <3>1. \A r \in Runs : run[r].task # "none" =>
            (run[r].job \in reopened \/ run[r].job \in Recovered => run[r].job
              \in reopened')
      BY <2>0, <2>2 DEF Reopen, Recovered
    <3>2. \A j \in Jobs \ Recovered : row'[j] = row[j]
      BY <2>2
    <3>3. TasksHoldRows'
      BY <2>0, <3>1, <3>2
    <3>4. OneTaskAtATime'
      BY <2>0, <3>1
    <3>. QED  BY <3>3, <3>4
  <2>. QED  BY <1>1, <2>1, <2>2 DEF Boot
<1>2. ASSUME NEW p \in Processes, Crash(p) PROVE (TasksHoldRows /\
  OneTaskAtATime)'
  BY <1>2 DEF Crash, NoRun, RunRecords, Rows, RunStates, Exists, Count,
    Update, Reopen, Request, Return, LooksAt, Answer, history
<1>3. ASSUME NEW p \in Processes, TickLists(p) PROVE (TasksHoldRows /\
  OneTaskAtATime)'
  BY <1>3 DEF TickLists, NoRun, RunRecords, Rows, RunStates, Exists, Count,
    Update, Reopen, Request, Return, LooksAt, Answer, history
<1>4. ASSUME NEW p \in Processes, NEW l \in listed[p], TickClaims(p, l) PROVE
  (TasksHoldRows /\ OneTaskAtATime)'
  <2>0. l.job \in Jobs
    BY <1>4
  <2>1. PICK f \in FreeRuns :
          run' = [run EXCEPT ![f] = [process |-> p, job |-> l.job, attempt |->
            l.attempts + 1,
                                     task |-> "spawned", prompt |-> "none",
                                       waited |-> FALSE]]
    BY <1>4 DEF TickClaims
  <2>2. f \in Runs /\ run[f].task = "none"
    BY DEF FreeRuns
  <2>3. reopened' = reopened /\ row[l.job].state = "scheduled"
        /\ row'[l.job].state = "running"
        /\ \A j \in Jobs \ {l.job} : row'[j] = row[j]
    BY <1>4, <2>0 DEF TickClaims, Claimable, history, Rows
  <2>4. \A r \in Runs \ {f} : run'[r] = run[r]
    BY <2>1, <2>2
  <2>5. run'[f].job = l.job /\ run'[f].task = "spawned"
    BY <2>1, <2>2
  <2>6. l.job \notin reopened => \A r \in Runs : run[r].job = l.job =>
    run[r].task = "none"
    BY <2>3
  <2>7. TasksHoldRows'
    <3>. SUFFICES ASSUME NEW r \in Runs, run'[r].task # "none", run'[r].job
      \notin reopened
                  PROVE  row'[run'[r].job].state \in {"running", "deleted"}
      BY <2>3
    <3>1. CASE run'[r].job = l.job
      BY <2>3, <3>1
    <3>2. CASE run'[r].job # l.job
      <4>1. run'[r] = run[r]
        BY <2>4, <2>5, <3>2
      <4>2. run[r].task # "none" /\ run[r].job \in Jobs \ {l.job}
        BY <4>1, <3>2 DEF TasksHaveJobs
      <4>3. row[run[r].job].state \in {"running", "deleted"}
        BY <4>1, <4>2 DEF TasksHoldRows
      <4>. QED  BY <4>1, <4>2, <4>3, <2>3
    <3>. QED  BY <3>1, <3>2
  <2>8. OneTaskAtATime'
    <3>. SUFFICES ASSUME NEW j \in Jobs \ reopened, NEW r \in Runs, NEW s \in
      Runs,
                         run'[r].job = j, run'[r].task # "none",
                         run'[s].job = j, run'[s].task # "none"
                  PROVE  r = s
      BY <2>3
    <3>1. CASE r = f \/ s = f
      BY <2>4, <2>5, <2>6, <3>1
    <3>2. CASE r # f /\ s # f
      BY <2>4, <3>2
    <3>. QED  BY <3>1, <3>2
  <2>. QED  BY <2>7, <2>8
<1>5. ASSUME NEW p \in Processes, NEW l \in listed[p], TickSkips(p, l) PROVE
  (TasksHoldRows /\ OneTaskAtATime)'
  BY <1>5 DEF TickSkips, NoRun, RunRecords, Rows, RunStates, Exists, Count,
    Update, Reopen, Request, Return, LooksAt, Answer, history
<1>6. ASSUME NEW p \in Processes, NEW l \in listed[p], TickRejects(p, l) PROVE
  (TasksHoldRows /\ OneTaskAtATime)'
  BY <1>6 DEF TickRejects, NoRun, RunRecords, Rows, RunStates, Exists, Count,
    Update, Reopen, Request, Return, LooksAt, Answer, history
<1>7. ASSUME NEW p \in Processes, TickFails(p) PROVE (TasksHoldRows /\
  OneTaskAtATime)'
  BY <1>7 DEF TickFails, NoRun, RunRecords, Rows, RunStates, Exists, Count,
    Update, Reopen, Request, Return, LooksAt, Answer, history
<1>8. ASSUME NEW p \in Processes, WorkerStarts(p) PROVE (TasksHoldRows /\
  OneTaskAtATime)'
  <2>1. Head(channel[p]) \in Runs
    BY <1>8 DEF WorkerStarts
  <2>. QED  BY <1>8, <2>1 DEF WorkerStarts, RunRecords
<1>9. ASSUME NEW r \in Runs, WorkerAnswers(r) PROVE (TasksHoldRows /\
  OneTaskAtATime)'
  <2>0. run[r] \in RunRecords /\ \A s \in Runs \ {r} : run'[s] = run[s]
    BY <1>9 DEF WorkerAnswers, Answer
  <2>1. run'[r].task # "none" =>
          run[r].task # "none" /\ run'[r].job = run[r].job
          /\ run'[r].process = run[r].process
    BY <1>9, <2>0 DEF WorkerAnswers, Answer, NoRun, RunRecords
  <2>2. row' = row /\ reopened' = reopened
    BY <1>9 DEF WorkerAnswers, Answer
  <2>3. \A s \in Runs : run'[s].task # "none" => run[s].task # "none" /\
    run'[s].job = run[s].job
    BY <2>0, <2>1
  <2>4. TasksHoldRows'
    BY <2>2, <2>3
  <2>5. OneTaskAtATime'
    BY <2>2, <2>3
  <2>. QED  BY <2>4, <2>5
<1>10. ASSUME NEW r \in Runs, WorkerFails(r) PROVE (TasksHoldRows /\
  OneTaskAtATime)'
  <2>0. run[r] \in RunRecords /\ \A s \in Runs \ {r} : run'[s] = run[s]
    BY <1>10 DEF WorkerFails, Answer
  <2>1. run'[r].task # "none" =>
          run[r].task # "none" /\ run'[r].job = run[r].job
          /\ run'[r].process = run[r].process
    BY <1>10, <2>0 DEF WorkerFails, Answer, NoRun, RunRecords
  <2>2. row' = row /\ reopened' = reopened
    BY <1>10 DEF WorkerFails, Answer
  <2>3. \A s \in Runs : run'[s].task # "none" => run[s].task # "none" /\
    run'[s].job = run[s].job
    BY <2>0, <2>1
  <2>4. TasksHoldRows'
    BY <2>2, <2>3
  <2>5. OneTaskAtATime'
    BY <2>2, <2>3
  <2>. QED  BY <2>4, <2>5
<1>11. ASSUME NEW r \in Runs, TaskSends(r) PROVE (TasksHoldRows /\
  OneTaskAtATime)'
  BY <1>11 DEF TaskSends, NoRun, RunRecords, Rows, RunStates, Exists, Count,
    Update, Reopen, Request, Return, LooksAt, Answer, history
<1>12. ASSUME NEW r \in Runs, TaskFinishes(r) PROVE (TasksHoldRows /\
  OneTaskAtATime)'
  <2>0. run[r] \in RunRecords /\ run[r].task # "none"
    BY <1>12 DEF TaskFinishes
  <2>1. run'[r].task = "none"
    BY <1>12, <2>0 DEF TaskFinishes, NoRun, RunRecords
  <2>2. \A s \in Runs \ {r} : run'[s] = run[s]
    BY <1>12 DEF TaskFinishes
  <2>3. \A s \in Runs : run'[s].task # "none" =>
          s # r /\ run'[s] = run[s]
    BY <2>1, <2>2
  <2>4. ASSUME NEW j \in Jobs, j # run[r].job PROVE row'[j] = row[j]
    BY <1>12, <2>4 DEF TaskFinishes, Update, Typed
  <2>5. ASSUME NEW j \in reopened, NEW s \in Runs, run'[s].task # "none",
               run'[s].job = j
        PROVE j \in reopened'
    BY <1>12, <2>5 DEF TaskFinishes, Reopen
  <2>6. ASSUME NEW s \in Runs, run'[s].task # "none",
               run'[s].job \notin reopened'
        PROVE s # r /\ run[s].task # "none" /\ run'[s].job = run[s].job
              /\ run[s].job \notin reopened /\ run[s].job # run[r].job
              /\ run[s].job \in Jobs
    <3>1. s # r /\ run'[s] = run[s] /\ run[s].job \notin reopened
      BY <2>3, <2>5, <2>6
    <3>2. run[s].job \in Jobs /\ run[r].job \in Jobs
      BY <2>0, <2>6, <3>1
    <3>3. run[s].job # run[r].job
      BY <2>0, <2>6, <3>1, <3>2
    <3>. QED  BY <2>6, <3>1, <3>2, <3>3
  <2>7. TasksHoldRows'
    <3>1. ASSUME NEW s \in Runs, run'[s].task # "none",
                 run'[s].job \notin reopened'
          PROVE row'[run'[s].job].state \in {"running", "deleted"}
      <4>1. row'[run[s].job] = row[run[s].job] /\ run'[s].job = run[s].job
        BY <2>4, <2>6, <3>1
      <4>2. row[run[s].job].state \in {"running", "deleted"}
        BY <2>6, <3>1
      <4>. QED  BY <4>1, <4>2
    <3>. QED  BY <3>1
  <2>8. OneTaskAtATime'
    BY <2>3, <2>5
  <2>. QED  BY <2>7, <2>8
<1>13. ASSUME NEW r \in Runs, TaskGivesUp(r) PROVE (TasksHoldRows /\
  OneTaskAtATime)'
  BY <1>13 DEF TaskGivesUp, NoRun, RunRecords, Rows, RunStates, Exists, Count,
    Update, Reopen, Request, Return, LooksAt, Answer, history
<1>14. ASSUME NEW j \in Jobs, TimePasses(j) PROVE (TasksHoldRows /\
  OneTaskAtATime)'
  BY <1>14 DEF TimePasses, NoRun, RunRecords, Rows, RunStates, Exists, Count,
    Update, Reopen, Request, Return, LooksAt, Answer, history
<1>15. ASSUME NEW p \in Processes, NEW j \in Jobs, AddJob(p, j) PROVE
  (TasksHoldRows /\ OneTaskAtATime)'
  BY <1>15 DEF AddJob, NoRun, RunRecords, Rows, RunStates, Exists, Count,
    Update, Reopen, Request, Return, LooksAt, Answer, history
<1>16. ASSUME NEW p \in Processes, NEW j \in Jobs, RunNowReads(p, j) PROVE
  (TasksHoldRows /\ OneTaskAtATime)'
  BY <1>16 DEF RunNowReads, NoRun, RunRecords, Rows, RunStates, Exists, Count,
    Update, Reopen, Request, Return, LooksAt, Answer, history
<1>17. ASSUME NEW p \in Processes, NEW j \in Jobs, ToggleReads(p, j) PROVE
  (TasksHoldRows /\ OneTaskAtATime)'
  BY <1>17 DEF ToggleReads, NoRun, RunRecords, Rows, RunStates, Exists, Count,
    Update, Reopen, Request, Return, LooksAt, Answer, history
<1>18. ASSUME NEW p \in Processes, NEW j \in Jobs, RemoveChecks(p, j) PROVE
  (TasksHoldRows /\ OneTaskAtATime)'
  BY <1>18 DEF RemoveChecks, NoRun, RunRecords, Rows, RunStates, Exists,
    Count, Update, Reopen, Request, Return, LooksAt, Answer, history
<1>19. ASSUME NEW c \in Calls, EditWrites(c) PROVE (TasksHoldRows /\
  OneTaskAtATime)'
  BY <1>19 DEF EditWrites, NoRun, RunRecords, Rows, RunStates, Exists, Count,
    Update, Reopen, Request, Return, LooksAt, Answer, history
<1>20. ASSUME NEW c \in Calls, RemoveDeletes(c) PROVE (TasksHoldRows /\
  OneTaskAtATime)'
  BY <1>20 DEF RemoveDeletes, NoRun, RunRecords, Rows, RunStates, Exists,
    Count, Update, Reopen, Request, Return, LooksAt, Answer, history
<1>21. CASE UNCHANGED vars
  BY <1>21 DEF vars, history
<1>. QED
  BY <1>1, <1>2, <1>3, <1>4, <1>5, <1>6, <1>7, <1>8, <1>9, <1>10, <1>11,
    <1>12, <1>13, <1>14, <1>15, <1>16, <1>17, <1>18, <1>19, <1>20, <1>21 DEF
    Next, Tick, Task, Worker

LEMMA InitIInv == Init => IInv
<1> SUFFICES ASSUME Init PROVE IInv
  OBVIOUS
<1>1. NoRun \in RunRecords /\ NoCall \in CallRecords
  BY DEF NoRun, NoCall, NotThere, Created, RunRecords, CallRecords, Rows,
    RunStates
<1>2. NotThere \in Rows /\ [Created EXCEPT !.due = TRUE] \in Rows
  BY DEF NotThere, Created, Rows, RunStates
<1>3. row \in [Jobs -> Rows]
  BY <1>2 DEF Init
<1>4. channel \in [Processes -> Seq(Runs)]
  BY DEF Init
<1>5. Typed
  BY <1>1, <1>3, <1>4 DEF Init, Typed, Events
<1>6. \A r \in Runs : run[r].task = "none"
  BY DEF Init, NoRun
<1>7. TasksHaveJobs /\ TasksHoldRows /\ OneTaskAtATime
  BY <1>6 DEF TasksHaveJobs, TasksHoldRows, OneTaskAtATime, Live
<1>. QED  BY <1>5, <1>7, TypedIsTypeOK DEF IInv

THEOREM Inductive == Spec => []IInv
<1>1. Init => IInv
  BY InitIInv
<1>2. IInv /\ [Next]_vars => IInv'
  <2> SUFFICES ASSUME IInv, [Next]_vars PROVE IInv'
    OBVIOUS
  <2>1. Typed
    BY TypedIsTypeOK DEF IInv
  <2>2. Typed' /\ TasksHaveJobs'
    BY <2>1, TypedStep, TasksHaveJobsStep DEF IInv
  <2>3. TypeOK'
    BY <2>2 DEF TypeOK, Typed, RunRecords, CallRecords, Events
  <2>4. (TasksHoldRows /\ OneTaskAtATime)'
    BY OneTaskStep
  <2>. QED  BY <2>2, <2>3, <2>4 DEF IInv
<1>. QED
  BY <1>1, <1>2, PTL DEF Spec

(* The variables keep their types.                                         *)
THEOREM TypeCorrect == Spec => []TypeOK
<1>1. IInv => TypeOK
  BY DEF IInv
<1>. QED
  BY <1>1, Inductive, PTL

(* claim_scheduled_job keeps its promise for every job nobody reopened.    *)
THEOREM NoSecondTask == Spec => []OneTaskAtATime
<1>1. IInv => OneTaskAtATime
  BY DEF IInv
<1>. QED
  BY <1>1, Inductive, PTL

(* Every write of a row that says completed also disables it.              *)
LEMMA CompletedStep ==
  IInv /\ CompletedIsDisabled /\ [Next]_vars => CompletedIsDisabled'
<1> SUFFICES ASSUME IInv, CompletedIsDisabled, [Next]_vars PROVE
  CompletedIsDisabled'
  OBVIOUS
<1>0. Typed
  BY TypedIsTypeOK DEF IInv
<1> USE <1>0 DEF IInv, Typed, CompletedIsDisabled
<1>1. ASSUME NEW p \in Processes, Boot(p) PROVE CompletedIsDisabled'
  <2>1. \A j \in Jobs : row'[j] = row[j] \/ row'[j] = [row[j] EXCEPT !.state =
    "scheduled", !.due = TRUE]
    BY <1>1 DEF Boot, Recovered
  <2>2. \A j \in Jobs : [row[j] EXCEPT !.state = "scheduled", !.due =
    TRUE].state = "scheduled"
    BY DEF Rows
  <2>. QED  BY <2>1, <2>2
<1>2. ASSUME NEW p \in Processes, Crash(p) PROVE CompletedIsDisabled'
  BY <1>2 DEF Crash, Rows, Recovered, Created, NotThere, Count, Update,
    Reopen, Request, Return, LooksAt, Answer, history
<1>3. ASSUME NEW p \in Processes, TickLists(p) PROVE CompletedIsDisabled'
  BY <1>3 DEF TickLists, Rows, Recovered, Created, NotThere, Count, Update,
    Reopen, Request, Return, LooksAt, Answer, history
<1>4. ASSUME NEW p \in Processes, NEW l \in listed[p], TickClaims(p, l) PROVE
  CompletedIsDisabled'
  BY <1>4 DEF TickClaims, Rows, Recovered, Created, NotThere, Count, Update,
    Reopen, Request, Return, LooksAt, Answer, history
<1>5. ASSUME NEW p \in Processes, NEW l \in listed[p], TickSkips(p, l) PROVE
  CompletedIsDisabled'
  BY <1>5 DEF TickSkips, Rows, Recovered, Created, NotThere, Count, Update,
    Reopen, Request, Return, LooksAt, Answer, history
<1>6. ASSUME NEW p \in Processes, NEW l \in listed[p], TickRejects(p, l) PROVE
  CompletedIsDisabled'
  BY <1>6 DEF TickRejects, Rows, Recovered, Created, NotThere, Count, Update,
    Reopen, Request, Return, LooksAt, Answer, history
<1>7. ASSUME NEW p \in Processes, TickFails(p) PROVE CompletedIsDisabled'
  BY <1>7 DEF TickFails, Rows, Recovered, Created, NotThere, Count, Update,
    Reopen, Request, Return, LooksAt, Answer, history
<1>8. ASSUME NEW p \in Processes, WorkerStarts(p) PROVE CompletedIsDisabled'
  BY <1>8 DEF WorkerStarts, Rows, Recovered, Created, NotThere, Count, Update,
    Reopen, Request, Return, LooksAt, Answer, history
<1>9. ASSUME NEW r \in Runs, WorkerAnswers(r) PROVE CompletedIsDisabled'
  BY <1>9 DEF WorkerAnswers, Rows, Recovered, Created, NotThere, Count,
    Update, Reopen, Request, Return, LooksAt, Answer, history
<1>10. ASSUME NEW r \in Runs, WorkerFails(r) PROVE CompletedIsDisabled'
  BY <1>10 DEF WorkerFails, Rows, Recovered, Created, NotThere, Count, Update,
    Reopen, Request, Return, LooksAt, Answer, history
<1>11. ASSUME NEW r \in Runs, TaskSends(r) PROVE CompletedIsDisabled'
  BY <1>11 DEF TaskSends, Rows, Recovered, Created, NotThere, Count, Update,
    Reopen, Request, Return, LooksAt, Answer, history
<1>12. ASSUME NEW r \in Runs, TaskFinishes(r) PROVE CompletedIsDisabled'
  <2>0. run[r].task \in {"ok", "err"} /\ run[r].job \in Jobs
    BY <1>12 DEF TaskFinishes, TasksHaveJobs
  <2>1. LET new == Finished(run[r].job, run[r].task, run[r].attempt) IN
        \A j \in Jobs : row'[j] = row[j] \/ row'[j] = new
    BY <1>12, <2>0 DEF TaskFinishes, Update
  <2>2. LET new == Finished(run[r].job, run[r].task, run[r].attempt) IN
        new.state = "completed" => ~new.enabled
    BY <2>0 DEF Finished, Rows
  <2>. QED  BY <2>1, <2>2
<1>13. ASSUME NEW r \in Runs, TaskGivesUp(r) PROVE CompletedIsDisabled'
  BY <1>13 DEF TaskGivesUp, Rows, Recovered, Created, NotThere, Count, Update,
    Reopen, Request, Return, LooksAt, Answer, history
<1>14. ASSUME NEW j \in Jobs, TimePasses(j) PROVE CompletedIsDisabled'
  BY <1>14 DEF TimePasses, Rows, Recovered, Created, NotThere, Count, Update,
    Reopen, Request, Return, LooksAt, Answer, history
<1>15. ASSUME NEW p \in Processes, NEW j \in Jobs, AddJob(p, j) PROVE
  CompletedIsDisabled'
  BY <1>15 DEF AddJob, Rows, Recovered, Created, NotThere, Count, Update,
    Reopen, Request, Return, LooksAt, Answer, history
<1>16. ASSUME NEW p \in Processes, NEW j \in Jobs, RunNowReads(p, j) PROVE
  CompletedIsDisabled'
  BY <1>16 DEF RunNowReads, Rows, Recovered, Created, NotThere, Count, Update,
    Reopen, Request, Return, LooksAt, Answer, history
<1>17. ASSUME NEW p \in Processes, NEW j \in Jobs, ToggleReads(p, j) PROVE
  CompletedIsDisabled'
  BY <1>17 DEF ToggleReads, Rows, Recovered, Created, NotThere, Count, Update,
    Reopen, Request, Return, LooksAt, Answer, history
<1>18. ASSUME NEW p \in Processes, NEW j \in Jobs, RemoveChecks(p, j) PROVE
  CompletedIsDisabled'
  BY <1>18 DEF RemoveChecks, Rows, Recovered, Created, NotThere, Count,
    Update, Reopen, Request, Return, LooksAt, Answer, history
<1>19. ASSUME NEW c \in Calls, EditWrites(c) PROVE CompletedIsDisabled'
  <2>1. LET new == Edited(call[c].op, call[c].read) IN
        /\ row' \in [Jobs -> Rows]
        /\ \A j \in Jobs : row'[j] = row[j] \/ row'[j] = new
    <3>1. Typed'
      BY TypedStep
    <3>. QED  BY <1>19, <3>1 DEF EditWrites, Update
  <2>2. call[c].read \in Rows
    BY DEF CallRecords
  <2>3. Edited(call[c].op, call[c].read).state = "completed" =>
    ~Edited(call[c].op, call[c].read).enabled
    BY <2>2 DEF Edited, Rows
  <2>. QED  BY <2>1, <2>3
<1>20. ASSUME NEW c \in Calls, RemoveDeletes(c) PROVE CompletedIsDisabled'
  BY <1>20 DEF RemoveDeletes, Rows, Recovered, Created, NotThere, Count,
    Update, Reopen, Request, Return, LooksAt, Answer, history
<1>21. CASE UNCHANGED vars
  BY <1>21 DEF vars, history
<1>. QED
  BY <1>1, <1>2, <1>3, <1>4, <1>5, <1>6, <1>7, <1>8, <1>9, <1>10, <1>11,
    <1>12, <1>13, <1>14, <1>15, <1>16, <1>17, <1>18, <1>19, <1>20, <1>21 DEF
    Next, Tick, Task, Worker

(* A completed one-shot job is disabled, whatever edits raced with its     *)
(* end.                                                                    *)
THEOREM CompletedJobsAreDisabled == Spec => []CompletedIsDisabled
<1>1. Init => CompletedIsDisabled
  BY DEF Init, CompletedIsDisabled, NotThere, Created
<1>. QED
  BY <1>1, CompletedStep, Inductive, PTL DEF Spec

-----------------------------------------------------------------------------
(* Retries end. The bound is for what nobody asked more of and for one     *)
(* process: run_now and a toggle write an old count of attempts over the   *)
(* row, and a process that starts reopens the rows of another's tasks.     *)
(* Statements may fail and jobs may be removed.                            *)
NobodyAsks == MaxRunNow = 0 /\ MaxToggles = 0
OneProcess == \A p, q \in Processes : p = q

NoEdits == \A c \in Calls : call[c].op \in {"none", "remove"}

(* Where the loop is off nothing is listed and no task runs.               *)
OffIsIdle ==
  /\ \A p \in Processes :
       loop[p] = "off" => listed[p] = {} /\ \A r \in Runs : run[r].task = "none"
  /\ reopened = {}

(* A listing is not stale for the jobs it can still claim, so that the     *)
(* attempt a task decides by is the one its claim has counted.             *)
ListedAsRead ==
  \A p \in Processes : \A l \in listed[p] :
    OneShot(l.job) =>
      \/ Claimable(l.job) /\ row[l.job].attempts = l.attempts
      \/ row[l.job].state = "deleted"
Numbered ==
  \A r \in Runs : run[r].task # "none" /\ OneShot(run[r].job) =>
    row[run[r].job].state = "deleted" \/ run[r].attempt = row[run[r].job].attempts

(* The channel holds prompts that are queued, each once.                   *)
QueueOfPrompts ==
  /\ \A r \in Runs : run[r].task = "spawned" => run[r].prompt = "none"
  /\ \A p \in Processes : \A i \in DOMAIN channel[p] :
       /\ run[channel[p][i]].prompt = "queued"
       /\ \A k \in DOMAIN channel[p] : channel[p][i] = channel[p][k] => i = k

(* The attempts of a row, and the prompts started and still to start.      *)
AttemptsEnd(j) ==
  /\ row[j].state = "new" => row[j].attempts = 0
  /\ row[j].state = "scheduled" => row[j].attempts <= MaxRetries + used["crash"]
  /\ row[j].state \in {"running", "failed"} =>
       row[j].attempts <= 1 + MaxRetries + used["crash"]
  /\ row[j].state = "running" /\ (\E p \in Processes : loop[p] = "off") =>
       row[j].attempts <= MaxRetries + used["crash"]
Owed(j) ==
  {r \in Runs : run[r].job = j /\ (run[r].task = "spawned" \/ run[r].prompt = "queued")}
Started(j) == ran[j] + Cardinality(Owed(j))
RunsCounted(j) ==
  /\ IsFiniteSet(Owed(j))
  /\ row[j].state \in {"completed", "deleted"} => Started(j) <= 1 + MaxRetries + used["crash"]
  /\ row[j].state \notin {"completed", "deleted"} => Started(j) <= row[j].attempts

Alone == NoEdits /\ OffIsIdle /\ ListedAsRead /\ Numbered /\ QueueOfPrompts
Counted == \A j \in OneShots : AttemptsEnd(j) /\ RunsCounted(j)

(* Nobody edits a job.                                                     *)
LEMMA NothingIsAsked ==
  ASSUME NobodyAsks, Typed, NoEdits
  PROVE  /\ \A p \in Processes, j \in Jobs : ~RunNowReads(p, j) /\ ~ToggleReads(p, j)
         /\ \A c \in Calls : ~EditWrites(c)
<1>1. used["runNow"] \in Nat /\ used["toggle"] \in Nat
  BY DEF Typed, Events
<1>2. ~Count("runNow", MaxRunNow) /\ ~Count("toggle", MaxToggles)
  BY <1>1 DEF Count, NobodyAsks
<1>. QED  BY <1>2 DEF RunNowReads, ToggleReads, EditWrites, NoEdits

LEMMA NoEditsStep ==
  ASSUME NobodyAsks, Typed, NoEdits, [Next]_vars
  PROVE  NoEdits'
<1>0. call \in [Calls -> CallRecords] /\ NoCall.op = "none"
  BY DEF Typed, NoCall
<1>1. ASSUME NEW p \in Processes, Crash(p) PROVE NoEdits'
  BY <1>0, <1>1 DEF Crash, NoEdits
<1>2. ASSUME NEW p \in Processes, NEW j \in Jobs, RemoveChecks(p, j) PROVE NoEdits'
  BY <1>0, <1>2 DEF RemoveChecks, Request, NoEdits
<1>3. ASSUME NEW c \in Calls, RemoveDeletes(c) PROVE NoEdits'
  BY <1>0, <1>3 DEF RemoveDeletes, Return, NoEdits
<1>4. UNCHANGED call => NoEdits'
  BY DEF NoEdits
<1>5. CASE UNCHANGED vars
  BY <1>4, <1>5 DEF vars
<1>. QED
  BY <1>1, <1>2, <1>3, <1>4, <1>5, NothingIsAsked
  DEF Next, Tick, Task, Worker, Boot, TickLists, TickClaims, TickSkips, TickRejects, TickFails,
      TaskSends, TaskFinishes, TaskGivesUp, WorkerStarts, WorkerAnswers, WorkerFails, Answer,
      TimePasses, AddJob

(* What a crash of the only process leaves.                                *)
LEMMA CrashIdles ==
  ASSUME OneProcess, Typed, TasksHaveJobs, NEW p \in Processes, Crash(p)
  PROVE  /\ \A r \in Runs : run'[r].task = "none" /\ (run'[r] = NoRun \/ run'[r] = run[r])
         /\ \A q \in Processes : q = p /\ listed'[q] = {} /\ channel'[q] = <<>>
<1>1. \A q \in Processes : q = p
  BY DEF OneProcess
<1>2. \A r \in Runs : run'[r] = IF run[r].process = p THEN NoRun ELSE run[r]
  BY DEF Crash
<1>3. \A r \in Runs : run[r].task # "none" => run[r].process = p
  BY <1>1 DEF TasksHaveJobs
<1>4. listed' = [listed EXCEPT ![p] = {}] /\ channel' = [channel EXCEPT ![p] = <<>>]
  BY DEF Crash
<1>5. ASSUME NEW r \in Runs PROVE run'[r].task = "none" /\ (run'[r] = NoRun \/ run'[r] = run[r])
  <2>1. CASE run[r].process = p
    <3>1. run'[r] = NoRun
      BY <1>2, <2>1
    <3>2. NoRun.task = "none"
      BY DEF NoRun
    <3>. QED  BY <3>1, <3>2
  <2>2. CASE run[r].process # p
    <3>1. run'[r] = run[r]
      BY <1>2, <2>2
    <3>. QED  BY <1>3, <2>2, <3>1
  <2>. QED  BY <2>1, <2>2
<1>6. DOMAIN listed = Processes /\ DOMAIN channel = Processes
  BY DEF Typed
<1>7. \A q \in Processes : listed'[q] = {} /\ channel'[q] = <<>>
  BY <1>1, <1>4, <1>6
<1>. QED  BY <1>1, <1>5, <1>7

LEMMA OffIsIdleStep ==
  ASSUME OneProcess, NobodyAsks, Typed, TasksHaveJobs, NoEdits, OffIsIdle, [Next]_vars
  PROVE  OffIsIdle'
<1>0. /\ run \in [Runs -> RunRecords] /\ loop \in [Processes -> {"off", "on"}]
      /\ DOMAIN listed = Processes
  BY DEF Typed
<1>1. Reopen({}) => reopened' = {}
  BY DEF Reopen, OffIsIdle
<1>2. ASSUME NEW p \in Processes, Boot(p) PROVE OffIsIdle'
  <2>1. \A j \in Jobs : Live(j) = {}
    BY <1>2 DEF Boot, OffIsIdle, Live
  <2>2. reopened' = {}
    BY <1>1, <1>2, <2>1 DEF Boot, Recovered, OffIsIdle, Reopen
  <2>. QED  BY <1>0, <1>2, <2>2 DEF Boot, OffIsIdle
<1>3. ASSUME NEW p \in Processes, Crash(p) PROVE OffIsIdle'
  BY <1>1, <1>3, CrashIdles DEF Crash, OffIsIdle
<1>4. ASSUME NEW p \in Processes, loop[p] = "on", UNCHANGED <<loop, reopened>> PROVE OffIsIdle'
  BY <1>4 DEF OneProcess, OffIsIdle
<1>5. ASSUME NEW p \in Processes, listed[p] # {}, UNCHANGED <<loop, reopened>> PROVE OffIsIdle'
  BY <1>0, <1>4, <1>5 DEF OffIsIdle
<1>6. ASSUME NEW r \in Runs, run[r].task # "none", UNCHANGED loop, Reopen({}) \/ UNCHANGED reopened
      PROVE  OffIsIdle'
  <2>1. run[r].process \in Processes
    BY <1>6 DEF TasksHaveJobs
  <2>2. loop[run[r].process] = "on"
    BY <1>0, <1>6, <2>1 DEF OffIsIdle
  <2>3. reopened' = {}
    BY <1>1, <1>6 DEF OffIsIdle
  <2>. QED  BY <1>6, <2>1, <2>2, <2>3 DEF OneProcess, OffIsIdle
<1>7. ASSUME NEW r \in Runs, NEW res, Answer(r, res) PROVE OffIsIdle'
  <2>1. CASE run[r].task # "none"
    BY <1>6, <1>7, <2>1 DEF Answer
  <2>2. CASE run[r].task = "none"
    <3>1. \A s \in Runs : run'[s].task = "none" \/ run'[s] = run[s]
      BY <1>0, <1>7, <2>2 DEF Answer, NoRun
    <3>. QED  BY <1>7, <3>1 DEF Answer, OffIsIdle
  <2>. QED  BY <2>1, <2>2
<1>8. ASSUME NEW p \in Processes, WorkerStarts(p) PROVE OffIsIdle'
  <2>1. \A r \in Runs : run'[r].task = run[r].task
    BY <1>0, <1>8 DEF WorkerStarts, RunRecords
  <2>. QED  BY <1>8, <2>1 DEF WorkerStarts, OffIsIdle
<1>9. UNCHANGED <<loop, listed, run, reopened>> => OffIsIdle'
  BY DEF OffIsIdle
<1>10. ASSUME NEW r \in Runs, TaskSends(r) \/ TaskGivesUp(r) \/ TaskFinishes(r) PROVE OffIsIdle'
  BY <1>6, <1>10 DEF TaskSends, TaskGivesUp, TaskFinishes, history
<1>11. ASSUME NEW p \in Processes, TickLists(p) \/ TickFails(p) PROVE OffIsIdle'
  BY <1>4, <1>5, <1>11 DEF TickLists, TickFails, history
<1>12. ASSUME NEW p \in Processes, NEW l \in listed[p],
              TickClaims(p, l) \/ TickSkips(p, l) \/ TickRejects(p, l)
       PROVE  OffIsIdle'
  BY <1>5, <1>12 DEF TickClaims, TickSkips, TickRejects, history
<1>13. CASE UNCHANGED vars
  BY <1>9, <1>13 DEF vars, history
<1>. QED
  BY <1>2, <1>3, <1>7, <1>8, <1>9, <1>10, <1>11, <1>12, <1>13, NothingIsAsked
  DEF Next, Tick, Task, Worker, WorkerAnswers, WorkerFails, TimePasses, AddJob, RemoveChecks,
      Request, RemoveDeletes, history

(* What a step does to the row of a one-shot job.                          *)
LEMMA NoTaskReopened ==
  ASSUME TasksHoldRows, OffIsIdle
  PROVE  \A r \in Runs : run[r].task # "none" => row[run[r].job].state \in {"running", "deleted"}
BY DEF TasksHoldRows, OffIsIdle

LEMMA FinishesOne ==
  ASSUME Typed, TasksHaveJobs, NEW r \in Runs, TaskFinishes(r)
  PROVE  /\ run[r].task \in {"ok", "err"} /\ run[r].job \in Jobs
         /\ \A j \in Jobs \ {run[r].job} : row'[j] = row[j]
         /\ \/ row'[run[r].job] = row[run[r].job]
            \/ /\ Exists(run[r].job)
               /\ row'[run[r].job] = Finished(run[r].job, run[r].task, run[r].attempt)
         /\ run'[r].task = "none" /\ (run'[r].prompt = "queued" <=> run[r].prompt = "queued")
         /\ run'[r].job = run[r].job \/ (run[r].prompt = "none" /\ run'[r].prompt = "none")
         /\ \A s \in Runs \ {r} : run'[s] = run[s]
<1>0. /\ run \in [Runs -> RunRecords] /\ DOMAIN row = Jobs
      /\ run[r].task \in {"ok", "err"} /\ run[r].job \in Jobs
  BY DEF Typed, TaskFinishes, TasksHaveJobs
<1>1. /\ \A j \in Jobs \ {run[r].job} : row'[j] = row[j]
      /\ \/ row'[run[r].job] = row[run[r].job]
         \/ /\ Exists(run[r].job)
            /\ row'[run[r].job] = Finished(run[r].job, run[r].task, run[r].attempt)
  <2>1. UNCHANGED row \/ Update(run[r].job, Finished(run[r].job, run[r].task, run[r].attempt))
    BY DEF TaskFinishes
  <2>2. ASSUME NEW new, Update(run[r].job, new)
        PROVE  /\ \A j \in Jobs \ {run[r].job} : row'[j] = row[j]
               /\ \/ row'[run[r].job] = row[run[r].job]
                  \/ Exists(run[r].job) /\ row'[run[r].job] = new
    BY <1>0, <2>2 DEF Update
  <2>. QED  BY <2>1, <2>2
<1>2. run' = [run EXCEPT ![r] = IF run[r].prompt = "none" THEN NoRun
                                ELSE [run[r] EXCEPT !.task = "none"]]
  BY <1>0 DEF TaskFinishes
<1>3. \A s \in Runs \ {r} : run'[s] = run[s]
  BY <1>0, <1>2
<1>4. CASE run[r].prompt = "none"
  <2>1. run'[r] = NoRun
    BY <1>0, <1>2, <1>4
  <2>. QED  BY <1>0, <1>1, <1>3, <1>4, <2>1 DEF NoRun
<1>5. CASE run[r].prompt # "none"
  <2>1. run'[r] = [run[r] EXCEPT !.task = "none"]
    BY <1>0, <1>2, <1>5
  <2>2. run'[r].task = "none" /\ run'[r].prompt = run[r].prompt /\ run'[r].job = run[r].job
    BY <1>0, <2>1 DEF RunRecords
  <2>. QED  BY <1>0, <1>1, <1>3, <2>2
<1>. QED  BY <1>4, <1>5

LEMMA DeletesOne ==
  ASSUME Typed, NEW c \in Calls, RemoveDeletes(c)
  PROVE  /\ \A j \in Jobs : row'[j] = row[j] \/ row'[j].state = "deleted"
         /\ UNCHANGED <<loop, listed, run, channel, ran, reopened, used>>
<1>1. Update(call[c].job, [NotThere EXCEPT !.state = "deleted"]) /\ DOMAIN row = Jobs
  BY DEF RemoveDeletes, Typed
<1>2. [NotThere EXCEPT !.state = "deleted"].state = "deleted"
  BY DEF NotThere, Created
<1>3. \A j \in Jobs : row'[j] = row[j] \/ row'[j] = [NotThere EXCEPT !.state = "deleted"]
  BY <1>1 DEF Update
<1>. QED  BY <1>2, <1>3 DEF RemoveDeletes, history

LEMMA RejectsNoOneShot ==
  ASSUME Typed, NEW p \in Processes, NEW l \in listed[p], TickRejects(p, l)
  PROVE  \A j \in OneShots : row'[j] = row[j]
<1>1. \A j \in OneShots : j # l.job /\ j \in Jobs
  BY JobKinds DEF TickRejects
<1>2. DOMAIN row = Jobs /\ (UNCHANGED row \/ \E new : row' = [row EXCEPT ![l.job] = new])
  BY DEF Typed, TickRejects, Update
<1>. QED  BY <1>1, <1>2

LEMMA ClaimsOne ==
  ASSUME Typed, NEW p \in Processes, NEW l \in listed[p], TickClaims(p, l)
  PROVE  /\ l.job \in Jobs /\ Claimable(l.job) /\ row[l.job].attempts \in Nat /\ l.attempts \in Nat
         /\ row'[l.job].state = "running" /\ row'[l.job].attempts = row[l.job].attempts + 1
         /\ \A j \in Jobs \ {l.job} : row'[j] = row[j]
         /\ listed'[p] = listed[p] \ {l} /\ \A q \in Processes \ {p} : listed'[q] = listed[q]
         /\ \E r \in FreeRuns :
              /\ run'[r].job = l.job /\ run'[r].attempt = l.attempts + 1
              /\ run'[r].task = "spawned" /\ run'[r].prompt = "none"
              /\ \A s \in Runs \ {r} : run'[s] = run[s]
<1>0. /\ l \in [job : Jobs, attempts : Nat] /\ row \in [Jobs -> Rows]
      /\ run \in [Runs -> RunRecords]
      /\ DOMAIN listed = Processes
  BY DEF Typed
<1>1. l.job \in Jobs /\ row[l.job] \in Rows /\ row[l.job].attempts \in Nat /\ l.attempts \in Nat
  BY <1>0 DEF Rows
<1>2. PICK d : row' = [row EXCEPT ![l.job] = [row[l.job] EXCEPT !.state = "running",
                         !.attempts = row[l.job].attempts + 1, !.due = d]]
  BY DEF TickClaims
<1>3. /\ row'[l.job].state = "running" /\ row'[l.job].attempts = row[l.job].attempts + 1
      /\ \A j \in Jobs \ {l.job} : row'[j] = row[j]
  <2>1. row'[l.job] = [row[l.job] EXCEPT !.state = "running",
                         !.attempts = row[l.job].attempts + 1, !.due = d]
    BY <1>0, <1>1, <1>2
  <2>2. \A j \in Jobs \ {l.job} : row'[j] = row[j]
    BY <1>0, <1>2
  <2>. QED  BY <1>1, <2>1, <2>2 DEF Rows
<1>4. PICK r \in FreeRuns :
        run' = [run EXCEPT ![r] = [process |-> p, job |-> l.job, attempt |-> l.attempts + 1,
                                   task |-> "spawned", prompt |-> "none", waited |-> FALSE]]
  BY DEF TickClaims
<1>5. r \in Runs
  BY DEF FreeRuns
<1>6. /\ run'[r].job = l.job /\ run'[r].attempt = l.attempts + 1
      /\ run'[r].task = "spawned" /\ run'[r].prompt = "none"
      /\ \A s \in Runs \ {r} : run'[s] = run[s]
  BY <1>0, <1>4, <1>5
<1>7. listed'[p] = listed[p] \ {l} /\ \A q \in Processes \ {p} : listed'[q] = listed[q]
  BY <1>0 DEF TickClaims, LooksAt
<1>. QED  BY <1>1, <1>3, <1>6, <1>7 DEF TickClaims

LEMMA ListedStep ==
  ASSUME OneProcess, NobodyAsks, IInv, Typed, NoEdits, OffIsIdle, ListedAsRead, [Next]_vars
  PROVE  ListedAsRead'
<1>0. /\ DOMAIN listed = Processes /\ DOMAIN row = Jobs /\ TasksHaveJobs /\ TasksHoldRows
      /\ \A p \in Processes : \A l \in listed[p] : l.job \in Jobs
  BY DEF Typed, IInv
<1>1. ASSUME \A q \in Processes : listed'[q] \subseteq listed[q],
             \A j \in OneShots : \/ row'[j] = row[j]
                                 \/ row'[j].state = "deleted"
                                 \/ ~Claimable(j) /\ row[j].state # "deleted"
      PROVE  ListedAsRead'
  BY <1>0, <1>1 DEF ListedAsRead, OneShot, Claimable
<1>2. UNCHANGED <<listed, row>> => ListedAsRead'
  BY DEF ListedAsRead, Claimable
<1>3. ASSUME NEW p \in Processes, Boot(p) PROVE ListedAsRead'
  BY <1>3 DEF Boot, OffIsIdle, OneProcess, ListedAsRead
<1>4. ASSUME NEW p \in Processes, Crash(p) PROVE ListedAsRead'
  BY <1>0, <1>4, CrashIdles DEF ListedAsRead
<1>5. ASSUME NEW p \in Processes, TickLists(p) PROVE ListedAsRead'
  <2>1. /\ listed'[p] = {[job |-> j, attempts |-> row[j].attempts] :
                           j \in {k \in Jobs : Claimable(k)}}
        /\ \A q \in Processes \ {p} : listed'[q] = listed[q]
        /\ UNCHANGED row
    BY <1>0, <1>5 DEF TickLists
  <2>2. \A l \in listed'[p] : Claimable(l.job) /\ row[l.job].attempts = l.attempts
    BY <2>1
  <2>. QED  BY <2>1, <2>2 DEF ListedAsRead, Claimable
<1>6. ASSUME NEW p \in Processes, NEW l \in listed[p], TickClaims(p, l) PROVE ListedAsRead'
  <2>1. ASSUME NEW q \in Processes, NEW k \in listed'[q], OneShot(k.job)
        PROVE  \/ (Claimable(k.job) /\ row[k.job].attempts = k.attempts)'
               \/ row'[k.job].state = "deleted"
    <3>1. q = p /\ k \in listed[p] \ {l}
      BY <1>6, <2>1, ClaimsOne DEF OneProcess
    <3>2. k.job # l.job
      <4>1. SUFFICES ASSUME k.job = l.job PROVE FALSE
        OBVIOUS
      <4>2. row[l.job].state = "scheduled"
        BY <1>6, ClaimsOne DEF Claimable
      <4>3. k.attempts = l.attempts
        BY <2>1, <3>1, <4>1, <4>2 DEF ListedAsRead
      <4>4. k \in [job : Jobs, attempts : Nat] /\ l \in [job : Jobs, attempts : Nat]
        BY <3>1 DEF Typed
      <4>. QED  BY <3>1, <4>1, <4>3, <4>4
    <3>3. row'[k.job] = row[k.job]
      BY <1>0, <1>6, <3>1, <3>2, ClaimsOne
    <3>. QED  BY <2>1, <3>1, <3>3 DEF ListedAsRead, Claimable
  <2>. QED  BY <2>1 DEF ListedAsRead, OneShot
<1>7. ASSUME NEW p \in Processes, NEW l \in listed[p], TickSkips(p, l) \/ TickRejects(p, l)
      PROVE  ListedAsRead'
  <2>1. \A q \in Processes : listed'[q] \subseteq listed[q]
    BY <1>0, <1>7 DEF TickSkips, TickRejects, LooksAt
  <2>2. \A j \in OneShots : row'[j] = row[j]
    BY <1>7, RejectsNoOneShot DEF TickSkips
  <2>. QED  BY <1>1, <2>1, <2>2
<1>8. ASSUME NEW p \in Processes, TickFails(p) PROVE ListedAsRead'
  BY <1>0, <1>1, <1>8 DEF TickFails
<1>9. ASSUME NEW r \in Runs, TaskFinishes(r) PROVE ListedAsRead'
  <2>1. row[run[r].job].state \in {"running", "deleted"}
    BY <1>0, <1>9, NoTaskReopened DEF TaskFinishes
  <2>2. \A j \in OneShots : row'[j] = row[j] \/ (~Claimable(j) /\ row[j].state # "deleted")
    BY <1>0, <1>9, <2>1, FinishesOne, JobKinds DEF Claimable, Exists, RunStates
  <2>. QED  BY <1>1, <1>9, <2>2 DEF TaskFinishes
<1>10. ASSUME NEW j \in Jobs, TimePasses(j) PROVE ListedAsRead'
  <2>1. \A k \in OneShots : row'[k] = row[k] \/ (~Claimable(k) /\ row[k].state # "deleted")
    BY <1>0, <1>10, JobKinds DEF TimePasses, Claimable, Exists, RunStates
  <2>. QED  BY <1>1, <1>10, <2>1 DEF TimePasses
<1>11. ASSUME NEW p \in Processes, NEW j \in Jobs, AddJob(p, j) PROVE ListedAsRead'
  <2>1. \A k \in OneShots : row'[k] = row[k] \/ (~Claimable(k) /\ row[k].state # "deleted")
    BY <1>0, <1>11, JobKinds DEF AddJob, Claimable
  <2>. QED  BY <1>1, <1>11, <2>1 DEF AddJob
<1>12. ASSUME NEW c \in Calls, RemoveDeletes(c) PROVE ListedAsRead'
  BY <1>1, <1>12, DeletesOne, JobKinds
<1>13. CASE UNCHANGED vars
  BY <1>2, <1>13 DEF vars
<1>. QED
  BY <1>2, <1>3, <1>4, <1>5, <1>6, <1>7, <1>8, <1>9, <1>10, <1>11, <1>12, <1>13, NothingIsAsked
  DEF Next, Tick, Task, Worker, TaskSends, TaskGivesUp, WorkerStarts, WorkerAnswers, WorkerFails,
      Answer, RemoveChecks, Request

LEMMA NumberedStep ==
  ASSUME OneProcess, NobodyAsks, IInv, Typed, Alone, [Next]_vars
  PROVE  Numbered'
<1>0. /\ DOMAIN row = Jobs /\ run \in [Runs -> RunRecords] /\ row \in [Jobs -> Rows]
      /\ TasksHaveJobs /\ TasksHoldRows /\ OneTaskAtATime /\ reopened = {}
      /\ NoEdits /\ OffIsIdle /\ ListedAsRead /\ Numbered
  BY DEF Typed, IInv, Alone, OffIsIdle
<1>1. ASSUME \A r \in Runs : run'[r].task # "none" =>
               /\ run[r].task # "none" /\ run'[r].job = run[r].job
               /\ run'[r].attempt = run[r].attempt
               /\ \/ row'[run[r].job] = row[run[r].job] \/ row'[run[r].job].state = "deleted"
      PROVE  Numbered'
  BY <1>0, <1>1 DEF Numbered, OneShot
<1>2. ASSUME UNCHANGED row, NEW r \in Runs, \A s \in Runs \ {r} : run'[s] = run[s],
             run'[r].task # "none" => /\ run[r].task # "none" /\ run'[r].job = run[r].job
                                      /\ run'[r].attempt = run[r].attempt
      PROVE  Numbered'
  BY <1>1, <1>2
<1>3. UNCHANGED <<run, row>> => Numbered'
  BY <1>0 DEF Numbered, OneShot
<1>4. ASSUME NEW p \in Processes, Boot(p) PROVE Numbered'
  BY <1>0, <1>4 DEF Boot, OffIsIdle, Numbered
<1>5. ASSUME NEW p \in Processes, Crash(p) PROVE Numbered'
  BY <1>0, <1>5, CrashIdles DEF Numbered
<1>6. ASSUME NEW p \in Processes, NEW l \in listed[p], TickClaims(p, l) PROVE Numbered'
  <2>1. PICK r \in FreeRuns :
          /\ run'[r].job = l.job /\ run'[r].attempt = l.attempts + 1
          /\ run'[r].task = "spawned" /\ run'[r].prompt = "none"
          /\ \A s \in Runs \ {r} : run'[s] = run[s]
    BY <1>6, ClaimsOne
  <2>2. OneShot(l.job) => row'[l.job].attempts = l.attempts + 1
    <3>1. OneShot(l.job) => row[l.job].attempts = l.attempts
      BY <1>0, <1>6, ClaimsOne DEF ListedAsRead, Claimable
    <3>. QED  BY <1>6, <3>1, ClaimsOne
  <2>3. ASSUME NEW s \in Runs \ {r}, run'[s].task # "none"
        PROVE  row'[run[s].job] = row[run[s].job]
    <3>1. run[s].task # "none" /\ run[s].job \in Jobs
      BY <1>0, <2>1, <2>3 DEF TasksHaveJobs
    <3>2. row[run[s].job].state \in {"running", "deleted"} /\ row[l.job].state = "scheduled"
      BY <1>0, <1>6, <3>1, ClaimsOne, NoTaskReopened DEF Claimable
    <3>. QED  BY <1>6, <3>1, <3>2, ClaimsOne
  <2>4. \A s \in Runs \ {r} : run'[s].task # "none" /\ OneShot(run'[s].job) =>
          row'[run'[s].job].state = "deleted" \/ run'[s].attempt = row'[run'[s].job].attempts
    BY <1>0, <2>1, <2>3 DEF Numbered
  <2>5. OneShot(run'[r].job) => run'[r].attempt = row'[run'[r].job].attempts
    BY <2>1, <2>2
  <2>6. \A s \in Runs : s = r \/ s \in Runs \ {r}
    OBVIOUS
  <2>. QED  BY <2>4, <2>5, <2>6 DEF Numbered, OneShot
<1>7. ASSUME NEW p \in Processes, NEW l \in listed[p], TickRejects(p, l) PROVE Numbered'
  BY <1>0, <1>7, RejectsNoOneShot DEF TickRejects, Numbered, OneShot
<1>8. ASSUME NEW r \in Runs, TaskFinishes(r) PROVE Numbered'
  <2>1. ASSUME NEW s \in Runs, run'[s].task # "none"
        PROVE  run'[s] = run[s] /\ row'[run[s].job] = row[run[s].job]
    <3>1. s # r /\ run'[s] = run[s] /\ run[s].job \in Jobs
      BY <1>0, <1>8, <2>1, FinishesOne DEF TasksHaveJobs
    <3>2. run[s].job # run[r].job
      BY <1>0, <1>8, <2>1, <3>1, FinishesOne DEF OneTaskAtATime, Live
    <3>. QED  BY <1>0, <1>8, <3>1, <3>2, FinishesOne
  <2>. QED  BY <1>1, <2>1
<1>9. ASSUME NEW r \in Runs, NEW res, Answer(r, res) PROVE Numbered'
  <2>1. run' = [run EXCEPT ![r] = run'[r]] /\ UNCHANGED row
    BY <1>9 DEF Answer
  <2>2. CASE run[r].task = "none"
    <3>1. run'[r] = NoRun
      BY <1>0, <1>9, <2>2 DEF Answer
    <3>2. run'[r].task = "none"
      BY <3>1 DEF NoRun
    <3>. QED  BY <1>0, <1>2, <2>1, <3>2
  <2>3. CASE run[r].task # "none"
    <3>1. \E t : run'[r] = [run[r] EXCEPT !.prompt = "none", !.task = t]
      BY <1>0, <1>9, <2>3 DEF Answer
    <3>2. run'[r].job = run[r].job /\ run'[r].attempt = run[r].attempt
      BY <1>0, <3>1 DEF RunRecords
    <3>. QED  BY <1>0, <1>2, <2>1, <2>3, <3>2
  <2>. QED  BY <2>2, <2>3
<1>10. ASSUME NEW p \in Processes, WorkerStarts(p) PROVE Numbered'
  <2>1. \A r \in Runs : run'[r].task = run[r].task /\ run'[r].job = run[r].job
                        /\ run'[r].attempt = run[r].attempt
    BY <1>0, <1>10 DEF WorkerStarts, RunRecords
  <2>. QED  BY <1>1, <1>10, <2>1 DEF WorkerStarts
<1>11. ASSUME NEW r \in Runs, TaskSends(r) PROVE Numbered'
  <2>1. PICK w : run' = [run EXCEPT ![r] = [run[r] EXCEPT !.task = "waiting", !.prompt = "queued",
                                                          !.waited = w]]
    BY <1>11 DEF TaskSends
  <2>2. run'[r].job = run[r].job /\ run'[r].attempt = run[r].attempt
    BY <1>0, <2>1 DEF RunRecords
  <2>3. \A s \in Runs \ {r} : run'[s] = run[s]
    BY <1>0, <2>1
  <2>. QED  BY <1>2, <1>11, <2>2, <2>3 DEF TaskSends
<1>12. ASSUME NEW r \in Runs, TaskGivesUp(r) PROVE Numbered'
  <2>1. /\ run'[r].job = run[r].job /\ run'[r].attempt = run[r].attempt
        /\ \A s \in Runs \ {r} : run'[s] = run[s]
    BY <1>0, <1>12 DEF TaskGivesUp, RunRecords
  <2>. QED  BY <1>2, <1>12, <2>1 DEF TaskGivesUp
<1>13. ASSUME NEW j \in Jobs, TimePasses(j) PROVE Numbered'
  <2>1. \A k \in Jobs : row'[k].attempts = row[k].attempts /\ row'[k].state = row[k].state
    BY <1>0, <1>13 DEF TimePasses, Rows
  <2>. QED  BY <1>0, <1>13, <2>1 DEF TimePasses, Numbered, TasksHaveJobs
<1>14. ASSUME NEW p \in Processes, NEW j \in Jobs, AddJob(p, j) PROVE Numbered'
  <2>1. \A r \in Runs : run[r].task # "none" => row'[run[r].job] = row[run[r].job]
    BY <1>0, <1>14, NoTaskReopened DEF AddJob
  <2>. QED  BY <1>1, <1>14, <2>1 DEF AddJob
<1>15. ASSUME NEW c \in Calls, RemoveDeletes(c) PROVE Numbered'
  <2>1. \A r \in Runs : run[r].task # "none" => run[r].job \in Jobs
    BY <1>0 DEF TasksHaveJobs
  <2>. QED  BY <1>1, <1>15, <2>1, DeletesOne
<1>16. CASE UNCHANGED vars
  BY <1>3, <1>16 DEF vars
<1>. QED
  BY <1>0, <1>3, <1>4, <1>5, <1>6, <1>7, <1>8, <1>9, <1>10, <1>11, <1>12, <1>13, <1>14, <1>15,
     <1>16, NothingIsAsked
  DEF Next, Tick, Task, Worker, TickLists, TickSkips, TickFails, WorkerAnswers, WorkerFails,
      RemoveChecks, Request

LEMMA QueueStep ==
  ASSUME OneProcess, NobodyAsks, IInv, Typed, Alone, [Next]_vars
  PROVE  QueueOfPrompts'
<1>0. /\ run \in [Runs -> RunRecords] /\ channel \in [Processes -> Seq(Runs)]
      /\ TasksHaveJobs /\ NoEdits /\ QueueOfPrompts
      /\ \A p \in Processes : \A i \in DOMAIN channel[p] : channel[p][i] \in Runs
  BY DEF Typed, IInv, Alone
<1>1. ASSUME UNCHANGED channel,
             \A r \in Runs : run[r].prompt = "queued" => run'[r].prompt = "queued",
             \A r \in Runs : run'[r].task = "spawned" => run'[r].prompt = "none"
      PROVE  QueueOfPrompts'
  BY <1>0, <1>1 DEF QueueOfPrompts
<1>2. ASSUME UNCHANGED channel, NEW r \in Runs, \A s \in Runs \ {r} : run'[s] = run[s],
             run[r].prompt = "queued" => run'[r].prompt = "queued",
             run'[r].task = "spawned" => run'[r].prompt = "none"
      PROVE  QueueOfPrompts'
  BY <1>0, <1>1, <1>2 DEF QueueOfPrompts
<1>3. UNCHANGED <<run, channel>> => QueueOfPrompts'
  BY <1>0 DEF QueueOfPrompts
<1>4. ASSUME NEW p \in Processes, Crash(p) PROVE QueueOfPrompts'
  BY <1>0, <1>4, CrashIdles DEF QueueOfPrompts
<1>5. ASSUME NEW p \in Processes, NEW l \in listed[p], TickClaims(p, l) PROVE QueueOfPrompts'
  BY <1>0, <1>2, <1>5, ClaimsOne DEF TickClaims, FreeRuns
<1>6. ASSUME NEW r \in Runs, TaskFinishes(r) PROVE QueueOfPrompts'
  BY <1>0, <1>2, <1>6, FinishesOne DEF TaskFinishes
<1>7. ASSUME NEW r \in Runs, NEW res \in {"ok", "err"}, Answer(r, res) PROVE QueueOfPrompts'
  <2>1. run[r].prompt = "running" /\ UNCHANGED channel /\ \A s \in Runs \ {r} : run'[s] = run[s]
    BY <1>0, <1>7 DEF Answer
  <2>2. run'[r].prompt = "none"
    BY <1>0, <1>7 DEF Answer, NoRun, RunRecords
  <2>. QED  BY <1>2, <2>1, <2>2
<1>8. ASSUME NEW p \in Processes, WorkerStarts(p) PROVE QueueOfPrompts'
  <2> DEFINE h == Head(channel[p])
  <2>1. /\ channel[p] \in Seq(Runs) /\ channel[p] # <<>> /\ channel'[p] = Tail(channel[p])
        /\ \A q \in Processes : q = p
        /\ run' = [run EXCEPT ![h].prompt = "running"]
    BY <1>0, <1>8 DEF WorkerStarts, OneProcess
  <2>2. /\ h \in Runs /\ 1 \in DOMAIN channel[p] /\ h = channel[p][1]
        /\ \A i \in DOMAIN channel'[p] : i + 1 \in DOMAIN channel[p] /\ i + 1 # 1
                                         /\ channel'[p][i] = channel[p][i + 1]
        /\ DOMAIN channel'[p] \subseteq Nat
    BY <2>1
  <2>3. \A i \in DOMAIN channel'[p] : channel'[p][i] \in Runs \ {h}
    BY <1>0, <2>2 DEF QueueOfPrompts
  <2>4. \A r \in Runs : run'[r].task = run[r].task
    BY <1>0, <2>1 DEF RunRecords
  <2>5. \A r \in Runs \ {h} : run'[r] = run[r]
    BY <1>0, <2>1
  <2>6. run[h].prompt = "queued" /\ run[h].task # "spawned"
    BY <1>0, <2>2 DEF QueueOfPrompts
  <2>7. \A r \in Runs : run'[r].task = "spawned" => run'[r].prompt = "none"
    BY <1>0, <2>2, <2>4, <2>5, <2>6 DEF QueueOfPrompts
  <2>8. \A i \in DOMAIN channel'[p] : run'[channel'[p][i]].prompt = "queued"
    BY <1>0, <2>2, <2>3, <2>5 DEF QueueOfPrompts
  <2>9. \A i, k \in DOMAIN channel'[p] : channel'[p][i] = channel'[p][k] => i = k
    <3>1. \A i, k \in DOMAIN channel'[p] : channel'[p][i] = channel'[p][k] => i + 1 = k + 1
      BY <1>0, <2>2 DEF QueueOfPrompts
    <3>. QED  BY <2>2, <3>1
  <2>. QED  BY <2>1, <2>7, <2>8, <2>9 DEF QueueOfPrompts
<1>9. ASSUME NEW r \in Runs, TaskSends(r) PROVE QueueOfPrompts'
  <2>1. PICK p \in Processes : p = run[r].process
    BY <1>0, <1>9 DEF TaskSends, TasksHaveJobs
  <2>2. PICK w : run' = [run EXCEPT ![r] = [run[r] EXCEPT !.task = "waiting", !.prompt = "queued",
                                                          !.waited = w]]
    BY <1>9 DEF TaskSends
  <2>3. run'[r].task = "waiting" /\ run'[r].prompt = "queued"
    BY <1>0, <2>2 DEF RunRecords
  <2>4. \A s \in Runs \ {r} : run'[s] = run[s]
    BY <1>0, <2>2
  <2>5. /\ channel[p] \in Seq(Runs) /\ channel'[p] = Append(channel[p], r)
        /\ \A q \in Processes : q = p
    BY <1>0, <1>9, <2>1 DEF TaskSends, OneProcess
  <2>6. /\ \A i \in DOMAIN channel'[p] :
             \/ i \in DOMAIN channel[p] /\ channel'[p][i] = channel[p][i]
             \/ i = Len(channel[p]) + 1 /\ channel'[p][i] = r
        /\ DOMAIN channel[p] = 1..Len(channel[p]) /\ Len(channel[p]) \in Nat
    BY <2>5
  <2>7. \A i \in DOMAIN channel[p] : channel[p][i] \in Runs \ {r}
    <3>1. run[r].prompt = "none"
      BY <1>0, <1>9 DEF TaskSends, QueueOfPrompts
    <3>. QED  BY <1>0, <3>1 DEF QueueOfPrompts
  <2>8. \A i \in DOMAIN channel'[p] : run'[channel'[p][i]].prompt = "queued"
    BY <1>0, <2>3, <2>4, <2>6, <2>7 DEF QueueOfPrompts
  <2>9. \A i, k \in DOMAIN channel'[p] : channel'[p][i] = channel'[p][k] => i = k
    BY <1>0, <2>6, <2>7 DEF QueueOfPrompts
  <2>10. \A s \in Runs : run'[s].task = "spawned" => run'[s].prompt = "none"
    BY <1>0, <2>3, <2>4 DEF QueueOfPrompts
  <2>. QED  BY <2>5, <2>8, <2>9, <2>10 DEF QueueOfPrompts
<1>10. ASSUME NEW r \in Runs, TaskGivesUp(r) PROVE QueueOfPrompts'
  <2>1. /\ run'[r].prompt = run[r].prompt /\ run'[r].task = "err"
        /\ \A s \in Runs \ {r} : run'[s] = run[s]
    BY <1>0, <1>10 DEF TaskGivesUp, RunRecords
  <2>. QED  BY <1>2, <1>10, <2>1 DEF TaskGivesUp
<1>11. ASSUME NEW c \in Calls, RemoveDeletes(c) PROVE QueueOfPrompts'
  BY <1>3, <1>11, DeletesOne
<1>12. CASE UNCHANGED vars
  BY <1>3, <1>12 DEF vars
<1>. QED
  BY <1>0, <1>3, <1>4, <1>5, <1>6, <1>7, <1>8, <1>9, <1>10, <1>11, <1>12, NothingIsAsked
  DEF Next, Tick, Task, Worker, Boot, TickLists, TickSkips, TickRejects, TickFails,
      WorkerAnswers, WorkerFails, TimePasses, AddJob, RemoveChecks, Request

(* The attempts of a one-shot job: each claim counts one, and the row goes *)
(* back to "scheduled" only while there are retries, or after a crash.     *)
LEMMA AttemptsStep ==
  ASSUME OneProcess, NobodyAsks, IInv, Typed, Alone, [Next]_vars,
         NEW j \in OneShots, AttemptsEnd(j)
  PROVE  AttemptsEnd(j)'
<1>0. /\ DOMAIN row = Jobs /\ row \in [Jobs -> Rows] /\ j \in Jobs /\ row[j] \in Rows
      /\ run \in [Runs -> RunRecords] /\ loop \in [Processes -> {"off", "on"}]
      /\ TasksHaveJobs /\ TasksHoldRows /\ reopened = {} /\ OneShot(j)
      /\ NoEdits /\ OffIsIdle /\ ListedAsRead /\ Numbered
      /\ row[j].attempts \in Nat /\ used["crash"] \in Nat /\ MaxRetries \in Nat
      /\ DOMAIN used = Events
  BY JobKinds, ConfigNat DEF Typed, IInv, Alone, OffIsIdle, OneShot, Rows, Events
<1>1. ASSUME row'[j].state = row[j].state, row'[j].attempts = row[j].attempts,
             UNCHANGED loop, used'["crash"] = used["crash"]
      PROVE  AttemptsEnd(j)'
  BY <1>0, <1>1 DEF AttemptsEnd
<1>2. ASSUME NEW e \in Events, NEW max, Count(e, max), e # "crash"
      PROVE  used'["crash"] = used["crash"]
  BY <1>0, <1>2 DEF Count, Events
<1>3. UNCHANGED <<row, loop, used>> => AttemptsEnd(j)'
  BY <1>1
<1>4. {"due", "remove", "failure", "timeout", "fault", "crash"} \subseteq Events
  BY DEF Events
<1>5. ASSUME NEW p \in Processes, Boot(p) PROVE AttemptsEnd(j)'
  <2>1. /\ \A q \in Processes : q = p /\ loop'[q] = "on"
        /\ loop[p] = "off" /\ used'["crash"] = used["crash"]
    BY <1>0, <1>2, <1>4, <1>5 DEF Boot, OneProcess
  <2>2. CASE row' = row
    BY <1>0, <2>1, <2>2 DEF AttemptsEnd
  <2>3. CASE row' = [k \in Jobs |-> IF k \in Recovered
                                    THEN [row[k] EXCEPT !.state = "scheduled", !.due = TRUE]
                                    ELSE row[k]]
    <3>1. CASE j \in Recovered
      <4>1. row'[j] = [row[j] EXCEPT !.state = "scheduled", !.due = TRUE]
        BY <1>0, <2>3, <3>1
      <4>2. row'[j].state = "scheduled" /\ row'[j].attempts = row[j].attempts
        BY <1>0, <4>1 DEF Rows
      <4>3. row[j].state = "running"
        BY <3>1 DEF Recovered
      <4>. QED  BY <1>0, <2>1, <4>2, <4>3 DEF AttemptsEnd
    <3>2. CASE j \notin Recovered
      <4>1. row'[j] = row[j]
        BY <1>0, <2>3, <3>2
      <4>. QED  BY <1>0, <2>1, <4>1 DEF AttemptsEnd
    <3>. QED  BY <3>1, <3>2
  <2>. QED  BY <1>5, <2>2, <2>3 DEF Boot
<1>6. ASSUME NEW p \in Processes, Crash(p) PROVE AttemptsEnd(j)'
  <2>1. used'["crash"] = used["crash"] + 1 /\ UNCHANGED row
    BY <1>0, <1>4, <1>6 DEF Crash, Count
  <2>. QED  BY <1>0, <2>1 DEF AttemptsEnd
<1>7. ASSUME NEW p \in Processes, NEW l \in listed[p], TickClaims(p, l) PROVE AttemptsEnd(j)'
  <2>1. UNCHANGED <<loop, used>>
    BY <1>7 DEF TickClaims, history
  <2>2. CASE j = l.job
    <3>1. /\ row[j].state = "scheduled" /\ row'[j].state = "running"
          /\ row'[j].attempts = row[j].attempts + 1
      BY <1>7, <2>2, ClaimsOne DEF Claimable
    <3>2. \A q \in Processes : loop[q] = "on"
      BY <1>0, <1>7 DEF OneProcess, OffIsIdle
    <3>. QED  BY <1>0, <2>1, <3>1, <3>2 DEF AttemptsEnd
  <2>3. CASE j # l.job
    BY <1>0, <1>1, <1>7, <2>1, <2>3, ClaimsOne
  <2>. QED  BY <2>2, <2>3
<1>8. ASSUME NEW p \in Processes, NEW l \in listed[p], TickRejects(p, l) PROVE AttemptsEnd(j)'
  BY <1>1, <1>8, RejectsNoOneShot DEF TickRejects, history
<1>9. ASSUME NEW r \in Runs, TaskFinishes(r) PROVE AttemptsEnd(j)'
  <2>1. UNCHANGED loop /\ used'["crash"] = used["crash"]
    BY <1>2, <1>4, <1>9 DEF TaskFinishes
  <2>2. CASE row'[j] = row[j]
    BY <1>1, <2>1, <2>2
  <2>3. CASE row'[j] # row[j]
    <3>1. /\ j = run[r].job /\ Exists(j) /\ run[r].task \in {"ok", "err"}
          /\ row'[j] = Finished(j, run[r].task, run[r].attempt)
      BY <1>0, <1>9, <2>3, FinishesOne
    <3>2. row[j].state = "running"
      BY <1>0, <3>1, NoTaskReopened DEF Exists, RunStates
    <3>3. run[r].attempt = row[j].attempts
      BY <1>0, <3>1, <3>2 DEF Numbered
    <3>4. CASE run[r].task = "ok"
      <4>1. row'[j].state = "completed"
        BY <1>0, <3>1, <3>4 DEF Finished
      <4>. QED  BY <4>1 DEF AttemptsEnd
    <3>5. CASE run[r].task = "err"
      <4>1. row'[j] = [row[j] EXCEPT !.state = IF run[r].attempt <= MaxRetries THEN "scheduled"
                                               ELSE "failed",
                                     !.due = run[r].attempt > MaxRetries]
        BY <3>1, <3>5 DEF Finished
      <4>2. /\ row'[j].state = IF run[r].attempt <= MaxRetries THEN "scheduled" ELSE "failed"
            /\ row'[j].attempts = row[j].attempts
        BY <1>0, <4>1 DEF Rows
      <4>. QED  BY <1>0, <2>1, <3>2, <3>3, <4>2 DEF AttemptsEnd
    <3>. QED  BY <3>1, <3>4, <3>5
  <2>. QED  BY <2>2, <2>3
<1>10. ASSUME NEW k \in Jobs, TimePasses(k) PROVE AttemptsEnd(j)'
  <2>1. row'[j].state = row[j].state /\ row'[j].attempts = row[j].attempts
    BY <1>0, <1>10 DEF TimePasses, Rows
  <2>. QED  BY <1>1, <1>2, <1>4, <1>10, <2>1 DEF TimePasses
<1>11. ASSUME NEW p \in Processes, NEW k \in Jobs, AddJob(p, k) PROVE AttemptsEnd(j)'
  <2>1. UNCHANGED <<loop, used>> /\ (row'[j] = row[j] \/ row'[j] = Created)
    BY <1>0, <1>11 DEF AddJob, history
  <2>2. Created.state = "scheduled" /\ Created.attempts = 0
    BY DEF Created
  <2>. QED  BY <1>0, <1>1, <2>1, <2>2 DEF AttemptsEnd
<1>12. ASSUME NEW c \in Calls, RemoveDeletes(c) PROVE AttemptsEnd(j)'
  BY <1>0, <1>1, <1>12, DeletesOne DEF AttemptsEnd
<1>13. ASSUME UNCHANGED <<row, loop>>, NEW e \in Events \ {"crash"}, NEW max, Count(e, max)
       PROVE  AttemptsEnd(j)'
  BY <1>1, <1>2, <1>13
<1>14. ASSUME NEW r \in Runs, TaskGivesUp(r) \/ WorkerFails(r) PROVE AttemptsEnd(j)'
  BY <1>4, <1>13, <1>14 DEF TaskGivesUp, WorkerFails, Answer
<1>15. ASSUME NEW p \in Processes, TickFails(p) PROVE AttemptsEnd(j)'
  BY <1>4, <1>13, <1>15 DEF TickFails
<1>16. ASSUME NEW p \in Processes, NEW k \in Jobs, RemoveChecks(p, k) PROVE AttemptsEnd(j)'
  BY <1>4, <1>13, <1>16 DEF RemoveChecks, Request
<1>17. CASE UNCHANGED vars
  BY <1>3, <1>17 DEF vars, history
<1>. QED
  BY <1>0, <1>3, <1>5, <1>6, <1>7, <1>8, <1>9, <1>10, <1>11, <1>12, <1>14, <1>15, <1>16, <1>17,
     NothingIsAsked
  DEF Next, Tick, Task, Worker, TickLists, TickSkips, TaskSends, WorkerStarts, WorkerAnswers,
      Answer, history

(* What is owed to a job when nothing is added to it, and when a claim     *)
(* adds an execution.                                                      *)
LEMMA OwedShrinks ==
  ASSUME NEW j, IsFiniteSet(Owed(j)), Owed(j)' \subseteq Owed(j)
  PROVE  /\ IsFiniteSet(Owed(j))' /\ Cardinality(Owed(j)) \in Nat /\ Cardinality(Owed(j))' \in Nat
         /\ Cardinality(Owed(j))' <= Cardinality(Owed(j))
BY FS_Subset, FS_CardinalityType

(* Every prompt that the worker starts was owed by a claim, which counted  *)
(* an attempt.                                                             *)
LEMMA CountStep ==
  ASSUME OneProcess, NobodyAsks, IInv, Typed, Alone, [Next]_vars,
         NEW j \in OneShots, AttemptsEnd(j), AttemptsEnd(j)', RunsCounted(j)
  PROVE  RunsCounted(j)'
<1>0. /\ DOMAIN row = Jobs /\ j \in Jobs /\ row[j] \in Rows
      /\ run \in [Runs -> RunRecords] /\ ran \in [Jobs -> Nat] /\ ran[j] \in Nat
      /\ TasksHaveJobs /\ TasksHoldRows /\ reopened = {} /\ OneShot(j)
      /\ NoEdits /\ OffIsIdle /\ QueueOfPrompts
      /\ row[j].attempts \in Nat /\ used["crash"] \in Nat /\ MaxRetries \in Nat
      /\ DOMAIN used = Events /\ row'[j].attempts \in Nat
      /\ row'[j].state \in RunStates \cup {"new", "deleted"}
      /\ row[j].state \in RunStates \cup {"new", "deleted"}
  <2>1. Typed' /\ row' \in [Jobs -> Rows]
    BY TypedStep DEF IInv, Typed
  <2>. QED  BY <2>1, JobKinds, ConfigNat DEF Typed, IInv, Alone, OffIsIdle, OneShot, Rows, Events
<1>1. /\ IsFiniteSet(Owed(j)) /\ Cardinality(Owed(j)) \in Nat
      /\ Started(j) <= 1 + MaxRetries + used["crash"]
      /\ row[j].state \notin {"completed", "deleted"} => Started(j) <= row[j].attempts
  <2>1. IsFiniteSet(Owed(j)) /\ Cardinality(Owed(j)) \in Nat
    BY FS_CardinalityType DEF RunsCounted
  <2>2. row[j].state \notin {"completed", "deleted"} =>
          row[j].attempts <= 1 + MaxRetries + used["crash"]
    BY <1>0 DEF AttemptsEnd, RunStates
  <2>. QED  BY <1>0, <2>1, <2>2 DEF RunsCounted, Started
<1>2. used'["crash"] \in Nat /\ used'["crash"] >= used["crash"]
  <2>1. Typed' /\ used' \in [Events -> Nat]
    BY <1>0, TypedStep DEF IInv, Typed
  <2>2. ASSUME NEW e \in Events, NEW max, Count(e, max) PROVE used'["crash"] >= used["crash"]
    BY <1>0, <2>2 DEF Count, Events
  <2>3. {"due", "remove", "failure", "timeout", "fault", "crash"} \subseteq Events
    BY DEF Events
  <2>4. ASSUME UNCHANGED used PROVE used'["crash"] >= used["crash"]
    BY <1>0, <2>4
  <2>5. ASSUME NEW p \in Processes,
               Boot(p) \/ Crash(p) \/ Tick(p) \/ TickFails(p) \/ Worker(p)
        PROVE  used'["crash"] >= used["crash"]
    BY <2>2, <2>3, <2>4, <2>5
    DEF Tick, Worker, Boot, Crash, TickLists, TickClaims, TickSkips, TickRejects, TickFails,
        WorkerStarts, WorkerAnswers, history
  <2>6. ASSUME NEW r \in Runs, Task(r) \/ TaskGivesUp(r) \/ WorkerFails(r)
        PROVE  used'["crash"] >= used["crash"]
    BY <2>2, <2>3, <2>4, <2>6 DEF Task, TaskSends, TaskFinishes, TaskGivesUp, WorkerFails, history
  <2>7. ASSUME NEW p, NEW k, NEW c,
               TimePasses(k) \/ AddJob(p, k) \/ RemoveChecks(p, k) \/ RemoveDeletes(c)
        PROVE  used'["crash"] >= used["crash"]
    BY <2>2, <2>3, <2>4, <2>7 DEF TimePasses, AddJob, RemoveChecks, RemoveDeletes, history
  <2>8. used'["crash"] >= used["crash"]
    BY <1>0, <2>4, <2>5, <2>6, <2>7, NothingIsAsked DEF Next, vars, history
  <2>. QED  BY <2>1, <2>8 DEF Events
<1>3. ASSUME ran'[j] = ran[j], Owed(j)' \subseteq Owed(j),
             \/ row'[j].state \in {"completed", "deleted"}
             \/ /\ row[j].state \notin {"completed", "deleted"}
                /\ row'[j].attempts >= row[j].attempts
      PROVE  RunsCounted(j)'
  <2>1. /\ IsFiniteSet(Owed(j))' /\ Cardinality(Owed(j))' \in Nat
        /\ Cardinality(Owed(j))' <= Cardinality(Owed(j))
    BY <1>1, <1>3, OwedShrinks
  <2>2. Started(j)' <= Started(j) /\ Started(j) \in Nat /\ Started(j)' \in Nat
    BY <1>0, <1>1, <1>3, <2>1 DEF Started
  <2>3. Started(j)' <= 1 + MaxRetries + used'["crash"]
    BY <1>0, <1>1, <1>2, <2>2
  <2>4. row'[j].state \notin {"completed", "deleted"} => Started(j)' <= row'[j].attempts
    BY <1>0, <1>1, <1>3, <2>2
  <2>. QED  BY <2>1, <2>3, <2>4 DEF RunsCounted
<1>4. ASSUME row'[j] = row[j], ran'[j] = ran[j], Owed(j)' \subseteq Owed(j) PROVE RunsCounted(j)'
  BY <1>0, <1>3, <1>4
<1>5. UNCHANGED run => Owed(j)' \subseteq Owed(j)
  BY DEF Owed
<1>6. ASSUME NEW r \in Runs, \A s \in Runs \ {r} : run'[s] = run[s], r \in Owed(j)' => r \in Owed(j)
      PROVE  Owed(j)' \subseteq Owed(j)
  BY <1>6 DEF Owed
<1>7. ASSUME NEW p \in Processes, Boot(p) PROVE RunsCounted(j)'
  <2>1. Owed(j)' \subseteq Owed(j) /\ ran'[j] = ran[j]
    BY <1>5, <1>7 DEF Boot
  <2>2. CASE row' = row
    BY <1>4, <2>1, <2>2
  <2>3. CASE row' = [k \in Jobs |-> IF k \in Recovered
                                    THEN [row[k] EXCEPT !.state = "scheduled", !.due = TRUE]
                                    ELSE row[k]]
    <3>1. CASE j \in Recovered
      <4>1. row'[j] = [row[j] EXCEPT !.state = "scheduled", !.due = TRUE]
        BY <1>0, <2>3, <3>1
      <4>2. row'[j].attempts = row[j].attempts
        BY <1>0, <4>1 DEF Rows
      <4>3. row[j].state = "running"
        BY <3>1 DEF Recovered
      <4>. QED  BY <1>0, <1>3, <2>1, <4>2, <4>3
    <3>2. CASE j \notin Recovered
      <4>1. row'[j] = row[j]
        BY <1>0, <2>3, <3>2
      <4>. QED  BY <1>4, <2>1, <4>1
    <3>. QED  BY <3>1, <3>2
  <2>. QED  BY <1>7, <2>2, <2>3 DEF Boot
<1>8. ASSUME NEW p \in Processes, Crash(p) PROVE RunsCounted(j)'
  <2>1. UNCHANGED <<row, ran>> /\ \A r \in Runs : run'[r] = NoRun \/ run'[r] = run[r]
    BY <1>0, <1>8, CrashIdles DEF Crash
  <2>2. NoRun.job = None /\ None # j
    BY <1>0, NoneIsNoJob DEF NoRun
  <2>3. Owed(j)' \subseteq Owed(j)
    BY <2>1, <2>2 DEF Owed
  <2>. QED  BY <1>4, <2>1, <2>3
<1>9. ASSUME NEW p \in Processes, NEW l \in listed[p], TickClaims(p, l) PROVE RunsCounted(j)'
  <2>1. PICK r \in FreeRuns :
          /\ run'[r].job = l.job /\ run'[r].task = "spawned" /\ run'[r].prompt = "none"
          /\ \A s \in Runs \ {r} : run'[s] = run[s]
    BY <1>9, ClaimsOne
  <2>2. UNCHANGED ran /\ r \in Runs /\ run[r].task = "none" /\ run[r].prompt = "none"
    BY <1>9 DEF TickClaims, history, FreeRuns
  <2>3. CASE j # l.job
    <3>1. row'[j] = row[j] /\ r \notin Owed(j)'
      BY <1>0, <1>9, <2>1, <2>3, ClaimsOne DEF Owed
    <3>. QED  BY <1>4, <1>6, <2>1, <2>2, <3>1
  <2>4. CASE j = l.job
    <3>1. Owed(j)' = Owed(j) \cup {r} /\ r \notin Owed(j)
      BY <2>1, <2>2, <2>4 DEF Owed
    <3>2. IsFiniteSet(Owed(j))' /\ Cardinality(Owed(j))' = Cardinality(Owed(j)) + 1
      BY <1>1, <3>1, FS_AddElement
    <3>3. /\ row[j].state = "scheduled" /\ row'[j].state = "running"
          /\ row'[j].attempts = row[j].attempts + 1
      BY <1>9, <2>4, ClaimsOne DEF Claimable
    <3>4. Started(j)' = Started(j) + 1 /\ Started(j) <= row[j].attempts /\ Started(j) \in Nat
      BY <1>0, <1>1, <2>2, <3>2, <3>3 DEF Started
    <3>. QED  BY <1>0, <3>2, <3>3, <3>4 DEF RunsCounted
  <2>. QED  BY <2>3, <2>4
<1>10. ASSUME NEW p \in Processes, NEW l \in listed[p], TickRejects(p, l) PROVE RunsCounted(j)'
  BY <1>4, <1>5, <1>10, RejectsNoOneShot DEF TickRejects, history
<1>11. ASSUME NEW r \in Runs, TaskFinishes(r) PROVE RunsCounted(j)'
  <2>1. ran' = ran /\ Owed(j)' \subseteq Owed(j)
    <3>1. /\ run'[r].task = "none" /\ (run'[r].prompt = "queued" => run[r].prompt = "queued")
          /\ run'[r].job = run[r].job \/ run'[r].prompt = "none"
      BY <1>0, <1>11, FinishesOne
    <3>2. r \in Owed(j)' => r \in Owed(j)
      BY <3>1 DEF Owed
    <3>. QED  BY <1>0, <1>6, <1>11, <3>2, FinishesOne DEF TaskFinishes
  <2>2. CASE row'[j] = row[j]
    BY <1>4, <2>1, <2>2
  <2>3. CASE row'[j] # row[j]
    <3>1. /\ j = run[r].job /\ Exists(j) /\ run[r].task \in {"ok", "err"}
          /\ row'[j] = Finished(j, run[r].task, run[r].attempt)
      BY <1>0, <1>11, <2>3, FinishesOne
    <3>2. row[j].state = "running"
      BY <1>0, <3>1, NoTaskReopened DEF Exists, RunStates
    <3>3. CASE run[r].task = "ok"
      <4>1. row'[j].state = "completed"
        BY <1>0, <3>1, <3>3 DEF Finished
      <4>. QED  BY <1>3, <2>1, <4>1
    <3>4. CASE run[r].task = "err"
      <4>1. row'[j] = [row[j] EXCEPT !.state = IF run[r].attempt <= MaxRetries THEN "scheduled"
                                               ELSE "failed",
                                     !.due = run[r].attempt > MaxRetries]
        BY <3>1, <3>4 DEF Finished
      <4>2. row'[j].attempts = row[j].attempts
        BY <1>0, <4>1 DEF Rows
      <4>. QED  BY <1>0, <1>3, <2>1, <3>2, <4>2
    <3>. QED  BY <3>1, <3>3, <3>4
  <2>. QED  BY <2>2, <2>3
<1>12. ASSUME NEW p \in Processes, WorkerStarts(p) PROVE RunsCounted(j)'
  <2> DEFINE h == Head(channel[p])
  <2>1. /\ channel[p] \in Seq(Runs) /\ channel[p] # <<>> /\ UNCHANGED row
        /\ run' = [run EXCEPT ![h].prompt = "running"]
        /\ ran' = [ran EXCEPT ![run[h].job] = ran[run[h].job] + 1]
    BY <1>12 DEF WorkerStarts, Typed
  <2>2. h \in Runs /\ 1 \in DOMAIN channel[p] /\ h = channel[p][1]
    BY <2>1
  <2>3. run[h].prompt = "queued" /\ run[h].task # "spawned"
    BY <1>0, <2>2 DEF QueueOfPrompts
  <2>4. /\ run'[h].job = run[h].job /\ run'[h].task = run[h].task /\ run'[h].prompt = "running"
        /\ \A s \in Runs \ {h} : run'[s] = run[s]
    BY <1>0, <2>1, <2>2 DEF RunRecords
  <2>5. h \notin Owed(j)'
    BY <2>3, <2>4 DEF Owed
  <2>6. CASE run[h].job # j
    <3>1. ran'[j] = ran[j]
      BY <1>0, <2>1, <2>6
    <3>. QED  BY <1>4, <1>6, <2>1, <2>2, <2>4, <2>5, <3>1
  <2>7. CASE run[h].job = j
    <3>1. ran'[j] = ran[j] + 1
      BY <1>0, <2>1, <2>7
    <3>2. h \in Owed(j) /\ Owed(j)' = Owed(j) \ {h}
      BY <2>2, <2>3, <2>4, <2>5, <2>7 DEF Owed
    <3>3. IsFiniteSet(Owed(j))' /\ Cardinality(Owed(j))' = Cardinality(Owed(j)) - 1
      BY <1>1, <3>2, FS_RemoveElement
    <3>4. Started(j)' = Started(j) /\ Started(j) \in Nat
      BY <1>0, <1>1, <3>1, <3>3 DEF Started
    <3>5. row'[j] = row[j]
      BY <2>1
    <3>. QED  BY <1>0, <1>1, <1>2, <3>3, <3>4, <3>5 DEF RunsCounted
  <2>. QED  BY <2>6, <2>7
<1>13. ASSUME NEW r \in Runs, NEW res \in {"ok", "err"}, Answer(r, res) PROVE RunsCounted(j)'
  <2>1. /\ run[r].prompt = "running" /\ UNCHANGED <<row, ran>>
        /\ \A s \in Runs \ {r} : run'[s] = run[s]
    BY <1>0, <1>13 DEF Answer
  <2>2. run[r].task # "spawned"
    BY <1>0, <2>1 DEF QueueOfPrompts
  <2>3. run'[r].prompt = "none" /\ run'[r].task # "spawned"
    BY <1>0, <1>13, <2>2 DEF Answer, NoRun, RunRecords
  <2>4. r \notin Owed(j)'
    BY <2>3 DEF Owed
  <2>. QED  BY <1>4, <1>6, <2>1, <2>4
<1>14. ASSUME NEW r \in Runs, TaskSends(r) PROVE RunsCounted(j)'
  <2>1. PICK w : run' = [run EXCEPT ![r] = [run[r] EXCEPT !.task = "waiting", !.prompt = "queued",
                                                          !.waited = w]]
    BY <1>14 DEF TaskSends
  <2>2. run'[r].job = run[r].job
    BY <1>0, <2>1 DEF RunRecords
  <2>3. \A s \in Runs \ {r} : run'[s] = run[s]
    BY <1>0, <2>1
  <2>4. r \in Owed(j)' => r \in Owed(j)
    BY <1>14, <2>2 DEF Owed, TaskSends
  <2>. QED  BY <1>4, <1>6, <1>14, <2>3, <2>4 DEF TaskSends, history
<1>15. ASSUME NEW r \in Runs, TaskGivesUp(r) PROVE RunsCounted(j)'
  <2>1. /\ run'[r].job = run[r].job /\ run'[r].prompt = run[r].prompt /\ run'[r].task = "err"
        /\ \A s \in Runs \ {r} : run'[s] = run[s]
    BY <1>0, <1>15 DEF TaskGivesUp, RunRecords
  <2>2. r \in Owed(j)' => r \in Owed(j)
    BY <2>1 DEF Owed
  <2>. QED  BY <1>4, <1>6, <1>15, <2>1, <2>2 DEF TaskGivesUp
<1>16. ASSUME NEW k \in Jobs, TimePasses(k) PROVE RunsCounted(j)'
  <2>1. row'[j].state = row[j].state /\ row'[j].attempts = row[j].attempts
    BY <1>0, <1>16 DEF TimePasses, Rows
  <2>. QED  BY <1>0, <1>3, <1>5, <1>16, <2>1 DEF TimePasses
<1>17. ASSUME NEW p \in Processes, NEW k \in Jobs, AddJob(p, k) PROVE RunsCounted(j)'
  <2>1. CASE j = k
    <3>1. row[j].state = "new" /\ row[j].attempts = 0
      BY <1>17, <2>1 DEF AddJob, AttemptsEnd
    <3>. QED  BY <1>0, <1>3, <1>5, <1>17, <3>1 DEF AddJob, history
  <2>2. CASE j # k
    BY <1>0, <1>4, <1>5, <1>17, <2>2 DEF AddJob, history
  <2>. QED  BY <2>1, <2>2
<1>18. ASSUME NEW c \in Calls, RemoveDeletes(c) PROVE RunsCounted(j)'
  <2>1. UNCHANGED <<run, ran>> /\ (row'[j] = row[j] \/ row'[j].state = "deleted")
    BY <1>0, <1>18, DeletesOne
  <2>. QED  BY <1>3, <1>4, <1>5, <2>1
<1>19. UNCHANGED <<row, run, ran>> => RunsCounted(j)'
  BY <1>4, <1>5
<1>20. CASE UNCHANGED vars
  BY <1>19, <1>20 DEF vars, history
<1>. QED
  BY <1>0, <1>7, <1>8, <1>9, <1>10, <1>11, <1>12, <1>13, <1>14, <1>15, <1>16, <1>17, <1>18, <1>19,
     <1>20, NothingIsAsked
  DEF Next, Tick, Task, Worker, TickLists, TickSkips, TickFails, WorkerAnswers, WorkerFails,
      RemoveChecks, Request, history

LEMMA AloneStep ==
  ASSUME OneProcess, NobodyAsks, IInv, Alone, Counted, [Next]_vars
  PROVE  Alone' /\ Counted'
<1>1. Typed /\ TasksHaveJobs
  BY TypedIsTypeOK DEF IInv
<1>2. NoEdits /\ OffIsIdle /\ ListedAsRead
  BY DEF Alone
<1>3. NoEdits'
  BY <1>1, <1>2, NoEditsStep
<1>4. OffIsIdle'
  BY <1>1, <1>2, OffIsIdleStep
<1>5. ListedAsRead'
  BY <1>1, <1>2, ListedStep
<1>6. Numbered' /\ QueueOfPrompts'
  BY <1>1, NumberedStep, QueueStep
<1>7. ASSUME NEW j \in OneShots PROVE AttemptsEnd(j)' /\ RunsCounted(j)'
  <2>1. AttemptsEnd(j) /\ RunsCounted(j)
    BY DEF Counted
  <2>2. AttemptsEnd(j)'
    BY <1>1, <2>1, AttemptsStep
  <2>. QED  BY <1>1, <2>1, <2>2, CountStep
<1>. QED  BY <1>3, <1>4, <1>5, <1>6, <1>7 DEF Alone, Counted

LEMMA InitAlone == Init => Alone /\ Counted
<1> SUFFICES ASSUME Init PROVE Alone /\ Counted
  OBVIOUS
<1>1. /\ \A c \in Calls : call[c] = NoCall
      /\ \A r \in Runs : run[r] = NoRun
      /\ \A p \in Processes : listed[p] = {} /\ channel[p] = <<>>
      /\ reopened = {}
  BY DEF Init
<1>2. NoCall.op = "none" /\ NoRun.task = "none" /\ NoRun.prompt = "none"
  BY DEF NoCall, NoRun
<1>3. Alone
  BY <1>1, <1>2 DEF Alone, NoEdits, OffIsIdle, ListedAsRead, Numbered, QueueOfPrompts
<1>4. ASSUME NEW j \in OneShots PROVE AttemptsEnd(j) /\ RunsCounted(j)
  <2>1. j \in Jobs /\ row[j] = NotThere /\ ran[j] = 0
    BY JobKinds DEF Init
  <2>2. row[j].state = "new" /\ row[j].attempts = 0
    BY <2>1 DEF NotThere, Created
  <2>3. Owed(j) = {}
    BY <1>1, <1>2 DEF Owed
  <2>4. IsFiniteSet(Owed(j)) /\ Cardinality(Owed(j)) = 0
    BY <2>3, FS_EmptySet
  <2>. QED  BY <2>1, <2>2, <2>4 DEF AttemptsEnd, RunsCounted, Started
<1>. QED  BY <1>3, <1>4 DEF Counted

LEMMA CountedBounds == IInv /\ Counted => OneShotRunsBounded
<1> SUFFICES ASSUME IInv, Counted, NEW j \in OneShots
             PROVE  ran[j] <= 1 + MaxRetries + used["crash"]
  BY DEF OneShotRunsBounded
<1>1. /\ row[j].state \in RunStates \cup {"new", "deleted"} /\ row[j].attempts \in Nat
      /\ ran[j] \in Nat /\ used["crash"] \in Nat /\ MaxRetries \in Nat
  BY JobKinds, ConfigNat, TypedIsTypeOK DEF IInv, Typed, Rows, Events
<1>2. AttemptsEnd(j) /\ RunsCounted(j)
  BY DEF Counted
<1>3. Cardinality(Owed(j)) \in Nat
  BY <1>2, FS_CardinalityType DEF RunsCounted
<1>4. ran[j] <= Started(j) /\ Started(j) \in Nat
  BY <1>1, <1>3 DEF Started
<1>5. row[j].state \notin {"completed", "deleted"} =>
        row[j].attempts <= 1 + MaxRetries + used["crash"]
  BY <1>1, <1>2 DEF AttemptsEnd, RunStates
<1>. QED  BY <1>1, <1>2, <1>4, <1>5 DEF RunsCounted

(* Where nobody runs a job by hand or toggles it, and one process has the  *)
(* database, a one-shot job is run at most once, once per retry and once   *)
(* per crash, whatever statements fail and jobs are removed.               *)
THEOREM RetriesEnd ==
  ASSUME NobodyAsks, OneProcess
  PROVE  Spec => []OneShotRunsBounded
<1>1. Init => Alone /\ Counted
  BY InitAlone
<1>2. IInv /\ Alone /\ Counted /\ [Next]_vars => Alone' /\ Counted'
  BY AloneStep
<1>3. IInv /\ Counted => OneShotRunsBounded
  BY CountedBounds
<1>. QED  BY <1>1, <1>2, <1>3, Inductive, PTL DEF Spec
=============================================================================
