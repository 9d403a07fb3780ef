# Verification of OSAgent

TLA+ models of the parts of OSAgent where several tasks, processes or clients
meet, the TLC runs that check them on small instances, and TLAPS proofs of their
main safety properties for instances of any size. Paths are relative to the
root of the repository; the Rust sources are under `src/`, the web page under
`frontend/`, the desktop launcher under `launcher/`, the updater helper under
`updater/`.

1. [The system](#1-the-system)
2. [The modules](#2-the-modules)
3. [What each run checks](#3-what-each-run-checks)
4. [What is proved](#4-what-is-proved)
5. [Disagreements between the code and its documents](#5-disagreements-between-the-code-and-its-documents)
6. [Behaviours worth knowing](#6-behaviours-worth-knowing)
7. [What is not modelled](#7-what-is-not-modelled)
8. [What remains](#8-what-remains)

Reading conventions: definitions keep the source's names where they can. An
operator whose name has an underscore (`Claim_WrongStatus`) is not the
code: it is the definition that follows it with one plausible mistake, and the
property it is paired with in `PROJECT.json` fails when it takes that
definition's place. Variables marked "history" exist only to state properties.

## 1. The system

OSAgent is a local AI agent: one process with a tokio runtime, an SQLite
database, a web page served over HTTP and a websocket, and optional front ends
(Discord, voice, a desktop launcher). A *session* is one conversation. A *run*
is one turn of a session: the user's message, then provider calls and tool calls
until the model stops asking for tools.

| Component | State it keeps | Operations | Hard behaviour | What makes it correct |
|---|---|---|---|---|
| Queued messages, `src/storage/sqlite.rs` | `queued_messages`: status, position, client id, text | enqueue, claim, delete, promote, edit, reorder | four different position updates; a claim races with edits | the order is a list; one row in flight |
| Session runs, `src/agent/runtime/{lifecycle,queue,turn}.rs` | `active_runs`, cancel flags, `stopped_sessions`, `pending_wakes`, `auto_wake_turns`, and the queue | send, send now, remove, stop, resume, spawn, wake up, a run's entry and exit | no lock covers two of these; stop against start; a crash between save and delete | one run per session; a stop reaches every run; no message lost, none repeated without a failure |
| Transcript, `src/storage/sqlite.rs` | `session_transcript`, the fingerprint cache, `task_status` | load, save the changed tail, truncate, status reset | cache against table; tasks without the lock write whole sessions back | the cache tells the rows; what the lock's holders wrote is kept |
| Subagent tasks, `src/agent/subagent_manager.rs` | `subagent_tasks` rows, handles, result channels | spawn, wait, detach, stop, resume, retry, recover | child, waiter, detach and stop write the same row from old copies | a run that ended says so; its result is told once |
| Goals, `src/agent/goal.rs` | the goal's row with a revision, armed sessions | create, pause, resume, complete, clear, reserve a round | compare-and-set against a stop; a latch in memory next to a durable row | no round without consent or after a stop; rounds within the budget |
| Scheduler, `src/scheduler/` | `scheduled_jobs`, job tasks, permits, the prompt channel | tick, claim, run, finish, retry, run now, toggle, remove, recover | listings age; a prompt outlives its timeout; two processes share the database | a job runs once at a time; due jobs run; retries end |
| Event stream, `src/agent/events.rs`, `src/web/routes/ws.rs`, `frontend/js/` | `sequences`, `session_events`, the broadcast channel, cursors on both sides | emit, subscribe with replay, reconnect | number, store and send are three steps; replay overlaps live; restarts | nothing applied twice, nothing silently skipped |
| Updates, `src/update/`, `launcher/`, `updater/` | an operation gate, an abort handle, staged payloads, two marker files, a backup | check, download, cancel, install, reconcile; hand over, swap, acknowledge, commit, roll back | abort against completion and registration; three programs die at any step | one operation at a time; an installed launcher that was never seen to work keeps its backup, and the helper is on it unless it died |
| Turn pipeline, `src/agent/runtime/turn.rs` | the session in memory | provider calls, tools, retries, compaction | limits, cancellation in an await | it ends; tool calls are answered |
| Workflows, `src/workflow/` | `workflow_runs`, node outputs | execute, approve, cancel | cancel while nodes run | order and branches respected; cancelled stays cancelled |
| Permissions, `src/permission/`, `src/external/` | pending prompts, grants | ask, answer, expire | an answer races the timeout | an operation runs only with its grant |
| File tools, `src/tools/` | the file cache, loop-detection history | read, edit, detect | stale entries | a cache hit is the file |
| MCP, LSP, browser, voice, Discord, GitHub, providers | connections | calls | external services | outside this project |

How they meet: a send handler enqueues a row and spawns a run. The run emits
events, merges subagent results, saves the transcript, deletes its row, and at
its end dispatches the next row, which may be a goal's round that it has just
enqueued. The scheduler enters through `process_message`, around the queue. Stop
cancels the run, pauses the goal, and cancels subagents. A subagent that ends
wakes its parent session when nobody waits for it. The update manager, the
launcher and the helper share only files.

`PROJECT.json` lists every component with its sources and status, and under
`hazards` each place where the code could go wrong in a way a test would hardly
reach, with the properties that would notice.

## 2. The modules

### MessageQueue, QueuedMessages

`MessageQueue` is what the rest of the program is promised: a set of waiting
entries with a strict order (`before`), and at most one claimed entry. Its
actions are Enqueue, Remove, Claim (the first waiting one), Promote (to the
front) and Reorder.

`QueuedMessages` is the table: `status`, `position`, `client`, `content` per row.
An action is one SQL transaction: `enqueue_message` (next position is the maximum
of the pending rows plus one, unless the client id has a row already),
`claim_next_queued_message` (the lowest position, and no second row
while one is dispatching), `delete_queued_message`, `promote_queued_message` (one below the
minimum), `update_session_queued_message_content`,
`reorder_session_queued_messages` (renumbering from 0; ids not named keep their
order at the end). After a crash the claim hands the row that is still dispatching out again and changes nothing in
the table: a stutter here, and SessionRuns models what that second delivery does.
`ImplementsQueue` instantiates the abstract module with
"waiting = pending rows, before = smaller position".

### SessionRuns

One session. A *thread* is one tokio task: a request handler, a spawned
dispatch, a wake-up or a run. Its program counter names the await or the shared
access it is about to make, and each action is one access:

| Actions | Code |
|---|---|
| Send, SendNow, SendNowBusy, SendNowCancel, Remove, Resume | the handlers in `src/web/routes/api.rs`, `src/agent/runtime/queue.rs` |
| Stop, StopCancel, StopRemovesRound, StopReturns | `stop_session`, `cancel_session` |
| SpawnChecksStopped ... SpawnSettles | `spawn_next_queued_message_run`, every early return included |
| WakeYields ... WakeRechecks, TaskFinishes | `notify_background_task_finished`, `wake_for_subagent_results`, `start_wake_turn` |
| RunMerges, RunSaves, RunDequeues, RunIterates, RunErrs, RunTimesOut, RunCompletes, RunFinishes, RunDropsGuard | `process_message_internal` and the task around it |
| Dispatch, DispatchChecksWake | `dispatch_queued_messages`, `check_pending_wake` |
| Crash | the process dies; memory is lost, the database stays |

The queue is the abstract `MessageQueue`, which `QueuedMessages` implements; the
transcript counts how often an entry or a result was saved. Choices made:

- `RunIterates` is the whole of the provider and tool loop; it completes, fails
  or notices the cancellation.
- A fault (`MaxFaults`) is a failing claim, delete, save, mark, listing or
  provider call.
- `RunTimesOut` is the scheduler's 290-second timeout around `process_message`.
  It drops the run's future, so that what follows in the future does not happen.
  It is modelled in the loop, where a run spends its time, and only for runs
  that come from the scheduler.
- `try_start_run` and the renewal of the cancel flag in it are one step: both
  happen under the entry lock of `active_runs`.
- `subagent_auto_resume` is on; with it off there are no wake-ups.
- A goal round is an entry that a run may enqueue at its end and that is valid or
  not when it is claimed; `GoalRounds` has the phases and revisions behind it.

### TranscriptStore

The messages of one session and its `task_status`. `rows` is the table,
`cache` the fingerprints that the last save left in memory, and a *thread* is a
tokio task with the copy of the session it has read. A turn, a truncation and a
compaction take the session's lock (`TakeLock`, `Leave`); a visitor (a task that
sets the persona, the workspace or a status, or that posts a reminder) takes no
lock, reads the session and writes all of it back.

`Read` is `get_session`: the row, then the messages in a second statement
(`ReadSession`, `ReadRows`). A save is the code's four stages, each a step that
others may come between: compare with the cache for the first difference
(`Diverges`), read the number of rows when there is no cache (`ReadsLength`), write
the tail and delete what is beyond it (`Writes`), record the new fingerprints
(`Records`). `CutsRows` and `CutsCache` are the two halves of a truncation. `Edits`
is everything a turn or a compaction does to its copy: append, overwrite one
message, replace a prefix by a summary. `TurnCompletes`, `TurnAborts` and
`TurnEnds` are the three ways a turn leaves, the last by the guard that resets the
status if it still says running.

A message is its body and its fingerprint is the body: colliding hashes are left
out. Four histories say what happened: `kept` (the transcript as the lock's
holders left it), `overlapped` (two writes overlapped), `undone` (an old copy was
written over a newer one) and `revived` (an old "running" was written after its turn).

### SubagentTasks

The subagents of one parent session. `update_subagent_task` writes back a
whole row that was read in another statement, so each such pair is two steps:
`DetachReadsRow` and `DetachWritesRow`, the end of the waiting call, the resume
(`ResumeChecks`, `Registers`, `Launches`). `Runs` is the child with its
retries, its end in the row, its send into the oneshot channel and its clean-up
guard; `StopBegins`, `StopWritesRow`, `StopReturns` are `stop_subagent`, which aborts
the child and writes the outcome itself. `Waits` and `WaitTimesOut` are the tool call
of the parent's turn. `TurnBegins`, `Turn` and `TurnCancelled` are what the parent's turns
contribute: a merge of every unmarked result into the transcript and the
mark `notified_at`. The waiting call marks the newest task of the session, by
`created_at`, which is kept in whole seconds: `tied` are the tasks made in the same second as the one
before them in their session, and `Newest` is the set of those the query may return.
`CrashAndRestart` includes the recovery that turns rows left
running into interrupted ones. `Disturbances` names which of the
requests and failures may happen at all, and `MaxDisturbances` how many.

### GoalRounds

The goal's row (phase, rounds used, budget, revision) is durable; that the goal
is *armed* and the session *stopped* is in memory; rounds are queue rows marked
with the revision they were reserved for. A caller is a request of the web page
or the session's run, whose tool calls and, at its end, round driver use the same
compare-and-set: read a goal, decide, write if the revision is unchanged. A tool
call with an old revision changes nothing and is no step. `RequestBegins` and
`ToolBegins` start an operation (`create`, `edit`, `pause`, `resume`, `clear`,
`complete`, `blocked`, `stop`) and `Step` is its next statement. `Looks`, `Claims`, `Judges`, `Trusts`,
`Rejects`, `Begins` are the dispatch, which validates a round against the goal
before it runs it. `Ends`, `Fails`, `Drops` end a run.

Requests of the web page come one at a time: two at once are in section 6.

### UpdateFiles, UpdateManager, UpdateHandoff, Updates

`UpdateFiles` is what the three programs share: staged payloads,
`prepared_update.json`, `pending_update.json` with its transaction and phase.

`UpdateManager` is the agent's side: checks and downloads run in a spawned task
whose abort handle is registered after the spawn; an install runs in its request; a
cancel aborts the task and keeps the gate locked until it is gone. Each
`update_state` is one step on memory and `update_state.json`. Starting, the agent
reconciles what it finds in the files.

`UpdateHandoff` is the launcher and the helper: a launcher that finds an armed
marker spawns the helper and exits; the helper copies, backs up, swaps, starts the
new launcher, waits for its acknowledgement and commits or rolls back. Both may die at
any step. The next launch sees the files as they were left: a marker that is still
pending is handed over again, one that says "applying" is ignored, and what the new
launcher's setup has acknowledged stays installed. It is the Unix binary swap.

`Updates` composes the two: the launcher starts the agent, which has the
launcher's version, and the launcher's monitor ends the agent before it hands over.

### Scheduler

The rows of `scheduled_jobs` and, per process on the same database: the loop
(`Boot`, `TickLists`, then one of `TickClaims`, `TickSkips`, `TickRejects`,
`TickFails`), the task of each claimed execution (`TaskSends`, `TaskGivesUp`,
`TaskFinishes`), and the single prompt worker (`WorkerStarts`, `WorkerAnswers`,
`WorkerFails`). `RunNowReads`, `ToggleReads`, `RemoveChecks` read a row and keep it; `EditWrites`,
`RemoveDeletes` act later on what was read, as the handlers do. `run_now` and
`toggle_job` write the whole row.

Time is abstract: a row is due or it is not, and `TimePasses` makes it due, at most
`MaxDue` times. An executor gives up only on a prompt that had to wait for another
one, because 290 seconds of work end before 300 seconds of patience do. Claims of
one listing come in any order. Notifications are output and left out. `stop()`
precedes the end of the process and is `Crash`. A row with a schedule the parser
rejects can only come from an earlier version, since creation validates it
(`Unparsable`).

### EventStream

One session and one page. `EmitTakes`, `EmitStores`, `EmitSends` are the three
steps of `EventBus::emit`, which no lock holds together; deltas skip the second.
`RecordsEvent` is the other way into the table, `append_session_event`: a row with
sequence 0 that is not broadcast, whoever stores it (`record_session_event` in a turn, a tool, a subagent).
`Connect`, `Subscribe`, `ReadReplay`, `ReplaySends`, `ReplayEnds`,
`LiveReceives` are the websocket's subscription task with its own cursor;
`Resubscribe` is a subscription on a socket that is already open, from any
sequence up to the page's counter; it repeats what the page has
already applied. `ClientApplies` is the page's counter, which drops that. `Disconnect` is a broken socket (what was
in it is lost: a break before those events were received), `Restart` the death
and start of the server while the page stays open. When the broadcast channel is
full its oldest entry is forgotten, and the receiver goes on.

The history `excused` names the events that may be missing, and why: one that a
later event overtook on its way to the table or the channel, one that fell out
of the channel, and one that got a sequence the page had already seen. What the
properties say is that nothing else is ever missing.

### MC modules, proof modules

The `MC*` modules add symmetry sets (only used where no liveness is checked), state
constraints and the small sets of positions and reorder lists. Each `*Proofs` module extends the
module of its name.

## 3. What each run checks

Each run takes TLC between a few seconds and some minutes with two workers.

| Run | Instance | Properties and what they show |
|---|---|---|
| `queued_messages` | 4 rows, 3 client ids, 2 texts, promotions 3 below 0, reorder lists up to 2 | `ImplementsQueue`: the position arithmetic is a list, with one entry in flight |
| `session_runs_safety` | 3 threads, 2 messages, a round, a task; any three of message, stop, send now, removal, scheduled run, timeout, fault, crash | `GuardHeld`: the guard belongs to exactly the thread between `try_start_run` and the drop, on every path out. `StopHolds`: after a stop no run the queue or a wake-up started goes on, also one being started while the stop came in. `NoMessageLost`; `RepeatsNeedFailures`: each fault or crash repeats a message at most once. `ResultsExactlyOnce`: without failures a result is told at most once, and a marked one exactly once unless the process died |
| `session_runs_live` | 3 threads, 2 messages, a task, fairness | `GuardReleased`, and `RunEndDispatches`: a message that waited during a run is dispatched after it |
| `session_runs_stranded` | 2 threads | expected violation, section 5 |
| `transcript_store` | 3 threads, 2 bodies, truncation at 1 or 2, 2 turns, any three of edit, visit, cut, fault, crash | `CacheTellsTheRows`: unless two writes overlapped, the cache is the table whenever nobody is between the transaction and the record. `HistoryKept`: what the lock's holders wrote is stored unless an old copy came over it. `RunningIsOwned`: "running" without a turn needs a failure, a crash or such a copy |
| `subagent_tasks` | 2 tasks of one child session, the tool and one web request, one retry, any two disturbances of failure, timeout, detach, stop, resume, cancel, crash; 2 turns | `EndedRunsSaySo`, `OutcomesStay`: a run that is over has an outcome and keeps it, except under an older copy. `ToldOnce`, `MarkedWasTold`: an outcome is told once and marked only if it was told, although the waiter marks the newest task of the session (the exceptions, an older copy written back, a task resumed from the web page and one made in the same second as the task before it, are in the properties) |
| `subagent_unwoken` | 1 task whose wait times out | expected violation, section 5 |
| `goal_rounds` | budget 1, blocked after 1, 2 goals, 3 runs, a message, 2 requests one after the other, 2 tool calls, a failure or crash | `FreshConsent`: a round begins only for a goal created or resumed since the process started. `BudgetKept`. `QuietAfterStop`: after a stop that succeeded no round begins until consent is given. `DriverNeverForgets`: at rest, without failures, an active armed goal has its next round in the queue unless it was taken out. `ClosedPhases`: a complete goal stays complete, a blocked one is only completed or reopened by the user, although every caller decides on a copy |
| `updates` | 2 tags, 3 operations, 2 launchers, one launch by the user and one more for each death, 1 death | `GateIsOwned`: the gate is held by an operation that will give it back. `ReadyHasMarker`: a ready update has the marker an install needs (its staged file is not spoken of). `UnprovenHasHelper`: while the installed launcher has never acknowledged its setup, the marker says "applying", the backup of a launcher that has is there, and the helper of that transaction is at work on it unless a process died |
| `scheduler_edits` | 2 processes, a one-shot job and a row the parser rejects, 2 executions, run now, 2 toggles, a removal, a fault | `OneTaskAtATime`: the claim keeps two ticks of two processes apart unless the row was taken out of running by an edit or a start. `CompletedIsDisabled` |
| `scheduler_runs` | a one-shot and a daily job, 3 executions, 2 failing prompts, a late one, a crash, fairness | `OneShotRunsBounded`: one execution per attempt and crash. `DueJobsRun`, `RunningEnds` |
| `event_stream` | 2 emitters, 2 stored events and a delta, a row without a sequence, a channel of 2; any two kinds of a broken socket, a second subscription, a restart, a failing statement, an unreadable maximum, one of each; fairness | `RowSequencesDistinct`: of the emitted rows, across restarts, `AppliedOnce`, `NoneSkipped`, `StoredReachClient` |

Every run of a module also checks its one type invariant (`session_runs_live` and
`scheduler_runs` leave it to the other run of their module).

**Bounds.** Every bound is a constant and named in the module: the number of
times a request, failure, timeout, crash or restart happens. Two of each actor
that can race (senders, dispatches, processes, emitters, launchers), and a third
thread in `SessionRuns` because a dispatch that settles (`SpawnSettles`) while a
request is being served and a run is under way needs three, and in
`TranscriptStore` because a turn, a visitor and the guard's reset task meet, are what
the races in the hazard list take. A channel of two is enough to overflow with three
events. Two messages are enough for one to wait behind the other; a second round or
task only repeats what the first did. Where the events are many the
state constraint, or in `event_stream` the constant `MaxKinds`, bounds how many happen in one behaviour (three in `session_runs_safety` and
`transcript_store`, two in `event_stream`), not which. The hazards found so far take at most
three. The theorems of section 4 do not depend on any of this.

`updates` has the constraint `InTime`, in `MCUpdates`: it follows a behaviour no further
once a step has overtaken the registration of an abort handle (section 6), where the gate is lost and
with it the bound on the operations. `GateIsOwned` excepts that case, and the
proofs have no constraint.

**Fairness.** `SessionRuns`: weak fairness per thread. Tokio polls a task that
can go on, and every await on the modelled paths ends: provider calls have
timeouts, the tool loop has an iteration limit, database calls a busy timeout.
Requests, faults and crashes are never fair. `Scheduler`: weak fairness of the
loop (a one-second interval, `src/scheduler/mod.rs:81`), the worker
(290 seconds per prompt) and each task. `EventStream`: an emission that began
goes on, tokio polls the subscription, the page's timer reconnects
after two seconds (`frontend/js/ws.js:229`). The other modules state safety only.

`CHECK_DEADLOCK FALSE` everywhere: with every bounded request used up, an idle
system rests.

## 4. What is proved

TLAPS checks these for any value of the constants. The proofs use only the named assumptions
of the modules: `None` is not one of the other constants' elements, the configured
numbers are naturals, rows are finitely many, one-shot and unparsable
jobs are jobs. Where a theorem assumes more, its statement and the table say so.

| Module | Theorem | Meaning |
|---|---|---|
| QueuedMessagesProofs | `TypeCorrect`, `PositionsDistinct`, `OneDispatching` | types; positions never collide, however long the sequence of operations; one row in flight |
| | `Refinement` | the table implements `MessageQueue` |
| SessionRunsProofs | `TypeCorrect`, `GuardIsExclusive` | types; the guard has exactly one owner |
| | `StopReachesEveryRun` | `StopHolds` |
| | `MessagesSurviveCrashes` | `NoMessageLost` |
| | `ResultsDelivered` | `ResultsExactlyOnce` |
| | `RepeatsAreBounded` | `RepeatsNeedFailures` |
| TranscriptStoreProofs | `TypeCorrect`, `CacheCorrect`, `HistoryIsKept`, `RunningCorrect` | `TypeOK`, `CacheTellsTheRows`, `HistoryKept`, `RunningIsOwned` |
| SubagentTasksProofs | `TypeCorrect`, `EndsAreRecorded`, `OutcomesAreKept`, `MarksAreTold` | `TypeOK`, `EndedRunsSaySo`, `OutcomesStay`, `MarkedWasTold` |
| | `TellsOnce` | `ToldOnce` |
| UpdatesProofs | `TypeCorrect`, `UnprovenCorrect`, `GateCorrect`, `ReadyCorrect` | `TypeOK`, `UnprovenHasHelper`, `GateIsOwned`, `ReadyHasMarker` |
| SchedulerProofs | `TypeCorrect`, `NoSecondTask`, `CompletedJobsAreDisabled` | `TypeOK`, `OneTaskAtATime`, `CompletedIsDisabled` |
| | `RetriesEnd` (no run by hand, no toggle, one process) | `OneShotRunsBounded` |
| GoalRoundsProofs | `TypeCorrect` | `TypeOK` |
| | `GoalsStayClosed`, `RoundsNeedConsent`, `StopQuiets`, `RoundsWithinBudget`, `DriverRemembers` (one request of the page at a time) | `ClosedPhases`, `FreshConsent`, `QuietAfterStop`, `BudgetKept`, `DriverNeverForgets` |
| EventStreamProofs | `TypeCorrect`, `EventsAppliedOnce`, `StoredSequencesDistinct`, `NothingSkipped` (one server process) | `TypeOK`, `AppliedOnce`, `RowSequencesDistinct` (of the emitted rows), `NoneSkipped` |

*Queue.* The inductive invariant is `TypeOK` with the three row invariants.
Reorder numbers a row by how many rows come before it (`RanksOrdered`): the
comparison is a strict order because positions were distinct before, so the ranks are.
The refinement maps each transaction to the abstract action of the same name;
Enqueue of a known client id and an edit are stutters.

*Session runs.* `GuardHeld` is inductive with `TypeOK` and `EntryCarried` (a run of
a queued message knows its entry). `StopHolds` is not: a dispatch that passed the
second look at `stopped_sessions` is not a run yet, but will be one. `StopReaches`
counts it as one. The step that matters is `try_start_run`, which clears the
cancel flag: by `GuardHeld` no run exists then that a stop could have
cancelled, and the new one looks at `stopped_sessions` again before it claims. A
wake-up does the same. `NoMessageLost` needs `Delivering`: a run about to save
carries its entry, a run about to delete its row has saved it. It and
`ResultsExactlyOnce` speak of behaviours in which no operation failed, and
are proved for any number of crashes, stops and timeouts. `RepeatsNeedFailures` needs
`Spared`: whatever can still be saved was saved at most as often as there were
failures, and once less when the first save of its run has failed; only the row of
the run between its first save and the delete is ahead of that, and by `GuardHeld` nobody
claims it then.

*Transcript.* The invariant has four parts beside the types. `Forms` says what a
place in the code implies: who is past the lock has it, the one turn is the active
one. `Cached`, unless two writes overlapped: one task saves at a time, the table has no
hole, what a saver computed came from the cache, and the cache is the
table when nobody is between transaction and record. `Traced`: the table is `kept`
unless it was undone, and a visitor's copy that is not old differs from the
table by at most the message it posts. `Owned`: "running" is the active turn's, or a
status task that will still reset it, or one of the failures. Two lemmas carry the data: a
table without holes loads as itself, and the rewrite from the first
difference on leaves exactly the copy.

*Subagents.* `Refers`: what a call, a handle, a detach or a stop refers to was launched.
`Ended`: the row of a run that is over or being aborted is terminal, and a terminal
row under a child that still runs was written by the stop that aborts it. `Marked`: a
mark in a row, or in any copy of a row someone may still write back, is on an outcome
that was told; the waiter's task is among the newest of its session but for those the web
page launched, and whoever else is among them is tied with what came after it. `ToldOnce` needs `Counted`: the tool has no call while a turn merges, so
no outcome is told from two places at once; what a call waits for and what a turn has listed
was not told before; what was told is marked, and a mark goes away only under an older copy.
The waiter finds its own task as the newest of its session unless the web page launched
one there since or its task was made in the same second as an older one, which are the
exceptions of the property.

*Updates.* `UnprovenHasHelper` follows the helper's program counter: from the backup to
the commit the marker names a transaction whose backup is there, no install
can arm another over a marker that is not a failed one, and a helper that swapped leaves
this stretch only by the acknowledgement, by restoring the backup, or by dying, which counts as a
death. It does not say that a launcher whose helper died is ever rolled back: it is not
(section 6). `ReadyHasMarker` is about the marker of the payload, not about the staged file, which
a helper that ends late may remove under a second download of its tag. `GateIsOwned` needs that the
operation whose handle is registered is the gate's holder, unless a step overtook
the registration (`late`).

*Scheduler.* `OneTaskAtATime` needs `TasksHoldRows`: while a job has a task its row
says running (or the row is gone), unless it is one of the reopened, so a claim,
which needs a scheduled row, finds no task. `CompletedIsDisabled` holds because the one write that
completes a row disables it, and because a request that writes back the whole row it
read either disables it or makes it scheduled, however stale that row is.
`OneShotRunsBounded` is proved for jobs that nobody runs by hand or toggles (`NobodyAsks`) and
one process (`OneProcess`), as its run assumes, with any crashes, failing statements and
removals; a request would write an old count of attempts over the row, a second process
would reopen it under a task. Then a listing is as the row says and a task decides by the
attempt its claim counted (`Alone`), the row is scheduled again only while retries are left or after
a crash (`AttemptsEnd`), and the prompts started and those an execution still owes, each of
which is in the channel once, are no more than the attempts the row has counted (`RunsCounted`).

*Goals.* The types hold for any requests. The other five theorems are about a page that sends one
request at a time (`OneRequest`), next to the run, its tools, the user's messages and
crashes: with two requests `FreshConsent` is false (section 6). The invariant of four of them has four parts. `Copies`: a
request's copy is of the goal that is there, and is the goal itself when the revisions
agree; the run's copy may be of a goal that was replaced since, but then that goal
was complete. So whoever passes the compare-and-set writes what was allowed on the goal as it is,
which is `ClosedPhases`, except that the run may still edit or complete again. `Consent`:
whatever arms the goal has granted it, and while a round is between its two checks
(the goal, then the latch) no request can put a goal in the place of the one that
was read. `Quiet`: while a stop is under way
the session is stopped and its run, if any, cancelled, from the stop's write on the
goal is inactive, and a round passes its checks only for an active goal. `Budget`: a row
of a round is in the queue, claimed, with the run, with a driver or begun; the rows
taken since the budget was set have numbers of their own, up to the goal's rounds, and a driver
raises those only after it weighed the goal as it is. An injection into the interval
of the numbers gives the bound on the rounds begun.
`DriverNeverForgets` needs two parts more. `Coming` says what still brings the next round
of an active, armed goal while nothing failed: the session is stopped, the round is queued or
was cut, a message waits for a dispatch that is due or a run that comes to it, a run is
about to drive, a stop is about to pause the goal, or a request or the run is on its way through
the driver with the goal as it is. A run that a stop cancelled drives nothing, so `Cancels` says what
such a run leaves: before its turn, that stop still under way on the goal as it is; in its
turn, the session stopped, or the message that has resumed it.

*Event stream.* The counter is at least every sequence in the table and in flight as long as
the maximum could be read, which gives distinct rows among those that were emitted
(`SequencedRows`); the rows with sequence 0 share theirs, and no replay selects them. All of it
is about one server process. An event has one sequence
and what the page applied is not beyond its cursor, which gives `AppliedOnce`.
`NoneSkipped` is stated for behaviours in which the maximum could be read. `Following` says where an owed event still is: beyond the cursor and, once
the replay has been read, in the replay, in the channel or about to be sent, and
what precedes it on its way is not beyond it.

tlapm 1.4.5 mishandles an `EXCEPT` with several paths into one entry in its
SMT translation; the models write several fields of one entry as
`[@ EXCEPT !.a = .., !.b = ..]`, which it handles.

Only model-checked: what needs fairness (`GuardReleased`, `RunEndDispatches`,
`DueJobsRun`, `RunningEnds`, `StoredReachClient`), which the prover does not
reach.

## 5. Disagreements between the code and its documents

Each of these is a run that TLC finds violated, with its counterexample:

- **A stranded message** (`session_runs_stranded`,
  `src/agent/runtime/lifecycle.rs:420`). A dispatch
  finds the queue empty and has not yet dropped the guard. A message is enqueued, its own
  dispatch finds the session busy and leaves it to the guard's holder, who
  drops the guard and returns. The comment at `lifecycle.rs:461` promises the
  opposite.
- **A parent that is not woken** (`subagent_unwoken`,
  `src/agent/subagent_manager.rs:1757`). The child's end
  succeeds in sending its outcome into the channel, so it takes the parent for waiting; the
  wait has just timed out and drops the receiver. Nobody wakes the parent, against the comment at
  `subagent_manager.rs:1739`.

## 6. Behaviours worth knowing

The models have more behaviour that a reader of the code may not expect, and that no
property holds against it. They are what the exceptions in the properties stand for.

*Runs.* The 290-second timeout of a scheduled run drops the dispatch at its end too
(`scheduler_facade.rs:117`). A crash between the mark `notified_at` and the save of the
transcript loses a result (`lifecycle.rs:298`). A first save that fails is only logged
and the queue row deleted all the same (`turn.rs:216`). A result
that comes between the merge and the deletion of the row wakes nobody
(`lifecycle.rs:148`). Two wake-ups may exceed the cap by one turn
(`lifecycle.rs:182`). Send-now may cancel the run of the message it promoted
(`queue.rs:54`, `:58`).

*Subagents.* The newest task of a session is found by `created_at`, which is stored in whole seconds
(`sqlite.rs:3122`, `:3479`). When a session is resumed within the second of its last task,
the query may return the older one: its row then gets the mark, whether it was told or not, and
the new task's outcome is told again by the parent's next merge. The same follows when the web page resumes the session under a wait. A
row written back from an old copy (`subagent_manager.rs:1594`) may bring "running", or an unset mark,
back; a stop replaces an outcome that came while it was under way (`:1849`).

*Transcript.* A visitor's save during a truncation can leave a hole that the
cache claims is filled, until the process starts again. A stale copy undoes saved
messages, and can leave "running" on a session without a turn, which nothing resets at
start. The status guard of one turn can mark the next one idle and rewind its
messages until its next save. A reminder posted while a turn runs
(`scheduler_facade.rs:128`) is overwritten by the turn's next save. Truncation looks at
`active_runs` before it waits for the lock (`sessions.rs:89`), so it may cut a turn that
began after the request.

*Goals.* With two requests of the web page at once a clear and a create can lend the new
goal's latch to an old round, since revisions start at 1 again. A stop that loses
the race for the revision returns an error and leaves the goal active. A round
taken from the queue before a resume may begin after it.

*Updates.* The comment at `manager.rs:289` ("only one coordinator operation exists") does not hold when a cancel, or the end of
the task, comes before `register_task`; the history `late` and the action
`CancelFindsNoTask` are that case. When the helper dies between the swap and the commit,
nobody takes up its backup: the launcher acts only on markers that are pending and armed
(`launcher/src/main.rs:4425`, `:4575`), and the agent refuses every install over the marker as
"already armed" (`manager.rs:772`). The launcher in place stays, whether it works or not.

*Scheduler.* A prompt that waits behind another outlives its task's 300 seconds and runs next
to its retry (`executor.rs:93`). Toggling a running job twice makes it claimable while its task
is alive (`src/scheduler/mod.rs:321`). A second process that starts recovers the
jobs the first one is running (`mod.rs:62`). A stale toggle writes running over
completed (`mod.rs:330`). The advice to pause a running job before deleting it
(`mod.rs:276`) does not help, since a paused row still says running.

*Event stream.* Deltas take sequences and are not stored. After a restart the session counts on
from the last stored event (`events.rs:1270`), and a page that stayed open drops the new events until its
counter is passed. The rows that `record_session_event` stores (`runtime/mod.rs:1004`) have sequence 0: a
page never gets them by a replay, and the full list, ordered by sequence, has them before
everything else (`sqlite.rs:2329`).

*Outside the modules.* `cancel_run` of a workflow writes "cancelled" and the run, which goes
on, writes its own end over it (`src/workflow/executor.rs:1272`); the file cache trusts
size and second of modification (`file_cache.rs:126`).

## 7. What is not modelled

External services (providers, MCP and language servers, browsers, Discord, GitHub,
speech) and files are outside. Rendering, prompts, token estimates, parsing and
configuration have no concurrent state. `PROJECT.json` gives the reason for each
component. These make up most of the code, so that the modules stand for a small
share of its lines: the share with state that several actors change.

Within the modelled components:

- *Runs*: the tool loop is one step; the question registry, where a tool call is
  raced with cancellation and only a registration can be left behind.
- *Transcript*: a turn dropped while it waits for the lock, `delete_session` (which leaves
  the cache entry), hash collisions, unreadable rows.
- *Subagents*: the depth limit, what a child does, the cap on automatic turns (in
  SessionRuns).
- *Goals*: two requests of the web page at once; the text of objectives.
- *Updates*: state writes that fail, cancel requests whose client goes away, two helpers
  for one marker, a restore whose rename fails, the Windows installer,
  `wait_for_pid`, a staged file half copied when its process died, what `spawn_blocking` (hashing,
  unpacking) goes on with after an abort. At first nothing is
  staged, or one download is prepared.
- *Event stream*: a second server process on the database, which would number a session's
  events from a counter of its own, so that rows could share a sequence; an abort of a
  subscription's task, which lands at its next await only; the SSE route, which the websocket replaced; several pages of one
  session, which do not share a cursor; the page's filter of events while a stop is pending.

Hazards of `PROJECT.json` without a property: the queue looked at by a wake-up
(`lifecycle.rs:147`, above), the launcher's validation of a payload (`installer.rs:1185`), and permission prompts
(`permissions.rs:414`); each has its note there.

## 8. What remains

1. A composition of `TranscriptStore` with `SessionRuns`, so that the transcript's
   counts become rows; today they meet in what both say of `update_session`.
2. The workflow engine: execution in topological order with branch activity, approval, cancel.
3. Permission prompts and their timeout race.
4. The file cache and the loop detector as pure operators against reference definitions.
5. Several pages of one session.
