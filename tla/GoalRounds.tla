----------------------------- MODULE GoalRounds -----------------------------
(***************************************************************************)
(* The goal of one session (agent/goal.rs, runtime/goals.rs) and the rounds*)
(* it makes the session run by itself (maybe_queue_goal_round in turn.rs,  *)
(* the dispatch in lifecycle.rs). The row of the goal is durable and       *)
(* guarded by its revision; that the goal is armed is kept in memory; the  *)
(* rounds are rows of the message queue, see SessionRuns for the rest of   *)
(* its life.                                                               *)
(*                                                                         *)
(* A caller is a request of the web page or the session's run, whose calls *)
(* are the goal tools and, at its end, the round driver. Each of its steps *)
(* is one statement on the database or one access of a map in memory. A    *)
(* tool call with a revision that is not the current one changes nothing   *)
(* and is no step. Operators whose name has a _ are not the code: each is  *)
(* the definition that follows it with one plausible mistake.              *)
(***************************************************************************)
EXTENDS Naturals, FiniteSets, Sequences, SequencesExt

CONSTANTS
  Requests,       (* requests of the web page under way at once: a bound    *)
  Run,            (* the caller that is the session's run                   *)
  Budgets,        (* max_rounds of a goal; 0 is no limit                    *)
  BlockedAfter,   (* blocked_after_rounds                                   *)
  MaxGoals, MaxRuns, MaxMessages, MaxRequests, MaxCalls, MaxFaults,
                  (* bounds: how many goals, runs, messages of users, goal  *)
                  (* requests, calls of goal tools, and failed runs or      *)
                  (* crashes                                                *)
  None

ASSUME RunIsNoRequest == Run \notin Requests
ASSUME BudgetsNat == Budgets \subseteq Nat
ASSUME MaxGoalsNat == MaxGoals \in Nat

VARIABLES
  goal,           (* the row of goals, or None                              *)
  waiting,        (* pending rows of queued_messages, in order              *)
  claimed,        (* the row a run has claimed, or None                     *)
  armed, stopped, (* the session is in GoalStore.armed, in stopped_sessions *)
  due,            (* spawn_next_queued_message_run is about to be called    *)
  run,            (* the holder of the session's RunGuard                   *)
  call,           (* per caller: what it does and how far it is             *)
  granted,        (* history: goals created or resumed since the process    *)
                  (* started                                                *)
  begun,          (* history: rounds begun                                  *)
  renewed,        (* history: the revision that set the budget              *)
  quiet,          (* history: "asked" by a stop that began, "held" once it  *)
                  (* succeeded; "no" from a create or a resume on, and when *)
                  (* a message is sent while the stop is under way          *)
  cut,            (* history: rounds a stop, a pause or a clear deleted     *)
  used            (* how much of each bound is used                         *)

queue == <<waiting, claimed>>
memory == <<armed, stopped, due, run, call>>
history == <<granted, begun, renewed, quiet, cut>>
vars == <<goal, queue, memory, history, used>>

Callers == Requests \cup {Run}
Phases == {"active", "paused", "blocked", "complete"}
GoalIds == 1..MaxGoals
Goals == [id : GoalIds, revision : Nat, phase : Phases, rounds : Nat, max : Budgets]
Rows == [goal : GoalIds, revision : Nat, round : Nat]

Message == [goal |-> None, revision |-> 0, round |-> 0]   (* of a user *)
ASSUME NoneIsNothingElse == None \notin Nat \cup Goals \cup Rows \cup {Message}

IsRound(r) == r \notin {None, Message}
WaitingRounds == {r \in Range(waiting) : IsRound(r)}

NoCall == [at |-> "none", does |-> "none", max |-> 0, copy |-> None, listed |-> {},
           round |-> None]
NoRun == [at |-> "none", row |-> None, ok |-> TRUE, cancelled |-> FALSE]
Busy == run.at # "none"

Goto(c, p) == call' = [call EXCEPT ![c].at = p]
Returns(c) == call' = [call EXCEPT ![c] = NoCall]
At(c, p) == call[c].at = p

Count(what, limit) ==
  /\ used[what] < limit
  /\ used' = [used EXCEPT ![what] = @ + 1]

Init ==
  /\ goal = None /\ waiting = <<>> /\ claimed = None
  /\ armed = FALSE /\ stopped = FALSE /\ due = FALSE /\ run = NoRun
  /\ call = [c \in Callers |-> NoCall]
  /\ granted = {} /\ begun = {} /\ renewed = 0 /\ quiet = "no" /\ cut = {}
  /\ used = [b \in {"goals", "runs", "messages", "requests", "calls", "faults"} |-> 0]

-----------------------------------------------------------------------------
(* Beginning of a request and of a tool call *)

(* control_session_goal refuses while the session is busy, except a pause; *)
(* DELETE and stop do not ask. stop_session first sets stopped and cancels *)
(* the run: a run that starts in between looks at stopped again.           *)
FirstStep == [create |-> "reads", resume |-> "lists", pause |-> "reads",
              clear |-> "lists", stop |-> "reads"]

RequestBegins_KeepsRun(w, action, max) ==
  /\ At(w, "none")
  /\ Count("requests", MaxRequests)
  /\ action \in {"create", "resume"} => ~Busy
  /\ call' = [call EXCEPT ![w] = [NoCall EXCEPT !.at = FirstStep[action],
                                                !.does = action, !.max = max]]
  /\ IF action = "stop"
     THEN /\ stopped' = TRUE
          /\ UNCHANGED run
          /\ quiet' = IF quiet = "held" THEN quiet ELSE "asked"
     ELSE UNCHANGED <<stopped, run, quiet>>
  /\ UNCHANGED <<goal, queue, armed, due, granted, begun, renewed, cut>>

RequestBegins(w, action, max) ==
  /\ At(w, "none")
  /\ Count("requests", MaxRequests)
  /\ action \in {"create", "resume"} => ~Busy
  /\ call' = [call EXCEPT ![w] = [NoCall EXCEPT !.at = FirstStep[action],
                                                !.does = action, !.max = max]]
  /\ IF action = "stop"
     THEN /\ stopped' = TRUE
          /\ run' = [run EXCEPT !.cancelled = Busy]
          /\ quiet' = IF quiet = "held" THEN quiet ELSE "asked"
     ELSE UNCHANGED <<stopped, run, quiet>>
  /\ UNCHANGED <<goal, queue, armed, due, granted, begun, renewed, cut>>

(* create_goal and update_goal, called by the model.                       *)
ToolBegins(action, max) ==
  /\ run.at = "works" /\ At(Run, "none")
  /\ Count("calls", MaxCalls)
  /\ action # "create" => goal # None
  /\ call' = [call EXCEPT ![Run] =
       [NoCall EXCEPT !.at = IF action = "create" THEN "inserts" ELSE "checks",
                      !.does = action, !.max = max, !.copy = goal]]
  /\ UNCHANGED <<goal, queue, armed, stopped, due, run, history>>

-----------------------------------------------------------------------------
(* GoalStore *)

(* get, before the decision the caller takes on what it read.              *)
Reads(c) ==
  /\ At(c, "reads")
  /\ LET phase == IF goal = None THEN "none" ELSE goal.phase
         next == CASE call[c].does = "create" -> IF phase = "complete" THEN "lists"
                                                 ELSE "inserts"
                   [] call[c].does = "resume" -> IF phase \in {"none", "complete"}
                                                 THEN "none" ELSE "writes"
                   [] call[c].does = "pause" -> IF phase = "none" THEN "none" ELSE "checks"
                   [] call[c].does = "stop" -> IF phase = "active" THEN "checks"
                                               ELSE "lists"
     IN call' = [call EXCEPT ![c] = IF next = "none" THEN NoCall
                                    ELSE [@ EXCEPT !.at = next, !.copy = goal]]
  /\ UNCHANGED <<goal, queue, armed, stopped, due, run, history, used>>

(* validate_transition, and the threshold below which blocked is refused.  *)
Allowed(action) ==
  CASE action \in {"pause", "stop"} -> goal.phase \in {"active", "paused"}
    [] action = "resume" -> goal.phase \in {"active", "paused"}
    [] action = "blocked" -> goal.phase # "complete" /\ goal.rounds >= BlockedAfter
    [] OTHER -> TRUE

(* apply_action reads the goal itself: its revision must be the caller's.  *)
Checks(c) ==
  /\ At(c, "checks")
  /\ IF goal # None /\ goal.revision = call[c].copy.revision /\ Allowed(call[c].does)
     THEN call' = [call EXCEPT ![c] = [@ EXCEPT !.at = "writes",
                                                !.copy = goal]]
     ELSE Returns(c)
  /\ UNCHANGED <<goal, queue, armed, stopped, due, run, history, used>>

(* update_goal_cas compares the revision alone, and raises it.             *)
Matches_Always(c) == goal # None
Matches(c) == goal # None /\ goal.revision = call[c].copy.revision

(* Only the user's resume renews the budget.                               *)
Changed(c) ==
  LET next == [goal EXCEPT !.revision = @ + 1] IN
  CASE call[c].does \in {"pause", "stop"} -> [next EXCEPT !.phase = "paused"]
    [] call[c].does = "complete" -> [next EXCEPT !.phase = "complete"]
    [] call[c].does = "blocked" -> [next EXCEPT !.phase = "blocked"]
    [] call[c].does = "edit" -> next
    [] call[c].does = "resume" ->
         IF c = Run THEN [next EXCEPT !.phase = "active"]
         ELSE [next EXCEPT !.phase = "active", !.rounds = 0, !.max = call[c].max]

Writes(c) ==
  /\ At(c, "writes")
  /\ IF Matches(c)
     THEN /\ goal' = Changed(c)
          /\ IF call[c].does = "edit" THEN Returns(c) ELSE Goto(c, "latches")
          /\ IF call[c].does = "resume"
             THEN /\ granted' = granted \cup {goal.id} /\ quiet' = "no"
                  /\ UNCHANGED <<begun, cut>>
                  /\ renewed' = IF c = Run THEN renewed ELSE goal'.revision
             ELSE UNCHANGED history
     ELSE Returns(c) /\ UNCHANGED <<goal, history>>
  /\ UNCHANGED <<queue, armed, stopped, due, run, used>>

(* create_goal_row inserts or ignores.                                     *)
Inserts(c) ==
  /\ At(c, "inserts")
  /\ IF goal = None
     THEN /\ Count("goals", MaxGoals)
          /\ goal' = [id |-> used.goals + 1, revision |-> 1, phase |-> "active",
                      rounds |-> 0, max |-> call[c].max]
          /\ Goto(c, "latches")
          /\ granted' = granted \cup {used.goals + 1} /\ renewed' = 1 /\ quiet' = "no"
          /\ UNCHANGED <<begun, cut>>
     ELSE Returns(c) /\ UNCHANGED <<goal, history, used>>
  /\ UNCHANGED <<queue, armed, stopped, due, run>>

(* arm or disarm, after the row is written.                                *)
Latches(c) ==
  /\ At(c, "latches")
  /\ armed' = (call[c].does \in {"create", "resume"})
  /\ IF c = Run THEN Returns(c)
     ELSE Goto(c, IF armed' THEN "resumes" ELSE "lists")
  /\ UNCHANGED <<goal, queue, stopped, due, run, history, used>>

(* clear disarms and then deletes the row; create goes on to the insert.   *)
Disarms(c) ==
  /\ At(c, "disarms")
  /\ armed' = FALSE
  /\ Goto(c, "erases")
  /\ UNCHANGED <<goal, queue, stopped, due, run, history, used>>

Erases(c) ==
  /\ At(c, "erases")
  /\ goal' = None
  /\ IF call[c].does = "create" THEN Goto(c, "inserts") ELSE Returns(c)
  /\ UNCHANGED <<queue, armed, stopped, due, run, history, used>>

-----------------------------------------------------------------------------
(* remove_pending_goal_rounds: the pending rounds are listed, and deleted  *)
(* one by one whatever their status is by then.                            *)

Lists(c) ==
  /\ At(c, "lists")
  /\ call' = [call EXCEPT ![c] = [@ EXCEPT !.at = "deletes",
                                           !.listed = WaitingRounds]]
  /\ UNCHANGED <<goal, queue, armed, stopped, due, run, history, used>>

Deletes(c) ==
  /\ At(c, "deletes")
  /\ \E r \in call[c].listed :
       /\ IF r \in Range(waiting)
          THEN \E i \in DOMAIN waiting :
                 waiting[i] = r /\ waiting' = RemoveAt(waiting, i)
          ELSE UNCHANGED waiting
       /\ claimed' = IF claimed = r THEN None ELSE claimed
       /\ call' = [call EXCEPT ![c].listed = @ \ {r}]
       /\ cut' = IF call[c].does \in {"stop", "pause", "clear"} THEN cut \cup {r} ELSE cut
  /\ UNCHANGED <<goal, armed, stopped, due, run, granted, begun, renewed,
                 quiet, used>>

(* A stop that gets here has succeeded.                                    *)
Deleted(c) ==
  /\ At(c, "deletes") /\ call[c].listed = {}
  /\ CASE call[c].does = "resume" -> Goto(c, "reads")
       [] call[c].does \in {"create", "clear"} -> Goto(c, "disarms")
       [] OTHER -> Returns(c)
  /\ quiet' = IF call[c].does = "stop" /\ quiet = "asked" THEN "held" ELSE quiet
  /\ UNCHANGED <<goal, queue, armed, stopped, due, run, granted, begun,
                 renewed, cut, used>>

(* resume_session_queue, then the round driver.                            *)
Resumes(c) ==
  /\ At(c, "resumes")
  /\ stopped' = FALSE
  /\ Goto(c, "reserves")
  /\ UNCHANGED <<goal, queue, armed, due, run, history, used>>

-----------------------------------------------------------------------------
(* maybe_queue_goal_round, at the end of a run and of a create or resume   *)

(* After the driver a request dispatches; a run drops its guard.           *)
Driven_KeepsRun(c) == Returns(c) /\ due' = TRUE /\ UNCHANGED run

Driven(c) ==
  /\ Returns(c)
  /\ IF c = Run THEN run' = [run EXCEPT !.at = "drops"] /\ UNCHANGED due
                ELSE due' = TRUE /\ UNCHANGED run

ReserveReads(c) ==
  /\ At(c, "reserves")
  /\ IF goal = None THEN Driven(c)
     ELSE /\ call' = [call EXCEPT ![c] = [@ EXCEPT !.at = "weighs",
                                                   !.copy = goal]]
          /\ UNCHANGED <<run, due>>
  /\ UNCHANGED <<goal, queue, armed, stopped, history, used>>

Exhausted_OneMore(g) == g.max > 0 /\ g.rounds > g.max
Exhausted(g) == g.max > 0 /\ g.rounds >= g.max

ReserveWeighs(c) ==
  /\ At(c, "weighs")
  /\ IF armed /\ call[c].copy.phase = "active"
     THEN /\ Goto(c, IF Exhausted(call[c].copy) THEN "exhausts" ELSE "raises")
          /\ UNCHANGED <<run, due>>
     ELSE Driven(c)
  /\ UNCHANGED <<goal, queue, armed, stopped, history, used>>

(* The budget is used up: the goal is paused, and then disarmed. A goal    *)
(* that has changed since is an error, which ends a request there.         *)
ReserveExhausts(c) ==
  /\ At(c, "exhausts")
  /\ IF Matches(c)
     THEN /\ goal' = [goal EXCEPT !.revision = @ + 1, !.phase = "paused"]
          /\ Goto(c, "retires") /\ UNCHANGED <<run, due>>
     ELSE /\ IF c = Run THEN Driven(c) ELSE Returns(c) /\ UNCHANGED <<run,
                                                                      due>>
          /\ UNCHANGED goal
  /\ UNCHANGED <<queue, armed, stopped, history, used>>

ReserveRetires(c) ==
  /\ At(c, "retires")
  /\ armed' = FALSE
  /\ Driven(c)
  /\ UNCHANGED <<goal, queue, stopped, history, used>>

(* The next round is taken in the transaction that raises the revision.    *)
ReserveRaises(c) ==
  /\ At(c, "raises")
  /\ IF Matches(c)
     THEN LET next == [goal EXCEPT !.revision = @ + 1, !.rounds = @ + 1] IN
          /\ goal' = next
          /\ call' = [call EXCEPT ![c] = [@ EXCEPT !.at = "enqueues",
                                                   !.round = [goal |-> next.id, revision |-> next.revision,
                                                             round |-> next.rounds]]]
          /\ UNCHANGED <<run, due>>
     ELSE Driven(c) /\ UNCHANGED goal
  /\ UNCHANGED <<queue, armed, stopped, history, used>>

ReserveEnqueues(c) ==
  /\ At(c, "enqueues")
  /\ waiting' = Append(waiting, call[c].round)
  /\ Driven(c)
  /\ UNCHANGED <<goal, claimed, armed, stopped, history, used>>

-----------------------------------------------------------------------------
(* The queue and the run *)

(* A message of the user: enqueued, the queue resumed, a dispatch due.     *)
UserSends ==
  /\ Count("messages", MaxMessages)
  /\ waiting' = Append(waiting, Message)
  /\ stopped' = FALSE /\ due' = TRUE
  /\ quiet' = IF quiet = "asked" THEN "no" ELSE quiet
  /\ UNCHANGED <<goal, claimed, armed, run, call, granted, begun, renewed,
                 cut>>

(* spawn_next_queued_message_run: nothing when stopped or busy.            *)
Spawns ==
  /\ due /\ due' = FALSE
  /\ IF stopped \/ Busy THEN UNCHANGED <<run, used>>
     ELSE Count("runs", MaxRuns) /\ run' = [NoRun EXCEPT !.at = "looks"]
  /\ UNCHANGED <<goal, queue, armed, stopped, call, history>>

(* The loop under the guard: stopped is read again ...                     *)
Looks ==
  /\ run.at = "looks"
  /\ run' = IF stopped THEN NoRun ELSE [run EXCEPT !.at = "claims"]
  /\ UNCHANGED <<goal, queue, armed, stopped, due, call, history, used>>

(* ... the row in flight, or else the first one, is claimed ...            *)
Claims ==
  /\ run.at = "claims"
  /\ IF claimed = None /\ waiting = <<>>
     THEN run' = [run EXCEPT !.at = "empties"] /\ UNCHANGED queue
     ELSE LET r == IF claimed # None THEN claimed ELSE Head(waiting) IN
          /\ claimed' = r
          /\ waiting' = IF claimed # None THEN waiting ELSE Tail(waiting)
          /\ run' = [run EXCEPT !.row = r, !.at = IF IsRound(r) THEN "judges" ELSE "begins"]
  /\ UNCHANGED <<goal, armed, stopped, due, call, history, used>>

(* (an empty queue: the guard is dropped) ...                              *)
Empties ==
  /\ run.at = "empties"
  /\ run' = NoRun
  /\ UNCHANGED <<goal, queue, armed, stopped, due, call, history, used>>

(* ... and a round is taken only when its goal is active and armed: the    *)
(* goal is read, then the latch.                                           *)
Judges ==
  /\ run.at = "judges"
  /\ run' = [run EXCEPT !.at = "trusts",
               !.ok = goal # None /\ goal.phase = "active" /\ goal.id = run.row.goal]
  /\ UNCHANGED <<goal, queue, armed, stopped, due, call, history, used>>

Trusts ==
  /\ run.at = "trusts"
  /\ run' = [run EXCEPT !.at = IF run.ok /\ armed THEN "begins" ELSE "rejects"]
  /\ UNCHANGED <<goal, queue, armed, stopped, due, call, history, used>>

Rejects ==
  /\ run.at = "rejects"
  /\ claimed' = IF claimed = run.row THEN None ELSE claimed
  /\ run' = [run EXCEPT !.at = "looks", !.row = None]
  /\ UNCHANGED <<goal, waiting, armed, stopped, due, call, history, used>>

(* The turn saves the message and deletes its row; a run that is cancelled *)
(* by then goes no further.                                                *)
Begins ==
  /\ run.at = "begins"
  /\ claimed' = IF claimed = run.row THEN None ELSE claimed
  /\ IF run.cancelled THEN run' = [run EXCEPT !.at = "drops"] /\ UNCHANGED begun
     ELSE /\ run' = [run EXCEPT !.at = "works"]
          /\ begun' = IF IsRound(run.row) THEN begun \cup {run.row} ELSE begun
  /\ UNCHANGED <<goal, waiting, armed, stopped, due, call, granted, renewed,
                 quiet, cut, used>>

(* A run that ends well drives the next round; a failed or cancelled one   *)
(* does not.                                                               *)
Ends_RoundsOnly ==
  /\ run.at = "works" /\ At(Run, "none")
  /\ IF IsRound(run.row)
     THEN run' = [run EXCEPT !.at = "drives"] /\ Goto(Run, "reserves")
     ELSE run' = [run EXCEPT !.at = "drops"] /\ UNCHANGED call
  /\ UNCHANGED <<goal, queue, armed, stopped, due, history, used>>

Ends ==
  /\ run.at = "works" /\ At(Run, "none")
  /\ run' = [run EXCEPT !.at = "drives"]
  /\ Goto(Run, "reserves")
  /\ UNCHANGED <<goal, queue, armed, stopped, due, history, used>>

Fails ==
  /\ run.at = "works" /\ At(Run, "none")
  /\ IF run.cancelled THEN UNCHANGED used ELSE Count("faults", MaxFaults)
  /\ run' = [run EXCEPT !.at = "drops"]
  /\ UNCHANGED <<goal, queue, armed, stopped, due, call, history>>

Drops ==
  /\ run.at = "drops"
  /\ run' = NoRun /\ due' = TRUE
  /\ UNCHANGED <<goal, queue, armed, stopped, call, history, used>>

(* What is in memory is gone, the latch with it.                           *)
CrashAndRestart_Armed ==
  /\ Count("faults", MaxFaults)
  /\ armed' = (goal # None /\ goal.phase = "active")
  /\ stopped' = FALSE /\ due' = FALSE /\ run' = NoRun
  /\ call' = [c \in Callers |-> NoCall]
  /\ granted' = {}
  /\ UNCHANGED <<goal, queue, begun, renewed, quiet, cut>>

CrashAndRestart ==
  /\ Count("faults", MaxFaults)
  /\ armed' = FALSE /\ stopped' = FALSE /\ due' = FALSE /\ run' = NoRun
  /\ call' = [c \in Callers |-> NoCall]
  /\ granted' = {}
  /\ UNCHANGED <<goal, queue, begun, renewed, quiet, cut>>

-----------------------------------------------------------------------------
(* Specification *)

Step(c) ==
  \/ Reads(c) \/ Checks(c) \/ Writes(c) \/ Inserts(c) \/ Latches(c)
  \/ Disarms(c) \/ Erases(c) \/ Lists(c) \/ Deletes(c) \/ Deleted(c) \/ Resumes(c)
  \/ ReserveReads(c) \/ ReserveWeighs(c) \/ ReserveExhausts(c)
  \/ ReserveRetires(c) \/ ReserveRaises(c) \/ ReserveEnqueues(c)

Next ==
  \/ \E c \in Callers : Step(c)
  \/ \E w \in Requests, action \in {"create", "resume"}, max \in Budgets :
       RequestBegins(w, action, max)
  \/ \E w \in Requests, action \in {"pause", "clear", "stop"} : RequestBegins(w, action, 0)
  \/ \E max \in Budgets : ToolBegins("create", max)
  \/ \E action \in {"edit", "pause", "resume", "complete", "blocked"} : ToolBegins(action, 0)
  \/ UserSends \/ Spawns \/ Looks \/ Claims \/ Empties \/ Judges \/ Trusts \/ Rejects
  \/ Begins \/ Ends \/ Fails \/ Drops \/ CrashAndRestart

Spec == Init /\ [][Next]_vars

-----------------------------------------------------------------------------
(* Properties *)

StepPcs == {"none", "reads", "checks", "writes", "inserts", "latches", "disarms",
            "erases", "lists", "deletes", "resumes", "reserves", "weighs",
            "exhausts", "retires", "raises", "enqueues"}
RunPcs == {"none", "looks", "claims", "empties", "judges", "trusts", "rejects",
           "begins", "works", "drives", "drops"}
Actions == {"none", "create", "resume", "pause", "clear", "stop", "edit",
            "complete", "blocked"}

(* Every variable stays in its type, and the run's caller is in the driver *)
(* exactly while the run ends.                                             *)
TypeOK ==
  /\ goal \in Goals \cup {None}
  /\ waiting \in Seq(Rows \cup {Message}) /\ claimed \in Rows \cup {Message, None}
  /\ armed \in BOOLEAN /\ stopped \in BOOLEAN /\ due \in BOOLEAN
  /\ run \in [at : RunPcs, row : Rows \cup {Message, None}, ok : BOOLEAN,
              cancelled : BOOLEAN]
  /\ call \in [Callers -> [at : StepPcs, does : Actions, max : Nat,
                           copy : Goals \cup {None}, listed : SUBSET Rows,
                           round : Rows \cup {None}]]
  /\ granted \subseteq GoalIds /\ begun \subseteq Rows /\ renewed \in Nat
  /\ quiet \in {"no", "asked", "held"} /\ cut \subseteq Rows
  /\ used \in [{"goals", "runs", "messages", "requests", "calls", "faults"} -> Nat]
  /\ call[Run].at \in {"reserves", "weighs", "exhausts", "retires", "raises", "enqueues"}
       <=> run.at = "drives"

(* "a process restart or a resumed session keeps the objective but never   *)
(* auto-continues work" (goal.rs): a round works only for a goal that was  *)
(* created or resumed since the process started.                           *)
FreshConsent ==
  run.at = "works" /\ IsRound(run.row) => run.row.goal \in granted

(* Rounds never outnumber the budget: neither two drivers at once nor a    *)
(* crash in the middle let a goal begin more of them than it was given     *)
(* when it was created or last resumed by the user (a round that was taken *)
(* before that resume may begin after it, and is not counted).             *)
BudgetKept ==
  goal # None /\ goal.max > 0
    => Cardinality({r \in begun : r.goal = goal.id /\ r.revision > renewed}) <= goal.max

(* "Explicit Stop pauses autonomous work": after a stop that succeeded no  *)
(* round works on, whatever the run, the driver or the dispatch was doing, *)
(* and the goal stays inactive until somebody creates or resumes one.      *)
QuietAfterStop ==
  quiet = "held" =>
    /\ goal = None \/ goal.phase # "active"
    /\ ~(run.at = "works" /\ IsRound(run.row) /\ ~run.cancelled)

(* A complete goal stays complete and a blocked one is only completed or   *)
(* reopened by the user, although every caller decides on a copy.          *)
ClosedPhases ==
  [][goal # None /\ goal' # None /\ goal'.id = goal.id =>
       /\ goal.phase = "complete" => goal'.phase = "complete"
       /\ goal.phase = "blocked" /\ goal'.phase \in {"active", "paused"}
            => goal'.rounds = 0 /\ goal'.phase = "active"]_vars

(* The chain of rounds does not end by itself: when nothing is under way,  *)
(* nothing failed and the session is not stopped, an active goal that is   *)
(* armed has its next round in the queue, unless a stop, a pause or a      *)
(* clear took it out.                                                      *)
Settled == ~Busy /\ ~due /\ \A c \in Callers : At(c, "none")
DriverNeverForgets ==
  Settled /\ ~stopped /\ used.faults = 0 /\ goal # None /\ goal.phase = "active" /\ armed
    => \E r \in WaitingRounds \cup ({claimed} \ {None}) \cup cut :
         r.goal = goal.id /\ r.round = goal.rounds
=============================================================================
