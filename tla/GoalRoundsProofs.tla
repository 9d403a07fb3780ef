-------------------------- MODULE GoalRoundsProofs --------------------------
(***************************************************************************)
(* Proofs about GoalRounds for any budgets, bounds and numbers of goals,   *)
(* runs and messages. That its types hold is proved for any requests of    *)
(* the web page; what a caller decides on its copy of the goal is only     *)
(* safe from a second request that erases and makes goals, so that the     *)
(* other theorems are about a page that sends one request at a time, next  *)
(* to the run, its tools, the messages of the user and crashes.            *)
(***************************************************************************)
EXTENDS GoalRounds, FiniteSetTheorems, TLAPS

RunRecords ==
  [at : RunPcs, row : Rows \cup {Message, None}, ok : BOOLEAN, cancelled : BOOLEAN]
CallRecords ==
  [at : StepPcs, does : Actions, max : Nat, copy : Goals \cup {None},
   listed : SUBSET Rows, round : Rows \cup {None}]
Driving == {"reserves", "weighs", "exhausts", "retires", "raises", "enqueues"}

(* TypeOK in parts, with the budgets of those who may give one.            *)
GoalTyped == goal \in Goals \cup {None}
QueueTyped ==
  waiting \in Seq(Rows \cup {Message}) /\ claimed \in Rows \cup {Message, None}
LatchesTyped == armed \in BOOLEAN /\ stopped \in BOOLEAN /\ due \in BOOLEAN
RunTyped == run \in RunRecords
Funded(c, r) == r.does = "create" \/ (r.does = "resume" /\ c # Run) => r.max \in Budgets
CallsTyped ==
  call \in [Callers -> CallRecords] /\ \A c \in Callers : Funded(c, call[c])
HistoryTyped ==
  /\ granted \subseteq GoalIds /\ begun \subseteq Rows /\ renewed \in Nat
  /\ quiet \in {"no", "asked", "held"} /\ cut \subseteq Rows
UsedTyped ==
  used \in [{"goals", "runs", "messages", "requests", "calls", "faults"} -> Nat]
RunDrives == call[Run].at \in Driving <=> run.at = "drives"
Types ==
  /\ GoalTyped /\ QueueTyped /\ LatchesTyped /\ RunTyped /\ CallsTyped /\ HistoryTyped
  /\ UsedTyped /\ RunDrives

LEMMA TypesAreTypeOK == Types => TypeOK
BY DEF Types, TypeOK, GoalTyped, QueueTyped, LatchesTyped, RunTyped, CallsTyped,
   HistoryTyped, UsedTyped, RunDrives, RunRecords, CallRecords, Driving

(* Where a caller can be, given who it is and what it does. A caller that  *)
(* decides on a copy has one.                                              *)
Copying == {"checks", "writes", "weighs", "exhausts", "raises"}
Closing == {"lists", "deletes", "disarms", "erases"}
Arming == {"create", "resume"}
PlacedAnyone(p, does, copy, round, known) ==
  /\ p \in {"checks", "writes"}
       => does \in {"pause", "stop", "resume", "complete", "blocked", "edit"}
  /\ p \in Copying => copy \in Goals /\ copy.id <= known
  /\ p = "inserts" => does = "create"
  /\ p = "enqueues" => round \in Rows
PlacedRequest(p, does) ==
  /\ p = "reads" => does \in Arming \cup {"pause", "stop"}
  /\ p = "checks" => does \in {"pause", "stop"}
  /\ p = "writes" => does \in {"pause", "stop", "resume"}
  /\ p = "latches" => does \in Arming \cup {"pause", "stop"}
  /\ p \in {"lists", "deletes"} => does \in Arming \cup {"pause", "clear", "stop"}
  /\ p \in {"disarms", "erases"} => does \in {"create", "clear"}
  /\ p \in Driving \cup {"resumes"} => does \in Arming
Placed ==
  /\ \A c \in Callers :
       PlacedAnyone(call[c].at, call[c].does, call[c].copy, call[c].round, used.goals)
  /\ \A w \in Requests : PlacedRequest(call[w].at, call[w].does)
RunPlaced ==
  /\ call[Run].at \notin Closing \cup {"reads", "resumes"}
  /\ call[Run].at \notin Driving \cup {"none"} => run.at = "works"
  /\ run.at \in {"judges", "trusts"} => run.row \in Rows
IdsKnown == used.goals <= MaxGoals /\ (goal # None => goal.id <= used.goals)
Typed == Types /\ Placed /\ RunPlaced /\ IdsKnown

LEMMA NothingTyped ==
  /\ NoCall \in CallRecords /\ NoCall.at = "none" /\ NoCall.does = "none"
  /\ NoRun \in RunRecords /\ NoRun.at = "none" /\ NoRun.row = None /\ ~NoRun.cancelled
  /\ Message \notin Rows /\ None \notin Rows \cup Goals /\ Message # None
<1>1. Message.goal = None /\ None \notin GoalIds
  BY NoneIsNothingElse DEF Message, GoalIds
<1>2. Message \notin Rows /\ None \notin Rows \cup Goals /\ Message # None
  BY <1>1, NoneIsNothingElse DEF Rows
<1>. QED
  BY <1>2 DEF NoCall, NoRun, CallRecords, RunRecords, StepPcs, RunPcs, Actions

(* What a step does to the calls: the record of c moves to p, and no other *)
(* caller moves.                                                           *)
Moved(c, p, does, copy, round) ==
  /\ CallsTyped'
  /\ call'[c].at = p /\ call'[c].does = does /\ call'[c].copy = copy /\ call'[c].round = round
  /\ \A d \in Callers : d # c => call'[d] = call[d]
MovedOn(c, p) == Moved(c, p, call[c].does, call[c].copy, call[c].round)
Returned(c) == Moved(c, "none", "none", None, None)

LEMMA ReturnsReturned ==
  ASSUME CallsTyped, NEW c \in Callers, Returns(c)
  PROVE  Returned(c)
BY NothingTyped DEF Returns, Returned, Moved, CallsTyped, CallRecords, Funded, NoCall

LEMMA GotoMoved ==
  ASSUME CallsTyped, NEW c \in Callers, NEW p \in StepPcs, Goto(c, p)
  PROVE  MovedOn(c, p)
<1>1. [call[c] EXCEPT !.at = p] \in CallRecords
  BY DEF CallsTyped, CallRecords, Funded
<1>. QED  BY <1>1 DEF Goto, MovedOn, Moved, CallsTyped, CallRecords, Funded

LEMMA CopyMoved ==
  ASSUME CallsTyped, NEW c \in Callers, NEW p \in StepPcs, NEW g \in Goals \cup {None},
         call' = [call EXCEPT ![c] = [@ EXCEPT !.at = p, !.copy = g]]
  PROVE  Moved(c, p, call[c].does, g, call[c].round)
<1>1. [call[c] EXCEPT !.at = p, !.copy = g] \in CallRecords
  BY DEF CallsTyped, CallRecords, Funded
<1>. QED  BY <1>1 DEF Moved, CallsTyped, CallRecords, Funded

(* What the callers are about stays right when the one that moves is right.*)
LEMMA PlacedMoved ==
  ASSUME Typed, NEW c \in Callers, NEW p, NEW does, NEW copy, NEW round,
         Moved(c, p, does, copy, round), PlacedAnyone(p, does, copy, round, used'.goals),
         c # Run => PlacedRequest(p, does),
         used'.goals \in Nat, used.goals <= used'.goals
  PROVE  CallsTyped' /\ Placed'
<1>1. \A d \in Callers : d # c => call'[d] = call[d]
  BY DEF Moved
<1>2. /\ call'[c].at = p /\ call'[c].does = does /\ call'[c].copy = copy
      /\ call'[c].round = round /\ CallsTyped'
  BY DEF Moved
<1>3. ASSUME NEW d \in Callers, d # c
      PROVE  PlacedAnyone(call'[d].at, call'[d].does, call'[d].copy, call'[d].round, used'.goals)
  <2>1. PlacedAnyone(call[d].at, call[d].does, call[d].copy, call[d].round, used.goals)
    BY DEF Typed, Placed
  <2>2. call'[d] = call[d]
    BY <1>1, <1>3
  <2>3. used.goals \in Nat
    BY DEF Typed, Types, UsedTyped
  <2>4. call[d].at \in Copying => call[d].copy.id \in Nat
    BY <2>1, MaxGoalsNat DEF PlacedAnyone, Goals, GoalIds
  <2>. QED  BY <2>1, <2>2, <2>3, <2>4 DEF PlacedAnyone
<1>4. ASSUME NEW d \in Requests, d # c PROVE PlacedRequest(call'[d].at, call'[d].does)
  BY <1>1, <1>4 DEF Typed, Placed, Callers
<1>5. c \in Requests => c # Run
  BY RunIsNoRequest
<1>. QED  BY <1>2, <1>3, <1>4, <1>5 DEF Placed

LEMMA PlacedReturned ==
  ASSUME Typed, NEW c \in Callers, Returned(c), used' = used
  PROVE  CallsTyped' /\ Placed'
<1>1. used.goals \in Nat
  BY DEF Typed, Types, UsedTyped
<1>2. PlacedAnyone("none", "none", None, None, used'.goals) /\ PlacedRequest("none", "none")
  BY DEF PlacedAnyone, PlacedRequest, Copying, Driving
<1>. QED  BY <1>1, <1>2, PlacedMoved DEF Returned

(* The run and its calls, after a step of somebody else.                   *)
LEMMA RunKept ==
  ASSUME Typed, run' = run, call'[Run] = call[Run]
  PROVE  RunTyped' /\ RunDrives' /\ RunPlaced'
BY DEF Typed, Types, RunTyped, RunDrives, RunPlaced

LEMMA RequestMoves ==
  ASSUME Typed, NEW w \in Requests, NEW max \in Nat,
         NEW action \in {"create", "resume", "pause", "clear", "stop"},
         action \in {"create", "resume"} => max \in Budgets, RequestBegins(w, action, max)
  PROVE  /\ Moved(w, FirstStep[action], action, None, None)
         /\ FirstStep[action] = IF action \in {"create", "pause", "stop"} THEN "reads"
                                                                         ELSE "lists"
         /\ At(w, "none") /\ (action \in {"create", "resume"} => ~Busy)
<1>1. FirstStep[action] = IF action \in {"create", "pause", "stop"} THEN "reads" ELSE "lists"
  BY DEF FirstStep
<1>2. FirstStep[action] \in StepPcs /\ action \in Actions
  BY <1>1 DEF StepPcs, Actions
<1>3. [NoCall EXCEPT !.at = FirstStep[action], !.does = action, !.max = max] \in CallRecords
  BY <1>2, NothingTyped DEF CallRecords
<1>4. CallsTyped /\ w \in Callers
  BY DEF Typed, Types, Callers
<1>. QED
  BY <1>1, <1>3, <1>4, NothingTyped
  DEF RequestBegins, Moved, CallsTyped, CallRecords, Funded, NoCall

LEMMA ToolMoves ==
  ASSUME Typed, NEW max \in Nat,
         NEW action \in {"create", "edit", "pause", "resume", "complete", "blocked"},
         action = "create" => max \in Budgets, ToolBegins(action, max)
  PROVE  /\ Moved(Run, IF action = "create" THEN "inserts" ELSE "checks", action, goal, None)
         /\ action # "create" => goal # None
         /\ At(Run, "none") /\ run.at = "works"
<1> DEFINE p == IF action = "create" THEN "inserts" ELSE "checks"
<1>1. p \in StepPcs /\ action \in Actions /\ goal \in Goals \cup {None}
  BY DEF StepPcs, Actions, Typed, Types, GoalTyped
<1>2. [NoCall EXCEPT !.at = p, !.does = action, !.max = max, !.copy = goal] \in CallRecords
  BY <1>1, NothingTyped DEF CallRecords
<1>3. CallsTyped /\ Run \in Callers
  BY DEF Typed, Types, Callers
<1>4. call' = [call EXCEPT ![Run] =
          [NoCall EXCEPT !.at = p, !.does = action, !.max = max, !.copy = goal]]
  BY DEF ToolBegins
<1>5. action # "create" => goal # None
  BY DEF ToolBegins
<1>6. At(Run, "none") /\ run.at = "works"
  BY DEF ToolBegins
<1>. HIDE DEF p
<1>7. Moved(Run, p, action, goal, None)
  BY <1>2, <1>3, <1>4, NothingTyped DEF Moved, CallsTyped, CallRecords, Funded, NoCall
<1>. QED  BY <1>5, <1>6, <1>7 DEF p

LEMMA ReadsMoves ==
  ASSUME Typed, NEW c \in Callers, Reads(c)
  PROVE  /\ At(c, "reads") /\ c # Run
         /\ \/ Returned(c)
            \/ /\ goal # None /\ goal.phase # "complete" /\ call[c].does = "resume"
               /\ Moved(c, "writes", "resume", goal, call[c].round)
            \/ /\ goal # None /\ call[c].does \in {"pause", "stop"}
               /\ Moved(c, "checks", call[c].does, goal, call[c].round)
            \/ /\ call[c].does = "stop" /\ (goal = None \/ goal.phase # "active")
               /\ Moved(c, "lists", "stop", goal, call[c].round)
            \/ /\ call[c].does = "create" /\ goal # None /\ goal.phase = "complete"
               /\ Moved(c, "lists", "create", goal, call[c].round)
            \/ /\ call[c].does = "create"
               /\ Moved(c, "inserts", "create", goal, call[c].round)
<1>1. CallsTyped /\ goal \in Goals \cup {None} /\ At(c, "reads")
  BY DEF Typed, Types, GoalTyped, Reads
<1>2. c # Run /\ c \in Requests
  BY <1>1 DEF Typed, RunPlaced, At, Callers
<1>3. call[c].does \in {"create", "resume", "pause", "stop"}
  BY <1>1, <1>2 DEF Typed, Placed, PlacedRequest, Arming, At
<1>4. \A p \in StepPcs :
        call' = [call EXCEPT ![c] = [@ EXCEPT !.at = p, !.copy = goal]]
          => Moved(c, p, call[c].does, goal, call[c].round)
  BY <1>1, CopyMoved
<1>5. call' = [call EXCEPT ![c] = NoCall] => Returned(c)
  BY <1>1, ReturnsReturned DEF Returns
<1>6. {"lists", "inserts", "writes", "checks"} \subseteq StepPcs
  BY DEF StepPcs
<1>7. goal # None => goal.phase \in Phases
  BY <1>1 DEF Goals
<1>a. CASE call[c].does = "create"
  BY <1>a, <1>1, <1>2, <1>4, <1>5, <1>6, <1>7 DEF Reads
<1>b. CASE call[c].does = "resume"
  BY <1>b, <1>1, <1>2, <1>4, <1>5, <1>6, <1>7 DEF Reads, Phases
<1>c. CASE call[c].does = "pause"
  BY <1>c, <1>1, <1>2, <1>4, <1>5, <1>6, <1>7 DEF Reads, Phases
<1>d. CASE call[c].does = "stop"
  BY <1>d, <1>1, <1>2, <1>4, <1>5, <1>6, <1>7 DEF Reads, Phases
<1>. QED  BY <1>3, <1>a, <1>b, <1>c, <1>d

LEMMA ChecksMoves ==
  ASSUME Typed, NEW c \in Callers, Checks(c)
  PROVE  /\ At(c, "checks")
         /\ \/ Returned(c)
            \/ /\ goal # None /\ Allowed(call[c].does)
               /\ Moved(c, "writes", call[c].does, goal, call[c].round)
<1>1. CallsTyped /\ goal \in Goals \cup {None} /\ "writes" \in StepPcs
  BY DEF Typed, Types, GoalTyped, StepPcs
<1>. QED  BY <1>1, CopyMoved, ReturnsReturned DEF Checks

LEMMA GoalMade ==
  ASSUME NEW i \in GoalIds, NEW v \in Nat, NEW p \in Phases, NEW n \in Nat, NEW m \in Budgets
  PROVE  [id |-> i, revision |-> v, phase |-> p, rounds |-> n, max |-> m] \in Goals
BY DEF Goals

LEMMA GoalTypes ==
  ASSUME NEW g \in Goals
  PROVE  /\ g.id \in GoalIds /\ g.revision \in Nat /\ g.revision + 1 \in Nat /\ g.phase \in Phases
         /\ g.rounds \in Nat /\ g.rounds + 1 \in Nat /\ g.max \in Budgets
         /\ g = [id |-> g.id, revision |-> g.revision, phase |-> g.phase,
              rounds |-> g.rounds,
              max |-> g.max]
BY DEF Goals

(* What a write makes of the goal.                                         *)
Rewritten(c) ==
  /\ goal # None /\ goal' \in Goals /\ goal'.id = goal.id
  /\ goal'.revision = goal.revision + 1
  /\ call[c].does \in {"pause", "stop"} => goal'.phase = "paused"
  /\ call[c].does = "complete" => goal'.phase = "complete"
  /\ call[c].does = "blocked" => goal'.phase = "blocked"
  /\ call[c].does = "edit" => goal'.phase = goal.phase
  /\ call[c].does = "resume" => goal'.phase = "active"
  /\ IF call[c].does = "resume" /\ c # Run THEN goal'.rounds = 0
     ELSE goal'.rounds = goal.rounds /\ goal'.max = goal.max

LEMMA WritesMoves ==
  ASSUME Typed, NEW c \in Callers, Writes(c)
  PROVE  /\ At(c, "writes")
         /\ \/ ~Matches(c) /\ UNCHANGED <<goal, history>> /\ Returned(c)
            \/ /\ Matches(c) /\ Rewritten(c)
               /\ IF call[c].does = "edit" THEN Returned(c) ELSE MovedOn(c, "latches")
               /\ IF call[c].does = "resume"
                  THEN /\ granted' = granted \cup {goal.id} /\ quiet' = "no"
                       /\ UNCHANGED <<begun, cut>>
                       /\ renewed' = IF c = Run THEN renewed ELSE goal.revision + 1
                  ELSE UNCHANGED history
<1>1. CallsTyped /\ goal \in Goals \cup {None} /\ "latches" \in StepPcs /\ At(c, "writes")
  BY DEF Typed, Types, GoalTyped, StepPcs, Writes
<1>2. call[c].does \in {"pause", "stop", "resume", "complete", "blocked", "edit"}
  BY <1>1 DEF Typed, Placed, PlacedAnyone, At
<1>3. call[c].does = "resume" /\ c # Run => call[c].max \in Budgets
  BY <1>1 DEF CallsTyped, CallRecords, Funded
<1>4. ASSUME goal # None, goal' = Changed(c) PROVE Rewritten(c)
  <2>0. goal \in Goals /\ goal.revision + 1 \in Nat
    BY <1>1, <1>4 DEF Goals
  <2>1. CASE call[c].does \in {"pause", "stop"}
    <3>1. goal' = [goal EXCEPT !.revision = @ + 1, !.phase = "paused"]
      BY <1>4, <2>1 DEF Changed
    <3>. QED  BY <1>4, <2>0, <2>1, <3>1 DEF Rewritten, Goals, Phases
  <2>2. CASE call[c].does = "complete"
    <3>1. goal' = [goal EXCEPT !.revision = @ + 1, !.phase = "complete"]
      BY <1>4, <2>2 DEF Changed
    <3>. QED  BY <1>4, <2>0, <2>2, <3>1 DEF Rewritten, Goals, Phases
  <2>3. CASE call[c].does = "blocked"
    <3>1. goal' = [goal EXCEPT !.revision = @ + 1, !.phase = "blocked"]
      BY <1>4, <2>3 DEF Changed
    <3>. QED  BY <1>4, <2>0, <2>3, <3>1 DEF Rewritten, Goals, Phases
  <2>4. CASE call[c].does = "edit"
    <3>1. goal' = [goal EXCEPT !.revision = @ + 1]
      BY <1>4, <2>4 DEF Changed
    <3>. QED  BY <1>4, <2>0, <2>4, <3>1 DEF Rewritten, Goals, Phases
  <2>5. CASE call[c].does = "resume" /\ c = Run
    <3>1. goal' = [goal EXCEPT !.revision = @ + 1, !.phase = "active"]
      BY <1>4, <2>5 DEF Changed
    <3>. QED  BY <1>4, <2>0, <2>5, <3>1 DEF Rewritten, Goals, Phases
  <2>6. CASE call[c].does = "resume" /\ c # Run
    <3>1. goal' = [goal EXCEPT !.revision = @ + 1, !.phase = "active", !.rounds = 0,
                               !.max = call[c].max]
      BY <1>4, <2>6 DEF Changed
    <3>0. goal' = [id |-> goal.id, revision |-> goal.revision + 1, phase |-> "active",
                   rounds |-> 0, max |-> call[c].max]
      BY <2>0, <3>1 DEF Goals
    <3>2. goal' \in Goals /\ goal'.id = goal.id /\ goal'.revision = goal.revision + 1
      <4>1. "active" \in Phases /\ 0 \in Nat
        BY DEF Phases
      <4>. QED  BY <1>3, <2>0, <2>6, <3>0, <4>1, GoalMade, GoalTypes
    <3>3. goal'.phase = "active" /\ goal'.rounds = 0
      BY <2>0, <3>1 DEF Goals
    <3>. QED  BY <1>4, <2>6, <3>2, <3>3 DEF Rewritten
  <2>. QED  BY <1>2, <2>1, <2>2, <2>3, <2>4, <2>5, <2>6
<1>5. Returns(c) => Returned(c)
  BY <1>1, ReturnsReturned
<1>6. Goto(c, "latches") => MovedOn(c, "latches")
  BY <1>1, GotoMoved
<1>7. CASE Matches(c)
  <2>1. goal # None /\ goal' = Changed(c)
    BY <1>7 DEF Writes, Matches
  <2>2. Rewritten(c) /\ goal'.revision = goal.revision + 1
    BY <1>4, <2>1 DEF Rewritten
  <2>3. IF call[c].does = "edit" THEN Returns(c) ELSE Goto(c, "latches")
    BY <1>7 DEF Writes
  <2>4. IF call[c].does = "resume"
        THEN /\ granted' = granted \cup {goal.id} /\ quiet' = "no"
             /\ UNCHANGED <<begun, cut>>
             /\ renewed' = IF c = Run THEN renewed ELSE goal'.revision
        ELSE UNCHANGED history
    BY <1>7 DEF Writes
  <2>5. IF call[c].does = "edit" THEN Returned(c) ELSE MovedOn(c, "latches")
    BY <1>5, <1>6, <2>3
  <2>6. call[c].does # "resume" => UNCHANGED history
    BY <2>4
  <2>7. call[c].does = "resume" =>
          /\ granted' = granted \cup {goal.id} /\ quiet' = "no" /\ UNCHANGED <<begun, cut>>
          /\ renewed' = IF c = Run THEN renewed ELSE goal.revision + 1
    BY <2>2, <2>4
  <2>. QED  BY <1>1, <1>7, <2>2, <2>5, <2>6, <2>7
<1>8. CASE ~Matches(c)
  BY <1>1, <1>5, <1>8 DEF Writes
<1>. QED  BY <1>7, <1>8

(* A new goal has an id that no goal had.                                  *)
Inserted(c) ==
  /\ goal = None /\ goal' \in Goals /\ goal'.id = used.goals + 1 /\ goal'.revision = 1
  /\ goal'.phase = "active" /\ goal'.rounds = 0
  /\ used' = [used EXCEPT !.goals = @ + 1] /\ used.goals < MaxGoals
  /\ granted' = granted \cup {goal'.id} /\ renewed' = 1 /\ quiet' = "no"
  /\ UNCHANGED <<begun, cut>>

LEMMA InsertsMoves ==
  ASSUME Typed, NEW c \in Callers, Inserts(c)
  PROVE  /\ At(c, "inserts") /\ call[c].does = "create"
         /\ \/ Returned(c) /\ UNCHANGED <<goal, history, used>>
            \/ Inserted(c) /\ MovedOn(c, "latches")
<1>1. CallsTyped /\ UsedTyped /\ "latches" \in StepPcs /\ At(c, "inserts")
  BY DEF Typed, Types, StepPcs, Inserts
<1>2. call[c].does = "create"
  BY <1>1 DEF Typed, Placed, PlacedAnyone, At
<1>3. CASE goal = None
  <2>1. used.goals \in Nat /\ used.goals < MaxGoals /\ call[c].max \in Budgets
    BY <1>1, <1>2, <1>3 DEF Inserts, Count, UsedTyped, CallsTyped, CallRecords, Funded
  <2>2. used.goals + 1 \in GoalIds
    BY <2>1, MaxGoalsNat DEF GoalIds
  <2>3. goal' = [id |-> used.goals + 1, revision |-> 1, phase |-> "active",
                 rounds |-> 0, max |-> call[c].max]
    BY <1>3 DEF Inserts
  <2>4. goal' \in Goals
    <3>1. "active" \in Phases /\ 0 \in Nat /\ 1 \in Nat
      BY DEF Phases
    <3>. QED  BY <2>1, <2>2, <2>3, <3>1, GoalMade
  <2>5. granted' = granted \cup {goal'.id}
    BY <1>3, <2>3 DEF Inserts
  <2>6. used' = [used EXCEPT !.goals = @ + 1]
    BY <1>3 DEF Inserts, Count
  <2>7. Goto(c, "latches") /\ renewed' = 1 /\ quiet' = "no" /\ UNCHANGED <<begun, cut>>
    BY <1>3 DEF Inserts
  <2>8. Inserted(c)
    BY <1>3, <2>1, <2>3, <2>4, <2>5, <2>6, <2>7 DEF Inserted
  <2>. QED  BY <1>1, <1>2, <2>7, <2>8, GotoMoved
<1>4. CASE goal # None
  BY <1>1, <1>2, <1>4, ReturnsReturned DEF Inserts
<1>. QED  BY <1>3, <1>4

LEMMA LatchesMoves ==
  ASSUME Typed, NEW c \in Callers, Latches(c)
  PROVE  /\ At(c, "latches") /\ armed' = (call[c].does \in Arming)
         /\ \/ c = Run /\ Returned(c)
            \/ c # Run /\ call[c].does \in Arming /\ MovedOn(c, "resumes")
            \/ c # Run /\ call[c].does \notin Arming /\ MovedOn(c, "lists")
<1>1. CallsTyped /\ {"resumes", "lists"} \subseteq StepPcs
  BY DEF Typed, Types, StepPcs
<1>2. CASE c = Run
  BY <1>1, <1>2, ReturnsReturned DEF Latches, Arming
<1>3. CASE c # Run /\ call[c].does \in Arming
  BY <1>1, <1>3, GotoMoved DEF Latches, Arming
<1>4. CASE c # Run /\ call[c].does \notin Arming
  BY <1>1, <1>4, GotoMoved DEF Latches, Arming
<1>. QED  BY <1>2, <1>3, <1>4

LEMMA ErasureMoves ==
  ASSUME Typed, NEW c \in Callers
  PROVE  /\ Disarms(c) => At(c, "disarms") /\ c # Run /\ MovedOn(c, "erases")
         /\ Erases(c) => /\ At(c, "erases") /\ c # Run
                         /\ \/ call[c].does = "create" /\ MovedOn(c, "inserts")
                            \/ Returned(c)
<1>1. CallsTyped /\ {"erases", "inserts"} \subseteq StepPcs
  BY DEF Typed, Types, StepPcs
<1>2. call[Run].at \notin {"disarms", "erases"}
  BY DEF Typed, RunPlaced, Closing
<1>. QED  BY <1>1, <1>2, GotoMoved, ReturnsReturned DEF Disarms, Erases, At

LEMMA ClosingMoves ==
  ASSUME Typed, NEW c \in Callers
  PROVE  /\ Lists(c) => At(c, "lists") /\ c # Run /\ MovedOn(c, "deletes")
         /\ Deletes(c) => At(c, "deletes") /\ c # Run /\ MovedOn(c, "deletes")
         /\ Deleted(c) =>
              /\ At(c, "deletes") /\ c # Run
              /\ \/ call[c].does = "resume" /\ MovedOn(c, "reads")
                 \/ call[c].does \in {"create", "clear"} /\ MovedOn(c, "disarms")
                 \/ call[c].does \notin {"resume", "create", "clear"} /\ Returned(c)
<1>1. CallsTyped /\ {"reads", "deletes", "disarms"} \subseteq StepPcs
  BY DEF Typed, Types, StepPcs
<1>2. call[Run].at \notin {"lists", "deletes"}
  BY DEF Typed, RunPlaced, Closing
<1>3. ASSUME Lists(c) PROVE MovedOn(c, "deletes")
  <2>1. WaitingRounds \subseteq Rows
    BY DEF Typed, Types, QueueTyped, WaitingRounds, Range, IsRound
  <2>2. [call[c] EXCEPT !.at = "deletes", !.listed = WaitingRounds] \in CallRecords
    BY <1>1, <2>1 DEF CallsTyped, CallRecords, Funded
  <2>. QED
    BY <1>1, <1>3, <2>2 DEF Lists, MovedOn, Moved, CallsTyped, CallRecords, Funded
<1>4. ASSUME Deletes(c) PROVE MovedOn(c, "deletes")
  <2>1. PICK r \in call[c].listed : call' = [call EXCEPT ![c].listed = @ \ {r}]
    BY <1>4 DEF Deletes
  <2>2. [call[c] EXCEPT !.listed = @ \ {r}] \in CallRecords
    BY <1>1, <2>1 DEF CallsTyped, CallRecords, Funded
  <2>. QED
    BY <1>1, <1>4, <2>1, <2>2 DEF Deletes, At, MovedOn, Moved, CallsTyped, CallRecords, Funded
<1>5. ASSUME Deleted(c)
      PROVE  \/ call[c].does = "resume" /\ MovedOn(c, "reads")
             \/ call[c].does \in {"create", "clear"} /\ MovedOn(c, "disarms")
             \/ call[c].does \notin {"resume", "create", "clear"} /\ Returned(c)
  BY <1>1, <1>5, GotoMoved, ReturnsReturned DEF Deleted
<1>. QED  BY <1>2, <1>3, <1>4, <1>5 DEF Lists, Deletes, Deleted, At

LEMMA ResumesMoves ==
  ASSUME Typed, NEW c \in Callers, Resumes(c)
  PROVE  At(c, "resumes") /\ c # Run /\ MovedOn(c, "reserves")
<1>1. CallsTyped /\ "reserves" \in StepPcs
  BY DEF Typed, Types, StepPcs
<1>2. call[Run].at # "resumes"
  BY DEF Typed, RunPlaced
<1>. QED  BY <1>1, <1>2, GotoMoved DEF Resumes, At

(* The end of the round driver.                                            *)
DrivenOn(c) ==
  /\ Returned(c)
  /\ \/ /\ c = Run /\ due' = due /\ run' \in RunRecords /\ run'.at = "drops"
        /\ run'.row = run.row /\ run'.ok = run.ok /\ run'.cancelled = run.cancelled
     \/ c # Run /\ due' \in BOOLEAN /\ run' = run

LEMMA DrivenMoves ==
  ASSUME Typed, NEW c \in Callers, Driven(c)
  PROVE  DrivenOn(c)
<1>1. CallsTyped /\ RunTyped /\ LatchesTyped
  BY DEF Typed, Types
<1>2. Returned(c)
  BY <1>1, ReturnsReturned DEF Driven
<1>3. CASE c = Run
  <2>1. run' = [run EXCEPT !.at = "drops"] /\ due' = due
    BY <1>3 DEF Driven
  <2>. QED  BY <1>1, <1>2, <1>3, <2>1 DEF DrivenOn, RunTyped, RunRecords, RunPcs
<1>4. CASE c # Run
  BY <1>2, <1>4 DEF Driven, DrivenOn
<1>. QED  BY <1>3, <1>4

LEMMA ReserveReadsMoves ==
  ASSUME Typed, NEW c \in Callers, ReserveReads(c)
  PROVE  /\ At(c, "reserves")
         /\ \/ DrivenOn(c)
            \/ goal # None /\ Moved(c, "weighs", call[c].does, goal, call[c].round)
               /\ UNCHANGED <<run, due>>
<1>1. CallsTyped /\ goal \in Goals \cup {None} /\ "weighs" \in StepPcs
  BY DEF Typed, Types, GoalTyped, StepPcs
<1>. QED  BY <1>1, CopyMoved, DrivenMoves DEF ReserveReads

LEMMA ReserveWeighsMoves ==
  ASSUME Typed, NEW c \in Callers, ReserveWeighs(c)
  PROVE  /\ At(c, "weighs")
         /\ \/ DrivenOn(c)
            \/ /\ armed /\ call[c].copy.phase = "active" /\ UNCHANGED <<run, due>>
               /\ \/ Exhausted(call[c].copy) /\ MovedOn(c, "exhausts")
                  \/ ~Exhausted(call[c].copy) /\ MovedOn(c, "raises")
<1>1. CallsTyped /\ {"exhausts", "raises"} \subseteq StepPcs
  BY DEF Typed, Types, StepPcs
<1>2. CASE armed /\ call[c].copy.phase = "active" /\ Exhausted(call[c].copy)
  BY <1>1, <1>2, GotoMoved DEF ReserveWeighs
<1>3. CASE armed /\ call[c].copy.phase = "active" /\ ~Exhausted(call[c].copy)
  BY <1>1, <1>3, GotoMoved DEF ReserveWeighs
<1>4. CASE ~(armed /\ call[c].copy.phase = "active")
  BY <1>4, DrivenMoves DEF ReserveWeighs
<1>. QED  BY <1>2, <1>3, <1>4 DEF ReserveWeighs

LEMMA ReserveExhaustsMoves ==
  ASSUME Typed, NEW c \in Callers, ReserveExhausts(c)
  PROVE  /\ At(c, "exhausts")
         /\ \/ /\ Matches(c) /\ goal # None /\ goal' \in Goals /\ goal'.id = goal.id
               /\ goal'.revision = goal.revision + 1 /\ goal'.phase = "paused"
               /\ goal'.rounds = goal.rounds /\ goal'.max = goal.max
               /\ MovedOn(c, "retires") /\ UNCHANGED <<run, due>>
            \/ DrivenOn(c) /\ UNCHANGED goal
            \/ c # Run /\ Returned(c) /\ UNCHANGED <<goal, run, due>>
<1>1. CallsTyped /\ goal \in Goals \cup {None} /\ "retires" \in StepPcs
  BY DEF Typed, Types, GoalTyped, StepPcs
<1>2. CASE Matches(c)
  <2>1. goal \in Goals /\ goal' = [goal EXCEPT !.revision = @ + 1, !.phase = "paused"]
    BY <1>1, <1>2 DEF ReserveExhausts, Matches
  <2>2. /\ goal' \in Goals /\ goal'.id = goal.id /\ goal'.phase = "paused"
        /\ goal'.revision = goal.revision + 1
        /\ goal'.rounds = goal.rounds /\ goal'.max = goal.max
    <3>1. goal' = [id |-> goal.id, revision |-> goal.revision + 1, phase |-> "paused",
                   rounds |-> goal.rounds, max |-> goal.max]
      BY <2>1 DEF Goals
    <3>2. "paused" \in Phases
      BY DEF Phases
    <3>3. /\ goal.id \in GoalIds /\ goal.revision + 1 \in Nat /\ goal.rounds \in Nat
          /\ goal.max \in Budgets
      BY <2>1, GoalTypes
    <3>4. goal' \in Goals
      BY <3>1, <3>2, <3>3, GoalMade
    <3>. QED  BY <3>1, <3>4
  <2>3. Goto(c, "retires") /\ UNCHANGED <<run, due>> /\ At(c, "exhausts")
    BY <1>2 DEF ReserveExhausts
  <2>. QED  BY <1>1, <1>2, <2>2, <2>3, GotoMoved DEF Matches
<1>3. CASE ~Matches(c) /\ c = Run
  BY <1>3, DrivenMoves DEF ReserveExhausts
<1>4. CASE ~Matches(c) /\ c # Run
  BY <1>1, <1>4, ReturnsReturned DEF ReserveExhausts
<1>. QED  BY <1>2, <1>3, <1>4

LEMMA ReserveRetiresMoves ==
  ASSUME Typed, NEW c \in Callers, ReserveRetires(c)
  PROVE  At(c, "retires") /\ DrivenOn(c)
BY DrivenMoves DEF ReserveRetires

(* The round that is taken bears the revision its taking gives the goal.   *)
LEMMA ReserveRaisesMoves ==
  ASSUME Typed, NEW c \in Callers, ReserveRaises(c)
  PROVE  /\ At(c, "raises")
         /\ \/ /\ Matches(c) /\ goal # None /\ goal' \in Goals /\ goal'.id = goal.id
               /\ goal'.revision = goal.revision + 1 /\ goal'.phase = goal.phase
               /\ goal'.rounds = goal.rounds + 1 /\ goal'.max = goal.max
               /\ \E r \in Rows :
                    /\ r.goal = goal.id /\ r.revision = goal.revision + 1
                    /\ r.round = goal.rounds + 1
                    /\ Moved(c, "enqueues", call[c].does, call[c].copy, r)
               /\ UNCHANGED <<run, due>>
            \/ DrivenOn(c) /\ UNCHANGED goal
<1>1. CallsTyped /\ goal \in Goals \cup {None} /\ "enqueues" \in StepPcs
  BY DEF Typed, Types, GoalTyped, StepPcs
<1>2. CASE Matches(c)
  <2>1. goal \in Goals /\ goal' = [goal EXCEPT !.revision = @ + 1, !.rounds = @ + 1]
    BY <1>1, <1>2 DEF ReserveRaises, Matches
  <2>2. /\ goal' \in Goals /\ goal'.id = goal.id /\ goal'.phase = goal.phase
        /\ goal'.revision = goal.revision + 1
        /\ goal'.rounds = goal.rounds + 1 /\ goal'.max = goal.max
    <3>1. goal' = [id |-> goal.id, revision |-> goal.revision + 1, phase |-> goal.phase,
                   rounds |-> goal.rounds + 1, max |-> goal.max]
      BY <2>1 DEF Goals
    <3>3. /\ goal.id \in GoalIds /\ goal.revision + 1 \in Nat /\ goal.rounds + 1 \in Nat
          /\ goal.phase \in Phases /\ goal.max \in Budgets
      BY <2>1, GoalTypes
    <3>4. goal' \in Goals
      BY <3>1, <3>3, GoalMade
    <3>. QED  BY <3>1, <3>4
  <2> DEFINE r == [goal |-> goal'.id, revision |-> goal'.revision, round |-> goal'.rounds]
  <2>3. call' = [call EXCEPT ![c] = [@ EXCEPT !.at = "enqueues", !.round = r]]
    BY <1>2, <2>1 DEF ReserveRaises
  <2>4. r \in Rows /\ r.goal = goal.id /\ r.revision = goal.revision + 1
        /\ r.round = goal.rounds + 1
    BY <2>2 DEF Goals, Rows
  <2>. HIDE DEF r
  <2>5. [call[c] EXCEPT !.at = "enqueues", !.round = r] \in CallRecords
    BY <1>1, <2>4 DEF CallsTyped, CallRecords, Funded
  <2>6. Moved(c, "enqueues", call[c].does, call[c].copy, r)
    BY <1>1, <2>3, <2>5 DEF Moved, CallsTyped, CallRecords, Funded
  <2>7. UNCHANGED <<run, due>> /\ At(c, "raises")
    BY <1>2 DEF ReserveRaises
  <2>. QED  BY <1>2, <2>2, <2>4, <2>6, <2>7 DEF Matches
<1>3. CASE ~Matches(c)
  BY <1>3, DrivenMoves DEF ReserveRaises
<1>. QED  BY <1>2, <1>3

LEMMA ReserveEnqueuesMoves ==
  ASSUME Typed, NEW c \in Callers, ReserveEnqueues(c)
  PROVE  /\ At(c, "enqueues") /\ DrivenOn(c) /\ call[c].round \in Rows
         /\ waiting' = Append(waiting, call[c].round)
BY DrivenMoves DEF ReserveEnqueues, Typed, Placed, PlacedAnyone, At

LEMMA EndsMoves ==
  ASSUME Typed, Ends
  PROVE  /\ run.at = "works" /\ At(Run, "none") /\ MovedOn(Run, "reserves")
         /\ run' \in RunRecords /\ run'.at = "drives"
         /\ run'.row = run.row /\ run'.ok = run.ok /\ run'.cancelled = run.cancelled
<1>1. CallsTyped /\ RunTyped /\ "reserves" \in StepPcs /\ Run \in Callers
  BY DEF Typed, Types, StepPcs, Callers
<1>2. Goto(Run, "reserves") /\ run' = [run EXCEPT !.at = "drives"]
      /\ run.at = "works" /\ At(Run, "none")
  BY DEF Ends
<1>. QED  BY <1>1, <1>2, GotoMoved DEF RunTyped, RunRecords, RunPcs

(* What is known of a caller before it moves.                              *)
LEMMA PlacedNow ==
  ASSUME Typed, NEW c \in Callers
  PROVE  /\ PlacedAnyone(call[c].at, call[c].does, call[c].copy, call[c].round, used.goals)
         /\ c # Run => PlacedRequest(call[c].at, call[c].does)
         /\ goal # None => goal \in Goals /\ goal.id <= used.goals
         /\ used.goals \in Nat
BY DEF Typed, Types, Placed, GoalTyped, UsedTyped, IdsKnown, Callers

LEMMA TypeInit == Init => Typed
<1> SUFFICES ASSUME Init PROVE Typed
  OBVIOUS
<1>1. \A c \in Callers : call[c] = NoCall
  BY DEF Init
<1>2. call \in [Callers -> CallRecords]
  BY NothingTyped DEF Init
<1>3. CallsTyped
  BY <1>1, <1>2, NothingTyped DEF CallsTyped, Funded
<1>4. GoalTyped /\ LatchesTyped /\ HistoryTyped
  BY DEF Init, GoalTyped, LatchesTyped, HistoryTyped
<1>10. QueueTyped
  BY DEF Init, QueueTyped
<1>9. RunTyped
  BY NothingTyped DEF Init, RunTyped
<1>5. RunDrives /\ RunPlaced
  BY <1>1, NothingTyped DEF Init, RunDrives, RunPlaced, Driving, Closing, Callers
<1>6. Placed
  BY <1>1, NothingTyped
  DEF Placed, PlacedAnyone, PlacedRequest, Driving, Copying, Callers
<1>7. UsedTyped
  BY DEF Init, UsedTyped
<1>8. IdsKnown
  BY MaxGoalsNat DEF Init, IdsKnown
<1>. QED  BY <1>3, <1>4, <1>5, <1>9, <1>10, <1>6, <1>7, <1>8 DEF Typed, Types

(* A row that is taken out leaves the others.                              *)
LEMMA RemoveAtTyped ==
  ASSUME NEW S, NEW s \in Seq(S), NEW i \in DOMAIN s
  PROVE  RemoveAt(s, i) \in Seq(S) /\ Range(RemoveAt(s, i)) \subseteq Range(s)
<1>1. i \in 1..Len(s) /\ Len(s) \in Nat
  OBVIOUS
<1> DEFINE before == SubSeq(s, 1, i - 1)
           after == SubSeq(s, i + 1, Len(s))
<1>2. before \in Seq(S) /\ Len(before) = i - 1 /\ \A j \in 1..Len(before) : before[j] = s[j]
  BY <1>1
<1>3. after \in Seq(S) /\ Len(after) = Len(s) - i /\ \A j \in 1..Len(after) : after[j] = s[i + j]
  BY <1>1
<1>4. RemoveAt(s, i) = before \o after
  BY DEF RemoveAt
<1>. HIDE DEF before, after
<1>a. PICK a \in Seq(S) : /\ RemoveAt(s, i) = a \o after
                          /\ Len(a) = i - 1 /\ \A j \in 1..Len(a) : a[j] = s[j]
  BY <1>2, <1>4
<1>b. PICK b \in Seq(S) : /\ RemoveAt(s, i) = a \o b
                          /\ Len(b) = Len(s) - i /\ \A j \in 1..Len(b) : b[j] = s[i + j]
  BY <1>3, <1>a
<1>5. a \o b \in Seq(S) /\ Len(a \o b) = Len(a) + Len(b)
  OBVIOUS
<1>6. ASSUME NEW j \in 1..Len(a \o b) PROVE (a \o b)[j] \in Range(s)
  <2>0. j \in Nat /\ 1 <= j /\ j <= Len(a) + Len(b) /\ Len(a) \in Nat /\ Len(b) \in Nat
    BY <1>5
  <2>1. CASE j <= Len(a)
    <3>1. (a \o b)[j] = a[j] /\ j \in 1..Len(a)
      BY <2>0, <2>1
    <3>2. a[j] = s[j] /\ j \in DOMAIN s
      BY <1>1, <1>a, <3>1
    <3>. QED  BY <3>1, <3>2 DEF Range
  <2>2. CASE j > Len(a)
    <3>1. (a \o b)[j] = b[j - Len(a)] /\ j - Len(a) \in 1..Len(b)
      BY <2>0, <2>2
    <3>2. b[j - Len(a)] = s[i + (j - Len(a))]
      BY <1>b, <3>1
    <3>3. i + (j - Len(a)) \in DOMAIN s
      BY <1>1, <1>a, <1>b, <3>1
    <3>. QED  BY <3>1, <3>2, <3>3 DEF Range
  <2>. QED  BY <2>0, <2>1, <2>2
<1>7. RemoveAt(s, i) = a \o b
  BY <1>b
<1>8. Range(a \o b) \subseteq Range(s)
  BY <1>5, <1>6 DEF Range
<1>. QED  BY <1>5, <1>7, <1>8

LEMMA CountTyped ==
  ASSUME UsedTyped, NEW limit,
         NEW what \in {"runs", "messages", "requests", "calls", "faults"}, Count(what, limit)
  PROVE  UsedTyped' /\ used'.goals = used.goals /\ used.goals \in Nat
BY DEF Count, UsedTyped

LEMMA PlacedKept ==
  ASSUME Placed, CallsTyped, call' = call, used'.goals = used.goals
  PROVE  CallsTyped' /\ Placed'
BY DEF Placed, CallsTyped

(* The row that is claimed is the one in flight, or else the first one.    *)
LEMMA ClaimsRun ==
  ASSUME Typed, Claims
  PROVE  \/ run' = [run EXCEPT !.at = "empties"] /\ UNCHANGED queue
         \/ \E r \in Rows \cup {Message} :
              /\ claimed' = r /\ Range(waiting') \subseteq Range(waiting)
              /\ r = claimed \/ r \in Range(waiting)
              /\ run' = [run EXCEPT !.row = r, !.at = IF IsRound(r) THEN "judges" ELSE "begins"]
<1>1. waiting \in Seq(Rows \cup {Message}) /\ claimed \in Rows \cup {Message, None}
  BY DEF Typed, Types, QueueTyped
<1>2. CASE claimed = None /\ waiting = <<>>
  BY <1>2 DEF Claims
<1>3. CASE claimed = None /\ waiting # <<>>
  <2>1. /\ claimed' = Head(waiting) /\ waiting' = Tail(waiting)
        /\ run' = [run EXCEPT !.row = Head(waiting),
                              !.at = IF IsRound(Head(waiting)) THEN "judges" ELSE "begins"]
    BY <1>3 DEF Claims
  <2>2. Head(waiting) \in Rows \cup {Message} /\ Head(waiting) \in Range(waiting)
    BY <1>1, <1>3 DEF Range
  <2>3. Range(Tail(waiting)) \subseteq Range(waiting)
    BY <1>1, <1>3 DEF Range
  <2>. QED  BY <2>1, <2>2, <2>3
<1>4. CASE claimed # None
  BY <1>1, <1>4 DEF Claims
<1>. QED  BY <1>2, <1>3, <1>4

LEMMA TypeStep == Typed /\ [Next]_vars => Typed'
<1> SUFFICES ASSUME Typed, [Next]_vars PROVE Typed'
  OBVIOUS
<1>0. /\ Types /\ Placed /\ RunPlaced /\ IdsKnown /\ GoalTyped /\ QueueTyped /\ LatchesTyped
      /\ RunTyped /\ CallsTyped /\ HistoryTyped /\ UsedTyped /\ RunDrives
  BY DEF Typed, Types
<1>1. ASSUME NEW w \in Requests, NEW max \in Nat,
            NEW action \in {"create", "resume", "pause", "clear", "stop"},
            action \in {"create", "resume"} => max \in Budgets,
            RequestBegins(w, action, max)
     PROVE  Typed'
  <2>1. UNCHANGED <<goal, waiting, claimed, armed, due, granted, begun, renewed, cut>>
    BY <1>1
    DEF RequestBegins, queue, Count
  <2>2. UsedTyped' /\ used'.goals = used.goals
    BY <1>1, <1>0, CountTyped
    DEF RequestBegins
  <2>3. IdsKnown'
    BY <1>0, <2>1, <2>2
    DEF IdsKnown
  <2>4. LatchesTyped'
    BY <1>1, <1>0, <2>1
    DEF LatchesTyped, RequestBegins, At, Busy, Count, FirstStep, NoCall, queue
  <2>5. HistoryTyped'
    BY <1>1, <1>0, <2>1
    DEF HistoryTyped, RequestBegins, At, Busy, Count, FirstStep, NoCall, queue
  <2>6. CallsTyped' /\ Placed'
    BY <1>1, <1>0, <2>1, <2>2, RequestMoves, PlacedNow, PlacedMoved, PlacedReturned
    DEF MovedOn, PlacedAnyone, PlacedRequest, Copying, Closing, Arming, Driving, At,
        Callers
  <2>7. run' \in RunRecords /\ run'.at = run.at /\ run'.row = run.row
    <3>1. Busy \in BOOLEAN
      BY DEF Busy
    <3>2. run' = run \/ run' = [run EXCEPT !.cancelled = Busy]
      BY <1>1 DEF RequestBegins
    <3>. QED  BY <1>0, <3>1, <3>2 DEF RunTyped, RunRecords
  <2>8. call'[Run] = call[Run]
    BY <1>1, RequestMoves, RunIsNoRequest DEF Moved, Callers
  <2>9. RunTyped' /\ RunDrives' /\ RunPlaced'
    BY <1>0, <2>7, <2>8 DEF RunTyped, RunDrives, RunPlaced
  <2>. QED
    BY <1>0, <2>1, <2>2, <2>3, <2>4, <2>5, <2>6, <2>7, <2>8, <2>9
    DEF Typed, Types, GoalTyped, QueueTyped
<1>2. ASSUME NEW max \in Nat,
            NEW action \in {"create", "edit", "pause", "resume", "complete", "blocked"},
            action = "create" => max \in Budgets,
            ToolBegins(action, max)
     PROVE  Typed'
  <2>1. UNCHANGED <<goal, waiting, claimed, armed, stopped, due, run, granted, begun,
                    renewed, quiet, cut>>
    BY <1>2
    DEF ToolBegins, queue, history, Count
  <2>2. UsedTyped' /\ used'.goals = used.goals
    BY <1>2, <1>0, CountTyped
    DEF ToolBegins
  <2>3. IdsKnown'
    BY <1>0, <2>1, <2>2
    DEF IdsKnown
  <2>4. CallsTyped' /\ Placed'
    BY <1>2, <1>0, <2>1, <2>2, ToolMoves, PlacedNow, PlacedMoved, PlacedReturned
    DEF MovedOn, PlacedAnyone, PlacedRequest, Copying, Closing, Arming, Driving, At,
        Callers
  <2>5. RunTyped' /\ RunDrives' /\ RunPlaced'
    BY <1>2, <1>0, <2>1, ToolMoves
    DEF MovedOn, Moved, Returned, RunTyped, RunDrives, RunPlaced, Driving, Closing, At,
        Callers
  <2>. QED
    BY <1>0, <2>1, <2>2, <2>3, <2>4, <2>5
    DEF Typed, Types, GoalTyped, QueueTyped, LatchesTyped, HistoryTyped
<1>3. ASSUME NEW c \in Callers, Reads(c)
     PROVE  Typed'
  <2>1. UNCHANGED <<goal, waiting, claimed, armed, stopped, due, run, granted, begun,
                    renewed, quiet, cut, used>>
    BY <1>3
    DEF Reads, queue, history
  <2>2. CallsTyped' /\ Placed'
    BY <1>3, <1>0, <2>1, ReadsMoves, PlacedNow, PlacedMoved, PlacedReturned
    DEF MovedOn, PlacedAnyone, PlacedRequest, Copying, Closing, Arming, Driving, At,
        Callers
  <2>3. RunTyped' /\ RunDrives' /\ RunPlaced'
    BY <1>3, <1>0, <2>1, ReadsMoves, RunKept
    DEF MovedOn, Moved, Returned, Callers
  <2>. QED
    BY <1>0, <2>1, <2>2, <2>3
    DEF Typed, Types, GoalTyped, QueueTyped, LatchesTyped, HistoryTyped, UsedTyped,
        IdsKnown
<1>4. ASSUME NEW c \in Callers, Checks(c)
     PROVE  Typed'
  <2>1. UNCHANGED <<goal, waiting, claimed, armed, stopped, due, run, granted, begun,
                    renewed, quiet, cut, used>>
    BY <1>4
    DEF Checks, queue, history, Returns
  <2>2. CallsTyped' /\ Placed'
    BY <1>4, <1>0, <2>1, ChecksMoves, PlacedNow, PlacedMoved, PlacedReturned
    DEF MovedOn, PlacedAnyone, PlacedRequest, Copying, Closing, Arming, Driving, At,
        Callers
  <2>3. RunTyped' /\ RunDrives' /\ RunPlaced'
    BY <1>4, <1>0, <2>1, ChecksMoves
    DEF MovedOn, Moved, Returned, RunTyped, RunDrives, RunPlaced, Driving, Closing, At,
        Callers
  <2>. QED
    BY <1>0, <2>1, <2>2, <2>3
    DEF Typed, Types, GoalTyped, QueueTyped, LatchesTyped, HistoryTyped, UsedTyped,
        IdsKnown
<1>5. ASSUME NEW c \in Callers, Writes(c)
     PROVE  Typed'
  <2>1. UNCHANGED <<waiting, claimed, armed, stopped, due, run, begun, cut, used>>
    BY <1>5
    DEF Writes, queue, history, Returns
  <2>2. GoalTyped'
    BY <1>5, <1>0, WritesMoves
    DEF GoalTyped, Rewritten
  <2>3. HistoryTyped'
    BY <1>5, <1>0, <2>1, WritesMoves, GoalTypes
    DEF HistoryTyped, history, Inserted, GoalTyped, Matches
  <2>4. IdsKnown'
    BY <1>5, <1>0, WritesMoves, <2>1
    DEF IdsKnown, Rewritten, UsedTyped, GoalIds
  <2>5. CallsTyped' /\ Placed'
    BY <1>5, <1>0, <2>1, WritesMoves, PlacedNow, PlacedMoved, PlacedReturned
    DEF MovedOn, PlacedAnyone, PlacedRequest, Copying, Closing, Arming, Driving, At,
        Callers
  <2>6. RunTyped' /\ RunDrives' /\ RunPlaced'
    BY <1>5, <1>0, <2>1, WritesMoves
    DEF MovedOn, Moved, Returned, RunTyped, RunDrives, RunPlaced, Driving, Closing, At,
        Callers
  <2>. QED
    BY <1>0, <2>1, <2>2, <2>3, <2>4, <2>5, <2>6
    DEF Typed, Types, QueueTyped, LatchesTyped, UsedTyped
<1>6. ASSUME NEW c \in Callers, Inserts(c)
     PROVE  Typed'
  <2>1. UNCHANGED <<waiting, claimed, armed, stopped, due, run, begun, cut>>
    BY <1>6
    DEF Inserts, queue, history, Returns, Count
  <2>2. GoalTyped'
    BY <1>6, <1>0, InsertsMoves
    DEF GoalTyped, Inserted
  <2>3. HistoryTyped'
    BY <1>6, <1>0, <2>1, InsertsMoves, GoalTypes
    DEF HistoryTyped, history, Inserted
  <2>4. UsedTyped'
    BY <1>6, <1>0, <2>1
    DEF UsedTyped, Inserts, At, Count, Goto, NoCall, Returns, queue, history
  <2>5. /\ used'.goals \in Nat /\ used.goals <= used'.goals /\ used'.goals <= MaxGoals
        /\ goal' # None => goal'.id <= used'.goals
    <3>1. CASE UNCHANGED <<goal, history, used>>
      BY <1>0, <3>1, PlacedNow DEF IdsKnown
    <3>2. CASE Inserted(c)
      <4>1. used'.goals = used.goals + 1 /\ used.goals \in Nat
        BY <1>0, <3>2 DEF Inserted, UsedTyped
      <4>. QED  BY <3>2, <4>1, MaxGoalsNat DEF Inserted
    <3>. QED  BY <1>6, <3>1, <3>2, InsertsMoves
  <2>6. CallsTyped' /\ Placed'
    BY <1>6, <1>0, <2>5, InsertsMoves, PlacedNow, PlacedMoved, PlacedReturned
    DEF MovedOn, PlacedAnyone, PlacedRequest, Copying, Driving, Arming, At
  <2>7. IdsKnown'
    BY <2>5 DEF IdsKnown
  <2>8. RunTyped' /\ RunDrives' /\ RunPlaced'
    BY <1>6, <1>0, <2>1, InsertsMoves
    DEF MovedOn, Moved, Returned, RunTyped, RunDrives, RunPlaced, Driving, Closing, At,
        Callers
  <2>. QED
    BY <1>0, <2>1, <2>2, <2>3, <2>4, <2>5, <2>6, <2>7, <2>8
    DEF Typed, Types, QueueTyped, LatchesTyped
<1>7. ASSUME NEW c \in Callers, Latches(c)
     PROVE  Typed'
  <2>1. UNCHANGED <<goal, waiting, claimed, stopped, due, run, granted, begun, renewed,
                    quiet, cut, used>>
    BY <1>7
    DEF Latches, queue, history, Returns
  <2>2. LatchesTyped'
    BY <1>7, <1>0, <2>1
    DEF LatchesTyped, Latches, At, Goto, NoCall, Returns, queue, history
  <2>3. CallsTyped' /\ Placed'
    BY <1>7, <1>0, <2>1, LatchesMoves, PlacedNow, PlacedMoved, PlacedReturned
    DEF MovedOn, PlacedAnyone, PlacedRequest, Copying, Closing, Arming, Driving, At,
        Callers
  <2>4. RunTyped' /\ RunDrives' /\ RunPlaced'
    BY <1>7, <1>0, <2>1, LatchesMoves
    DEF MovedOn, Moved, Returned, RunTyped, RunDrives, RunPlaced, Driving, Closing, At,
        Callers
  <2>. QED
    BY <1>0, <2>1, <2>2, <2>3, <2>4
    DEF Typed, Types, GoalTyped, QueueTyped, HistoryTyped, UsedTyped, IdsKnown
<1>8. ASSUME NEW c \in Callers, Disarms(c)
     PROVE  Typed'
  <2>1. UNCHANGED <<goal, waiting, claimed, stopped, due, run, granted, begun, renewed,
                    quiet, cut, used>>
    BY <1>8
    DEF Disarms, queue, history
  <2>2. LatchesTyped'
    BY <1>8, <1>0, <2>1
    DEF LatchesTyped, Disarms, At, Goto, queue, history
  <2>3. CallsTyped' /\ Placed'
    BY <1>8, <1>0, <2>1, ErasureMoves, PlacedNow, PlacedMoved, PlacedReturned
    DEF MovedOn, PlacedAnyone, PlacedRequest, Copying, Closing, Arming, Driving, At,
        Callers
  <2>4. RunTyped' /\ RunDrives' /\ RunPlaced'
    BY <1>8, <1>0, <2>1, ErasureMoves, RunKept
    DEF MovedOn, Moved, Returned, Callers
  <2>. QED
    BY <1>0, <2>1, <2>2, <2>3, <2>4
    DEF Typed, Types, GoalTyped, QueueTyped, HistoryTyped, UsedTyped, IdsKnown
<1>9. ASSUME NEW c \in Callers, Erases(c)
     PROVE  Typed'
  <2>1. UNCHANGED <<waiting, claimed, armed, stopped, due, run, granted, begun, renewed,
                    quiet, cut, used>>
    BY <1>9
    DEF Erases, queue, history, Returns
  <2>2. GoalTyped'
    BY <1>9, <1>0, ErasureMoves
    DEF GoalTyped, Erases
  <2>3. IdsKnown'
    BY <1>9, <1>0, <2>1 DEF Erases, IdsKnown
  <2>4. CallsTyped' /\ Placed'
    BY <1>9, <1>0, <2>1, ErasureMoves, PlacedNow, PlacedMoved, PlacedReturned
    DEF MovedOn, PlacedAnyone, PlacedRequest, Copying, Closing, Arming, Driving, At,
        Callers
  <2>5. RunTyped' /\ RunDrives' /\ RunPlaced'
    BY <1>9, <1>0, <2>1, ErasureMoves, RunKept
    DEF MovedOn, Moved, Returned, Callers
  <2>. QED
    BY <1>0, <2>1, <2>2, <2>3, <2>4, <2>5
    DEF Typed, Types, QueueTyped, LatchesTyped, HistoryTyped, UsedTyped
<1>10. ASSUME NEW c \in Callers, Lists(c)
     PROVE  Typed'
  <2>1. UNCHANGED <<goal, waiting, claimed, armed, stopped, due, run, granted, begun,
                    renewed, quiet, cut, used>>
    BY <1>10
    DEF Lists, queue, history
  <2>2. CallsTyped' /\ Placed'
    BY <1>10, <1>0, <2>1, ClosingMoves, PlacedNow, PlacedMoved, PlacedReturned
    DEF MovedOn, PlacedAnyone, PlacedRequest, Copying, Closing, Arming, Driving, At,
        Callers
  <2>3. RunTyped' /\ RunDrives' /\ RunPlaced'
    BY <1>10, <1>0, <2>1, ClosingMoves, RunKept
    DEF MovedOn, Moved, Returned, Callers
  <2>. QED
    BY <1>0, <2>1, <2>2, <2>3
    DEF Typed, Types, GoalTyped, QueueTyped, LatchesTyped, HistoryTyped, UsedTyped,
        IdsKnown
<1>11. ASSUME NEW c \in Callers, Deletes(c)
     PROVE  Typed'
  <2>1. UNCHANGED <<goal, armed, stopped, due, run, granted, begun, renewed, quiet,
                    used>>
    BY <1>11
    DEF Deletes
  <2>2. QueueTyped'
    <3>1. waiting' = waiting \/ \E i \in DOMAIN waiting : waiting' = RemoveAt(waiting, i)
      BY <1>11 DEF Deletes
    <3>2. claimed' \in {claimed, None}
      BY <1>11 DEF Deletes
    <3>. QED  BY <1>0, <3>1, <3>2, RemoveAtTyped DEF QueueTyped
  <2>3. HistoryTyped'
    <3>1. call[c].listed \subseteq Rows
      BY <1>0 DEF CallsTyped, CallRecords
    <3>2. PICK r \in call[c].listed : cut' \in {cut, cut \cup {r}}
      BY <1>11 DEF Deletes
    <3>. QED  BY <1>0, <2>1, <3>1, <3>2 DEF HistoryTyped
  <2>4. CallsTyped' /\ Placed'
    BY <1>11, <1>0, <2>1, ClosingMoves, PlacedNow, PlacedMoved, PlacedReturned
    DEF MovedOn, PlacedAnyone, PlacedRequest, Copying, Closing, Arming, Driving, At,
        Callers
  <2>5. RunTyped' /\ RunDrives' /\ RunPlaced'
    BY <1>11, <1>0, <2>1, ClosingMoves, RunKept
    DEF MovedOn, Moved, Returned, Callers
  <2>. QED
    BY <1>0, <2>1, <2>2, <2>3, <2>4, <2>5
    DEF Typed, Types, GoalTyped, LatchesTyped, UsedTyped, IdsKnown
<1>12. ASSUME NEW c \in Callers, Deleted(c)
     PROVE  Typed'
  <2>1. UNCHANGED <<goal, waiting, claimed, armed, stopped, due, run, granted, begun,
                    renewed, cut, used>>
    BY <1>12
    DEF Deleted, queue, Returns
  <2>2. HistoryTyped'
    BY <1>12, <1>0, <2>1
    DEF HistoryTyped, Deleted, At, Goto, NoCall, Returns, queue
  <2>3. CallsTyped' /\ Placed'
    BY <1>12, <1>0, <2>1, ClosingMoves, PlacedNow, PlacedMoved, PlacedReturned
    DEF MovedOn, PlacedAnyone, PlacedRequest, Copying, Closing, Arming, Driving, At,
        Callers
  <2>4. RunTyped' /\ RunDrives' /\ RunPlaced'
    BY <1>12, <1>0, <2>1, ClosingMoves, RunKept
    DEF MovedOn, Moved, Returned, Callers
  <2>. QED
    BY <1>0, <2>1, <2>2, <2>3, <2>4
    DEF Typed, Types, GoalTyped, QueueTyped, LatchesTyped, UsedTyped, IdsKnown
<1>13. ASSUME NEW c \in Callers, Resumes(c)
     PROVE  Typed'
  <2>1. UNCHANGED <<goal, waiting, claimed, armed, due, run, granted, begun, renewed,
                    quiet, cut, used>>
    BY <1>13
    DEF Resumes, queue, history
  <2>2. LatchesTyped'
    BY <1>13, <1>0, <2>1
    DEF LatchesTyped, Resumes, At, Goto, queue, history
  <2>3. CallsTyped' /\ Placed'
    BY <1>13, <1>0, <2>1, ResumesMoves, PlacedNow, PlacedMoved, PlacedReturned
    DEF MovedOn, PlacedAnyone, PlacedRequest, Copying, Closing, Arming, Driving, At,
        Callers
  <2>4. RunTyped' /\ RunDrives' /\ RunPlaced'
    BY <1>13, <1>0, <2>1, ResumesMoves, RunKept
    DEF MovedOn, Moved, Returned, Callers
  <2>. QED
    BY <1>0, <2>1, <2>2, <2>3, <2>4
    DEF Typed, Types, GoalTyped, QueueTyped, HistoryTyped, UsedTyped, IdsKnown
<1>14. ASSUME NEW c \in Callers, ReserveReads(c)
     PROVE  Typed'
  <2>1. UNCHANGED <<goal, waiting, claimed, armed, stopped, granted, begun, renewed,
                    quiet, cut, used>>
    BY <1>14
    DEF ReserveReads, queue, history, Driven, Returns
  <2>2. LatchesTyped'
    BY <1>14, <1>0, <2>1, ReserveReadsMoves
    DEF LatchesTyped, DrivenOn
  <2>3. CallsTyped' /\ Placed'
    BY <1>14, <1>0, <2>1, ReserveReadsMoves, PlacedNow, PlacedMoved, PlacedReturned
    DEF MovedOn, PlacedAnyone, PlacedRequest, Copying, Closing, Arming, Driving, At,
        DrivenOn, Callers
  <2>4. RunTyped' /\ RunDrives' /\ RunPlaced'
    BY <1>14, <1>0, <2>1, ReserveReadsMoves
    DEF MovedOn, Moved, Returned, RunTyped, RunDrives, RunPlaced, Driving, Closing, At,
        Callers, DrivenOn
  <2>. QED
    BY <1>0, <2>1, <2>2, <2>3, <2>4
    DEF Typed, Types, GoalTyped, QueueTyped, HistoryTyped, UsedTyped, IdsKnown
<1>15. ASSUME NEW c \in Callers, ReserveWeighs(c)
     PROVE  Typed'
  <2>1. UNCHANGED <<goal, waiting, claimed, armed, stopped, granted, begun, renewed,
                    quiet, cut, used>>
    BY <1>15
    DEF ReserveWeighs, queue, history, Driven, Returns
  <2>2. LatchesTyped'
    BY <1>15, <1>0, <2>1, ReserveWeighsMoves
    DEF LatchesTyped, DrivenOn
  <2>3. CallsTyped' /\ Placed'
    BY <1>15, <1>0, <2>1, ReserveWeighsMoves, PlacedNow, PlacedMoved, PlacedReturned
    DEF MovedOn, PlacedAnyone, PlacedRequest, Copying, Closing, Arming, Driving, At,
        DrivenOn, Callers
  <2>4. RunTyped' /\ RunDrives' /\ RunPlaced'
    BY <1>15, <1>0, <2>1, ReserveWeighsMoves
    DEF MovedOn, Moved, Returned, RunTyped, RunDrives, RunPlaced, Driving, Closing, At,
        Callers, DrivenOn
  <2>. QED
    BY <1>0, <2>1, <2>2, <2>3, <2>4
    DEF Typed, Types, GoalTyped, QueueTyped, HistoryTyped, UsedTyped, IdsKnown
<1>16. ASSUME NEW c \in Callers, ReserveExhausts(c)
     PROVE  Typed'
  <2>1. UNCHANGED <<waiting, claimed, armed, stopped, granted, begun, renewed, quiet,
                    cut, used>>
    BY <1>16
    DEF ReserveExhausts, queue, history, Driven, Returns
  <2>2. GoalTyped'
    BY <1>16, <1>0, ReserveExhaustsMoves
    DEF GoalTyped
  <2>3. LatchesTyped'
    BY <1>16, <1>0, <2>1, ReserveExhaustsMoves
    DEF LatchesTyped, DrivenOn
  <2>4. IdsKnown'
    BY <1>16, <1>0, ReserveExhaustsMoves, <2>1
    DEF IdsKnown, UsedTyped, GoalIds
  <2>5. CallsTyped' /\ Placed'
    BY <1>16, <1>0, <2>1, ReserveExhaustsMoves, PlacedNow, PlacedMoved, PlacedReturned
    DEF MovedOn, PlacedAnyone, PlacedRequest, Copying, Closing, Arming, Driving, At,
        DrivenOn, Callers
  <2>6. RunTyped' /\ RunDrives' /\ RunPlaced'
    BY <1>16, <1>0, <2>1, ReserveExhaustsMoves
    DEF MovedOn, Moved, Returned, RunTyped, RunDrives, RunPlaced, Driving, Closing, At,
        Callers, DrivenOn
  <2>. QED
    BY <1>0, <2>1, <2>2, <2>3, <2>4, <2>5, <2>6
    DEF Typed, Types, QueueTyped, HistoryTyped, UsedTyped
<1>17. ASSUME NEW c \in Callers, ReserveRetires(c)
     PROVE  Typed'
  <2>1. UNCHANGED <<goal, waiting, claimed, stopped, granted, begun, renewed, quiet,
                    cut, used>>
    BY <1>17
    DEF ReserveRetires, queue, history, Driven, Returns
  <2>2. LatchesTyped'
    BY <1>17, <1>0, <2>1, ReserveRetiresMoves
    DEF LatchesTyped, DrivenOn, ReserveRetires
  <2>3. CallsTyped' /\ Placed'
    BY <1>17, <1>0, <2>1, ReserveRetiresMoves, PlacedNow, PlacedMoved, PlacedReturned
    DEF MovedOn, PlacedAnyone, PlacedRequest, Copying, Closing, Arming, Driving, At,
        DrivenOn, Callers
  <2>4. RunTyped' /\ RunDrives' /\ RunPlaced'
    BY <1>17, <1>0, <2>1, ReserveRetiresMoves
    DEF MovedOn, Moved, Returned, RunTyped, RunDrives, RunPlaced, Driving, Closing, At,
        Callers, DrivenOn
  <2>. QED
    BY <1>0, <2>1, <2>2, <2>3, <2>4
    DEF Typed, Types, GoalTyped, QueueTyped, HistoryTyped, UsedTyped, IdsKnown
<1>18. ASSUME NEW c \in Callers, ReserveRaises(c)
     PROVE  Typed'
  <2>1. UNCHANGED <<waiting, claimed, armed, stopped, granted, begun, renewed, quiet,
                    cut, used>>
    BY <1>18
    DEF ReserveRaises, queue, history, Driven, Returns
  <2>2. GoalTyped'
    BY <1>18, <1>0, ReserveRaisesMoves
    DEF GoalTyped
  <2>3. LatchesTyped'
    BY <1>18, <1>0, <2>1, ReserveRaisesMoves
    DEF LatchesTyped, DrivenOn
  <2>4. IdsKnown'
    BY <1>18, <1>0, ReserveRaisesMoves, <2>1
    DEF IdsKnown, UsedTyped, GoalIds
  <2>5. CallsTyped' /\ Placed'
    BY <1>18, <1>0, <2>1, ReserveRaisesMoves, PlacedNow, PlacedMoved, PlacedReturned
    DEF MovedOn, PlacedAnyone, PlacedRequest, Copying, Closing, Arming, Driving, At,
        DrivenOn, Callers
  <2>6. RunTyped' /\ RunDrives' /\ RunPlaced'
    BY <1>18, <1>0, <2>1, ReserveRaisesMoves
    DEF MovedOn, Moved, Returned, RunTyped, RunDrives, RunPlaced, Driving, Closing, At,
        Callers, DrivenOn
  <2>. QED
    BY <1>0, <2>1, <2>2, <2>3, <2>4, <2>5, <2>6
    DEF Typed, Types, QueueTyped, HistoryTyped, UsedTyped
<1>19. ASSUME NEW c \in Callers, ReserveEnqueues(c)
     PROVE  Typed'
  <2>1. UNCHANGED <<goal, claimed, armed, stopped, granted, begun, renewed, quiet, cut,
                    used>>
    BY <1>19
    DEF ReserveEnqueues, history, Driven, Returns
  <2>2. QueueTyped'
    BY <1>19, <1>0, <2>1, ReserveEnqueuesMoves DEF QueueTyped
  <2>3. LatchesTyped'
    BY <1>19, <1>0, <2>1, ReserveEnqueuesMoves
    DEF LatchesTyped, DrivenOn
  <2>4. CallsTyped' /\ Placed'
    BY <1>19, <1>0, <2>1, ReserveEnqueuesMoves, PlacedNow, PlacedMoved, PlacedReturned
    DEF MovedOn, PlacedAnyone, PlacedRequest, Copying, Closing, Arming, Driving, At,
        DrivenOn, Callers
  <2>5. RunTyped' /\ RunDrives' /\ RunPlaced'
    BY <1>19, <1>0, <2>1, ReserveEnqueuesMoves
    DEF MovedOn, Moved, Returned, RunTyped, RunDrives, RunPlaced, Driving, Closing, At,
        Callers, DrivenOn
  <2>. QED
    BY <1>0, <2>1, <2>2, <2>3, <2>4, <2>5
    DEF Typed, Types, GoalTyped, HistoryTyped, UsedTyped, IdsKnown
<1>20. ASSUME UserSends
     PROVE  Typed'
  <2>1. UNCHANGED <<goal, claimed, armed, run, call, granted, begun, renewed, cut>>
    BY <1>20
    DEF UserSends, Count
  <2>2. UsedTyped' /\ used'.goals = used.goals
    BY <1>20, <1>0, CountTyped
    DEF UserSends
  <2>3. IdsKnown'
    BY <1>0, <2>1, <2>2
    DEF IdsKnown
  <2>4. CallsTyped' /\ Placed'
    BY <1>0, <2>1, <2>2, PlacedKept
  <2>5. QueueTyped'
    BY <1>20, <1>0, <2>1, NothingTyped
    DEF QueueTyped, UserSends, Count, Message
  <2>6. LatchesTyped'
    BY <1>20, <1>0, <2>1, NothingTyped
    DEF LatchesTyped, UserSends, Count, Message
  <2>7. HistoryTyped'
    BY <1>20, <1>0, <2>1, NothingTyped
    DEF HistoryTyped, UserSends, Count, Message
  <2>. QED
    BY <1>0, <2>1, <2>2, <2>3, <2>4, <2>5, <2>6, <2>7
    DEF Typed, Types, GoalTyped, RunTyped, RunDrives, RunPlaced
<1>21. ASSUME Spawns
     PROVE  Typed'
  <2>1. UNCHANGED <<goal, waiting, claimed, armed, stopped, call, granted, begun,
                    renewed, quiet, cut>>
    BY <1>21
    DEF Spawns, queue, history, Count
  <2>2. UsedTyped' /\ used'.goals = used.goals
    <3>1. used' = used \/ Count("runs", MaxRuns)
      BY <1>21 DEF Spawns
    <3>. QED  BY <1>0, <3>1, CountTyped DEF UsedTyped
  <2>3. IdsKnown'
    BY <1>0, <2>1, <2>2
    DEF IdsKnown
  <2>4. CallsTyped' /\ Placed'
    BY <1>0, <2>1, <2>2, PlacedKept
  <2>5. LatchesTyped'
    BY <1>21, <1>0, <2>1, NothingTyped
    DEF LatchesTyped, Spawns, Busy, Count, NoRun, queue, history
  <2>6. RunTyped'
    BY <1>21, <1>0, <2>1, NothingTyped
    DEF RunTyped, Spawns, Busy, Count, NoRun, queue, history, RunRecords, RunPcs
  <2>7. RunDrives'
    BY <1>21, <1>0, <2>1, NothingTyped
    DEF RunDrives, Spawns, Busy, Count, NoRun, queue, history, RunTyped, RunRecords
  <2>8. RunPlaced'
    BY <1>21, <1>0, <2>1, NothingTyped
    DEF RunPlaced, Spawns, Busy, Count, NoRun, queue, history, RunTyped, RunRecords,
        Closing, Driving, At
  <2>. QED
    BY <1>0, <2>1, <2>2, <2>3, <2>4, <2>5, <2>6, <2>7, <2>8
    DEF Typed, Types, GoalTyped, QueueTyped, HistoryTyped
<1>22. ASSUME Looks
     PROVE  Typed'
  <2>1. UNCHANGED <<goal, waiting, claimed, armed, stopped, due, call, granted, begun,
                    renewed, quiet, cut, used>>
    BY <1>22
    DEF Looks, queue, history
  <2>2. RunTyped'
    BY <1>22, <1>0, <2>1, NothingTyped
    DEF RunTyped, Looks, NoRun, queue, history, RunRecords, RunPcs
  <2>3. RunDrives'
    BY <1>22, <1>0, <2>1, NothingTyped
    DEF RunDrives, Looks, NoRun, queue, history, RunTyped, RunRecords
  <2>4. RunPlaced'
    BY <1>22, <1>0, <2>1, NothingTyped
    DEF RunPlaced, Looks, NoRun, queue, history, RunTyped, RunRecords, Closing, Driving,
        At
  <2>. QED
    BY <1>0, <2>1, <2>2, <2>3, <2>4
    DEF Typed, Types, GoalTyped, QueueTyped, LatchesTyped, CallsTyped, HistoryTyped,
        UsedTyped, Placed, IdsKnown
<1>23. ASSUME Claims
     PROVE  Typed'
  <2>1. UNCHANGED <<goal, armed, stopped, due, call, granted, begun, renewed, quiet,
                    cut, used>>
    BY <1>23
    DEF Claims, queue, history
  <2>2. QueueTyped'
    BY <1>23, <1>0, <2>1, NothingTyped
    DEF QueueTyped, Claims, IsRound, Message, queue, history
  <2>3. RunTyped'
    <3>1. CASE run' = [run EXCEPT !.at = "empties"]
      BY <1>0, <3>1 DEF RunTyped, RunRecords, RunPcs
    <3>2. ASSUME NEW r \in Rows \cup {Message, None}, NEW p \in {"judges", "begins"},
                 run' = [run EXCEPT !.row = r, !.at = p]
          PROVE  RunTyped'
      BY <1>0, <3>2 DEF RunTyped, RunRecords, RunPcs
    <3>. QED  BY <1>23, <1>0, <3>1, <3>2, ClaimsRun
  <2>4. RunDrives'
    BY <1>23, <1>0, <2>1, ClaimsRun DEF Claims, RunTyped, RunRecords, RunDrives
  <2>5. RunPlaced'
    BY <1>23, <1>0, <2>1, ClaimsRun, NothingTyped DEF Claims, RunTyped, RunRecords, RunPlaced, IsRound, Closing, Driving
  <2>. QED
    BY <1>0, <2>1, <2>2, <2>3, <2>4, <2>5
    DEF Typed, Types, GoalTyped, LatchesTyped, CallsTyped, HistoryTyped, UsedTyped,
        Placed, IdsKnown
<1>24. ASSUME Empties
     PROVE  Typed'
  <2>1. UNCHANGED <<goal, waiting, claimed, armed, stopped, due, call, granted, begun,
                    renewed, quiet, cut, used>>
    BY <1>24
    DEF Empties, queue, history
  <2>2. RunTyped'
    BY <1>24, <1>0, <2>1, NothingTyped
    DEF RunTyped, Empties, NoRun, queue, history, RunRecords, RunPcs
  <2>3. RunDrives'
    BY <1>24, <1>0, <2>1, NothingTyped
    DEF RunDrives, Empties, NoRun, queue, history, RunTyped, RunRecords
  <2>4. RunPlaced'
    BY <1>24, <1>0, <2>1, NothingTyped
    DEF RunPlaced, Empties, NoRun, queue, history, RunTyped, RunRecords, Closing,
        Driving, At
  <2>. QED
    BY <1>0, <2>1, <2>2, <2>3, <2>4
    DEF Typed, Types, GoalTyped, QueueTyped, LatchesTyped, CallsTyped, HistoryTyped,
        UsedTyped, Placed, IdsKnown
<1>25. ASSUME Judges
     PROVE  Typed'
  <2>1. UNCHANGED <<goal, waiting, claimed, armed, stopped, due, call, granted, begun,
                    renewed, quiet, cut, used>>
    BY <1>25
    DEF Judges, queue, history
  <2>2. RunTyped'
    BY <1>25, <1>0, <2>1, NothingTyped
    DEF RunTyped, Judges, queue, history, RunRecords, RunPcs
  <2>3. RunDrives'
    BY <1>25, <1>0, <2>1, NothingTyped
    DEF RunDrives, Judges, queue, history, RunTyped, RunRecords
  <2>4. RunPlaced'
    BY <1>25, <1>0, <2>1, NothingTyped
    DEF RunPlaced, Judges, queue, history, RunTyped, RunRecords, Closing, Driving, At
  <2>. QED
    BY <1>0, <2>1, <2>2, <2>3, <2>4
    DEF Typed, Types, GoalTyped, QueueTyped, LatchesTyped, CallsTyped, HistoryTyped,
        UsedTyped, Placed, IdsKnown
<1>26. ASSUME Trusts
     PROVE  Typed'
  <2>1. UNCHANGED <<goal, waiting, claimed, armed, stopped, due, call, granted, begun,
                    renewed, quiet, cut, used>>
    BY <1>26
    DEF Trusts, queue, history
  <2>2. RunTyped'
    BY <1>26, <1>0, <2>1, NothingTyped
    DEF RunTyped, Trusts, queue, history, RunRecords, RunPcs
  <2>3. RunDrives'
    BY <1>26, <1>0, <2>1, NothingTyped
    DEF RunDrives, Trusts, queue, history, RunTyped, RunRecords
  <2>4. RunPlaced'
    BY <1>26, <1>0, <2>1, NothingTyped
    DEF RunPlaced, Trusts, queue, history, RunTyped, RunRecords, Closing, Driving, At
  <2>. QED
    BY <1>0, <2>1, <2>2, <2>3, <2>4
    DEF Typed, Types, GoalTyped, QueueTyped, LatchesTyped, CallsTyped, HistoryTyped,
        UsedTyped, Placed, IdsKnown
<1>27. ASSUME Rejects
     PROVE  Typed'
  <2>1. UNCHANGED <<goal, waiting, armed, stopped, due, call, granted, begun, renewed,
                    quiet, cut, used>>
    BY <1>27
    DEF Rejects, history
  <2>2. QueueTyped'
    BY <1>27, <1>0, <2>1, NothingTyped
    DEF QueueTyped, Rejects, history
  <2>3. RunTyped'
    BY <1>27, <1>0, <2>1, NothingTyped
    DEF RunTyped, Rejects, history, RunRecords, RunPcs
  <2>4. RunDrives'
    BY <1>27, <1>0, <2>1, NothingTyped
    DEF RunDrives, Rejects, history, RunTyped, RunRecords
  <2>5. RunPlaced'
    BY <1>27, <1>0, <2>1, NothingTyped
    DEF RunPlaced, Rejects, history, RunTyped, RunRecords, Closing, Driving, At
  <2>. QED
    BY <1>0, <2>1, <2>2, <2>3, <2>4, <2>5
    DEF Typed, Types, GoalTyped, LatchesTyped, CallsTyped, HistoryTyped, UsedTyped,
        Placed, IdsKnown
<1>28. ASSUME Begins
     PROVE  Typed'
  <2>1. UNCHANGED <<goal, waiting, armed, stopped, due, call, granted, renewed, quiet,
                    cut, used>>
    BY <1>28
    DEF Begins
  <2>2. QueueTyped'
    BY <1>28, <1>0, <2>1, NothingTyped
    DEF QueueTyped, Begins, IsRound, Message
  <2>3. HistoryTyped'
    <3>1. begun' = begun \/ (IsRound(run.row) /\ begun' = begun \cup {run.row})
      BY <1>28 DEF Begins
    <3>2. IsRound(run.row) => run.row \in Rows
      BY <1>0 DEF IsRound, RunTyped, RunRecords
    <3>. QED  BY <1>0, <2>1, <3>1, <3>2 DEF HistoryTyped
  <2>4. RunTyped'
    BY <1>28, <1>0, <2>1, NothingTyped
    DEF RunTyped, Begins, IsRound, Message, RunRecords, RunPcs
  <2>5. RunDrives'
    BY <1>28, <1>0, <2>1, NothingTyped
    DEF RunDrives, Begins, IsRound, Message, RunTyped, RunRecords
  <2>6. RunPlaced'
    BY <1>28, <1>0, <2>1, NothingTyped
    DEF RunPlaced, Begins, IsRound, Message, RunTyped, RunRecords, Closing, Driving, At
  <2>. QED
    BY <1>0, <2>1, <2>2, <2>3, <2>4, <2>5, <2>6
    DEF Typed, Types, GoalTyped, LatchesTyped, CallsTyped, UsedTyped, Placed, IdsKnown
<1>29. ASSUME Ends
     PROVE  Typed'
  <2>1. UNCHANGED <<goal, waiting, claimed, armed, stopped, due, granted, begun,
                    renewed, quiet, cut, used>>
    BY <1>29
    DEF Ends, queue, history
  <2>2. CallsTyped' /\ Placed'
    BY <1>29, <1>0, <2>1, EndsMoves, PlacedNow, PlacedMoved, PlacedReturned
    DEF MovedOn, PlacedAnyone, PlacedRequest, Copying, Closing, Arming, Driving, At,
        Callers
  <2>3. RunTyped' /\ RunDrives' /\ RunPlaced'
    BY <1>29, <1>0, <2>1, EndsMoves
    DEF MovedOn, Moved, Returned, RunTyped, RunDrives, RunPlaced, Driving, Closing, At,
        Callers
  <2>. QED
    BY <1>0, <2>1, <2>2, <2>3
    DEF Typed, Types, GoalTyped, QueueTyped, LatchesTyped, HistoryTyped, UsedTyped,
        IdsKnown
<1>30. ASSUME Fails
     PROVE  Typed'
  <2>1. UNCHANGED <<goal, waiting, claimed, armed, stopped, due, call, granted, begun,
                    renewed, quiet, cut>>
    BY <1>30
    DEF Fails, queue, history, Count
  <2>2. UsedTyped' /\ used'.goals = used.goals
    <3>1. used' = used \/ Count("faults", MaxFaults)
      BY <1>30 DEF Fails
    <3>. QED  BY <1>0, <3>1, CountTyped DEF UsedTyped
  <2>3. IdsKnown'
    BY <1>0, <2>1, <2>2
    DEF IdsKnown
  <2>4. CallsTyped' /\ Placed'
    BY <1>0, <2>1, <2>2, PlacedKept
  <2>5. RunTyped'
    BY <1>30, <1>0, <2>1, NothingTyped
    DEF RunTyped, Fails, At, Count, queue, history, RunRecords, RunPcs
  <2>6. RunDrives'
    BY <1>30, <1>0, <2>1, NothingTyped
    DEF RunDrives, Fails, At, Count, queue, history, RunTyped, RunRecords
  <2>7. RunPlaced'
    BY <1>30, <1>0, <2>1, NothingTyped
    DEF RunPlaced, Fails, At, Count, queue, history, RunTyped, RunRecords, Closing,
        Driving
  <2>. QED
    BY <1>0, <2>1, <2>2, <2>3, <2>4, <2>5, <2>6, <2>7
    DEF Typed, Types, GoalTyped, QueueTyped, LatchesTyped, HistoryTyped
<1>31. ASSUME Drops
     PROVE  Typed'
  <2>1. UNCHANGED <<goal, waiting, claimed, armed, stopped, call, granted, begun,
                    renewed, quiet, cut, used>>
    BY <1>31
    DEF Drops, queue, history
  <2>2. LatchesTyped'
    BY <1>31, <1>0, <2>1, NothingTyped
    DEF LatchesTyped, Drops, NoRun, queue, history
  <2>3. RunTyped'
    BY <1>31, <1>0, <2>1, NothingTyped
    DEF RunTyped, Drops, NoRun, queue, history, RunRecords, RunPcs
  <2>4. RunDrives'
    BY <1>31, <1>0, <2>1, NothingTyped
    DEF RunDrives, Drops, NoRun, queue, history, RunTyped, RunRecords
  <2>5. RunPlaced'
    BY <1>31, <1>0, <2>1, NothingTyped
    DEF RunPlaced, Drops, NoRun, queue, history, RunTyped, RunRecords, Closing, Driving,
        At
  <2>. QED
    BY <1>0, <2>1, <2>2, <2>3, <2>4, <2>5
    DEF Typed, Types, GoalTyped, QueueTyped, CallsTyped, HistoryTyped, UsedTyped,
        Placed, IdsKnown
<1>32. ASSUME CrashAndRestart
     PROVE  Typed'
  <2>1. UNCHANGED <<goal, waiting, claimed, begun, renewed, quiet, cut>>
    BY <1>32
    DEF CrashAndRestart, queue, Count
  <2>2. UsedTyped' /\ used'.goals = used.goals
    BY <1>32, <1>0, CountTyped
    DEF CrashAndRestart
  <2>3. IdsKnown'
    BY <1>0, <2>1, <2>2
    DEF IdsKnown
  <2>4. LatchesTyped'
    BY <1>32, <1>0, <2>1, NothingTyped
    DEF LatchesTyped, CrashAndRestart, Count, NoCall, NoRun, queue
  <2>5. HistoryTyped'
    BY <1>32, <1>0, <2>1, NothingTyped
    DEF HistoryTyped, CrashAndRestart, Count, NoCall, NoRun, queue
  <2>6. RunTyped'
    BY <1>32, <1>0, <2>1, NothingTyped
    DEF RunTyped, CrashAndRestart, Count, NoCall, NoRun, queue, RunRecords, RunPcs
  <2>7. RunDrives'
    BY <1>32, NothingTyped DEF CrashAndRestart, RunDrives, Driving, Callers
  <2>8. RunPlaced'
    BY <1>32, NothingTyped DEF CrashAndRestart, RunPlaced, Closing, Driving, Callers
  <2>9. CallsTyped' /\ Placed'
    BY <1>32, <1>0, <2>1, <2>2, NothingTyped
    DEF CrashAndRestart, CallsTyped, CallRecords, Funded, Placed, PlacedAnyone,
        PlacedRequest, Copying, Closing, Arming, Driving, At, Callers
  <2>. QED
    BY <1>0, <2>1, <2>2, <2>3, <2>4, <2>5, <2>6, <2>7, <2>8, <2>9
    DEF Typed, Types, GoalTyped, QueueTyped
<1>33. ASSUME UNCHANGED vars PROVE Typed'
  BY <1>33, <1>0
  DEF vars, queue, memory, history, Typed, Types, GoalTyped, QueueTyped, LatchesTyped,
      RunTyped, CallsTyped, HistoryTyped, UsedTyped, RunDrives, Placed, RunPlaced,
      IdsKnown
<1>. QED
  BY BudgetsNat, <1>1, <1>2, <1>3, <1>4, <1>5, <1>6, <1>7, <1>8, <1>9, <1>10, <1>11,
     <1>12, <1>13, <1>14, <1>15, <1>16, <1>17, <1>18, <1>19, <1>20, <1>21, <1>22, <1>23,
     <1>24, <1>25, <1>26, <1>27, <1>28, <1>29, <1>30, <1>31, <1>32, <1>33
  DEF Next, Step, Callers

(* The steps that change the goal.                                         *)
LEMMA GoalChanges ==
  ASSUME [Next]_vars, goal' # goal
  PROVE  \E c \in Callers : \/ Writes(c) \/ Inserts(c) \/ Erases(c)
                            \/ ReserveExhausts(c) \/ ReserveRaises(c)
BY DEF Next, Step, vars, RequestBegins, ToolBegins, Reads, Checks, Latches, Disarms, Lists,
   Deletes, Deleted, Resumes, ReserveReads, ReserveWeighs, ReserveRetires,
   ReserveEnqueues, UserSends, Spawns, Looks, Claims, Empties, Judges, Trusts, Rejects,
   Begins, Ends, Fails, Drops, CrashAndRestart

-----------------------------------------------------------------------------
(* What a caller knows of the goal, when the page sends one request at a   *)
(* time. The copy of a request is of the goal that is there and is the     *)
(* goal when it has its revision. The goal that the run copied may have    *)
(* been replaced, but only by a create that found it complete.             *)
OneRequest == \A v, w \in Requests : v = w
Same(g) ==
  goal.id = g.id /\ g.revision <= goal.revision /\ (g.revision = goal.revision => g = goal)
Creating(w) == call[w].does = "create" /\ call[w].at \in Closing \cup {"reads", "inserts"}
RequestCopies ==
  \A w \in Requests :
    /\ call[w].at \in Copying => goal # None /\ Same(call[w].copy)
    /\ call[w].does = "create" /\ call[w].at \in Closing
         => goal # None /\ goal.phase = "complete"
RunCopies ==
  call[Run].at \in Copying =>
    /\ goal # None =>
         \/ Same(call[Run].copy) /\ (goal.phase = "complete" => call[Run].copy.phase = "complete")
         \/ goal.id # call[Run].copy.id /\ call[Run].copy.phase = "complete"
    /\ goal = None /\ (\E w \in Requests : Creating(w)) => call[Run].copy.phase = "complete"

(* What a caller is about to write, its copy allowed.                      *)
Judged(c) ==
  /\ call[c].at \in {"exhausts", "raises"} => call[c].copy.phase = "active"
  /\ At(c, "writes") =>
       /\ call[c].does \in {"pause", "stop"} => call[c].copy.phase \in {"active", "paused"}
       /\ call[c].does = "resume" => call[c].copy.phase # "complete"
       /\ call[c].does = "resume" /\ c = Run => call[c].copy.phase # "blocked"
       /\ call[c].does = "blocked" => call[c].copy.phase # "complete"
CopiesJudged == \A c \in Callers : Judged(c)
Copies == RequestCopies /\ RunCopies /\ CopiesJudged

(* A copy with the goal's revision is the goal, but for a complete one     *)
(* that the run only edits or completes again.                             *)
LEMMA CopyIsGoal ==
  ASSUME Typed, Copies, NEW c \in Callers, Matches(c), call[c].at \in {"writes", "exhausts", "raises"}
  PROVE  /\ goal \in Goals
         /\ \/ call[c].copy = goal
            \/ /\ c = Run /\ At(c, "writes") /\ call[c].does \in {"edit", "complete"}
<1>1. goal \in Goals /\ goal.revision = call[c].copy.revision
  BY PlacedNow DEF Matches
<1>2. CASE c \in Requests
  BY <1>1, <1>2, NothingTyped DEF Copies, RequestCopies, Same, Copying
<1>3. CASE c = Run
  <2>1. Same(call[Run].copy) \/ call[Run].copy.phase = "complete"
    BY <1>1, <1>3, NothingTyped DEF Copies, RunCopies, Copying
  <2>2. CASE Same(call[Run].copy)
    BY <1>1, <1>3, <2>2 DEF Same
  <2>3. CASE call[Run].copy.phase = "complete"
    <3>1. At(Run, "writes") /\ call[Run].does \notin {"pause", "stop", "resume", "blocked"}
      BY <1>3, <2>3 DEF Copies, CopiesJudged, Judged, At
    <3>2. call[Run].does \in {"pause", "stop", "resume", "complete", "blocked", "edit"}
      BY <1>3, <3>1, PlacedNow DEF PlacedAnyone, At
    <3>. QED  BY <1>1, <1>3, <3>1, <3>2
  <2>. QED  BY <2>1, <2>2, <2>3
<1>. QED  BY <1>2, <1>3 DEF Callers

(* A complete goal is erased by whoever creates the next; nobody reopens   *)
(* it, and a blocked one only the user.                                    *)
LEMMA GoalStep ==
  ASSUME Typed, Copies, [Next]_vars, goal # None, goal' # None, goal'.id = goal.id
  PROVE  /\ goal' \in Goals /\ goal.revision <= goal'.revision
         /\ goal'.revision = goal.revision => goal' = goal
         /\ goal.phase = "complete" => goal'.phase = "complete"
         /\ goal.phase = "blocked" /\ goal'.phase \in {"active", "paused"}
              => goal'.rounds = 0 /\ goal'.phase = "active"
<1>0. goal \in Goals /\ goal.revision \in Nat /\ used.goals \in Nat /\ goal.id <= used.goals
      /\ goal.id \in Nat
  <2>1. goal \in Goals /\ used.goals \in Nat /\ goal.id <= used.goals
    BY PlacedNow DEF Callers
  <2>2. goal.id \in Nat
    BY <2>1, GoalTypes, MaxGoalsNat DEF GoalIds
  <2>. QED  BY <2>1, <2>2, GoalTypes
<1>1. CASE UNCHANGED goal
  BY <1>0, <1>1
<1>2. ASSUME NEW c \in Callers, Writes(c), goal' # goal
      PROVE  /\ goal' \in Goals /\ goal'.revision = goal.revision + 1
             /\ goal.phase = "complete" => goal'.phase = "complete"
             /\ goal.phase = "blocked" /\ goal'.phase \in {"active", "paused"}
                  => goal'.rounds = 0 /\ goal'.phase = "active"
  <2>1. Rewritten(c) /\ Matches(c) /\ At(c, "writes")
    BY <1>2, WritesMoves
  <2>2. call[c].does \in {"pause", "stop", "resume", "complete", "blocked", "edit"}
    BY <2>1, PlacedNow DEF PlacedAnyone, At
  <2>3. CASE call[c].copy = goal
    <3>1. Judged(c)
      BY DEF Copies, CopiesJudged
    <3>. QED  BY <2>1, <2>2, <2>3, <3>1 DEF Rewritten, Judged
  <2>4. CASE call[c].does \in {"edit", "complete"}
    BY <2>1, <2>4 DEF Rewritten
  <2>. QED  BY <2>1, <2>3, <2>4, CopyIsGoal DEF At
<1>3. ASSUME NEW c \in Callers, Inserts(c) \/ Erases(c) PROVE UNCHANGED goal
  BY <1>0, <1>3, InsertsMoves DEF Inserted, Erases
<1>4. ASSUME NEW c \in Callers, ReserveExhausts(c) \/ ReserveRaises(c), goal' # goal
      PROVE  /\ goal' \in Goals /\ goal'.revision = goal.revision + 1
             /\ goal.phase = "active" /\ goal'.phase \in {"active", "paused"}
  <2>1. /\ Matches(c) /\ call[c].at \in {"exhausts", "raises"} /\ goal' \in Goals
        /\ goal'.revision = goal.revision + 1 /\ goal'.phase \in {"paused", goal.phase}
    BY <1>4, ReserveExhaustsMoves, ReserveRaisesMoves DEF At
  <2>2. call[c].copy = goal
    BY <2>1, CopyIsGoal DEF At
  <2>3. Judged(c)
    BY DEF Copies, CopiesJudged
  <2>. QED  BY <2>1, <2>2, <2>3 DEF Judged
<1>5. CASE goal' # goal
  <2>1. \E c \in Callers : \/ Writes(c) \/ Inserts(c) \/ Erases(c)
                           \/ ReserveExhausts(c) \/ ReserveRaises(c)
    BY <1>5, GoalChanges
  <2>. QED  BY <1>0, <1>2, <1>3, <1>4, <1>5, <2>1
<1>. QED  BY <1>1, <1>5

(* A step that leaves the goal and the calls alone.                        *)
LEMMA CopiesKept ==
  ASSUME Copies, goal' = goal, call' = call
  PROVE  Copies'
BY DEF Copies, RequestCopies, RunCopies, CopiesJudged, Judged, Creating, Same, At

LEMMA CopiesStep ==
  ASSUME OneRequest, Typed, Copies, [Next]_vars
  PROVE  Copies'
<1>0. /\ RequestCopies /\ RunCopies /\ CopiesJudged /\ RunPlaced /\ RunDrives /\ CallsTyped
      /\ \A w \in Requests : w # Run /\ w \in Callers
      /\ \A c \in Callers : c # Run => c \in Requests
      /\ \A v, w \in Requests : v = w
      /\ Run \in Callers
  BY RunIsNoRequest DEF Copies, Typed, Types, OneRequest, Callers
<1>g. goal # None => /\ goal \in Goals /\ goal.revision \in Nat /\ goal.id \in Nat
                    /\ goal.id <= used.goals /\ used.goals \in Nat
  <2>1. goal # None => goal \in Goals /\ goal.id <= used.goals /\ used.goals \in Nat
    BY PlacedNow DEF Callers
  <2>. QED  BY <2>1, GoalTypes, MaxGoalsNat DEF GoalIds
<1>h. \A c \in Callers : call[c].at \in Copying =>
        /\ call[c].copy \in Goals /\ call[c].copy.revision \in Nat /\ call[c].copy.id \in Nat
        /\ call[c].copy.id <= used.goals /\ used.goals \in Nat
  <2>1. \A c \in Callers : call[c].at \in Copying =>
          call[c].copy \in Goals /\ call[c].copy.id <= used.goals /\ used.goals \in Nat
    BY PlacedNow DEF PlacedAnyone
  <2>. QED  BY <2>1, GoalTypes, MaxGoalsNat DEF GoalIds
<1>1. ASSUME NEW w \in Requests, NEW max \in Nat,
            NEW action \in {"create", "resume", "pause", "clear", "stop"},
            action \in {"create", "resume"} => max \in Budgets,
            RequestBegins(w, action, max)
     PROVE  Copies'
  <2>1. goal' = goal
    BY <1>1
    DEF RequestBegins
  <2>2. RequestCopies'
    BY <1>1, <1>0, <1>g, <1>h, <2>1, RequestMoves
    DEF Moved, MovedOn, Returned, RequestCopies, Creating, Same, Copying, Closing, At
  <2>3. RunCopies'
    BY <1>1, <1>0, <1>g, <1>h, <2>1, RequestMoves
    DEF Moved, MovedOn, Returned, RunCopies, Creating, Same, RunPlaced, Driving, Busy,
        RunDrives, Copying, Closing, At
  <2>4. CopiesJudged'
    BY <1>1, <1>0, <1>g, <1>h, <2>1, RequestMoves
    DEF Moved, MovedOn, Returned, CopiesJudged, Judged, Allowed, Copying, Closing, At
  <2>. QED  BY <2>2, <2>3, <2>4 DEF Copies
<1>2. ASSUME NEW max \in Nat,
            NEW action \in {"create", "edit", "pause", "resume", "complete", "blocked"},
            action = "create" => max \in Budgets,
            ToolBegins(action, max)
     PROVE  Copies'
  <2>1. goal' = goal
    BY <1>2
    DEF ToolBegins
  <2>2. RequestCopies'
    BY <1>2, <1>0, <1>g, <1>h, <2>1, ToolMoves
    DEF Moved, MovedOn, Returned, RequestCopies, Creating, Same, Copying, Closing, At
  <2>3. RunCopies'
    BY <1>2, <1>0, <1>g, <1>h, <2>1, ToolMoves
    DEF Moved, MovedOn, Returned, RunCopies, Creating, Same, RunPlaced, Driving, Busy,
        RunDrives, Copying, Closing, At
  <2>4. CopiesJudged'
    BY <1>2, <1>0, <1>g, <1>h, <2>1, ToolMoves
    DEF Moved, MovedOn, Returned, CopiesJudged, Judged, Allowed, Copying, Closing, At
  <2>. QED  BY <2>2, <2>3, <2>4 DEF Copies
<1>3. ASSUME NEW c \in Callers, Reads(c)
     PROVE  Copies'
  <2>1. goal' = goal
    BY <1>3
    DEF Reads
  <2>2. RequestCopies'
    BY <1>3, <1>0, <1>g, <1>h, <2>1, ReadsMoves
    DEF Moved, MovedOn, Returned, RequestCopies, Creating, Same, Copying, Closing, At
  <2>3. RunCopies'
    BY <1>3, <1>0, <1>g, <1>h, <2>1, ReadsMoves
    DEF Moved, MovedOn, Returned, RunCopies, Creating, Same, RunPlaced, Driving, Busy,
        RunDrives, Copying, Closing, At
  <2>4. CopiesJudged'
    BY <1>3, <1>0, <1>g, <1>h, <2>1, ReadsMoves
    DEF Moved, MovedOn, Returned, CopiesJudged, Judged, Allowed, Copying, Closing, At
  <2>. QED  BY <2>2, <2>3, <2>4 DEF Copies
<1>4. ASSUME NEW c \in Callers, Checks(c)
     PROVE  Copies'
  <2>1. goal' = goal
    BY <1>4
    DEF Checks
  <2>2. RequestCopies'
    BY <1>4, <1>0, <1>g, <1>h, <2>1, ChecksMoves
    DEF Moved, MovedOn, Returned, RequestCopies, Creating, Same, Copying, Closing, At
  <2>3. RunCopies'
    BY <1>4, <1>0, <1>g, <1>h, <2>1, ChecksMoves
    DEF Moved, MovedOn, Returned, RunCopies, Creating, Same, RunPlaced, Driving, Busy,
        RunDrives, Copying, Closing, At
  <2>4. CopiesJudged'
    BY <1>4, <1>0, <1>g, <1>h, <2>1, ChecksMoves
    DEF Moved, MovedOn, Returned, CopiesJudged, Judged, Allowed, Copying, Closing, At
  <2>. QED  BY <2>2, <2>3, <2>4 DEF Copies
<1>5. ASSUME NEW c \in Callers, Writes(c)
     PROVE  Copies'
  <2>1. goal # None => /\ goal' # None /\ goal'.id = goal.id /\ goal' \in Goals
                       /\ goal.revision <= goal'.revision /\ goal'.revision \in Nat
                       /\ goal'.revision = goal.revision => goal' = goal
                       /\ goal.phase = "complete" => goal'.phase = "complete"
    <3>1. goal # None => goal' # None /\ goal'.id = goal.id
      BY <1>5, <1>g, WritesMoves, NothingTyped
      DEF Rewritten, Inserted
    <3>. QED  BY <1>5, <3>1, GoalStep, GoalTypes DEF Next, Step
  <2>2. RequestCopies'
    BY <1>5, <1>0, <1>g, <1>h, <2>1, WritesMoves
    DEF Moved, MovedOn, Returned, RequestCopies, Creating, Same, Copying, Closing, At,
        Rewritten
  <2>3. RunCopies'
    <3>1. CASE c = Run
      BY <1>5, <1>0, <3>1, WritesMoves DEF Moved, MovedOn, Returned, RunCopies, Copying
    <3>2. CASE c \in Requests
      <4>1. call[c].does \in {"pause", "stop", "resume"} /\ ~Creating(c) /\ ~Creating(c)'
        BY <1>5, <1>0, <3>2, WritesMoves, PlacedNow
        DEF PlacedRequest, At, Moved, MovedOn, Returned, Creating, Closing
      <4>2. call'[Run] = call[Run] /\ \A w \in Requests : ~Creating(w)'
        BY <1>5, <1>0, <3>2, <4>1, WritesMoves DEF Moved, MovedOn, Returned
      <4>3. goal' = goal \/ (goal # None /\ goal'.phase # "complete" /\ goal' # None)
        BY <1>5, <1>g, <2>1, <4>1, WritesMoves DEF Rewritten
      <4>. QED  BY <1>0, <1>g, <1>h, <2>1, <4>2, <4>3 DEF RunCopies, Same
    <3>. QED  BY <3>1, <3>2 DEF Callers
  <2>4. CopiesJudged'
    BY <1>5, <1>0, <1>g, <1>h, <2>1, WritesMoves
    DEF Moved, MovedOn, Returned, CopiesJudged, Judged, Allowed, Copying, Closing, At,
        Rewritten
  <2>. QED  BY <2>2, <2>3, <2>4 DEF Copies
<1>6. ASSUME NEW c \in Callers, Inserts(c)
     PROVE  Copies'
  <2>1. goal # None => /\ goal' # None /\ goal'.id = goal.id /\ goal' \in Goals
                       /\ goal.revision <= goal'.revision /\ goal'.revision \in Nat
                       /\ goal'.revision = goal.revision => goal' = goal
                       /\ goal.phase = "complete" => goal'.phase = "complete"
    <3>1. goal # None => goal' # None /\ goal'.id = goal.id
      BY <1>6, <1>g, InsertsMoves, NothingTyped
      DEF Rewritten, Inserted
    <3>. QED  BY <1>6, <3>1, GoalStep, GoalTypes DEF Next, Step
  <2>2. RequestCopies'
    BY <1>6, <1>0, <1>g, <1>h, <2>1, InsertsMoves
    DEF Moved, MovedOn, Returned, RequestCopies, Creating, Same, Copying, Closing, At,
        Inserted
  <2>3. RunCopies'
    BY <1>6, <1>0, <1>g, <1>h, <2>1, InsertsMoves
    DEF Moved, MovedOn, Returned, RunCopies, Creating, Same, RunPlaced, Driving, Busy,
        RunDrives, Copying, Closing, At, Inserted
  <2>4. CopiesJudged'
    BY <1>6, <1>0, <1>g, <1>h, <2>1, InsertsMoves
    DEF Moved, MovedOn, Returned, CopiesJudged, Judged, Allowed, Copying, Closing, At,
        Inserted
  <2>. QED  BY <2>2, <2>3, <2>4 DEF Copies
<1>7. ASSUME NEW c \in Callers, Latches(c)
     PROVE  Copies'
  <2>1. goal' = goal
    BY <1>7
    DEF Latches
  <2>2. RequestCopies'
    BY <1>7, <1>0, <1>g, <1>h, <2>1, LatchesMoves
    DEF Moved, MovedOn, Returned, RequestCopies, Creating, Same, Arming, Copying,
        Closing, At
  <2>3. RunCopies'
    BY <1>7, <1>0, <1>g, <1>h, <2>1, LatchesMoves
    DEF Moved, MovedOn, Returned, RunCopies, Creating, Same, RunPlaced, Driving, Busy,
        RunDrives, Arming, Copying, Closing, At
  <2>4. CopiesJudged'
    BY <1>7, <1>0, <1>g, <1>h, <2>1, LatchesMoves
    DEF Moved, MovedOn, Returned, CopiesJudged, Judged, Allowed, Arming, Copying,
        Closing, At
  <2>. QED  BY <2>2, <2>3, <2>4 DEF Copies
<1>8. ASSUME NEW c \in Callers, Disarms(c)
     PROVE  Copies'
  <2>1. goal' = goal
    BY <1>8
    DEF Disarms
  <2>2. RequestCopies'
    BY <1>8, <1>0, <1>g, <1>h, <2>1, ErasureMoves
    DEF Moved, MovedOn, Returned, RequestCopies, Creating, Same, Copying, Closing, At
  <2>3. RunCopies'
    BY <1>8, <1>0, <1>g, <1>h, <2>1, ErasureMoves
    DEF Moved, MovedOn, Returned, RunCopies, Creating, Same, RunPlaced, Driving, Busy,
        RunDrives, Copying, Closing, At
  <2>4. CopiesJudged'
    BY <1>8, <1>0, <1>g, <1>h, <2>1, ErasureMoves
    DEF Moved, MovedOn, Returned, CopiesJudged, Judged, Allowed, Copying, Closing, At
  <2>. QED  BY <2>2, <2>3, <2>4 DEF Copies
<1>9. ASSUME NEW c \in Callers, Erases(c)
     PROVE  Copies'
  <2>2. RequestCopies'
    BY <1>9, <1>0, <1>g, <1>h, ErasureMoves
    DEF Moved, MovedOn, Returned, RequestCopies, Creating, Same, Copying, Closing, At
  <2>3. RunCopies'
    <3>1. c \in Requests /\ call'[Run] = call[Run] /\ goal' = None
      BY <1>9, <1>0, ErasureMoves DEF Erases, Moved, MovedOn, Returned
    <3>2. CASE call[c].does = "create"
      <4>1. goal # None /\ goal.phase = "complete"
        BY <1>9, <1>0, <3>1, <3>2 DEF Erases, At, RequestCopies, Closing
      <4>. QED  BY <1>0, <3>1, <4>1 DEF RunCopies
    <3>3. CASE call[c].does # "create"
      <4>1. \A w \in Requests : ~Creating(w)'
        BY <1>9, <1>0, <3>1, <3>3, ErasureMoves DEF Erases, Creating, Moved, MovedOn, Returned
      <4>. QED  BY <3>1, <4>1 DEF RunCopies
    <3>. QED  BY <3>2, <3>3
  <2>4. CopiesJudged'
    BY <1>9, <1>0, <1>g, <1>h, ErasureMoves
    DEF Moved, MovedOn, Returned, CopiesJudged, Judged, Allowed, Copying, Closing, At
  <2>. QED  BY <2>2, <2>3, <2>4 DEF Copies
<1>10. ASSUME NEW c \in Callers, Lists(c)
     PROVE  Copies'
  <2>1. goal' = goal
    BY <1>10
    DEF Lists
  <2>2. RequestCopies'
    BY <1>10, <1>0, <1>g, <1>h, <2>1, ClosingMoves
    DEF Moved, MovedOn, Returned, RequestCopies, Creating, Same, Copying, Closing, At
  <2>3. RunCopies'
    BY <1>10, <1>0, <1>g, <1>h, <2>1, ClosingMoves
    DEF Moved, MovedOn, Returned, RunCopies, Creating, Same, RunPlaced, Driving, Busy,
        RunDrives, Copying, Closing, At
  <2>4. CopiesJudged'
    BY <1>10, <1>0, <1>g, <1>h, <2>1, ClosingMoves
    DEF Moved, MovedOn, Returned, CopiesJudged, Judged, Allowed, Copying, Closing, At
  <2>. QED  BY <2>2, <2>3, <2>4 DEF Copies
<1>11. ASSUME NEW c \in Callers, Deletes(c)
     PROVE  Copies'
  <2>1. goal' = goal
    BY <1>11
    DEF Deletes
  <2>2. RequestCopies'
    BY <1>11, <1>0, <1>g, <1>h, <2>1, ClosingMoves
    DEF Moved, MovedOn, Returned, RequestCopies, Creating, Same, Copying, Closing, At
  <2>3. RunCopies'
    BY <1>11, <1>0, <1>g, <1>h, <2>1, ClosingMoves
    DEF Moved, MovedOn, Returned, RunCopies, Creating, Same, RunPlaced, Driving, Busy,
        RunDrives, Copying, Closing, At
  <2>4. CopiesJudged'
    BY <1>11, <1>0, <1>g, <1>h, <2>1, ClosingMoves
    DEF Moved, MovedOn, Returned, CopiesJudged, Judged, Allowed, Copying, Closing, At
  <2>. QED  BY <2>2, <2>3, <2>4 DEF Copies
<1>12. ASSUME NEW c \in Callers, Deleted(c)
     PROVE  Copies'
  <2>1. goal' = goal
    BY <1>12
    DEF Deleted
  <2>2. RequestCopies'
    BY <1>12, <1>0, <1>g, <1>h, <2>1, ClosingMoves
    DEF Moved, MovedOn, Returned, RequestCopies, Creating, Same, Copying, Closing, At
  <2>3. RunCopies'
    BY <1>12, <1>0, <1>g, <1>h, <2>1, ClosingMoves
    DEF Moved, MovedOn, Returned, RunCopies, Creating, Same, RunPlaced, Driving, Busy,
        RunDrives, Copying, Closing, At
  <2>4. CopiesJudged'
    BY <1>12, <1>0, <1>g, <1>h, <2>1, ClosingMoves
    DEF Moved, MovedOn, Returned, CopiesJudged, Judged, Allowed, Copying, Closing, At
  <2>. QED  BY <2>2, <2>3, <2>4 DEF Copies
<1>13. ASSUME NEW c \in Callers, Resumes(c)
     PROVE  Copies'
  <2>1. goal' = goal
    BY <1>13
    DEF Resumes
  <2>2. RequestCopies'
    BY <1>13, <1>0, <1>g, <1>h, <2>1, ResumesMoves
    DEF Moved, MovedOn, Returned, RequestCopies, Creating, Same, Copying, Closing, At
  <2>3. RunCopies'
    BY <1>13, <1>0, <1>g, <1>h, <2>1, ResumesMoves
    DEF Moved, MovedOn, Returned, RunCopies, Creating, Same, RunPlaced, Driving, Busy,
        RunDrives, Copying, Closing, At
  <2>4. CopiesJudged'
    BY <1>13, <1>0, <1>g, <1>h, <2>1, ResumesMoves
    DEF Moved, MovedOn, Returned, CopiesJudged, Judged, Allowed, Copying, Closing, At
  <2>. QED  BY <2>2, <2>3, <2>4 DEF Copies
<1>14. ASSUME NEW c \in Callers, ReserveReads(c)
     PROVE  Copies'
  <2>1. goal' = goal
    BY <1>14
    DEF ReserveReads
  <2>2. RequestCopies'
    BY <1>14, <1>0, <1>g, <1>h, <2>1, ReserveReadsMoves
    DEF Moved, MovedOn, Returned, DrivenOn, RequestCopies, Creating, Same, Copying,
        Closing, At
  <2>3. RunCopies'
    BY <1>14, <1>0, <1>g, <1>h, <2>1, ReserveReadsMoves
    DEF Moved, MovedOn, Returned, DrivenOn, RunCopies, Creating, Same, RunPlaced,
        Driving, Busy, RunDrives, Copying, Closing, At
  <2>4. CopiesJudged'
    BY <1>14, <1>0, <1>g, <1>h, <2>1, ReserveReadsMoves
    DEF Moved, MovedOn, Returned, DrivenOn, CopiesJudged, Judged, Allowed, Copying,
        Closing, At
  <2>. QED  BY <2>2, <2>3, <2>4 DEF Copies
<1>15. ASSUME NEW c \in Callers, ReserveWeighs(c)
     PROVE  Copies'
  <2>1. goal' = goal
    BY <1>15
    DEF ReserveWeighs
  <2>2. RequestCopies'
    BY <1>15, <1>0, <1>g, <1>h, <2>1, ReserveWeighsMoves
    DEF Moved, MovedOn, Returned, DrivenOn, RequestCopies, Creating, Same, Copying,
        Closing, At
  <2>3. RunCopies'
    BY <1>15, <1>0, <1>g, <1>h, <2>1, ReserveWeighsMoves
    DEF Moved, MovedOn, Returned, DrivenOn, RunCopies, Creating, Same, RunPlaced,
        Driving, Busy, RunDrives, Copying, Closing, At
  <2>4. CopiesJudged'
    BY <1>15, <1>0, <1>g, <1>h, <2>1, ReserveWeighsMoves
    DEF Moved, MovedOn, Returned, DrivenOn, CopiesJudged, Judged, Allowed, Copying,
        Closing, At
  <2>. QED  BY <2>2, <2>3, <2>4 DEF Copies
<1>16. ASSUME NEW c \in Callers, ReserveExhausts(c)
     PROVE  Copies'
  <2>1. goal # None => /\ goal' # None /\ goal'.id = goal.id /\ goal' \in Goals
                       /\ goal.revision <= goal'.revision /\ goal'.revision \in Nat
                       /\ goal'.revision = goal.revision => goal' = goal
                       /\ goal.phase = "complete" => goal'.phase = "complete"
    <3>1. goal # None => goal' # None /\ goal'.id = goal.id
      BY <1>16, <1>g, ReserveExhaustsMoves, NothingTyped
      DEF Rewritten, Inserted
    <3>. QED  BY <1>16, <3>1, GoalStep, GoalTypes DEF Next, Step
  <2>2. RequestCopies'
    BY <1>16, <1>0, <1>g, <1>h, <2>1, ReserveExhaustsMoves
    DEF Moved, MovedOn, Returned, DrivenOn, RequestCopies, Creating, Same, Copying,
        Closing, At
  <2>3. RunCopies'
    BY <1>16, <1>0, <1>g, <1>h, <2>1, ReserveExhaustsMoves
    DEF Moved, MovedOn, Returned, DrivenOn, RunCopies, Creating, Same, RunPlaced,
        Driving, Busy, RunDrives, Copying, Closing, At
  <2>4. CopiesJudged'
    BY <1>16, <1>0, <1>g, <1>h, <2>1, ReserveExhaustsMoves
    DEF Moved, MovedOn, Returned, DrivenOn, CopiesJudged, Judged, Allowed, Copying,
        Closing, At
  <2>. QED  BY <2>2, <2>3, <2>4 DEF Copies
<1>17. ASSUME NEW c \in Callers, ReserveRetires(c)
     PROVE  Copies'
  <2>1. goal' = goal
    BY <1>17
    DEF ReserveRetires
  <2>2. RequestCopies'
    BY <1>17, <1>0, <1>g, <1>h, <2>1, ReserveRetiresMoves
    DEF Moved, MovedOn, Returned, DrivenOn, RequestCopies, Creating, Same, Copying,
        Closing, At
  <2>3. RunCopies'
    BY <1>17, <1>0, <1>g, <1>h, <2>1, ReserveRetiresMoves
    DEF Moved, MovedOn, Returned, DrivenOn, RunCopies, Creating, Same, RunPlaced,
        Driving, Busy, RunDrives, Copying, Closing, At
  <2>4. CopiesJudged'
    BY <1>17, <1>0, <1>g, <1>h, <2>1, ReserveRetiresMoves
    DEF Moved, MovedOn, Returned, DrivenOn, CopiesJudged, Judged, Allowed, Copying,
        Closing, At
  <2>. QED  BY <2>2, <2>3, <2>4 DEF Copies
<1>18. ASSUME NEW c \in Callers, ReserveRaises(c)
     PROVE  Copies'
  <2>1. goal # None => /\ goal' # None /\ goal'.id = goal.id /\ goal' \in Goals
                       /\ goal.revision <= goal'.revision /\ goal'.revision \in Nat
                       /\ goal'.revision = goal.revision => goal' = goal
                       /\ goal.phase = "complete" => goal'.phase = "complete"
    <3>1. goal # None => goal' # None /\ goal'.id = goal.id
      BY <1>18, <1>g, ReserveRaisesMoves, NothingTyped
      DEF Rewritten, Inserted
    <3>. QED  BY <1>18, <3>1, GoalStep, GoalTypes DEF Next, Step
  <2>2. RequestCopies'
    BY <1>18, <1>0, <1>g, <1>h, <2>1, ReserveRaisesMoves
    DEF Moved, MovedOn, Returned, DrivenOn, RequestCopies, Creating, Same, Copying,
        Closing, At
  <2>3. RunCopies'
    BY <1>18, <1>0, <1>g, <1>h, <2>1, ReserveRaisesMoves
    DEF Moved, MovedOn, Returned, DrivenOn, RunCopies, Creating, Same, RunPlaced,
        Driving, Busy, RunDrives, Copying, Closing, At
  <2>4. CopiesJudged'
    BY <1>18, <1>0, <1>g, <1>h, <2>1, ReserveRaisesMoves
    DEF Moved, MovedOn, Returned, DrivenOn, CopiesJudged, Judged, Allowed, Copying,
        Closing, At
  <2>. QED  BY <2>2, <2>3, <2>4 DEF Copies
<1>19. ASSUME NEW c \in Callers, ReserveEnqueues(c)
     PROVE  Copies'
  <2>1. goal' = goal
    BY <1>19
    DEF ReserveEnqueues
  <2>2. RequestCopies'
    BY <1>19, <1>0, <1>g, <1>h, <2>1, ReserveEnqueuesMoves
    DEF Moved, MovedOn, Returned, DrivenOn, RequestCopies, Creating, Same, Copying,
        Closing, At
  <2>3. RunCopies'
    BY <1>19, <1>0, <1>g, <1>h, <2>1, ReserveEnqueuesMoves
    DEF Moved, MovedOn, Returned, DrivenOn, RunCopies, Creating, Same, RunPlaced,
        Driving, Busy, RunDrives, Copying, Closing, At
  <2>4. CopiesJudged'
    BY <1>19, <1>0, <1>g, <1>h, <2>1, ReserveEnqueuesMoves
    DEF Moved, MovedOn, Returned, DrivenOn, CopiesJudged, Judged, Allowed, Copying,
        Closing, At
  <2>. QED  BY <2>2, <2>3, <2>4 DEF Copies
<1>20. ASSUME Ends
     PROVE  Copies'
  <2>1. goal' = goal
    BY <1>20
    DEF Ends
  <2>2. RequestCopies'
    BY <1>20, <1>0, <1>g, <1>h, <2>1, EndsMoves
    DEF Moved, MovedOn, Returned, RequestCopies, Creating, Same, Copying, Closing, At
  <2>3. RunCopies'
    BY <1>20, <1>0, <1>g, <1>h, <2>1, EndsMoves
    DEF Moved, MovedOn, Returned, RunCopies, Creating, Same, RunPlaced, Driving, Busy,
        RunDrives, Copying, Closing, At
  <2>4. CopiesJudged'
    BY <1>20, <1>0, <1>g, <1>h, <2>1, EndsMoves
    DEF Moved, MovedOn, Returned, CopiesJudged, Judged, Allowed, Copying, Closing, At
  <2>. QED  BY <2>2, <2>3, <2>4 DEF Copies
<1>21. CASE CrashAndRestart
  <2>1. \A c \in Callers : call'[c].at = "none"
    BY <1>21, NothingTyped DEF CrashAndRestart
  <2>. QED
    BY <2>1, RunIsNoRequest
    DEF Copies, RequestCopies, RunCopies, CopiesJudged, Judged, Copying, Closing, At, Callers
<1>22. CASE UserSends \/ Spawns \/ Looks \/ Claims \/ Empties \/ Judges
           \/ Trusts \/ Rejects \/ Begins \/ Fails \/ Drops
  BY <1>22, CopiesKept
  DEF UserSends, Spawns, Looks, Claims, Empties, Judges, Trusts, Rejects, Begins, Fails,
      Drops
<1>23. CASE UNCHANGED vars
  BY <1>23, CopiesKept DEF vars, memory
<1>. QED
  BY BudgetsNat, <1>1, <1>2, <1>3, <1>4, <1>5, <1>6, <1>7, <1>8, <1>9, <1>10, <1>11,
     <1>12, <1>13, <1>14, <1>15, <1>16, <1>17, <1>18, <1>19, <1>20, <1>21, <1>22, <1>23
  DEF Next, Step, Callers

-----------------------------------------------------------------------------
(* Consent. Whatever arms the goal has granted it, or the goal it was      *)
(* replaced by; a round that was judged is of the goal that is there, and  *)
(* no request under way can put another one in its place.                  *)
GoalGranted ==
  (armed \/ \E c \in Callers : At(c, "latches") /\ call[c].does \in Arming) /\ goal # None
    => goal.id \in granted
Judging == run.at = "trusts" /\ run.ok
RoundJudged ==
  Judging =>
    /\ goal # None => goal.id = run.row.goal /\ goal.phase # "complete"
    /\ (\E w \in Requests : Creating(w)) => goal # None
    /\ (armed \/ \E w \in Requests : At(w, "latches") /\ call[w].does \in Arming)
         => run.row.goal \in granted
RoundGranted == run.at \in {"begins", "works"} /\ IsRound(run.row) => run.row.goal \in granted
Consent == GoalGranted /\ RoundJudged /\ RoundGranted

(* What the steps that grant do to the grants and to the calls.            *)
LEMMA WritesGrants ==
  ASSUME Typed, NEW c \in Callers, Writes(c)
  PROVE  /\ At(c, "writes") /\ call[c].does # "create" /\ granted \subseteq granted'
         /\ goal = None => goal' = None
         /\ goal # None => goal' # None /\ goal'.id = goal.id
         /\ \/ call'[c].at = "none" /\ call'[c].does = "none"
            \/ /\ call'[c].at = "latches" /\ call'[c].does = call[c].does
               /\ call[c].does = "resume" => goal # None /\ goal.id \in granted'
         /\ \A d \in Callers : d # c => call'[d] = call[d]
<1>1. call[c].does # "create" /\ At(c, "writes")
  BY WritesMoves, PlacedNow DEF PlacedAnyone, At
<1>2. CASE ~Matches(c)
  BY <1>1, <1>2, WritesMoves DEF history, Returned, Moved
<1>3. CASE Matches(c) /\ call[c].does = "edit"
  <2>1. Rewritten(c) /\ Returned(c) /\ UNCHANGED history
    BY <1>3, WritesMoves
  <2>. QED  BY <1>1, <1>3, <2>1, NothingTyped DEF Rewritten, history, Returned, Moved
<1>4. CASE Matches(c) /\ call[c].does # "edit" /\ call[c].does # "resume"
  <2>1. Rewritten(c) /\ MovedOn(c, "latches") /\ UNCHANGED history
    BY <1>4, WritesMoves
  <2>. QED  BY <1>1, <1>4, <2>1, NothingTyped DEF Rewritten, history, MovedOn, Moved
<1>5. CASE Matches(c) /\ call[c].does = "resume"
  <2>1. Rewritten(c) /\ MovedOn(c, "latches") /\ granted' = granted \cup {goal.id}
    BY <1>5, WritesMoves
  <2>. QED  BY <1>1, <1>5, <2>1, NothingTyped DEF Rewritten, MovedOn, Moved
<1>. QED  BY <1>2, <1>3, <1>4, <1>5

LEMMA InsertsGrants ==
  ASSUME Typed, NEW c \in Callers, Inserts(c)
  PROVE  /\ granted \subseteq granted'
         /\ \/ /\ goal = None /\ goal' # None /\ goal'.id \in granted' /\ call'[c].at = "latches"
            \/ /\ goal' = goal /\ granted' = granted /\ call'[c].at = "none"
         /\ \A d \in Callers : d # c => call'[d] = call[d]
<1>1. CASE Returned(c) /\ UNCHANGED <<goal, history, used>>
  BY <1>1 DEF history, Returned, Moved
<1>2. CASE Inserted(c) /\ MovedOn(c, "latches")
  BY <1>2, NothingTyped DEF Inserted, MovedOn, Moved
<1>. QED  BY <1>1, <1>2, InsertsMoves

LEMMA ConsentStep ==
  ASSUME OneRequest, Typed, Copies, Consent, [Next]_vars
  PROVE  Consent'
<1>0. /\ GoalGranted /\ RoundJudged /\ RoundGranted /\ RunPlaced /\ RunDrives
      /\ RunTyped /\ CallsTyped /\ RequestCopies
      /\ \A w \in Requests : w # Run /\ w \in Callers
      /\ \A c \in Callers : c # Run => c \in Requests
      /\ \A v, w \in Requests : v = w
      /\ Run \in Callers
  BY RunIsNoRequest DEF Consent, Copies, Typed, Types, OneRequest, Callers
<1>1. ASSUME NEW w \in Requests, NEW max \in Nat,
            NEW action \in {"create", "resume", "pause", "clear", "stop"},
            action \in {"create", "resume"} => max \in Budgets,
            RequestBegins(w, action, max)
     PROVE  Consent'
  <2>1. UNCHANGED <<goal, armed, granted>>
    BY <1>1
    DEF RequestBegins, queue, Count
  <2>2. GoalGranted'
    BY <1>1, <1>0, <2>1, RequestMoves
    DEF Moved, MovedOn, Returned, GoalGranted, At, Arming
  <2>3. RoundJudged'
    <3>1. run'.at = run.at /\ run'.row = run.row /\ run'.ok = run.ok
      BY <1>1, <1>0 DEF RequestBegins, RunTyped, RunRecords
    <3>2. Judging' <=> Judging
      BY <3>1 DEF Judging
    <3>3. Judging => call'[w].does # "create"
      BY <1>1, RequestMoves DEF Judging, Busy, Moved
    <3>4. ~(At(w, "latches") /\ call[w].does \in Arming)'
      BY <1>1, RequestMoves DEF At, Moved
    <3>5. \A v \in Requests : v = w
      BY <1>0
    <3>. QED  BY <1>0, <2>1, <3>1, <3>2, <3>3, <3>4, <3>5 DEF RoundJudged, Creating
  <2>4. RoundGranted'
    <3>1. run'.at = run.at /\ run'.row = run.row /\ run'.ok = run.ok
      BY <1>1, <1>0 DEF RequestBegins, RunTyped, RunRecords
    <3>. QED  BY <1>0, <2>1, <3>1 DEF RoundGranted
  <2>. QED
    BY <2>2, <2>3, <2>4
    DEF Consent
<1>2. ASSUME NEW max \in Nat,
            NEW action \in {"create", "edit", "pause", "resume", "complete", "blocked"},
            action = "create" => max \in Budgets,
            ToolBegins(action, max)
     PROVE  Consent'
  <2>1. UNCHANGED <<goal, armed, run, granted>>
    BY <1>2
    DEF ToolBegins, queue, history, Count
  <2>2. GoalGranted'
    BY <1>2, <1>0, <2>1, ToolMoves
    DEF Moved, MovedOn, Returned, GoalGranted, At, Arming
  <2>3. RoundJudged'
    BY <1>2, <1>0, <2>1, ToolMoves
    DEF Moved, MovedOn, Returned, RoundJudged, Judging, Creating, Closing, Driving,
        RunPlaced, RunDrives, At, Arming
  <2>. QED
    BY <1>0, <2>1, <2>2, <2>3
    DEF Consent, RoundGranted, IsRound
<1>3. ASSUME NEW c \in Callers, Reads(c)
     PROVE  Consent'
  <2>1. UNCHANGED <<goal, armed, run, granted>>
    BY <1>3
    DEF Reads, queue, history
  <2>2. GoalGranted'
    BY <1>3, <1>0, <2>1, ReadsMoves
    DEF Moved, MovedOn, Returned, GoalGranted, At, Arming
  <2>3. RoundJudged'
    BY <1>3, <1>0, <2>1, ReadsMoves
    DEF Moved, MovedOn, Returned, RoundJudged, Judging, Creating, Closing, Driving,
        RunPlaced, RunDrives, At, Arming
  <2>. QED
    BY <1>0, <2>1, <2>2, <2>3
    DEF Consent, RoundGranted, IsRound
<1>4. ASSUME NEW c \in Callers, Checks(c)
     PROVE  Consent'
  <2>1. UNCHANGED <<goal, armed, run, granted>>
    BY <1>4
    DEF Checks, queue, history, Returns
  <2>2. GoalGranted'
    BY <1>4, <1>0, <2>1, ChecksMoves
    DEF Moved, MovedOn, Returned, GoalGranted, At, Arming
  <2>3. RoundJudged'
    BY <1>4, <1>0, <2>1, ChecksMoves
    DEF Moved, MovedOn, Returned, RoundJudged, Judging, Creating, Closing, Driving,
        RunPlaced, RunDrives, At, Arming
  <2>. QED
    BY <1>0, <2>1, <2>2, <2>3
    DEF Consent, RoundGranted, IsRound
<1>5. ASSUME NEW c \in Callers, Writes(c)
     PROVE  Consent'
  <2>1. UNCHANGED <<armed, run>>
    BY <1>5
    DEF Writes, queue, history, Returns
  <2>2. GoalGranted'
    BY <1>5, <1>0, <2>1, WritesGrants DEF GoalGranted, At, Arming
  <2>3. RoundJudged'
    <3>1. CASE Judging
      <4>1. c \in Requests /\ call[Run].at = "none"
        BY <1>5, <1>0, <3>1, WritesGrants DEF Judging, RunPlaced, RunDrives, Driving, At
      <4>2. goal' # None => goal # None /\ goal'.id = goal.id /\ goal'.phase # "complete"
        <5>1. call[c].does \in {"pause", "stop", "resume"}
          BY <1>5, <4>1, PlacedNow, WritesGrants DEF PlacedRequest, At
        <5>. QED  BY <1>5, <1>0, <3>1, <5>1, WritesMoves DEF Rewritten, RoundJudged
      <4>3. ~\E w \in Requests : Creating(w)'
        BY <1>5, <1>0, <4>1, WritesGrants DEF Creating, Closing
      <4>4. (armed \/ \E w \in Requests : At(w, "latches") /\ call[w].does \in Arming)'
              => run.row.goal \in granted'
        BY <1>5, <1>0, <2>1, <3>1, <4>1, WritesGrants DEF RoundJudged, At, Arming
      <4>. QED  BY <1>0, <2>1, <3>1, <4>2, <4>3, <4>4 DEF RoundJudged
    <3>2. CASE ~Judging
      BY <2>1, <3>2 DEF RoundJudged, Judging
    <3>. QED  BY <3>1, <3>2
  <2>4. RoundGranted'
    BY <1>5, <1>0, <2>1, WritesGrants DEF RoundGranted
  <2>. QED
    BY <2>2, <2>3, <2>4
    DEF Consent
<1>6. ASSUME NEW c \in Callers, Inserts(c)
     PROVE  Consent'
  <2>1. UNCHANGED <<armed, run>>
    BY <1>6
    DEF Inserts, queue, history, Returns, Count
  <2>2. GoalGranted'
    BY <1>6, <1>0, <2>1, InsertsGrants DEF GoalGranted, At, Arming
  <2>3. RoundJudged'
    <3>1. CASE Judging
      <4>1. c \in Requests /\ At(c, "inserts") /\ call[c].does = "create"
        BY <1>6, <1>0, <3>1, InsertsMoves DEF Judging, RunPlaced, RunDrives, Driving, At
      <4>2. goal # None
        BY <1>0, <3>1, <4>1 DEF RoundJudged, Creating, At
      <4>. QED
        BY <1>6, <1>0, <2>1, <3>1, <4>1, <4>2, InsertsGrants
        DEF RoundJudged, Judging, Creating, Closing, At, Arming
    <3>2. CASE ~Judging
      BY <2>1, <3>2 DEF RoundJudged, Judging
    <3>. QED  BY <3>1, <3>2
  <2>4. RoundGranted'
    BY <1>6, <1>0, <2>1, InsertsGrants DEF RoundGranted
  <2>. QED
    BY <2>2, <2>3, <2>4
    DEF Consent
<1>7. ASSUME NEW c \in Callers, Latches(c)
     PROVE  Consent'
  <2>1. UNCHANGED <<goal, run, granted>>
    BY <1>7
    DEF Latches, queue, history, Returns
  <2>2. GoalGranted'
    BY <1>7, <1>0, <2>1, LatchesMoves
    DEF Moved, MovedOn, Returned, GoalGranted, At, Arming
  <2>3. RoundJudged'
    <3>1. CASE Judging
      <4>1. c \in Requests /\ At(c, "latches") /\ (armed' => call[c].does \in Arming)
        BY <1>7, <1>0, <3>1, LatchesMoves DEF Judging, RunPlaced, RunDrives, Driving, At
      <4>2. call'[c].at \in {"resumes", "lists"}
            /\ (call'[c].at = "lists" => call'[c].does # "create")
        BY <1>7, <1>0, <4>1, LatchesMoves DEF Moved, MovedOn, Arming
      <4>3. \A w \in Requests : w = c
        BY <1>0, <4>1
      <4>. QED
        BY <1>0, <2>1, <3>1, <4>1, <4>2, <4>3 DEF RoundJudged, Judging, Creating, Closing, At
    <3>2. CASE ~Judging
      BY <2>1, <3>2 DEF RoundJudged, Judging
    <3>. QED  BY <3>1, <3>2
  <2>. QED
    BY <1>0, <2>1, <2>2, <2>3
    DEF Consent, RoundGranted, IsRound
<1>8. ASSUME NEW c \in Callers, Disarms(c)
     PROVE  Consent'
  <2>1. UNCHANGED <<goal, run, granted>>
    BY <1>8
    DEF Disarms, queue, history
  <2>2. GoalGranted'
    <3>1. ~armed'
      BY <1>8 DEF Disarms
    <3>2. call'[c].at # "latches" /\ \A d \in Callers : d # c => call'[d] = call[d]
      BY <1>8, ErasureMoves DEF Moved, MovedOn, Returned, DrivenOn
    <3>. QED  BY <1>0, <2>1, <3>1, <3>2 DEF GoalGranted, At
  <2>3. RoundJudged'
    <3>1. ~armed'
      BY <1>8 DEF Disarms
    <3>2. /\ At(c, "disarms") /\ call'[c].at = "erases" /\ call'[c].does = call[c].does
          /\ \A d \in Callers : d # c => call'[d] = call[d]
      BY <1>8, ErasureMoves DEF Moved, MovedOn
    <3>. QED
      BY <1>0, <2>1, <3>1, <3>2 DEF RoundJudged, Judging, Creating, Closing, At
  <2>. QED
    BY <1>0, <2>1, <2>2, <2>3
    DEF Consent, RoundGranted, IsRound
<1>9. ASSUME NEW c \in Callers, Erases(c)
     PROVE  Consent'
  <2>1. UNCHANGED <<armed, run, granted>>
    BY <1>9
    DEF Erases, queue, history, Returns
  <2>2. GoalGranted'
    BY <1>9 DEF Erases, GoalGranted
  <2>3. RoundJudged'
    <3>1. /\ goal' = None /\ At(c, "erases") /\ c \in Requests
          /\ \A d \in Callers : d # c => call'[d] = call[d]
          /\ (call[c].does # "create" => call'[c].at = "none") /\ call'[c].at # "latches"
      BY <1>9, <1>0, ErasureMoves DEF Erases, Moved, MovedOn, Returned
    <3>2. Judging => call[c].does # "create"
      BY <1>0, <3>1 DEF RoundJudged, RequestCopies, Closing, At
    <3>3. Judging => ~\E w \in Requests : Creating(w)'
      BY <1>0, <3>1, <3>2 DEF Creating, Closing
    <3>. QED  BY <1>0, <2>1, <3>1, <3>3 DEF RoundJudged, Judging, At
  <2>. QED
    BY <1>0, <2>1, <2>2, <2>3
    DEF Consent, RoundGranted, IsRound
<1>10. ASSUME NEW c \in Callers, Lists(c)
     PROVE  Consent'
  <2>1. UNCHANGED <<goal, armed, run, granted>>
    BY <1>10
    DEF Lists, queue, history
  <2>2. GoalGranted'
    BY <1>10, <1>0, <2>1, ClosingMoves
    DEF Moved, MovedOn, Returned, GoalGranted, At, Arming
  <2>3. RoundJudged'
    BY <1>10, <1>0, <2>1, ClosingMoves
    DEF Moved, MovedOn, Returned, RoundJudged, Judging, Creating, Closing, Driving,
        RunPlaced, RunDrives, At, Arming
  <2>. QED
    BY <1>0, <2>1, <2>2, <2>3
    DEF Consent, RoundGranted, IsRound
<1>11. ASSUME NEW c \in Callers, Deletes(c)
     PROVE  Consent'
  <2>1. UNCHANGED <<goal, armed, run, granted>>
    BY <1>11
    DEF Deletes
  <2>2. GoalGranted'
    BY <1>11, <1>0, <2>1, ClosingMoves
    DEF Moved, MovedOn, Returned, GoalGranted, At, Arming
  <2>3. RoundJudged'
    BY <1>11, <1>0, <2>1, ClosingMoves
    DEF Moved, MovedOn, Returned, RoundJudged, Judging, Creating, Closing, Driving,
        RunPlaced, RunDrives, At, Arming
  <2>. QED
    BY <1>0, <2>1, <2>2, <2>3
    DEF Consent, RoundGranted, IsRound
<1>12. ASSUME NEW c \in Callers, Deleted(c)
     PROVE  Consent'
  <2>1. UNCHANGED <<goal, armed, run, granted>>
    BY <1>12
    DEF Deleted, queue, Returns
  <2>2. GoalGranted'
    BY <1>12, <1>0, <2>1, ClosingMoves
    DEF Moved, MovedOn, Returned, GoalGranted, At, Arming
  <2>3. RoundJudged'
    BY <1>12, <1>0, <2>1, ClosingMoves
    DEF Moved, MovedOn, Returned, RoundJudged, Judging, Creating, Closing, Driving,
        RunPlaced, RunDrives, At, Arming
  <2>. QED
    BY <1>0, <2>1, <2>2, <2>3
    DEF Consent, RoundGranted, IsRound
<1>13. ASSUME NEW c \in Callers, Resumes(c)
     PROVE  Consent'
  <2>1. UNCHANGED <<goal, armed, run, granted>>
    BY <1>13
    DEF Resumes, queue, history
  <2>2. GoalGranted'
    BY <1>13, <1>0, <2>1, ResumesMoves
    DEF Moved, MovedOn, Returned, GoalGranted, At, Arming
  <2>3. RoundJudged'
    BY <1>13, <1>0, <2>1, ResumesMoves
    DEF Moved, MovedOn, Returned, RoundJudged, Judging, Creating, Closing, Driving,
        RunPlaced, RunDrives, At, Arming
  <2>. QED
    BY <1>0, <2>1, <2>2, <2>3
    DEF Consent, RoundGranted, IsRound
<1>14. ASSUME NEW c \in Callers, ReserveReads(c)
     PROVE  Consent'
  <2>1. UNCHANGED <<goal, armed, granted>>
    BY <1>14
    DEF ReserveReads, queue, history, Driven, Returns
  <2>2. GoalGranted'
    BY <1>14, <1>0, <2>1, ReserveReadsMoves
    DEF Moved, MovedOn, Returned, DrivenOn, GoalGranted, At, Arming
  <2>3. RoundJudged'
    BY <1>14, <1>0, <2>1, ReserveReadsMoves
    DEF Moved, MovedOn, Returned, DrivenOn, RoundJudged, Judging, Creating, Closing,
        Driving, RunPlaced, RunDrives, At, Arming
  <2>4. RoundGranted'
    BY <1>14, <1>0, <2>1, ReserveReadsMoves
    DEF Moved, MovedOn, Returned, DrivenOn, RoundGranted, IsRound
  <2>. QED
    BY <2>2, <2>3, <2>4
    DEF Consent
<1>15. ASSUME NEW c \in Callers, ReserveWeighs(c)
     PROVE  Consent'
  <2>1. UNCHANGED <<goal, armed, granted>>
    BY <1>15
    DEF ReserveWeighs, queue, history, Driven, Returns
  <2>2. GoalGranted'
    BY <1>15, <1>0, <2>1, ReserveWeighsMoves
    DEF Moved, MovedOn, Returned, DrivenOn, GoalGranted, At, Arming
  <2>3. RoundJudged'
    BY <1>15, <1>0, <2>1, ReserveWeighsMoves
    DEF Moved, MovedOn, Returned, DrivenOn, RoundJudged, Judging, Creating, Closing,
        Driving, RunPlaced, RunDrives, At, Arming
  <2>4. RoundGranted'
    BY <1>15, <1>0, <2>1, ReserveWeighsMoves
    DEF Moved, MovedOn, Returned, DrivenOn, RoundGranted, IsRound
  <2>. QED
    BY <2>2, <2>3, <2>4
    DEF Consent
<1>16. ASSUME NEW c \in Callers, ReserveExhausts(c)
     PROVE  Consent'
  <2>1. UNCHANGED <<armed, granted>>
    BY <1>16
    DEF ReserveExhausts, queue, history, Driven, Returns
  <2>2. GoalGranted'
    BY <1>16, <1>0, <2>1, ReserveExhaustsMoves
    DEF Moved, MovedOn, Returned, DrivenOn, GoalGranted, At, Arming
  <2>3. RoundJudged'
    BY <1>16, <1>0, <2>1, ReserveExhaustsMoves, PlacedNow
    DEF Moved, MovedOn, Returned, DrivenOn, RoundJudged, Judging, Creating, Closing,
        Driving, RunPlaced, RunDrives, At, Arming, PlacedRequest, RequestCopies, Busy
  <2>4. RoundGranted'
    BY <1>16, <1>0, <2>1, ReserveExhaustsMoves
    DEF Moved, MovedOn, Returned, DrivenOn, RoundGranted, IsRound
  <2>. QED
    BY <2>2, <2>3, <2>4
    DEF Consent
<1>17. ASSUME NEW c \in Callers, ReserveRetires(c)
     PROVE  Consent'
  <2>1. UNCHANGED <<goal, granted>>
    BY <1>17
    DEF ReserveRetires, queue, history, Driven, Returns
  <2>2. GoalGranted'
    <3>1. ~armed'
      BY <1>17 DEF ReserveRetires
    <3>2. call'[c].at # "latches" /\ \A d \in Callers : d # c => call'[d] = call[d]
      BY <1>17, ReserveRetiresMoves DEF Moved, MovedOn, Returned, DrivenOn
    <3>. QED  BY <1>0, <2>1, <3>1, <3>2 DEF GoalGranted, At
  <2>3. RoundJudged'
    <3>1. CASE c = Run
      BY <1>17, <1>0, <3>1, ReserveRetiresMoves DEF DrivenOn, RoundJudged, Judging
    <3>2. CASE c # Run
      <4>1. ~armed'
        BY <1>17 DEF ReserveRetires
      <4>2. run' = run /\ call'[c].at = "none"
            /\ \A d \in Callers : d # c => call'[d] = call[d]
        BY <1>17, <3>2, ReserveRetiresMoves DEF Moved, Returned, DrivenOn
      <4>. QED
        BY <1>0, <2>1, <4>1, <4>2 DEF RoundJudged, Judging, Creating, Closing, At
    <3>. QED  BY <3>1, <3>2
  <2>4. RoundGranted'
    BY <1>17, <1>0, <2>1, ReserveRetiresMoves
    DEF Moved, MovedOn, Returned, DrivenOn, RoundGranted, IsRound
  <2>. QED
    BY <2>2, <2>3, <2>4
    DEF Consent
<1>18. ASSUME NEW c \in Callers, ReserveRaises(c)
     PROVE  Consent'
  <2>1. UNCHANGED <<armed, granted>>
    BY <1>18
    DEF ReserveRaises, queue, history, Driven, Returns
  <2>2. GoalGranted'
    BY <1>18, <1>0, <2>1, ReserveRaisesMoves
    DEF Moved, MovedOn, Returned, DrivenOn, GoalGranted, At, Arming
  <2>3. RoundJudged'
    BY <1>18, <1>0, <2>1, ReserveRaisesMoves, PlacedNow
    DEF Moved, MovedOn, Returned, DrivenOn, RoundJudged, Judging, Creating, Closing,
        Driving, RunPlaced, RunDrives, At, Arming, PlacedRequest, RequestCopies, Busy
  <2>4. RoundGranted'
    BY <1>18, <1>0, <2>1, ReserveRaisesMoves
    DEF Moved, MovedOn, Returned, DrivenOn, RoundGranted, IsRound
  <2>. QED
    BY <2>2, <2>3, <2>4
    DEF Consent
<1>19. ASSUME NEW c \in Callers, ReserveEnqueues(c)
     PROVE  Consent'
  <2>1. UNCHANGED <<goal, armed, granted>>
    BY <1>19
    DEF ReserveEnqueues, history, Driven, Returns
  <2>2. GoalGranted'
    BY <1>19, <1>0, <2>1, ReserveEnqueuesMoves
    DEF Moved, MovedOn, Returned, DrivenOn, GoalGranted, At, Arming
  <2>3. RoundJudged'
    BY <1>19, <1>0, <2>1, ReserveEnqueuesMoves
    DEF Moved, MovedOn, Returned, DrivenOn, RoundJudged, Judging, Creating, Closing,
        Driving, RunPlaced, RunDrives, At, Arming
  <2>4. RoundGranted'
    BY <1>19, <1>0, <2>1, ReserveEnqueuesMoves
    DEF Moved, MovedOn, Returned, DrivenOn, RoundGranted, IsRound
  <2>. QED
    BY <2>2, <2>3, <2>4
    DEF Consent
<1>20. ASSUME Spawns
     PROVE  Consent'
  <2>1. UNCHANGED <<goal, armed, call, granted>>
    BY <1>20
    DEF Spawns, queue, history, Count
  <2>2. RoundJudged'
    BY <1>20, <1>0, <2>1
    DEF Spawns, Busy, Count, NoRun, queue, history, RunTyped, RunRecords, RoundJudged,
        Judging, Creating, Closing, Driving, RunPlaced, RunDrives, At, Arming
  <2>3. RoundGranted'
    BY <1>20, <1>0, <2>1
    DEF Spawns, Busy, Count, NoRun, queue, history, RunTyped, RunRecords, RoundGranted,
        IsRound
  <2>. QED
    BY <1>0, <2>1, <2>2, <2>3
    DEF Consent, GoalGranted, At, Arming
<1>21. ASSUME Looks
     PROVE  Consent'
  <2>1. UNCHANGED <<goal, armed, call, granted>>
    BY <1>21
    DEF Looks, queue, history
  <2>2. RoundJudged'
    BY <1>21, <1>0, <2>1
    DEF Looks, NoRun, queue, history, RunTyped, RunRecords, RoundJudged, Judging,
        Creating, Closing, Driving, RunPlaced, RunDrives, At, Arming
  <2>3. RoundGranted'
    BY <1>21, <1>0, <2>1
    DEF Looks, NoRun, queue, history, RunTyped, RunRecords, RoundGranted, IsRound
  <2>. QED
    BY <1>0, <2>1, <2>2, <2>3
    DEF Consent, GoalGranted, At, Arming
<1>22. ASSUME Claims
     PROVE  Consent'
  <2>1. UNCHANGED <<goal, armed, call, granted>>
    BY <1>22
    DEF Claims, queue, history
  <2>2. RoundJudged'
    BY <1>22, <1>0, <2>1
    DEF Claims, IsRound, Message, queue, history, RunTyped, RunRecords, RoundJudged,
        Judging, Creating, Closing, Driving, RunPlaced, RunDrives, At, Arming
  <2>3. RoundGranted'
    BY <1>22, <1>0, <2>1
    DEF Claims, IsRound, Message, queue, history, RunTyped, RunRecords, RoundGranted
  <2>. QED
    BY <1>0, <2>1, <2>2, <2>3
    DEF Consent, GoalGranted, At, Arming
<1>23. ASSUME Empties
     PROVE  Consent'
  <2>1. UNCHANGED <<goal, armed, call, granted>>
    BY <1>23
    DEF Empties, queue, history
  <2>2. RoundJudged'
    BY <1>23, <1>0, <2>1
    DEF Empties, NoRun, queue, history, RunTyped, RunRecords, RoundJudged, Judging,
        Creating, Closing, Driving, RunPlaced, RunDrives, At, Arming
  <2>3. RoundGranted'
    BY <1>23, <1>0, <2>1
    DEF Empties, NoRun, queue, history, RunTyped, RunRecords, RoundGranted, IsRound
  <2>. QED
    BY <1>0, <2>1, <2>2, <2>3
    DEF Consent, GoalGranted, At, Arming
<1>24. ASSUME Judges
     PROVE  Consent'
  <2>1. UNCHANGED <<goal, armed, call, granted>>
    BY <1>24
    DEF Judges, queue, history
  <2>2. RoundJudged'
    <3>1. /\ run'.row = run.row
          /\ run'.ok => goal # None /\ goal.phase = "active" /\ goal.id = run.row.goal
      BY <1>24, <1>0 DEF Judges, RunTyped, RunRecords
    <3>. QED
      BY <1>0, <2>1, <3>1 DEF RoundJudged, Judging, GoalGranted, At
  <2>3. RoundGranted'
    BY <1>24, <1>0, <2>1
    DEF Judges, queue, history, RunTyped, RunRecords, RoundGranted, IsRound
  <2>. QED
    BY <1>0, <2>1, <2>2, <2>3
    DEF Consent, GoalGranted, At, Arming
<1>25. ASSUME Trusts
     PROVE  Consent'
  <2>1. UNCHANGED <<goal, armed, call, granted>>
    BY <1>25
    DEF Trusts, queue, history
  <2>2. RoundJudged'
    BY <1>25, <1>0, <2>1
    DEF Trusts, queue, history, RunTyped, RunRecords, RoundJudged, Judging, Creating,
        Closing, Driving, RunPlaced, RunDrives, At, Arming
  <2>3. RoundGranted'
    <3>1. run'.row = run.row /\ run.at = "trusts"
      BY <1>25, <1>0 DEF Trusts, RunTyped, RunRecords
    <3>2. run'.at \in {"begins", "works"} => run.ok /\ armed
      BY <1>25, <1>0 DEF Trusts, RunTyped, RunRecords
    <3>. QED  BY <1>0, <2>1, <3>1, <3>2 DEF RoundJudged, Judging, RoundGranted
  <2>. QED
    BY <1>0, <2>1, <2>2, <2>3
    DEF Consent, GoalGranted, At, Arming
<1>26. ASSUME Rejects
     PROVE  Consent'
  <2>1. UNCHANGED <<goal, armed, call, granted>>
    BY <1>26
    DEF Rejects, history
  <2>2. RoundJudged'
    BY <1>26, <1>0, <2>1
    DEF Rejects, history, RunTyped, RunRecords, RoundJudged, Judging, Creating, Closing,
        Driving, RunPlaced, RunDrives, At, Arming
  <2>3. RoundGranted'
    BY <1>26, <1>0, <2>1
    DEF Rejects, history, RunTyped, RunRecords, RoundGranted, IsRound
  <2>. QED
    BY <1>0, <2>1, <2>2, <2>3
    DEF Consent, GoalGranted, At, Arming
<1>27. ASSUME Begins
     PROVE  Consent'
  <2>1. UNCHANGED <<goal, armed, call, granted>>
    BY <1>27
    DEF Begins
  <2>2. RoundJudged'
    BY <1>27, <1>0, <2>1
    DEF Begins, IsRound, Message, RunTyped, RunRecords, RoundJudged, Judging, Creating,
        Closing, Driving, RunPlaced, RunDrives, At, Arming
  <2>3. RoundGranted'
    BY <1>27, <1>0, <2>1
    DEF Begins, IsRound, Message, RunTyped, RunRecords, RoundGranted
  <2>. QED
    BY <1>0, <2>1, <2>2, <2>3
    DEF Consent, GoalGranted, At, Arming
<1>28. ASSUME Ends
     PROVE  Consent'
  <2>1. UNCHANGED <<goal, armed, granted>>
    BY <1>28
    DEF Ends, queue, history
  <2>2. GoalGranted'
    BY <1>28, <1>0, <2>1, EndsMoves
    DEF Moved, MovedOn, Returned, GoalGranted, At, Arming
  <2>3. RoundJudged'
    BY <1>28, <1>0, <2>1, EndsMoves
    DEF Moved, MovedOn, Returned, RoundJudged, Judging, Creating, Closing, Driving,
        RunPlaced, RunDrives, At, Arming
  <2>4. RoundGranted'
    BY <1>28, <1>0, <2>1, EndsMoves
    DEF Moved, MovedOn, Returned, RoundGranted, IsRound
  <2>. QED
    BY <2>2, <2>3, <2>4
    DEF Consent
<1>29. ASSUME Fails
     PROVE  Consent'
  <2>1. UNCHANGED <<goal, armed, call, granted>>
    BY <1>29
    DEF Fails, queue, history, Count
  <2>2. RoundJudged'
    BY <1>29, <1>0, <2>1
    DEF Fails, At, Count, queue, history, RunTyped, RunRecords, RoundJudged, Judging,
        Creating, Closing, Driving, RunPlaced, RunDrives, Arming
  <2>3. RoundGranted'
    BY <1>29, <1>0, <2>1
    DEF Fails, At, Count, queue, history, RunTyped, RunRecords, RoundGranted, IsRound
  <2>. QED
    BY <1>0, <2>1, <2>2, <2>3
    DEF Consent, GoalGranted, At, Arming
<1>30. ASSUME Drops
     PROVE  Consent'
  <2>1. UNCHANGED <<goal, armed, call, granted>>
    BY <1>30
    DEF Drops, queue, history
  <2>2. RoundJudged'
    BY <1>30, <1>0, <2>1
    DEF Drops, NoRun, queue, history, RunTyped, RunRecords, RoundJudged, Judging,
        Creating, Closing, Driving, RunPlaced, RunDrives, At, Arming
  <2>3. RoundGranted'
    BY <1>30, <1>0, <2>1
    DEF Drops, NoRun, queue, history, RunTyped, RunRecords, RoundGranted, IsRound
  <2>. QED
    BY <1>0, <2>1, <2>2, <2>3
    DEF Consent, GoalGranted, At, Arming
<1>31. ASSUME CrashAndRestart
     PROVE  Consent'
  <2>1. goal' = goal
    BY <1>31
    DEF CrashAndRestart, queue, Count
  <2>2. GoalGranted'
    BY <1>31, <1>0, <2>1
    DEF CrashAndRestart, Count, NoCall, NoRun, queue, RunTyped, RunRecords, GoalGranted,
        At, Arming
  <2>3. RoundJudged'
    BY <1>31, <1>0, <2>1
    DEF CrashAndRestart, Count, NoCall, NoRun, queue, RunTyped, RunRecords, RoundJudged,
        Judging, Creating, Closing, Driving, RunPlaced, RunDrives, At, Arming
  <2>4. RoundGranted'
    BY <1>31, <1>0, <2>1
    DEF CrashAndRestart, Count, NoCall, NoRun, queue, RunTyped, RunRecords,
        RoundGranted, IsRound
  <2>. QED
    BY <2>2, <2>3, <2>4
    DEF Consent
<1>32. ASSUME UserSends
     PROVE  Consent'
  BY <1>32, <1>0
  DEF UserSends, Consent, GoalGranted, At, Arming, RoundJudged, Judging, Creating,
      Closing, Driving, RunPlaced, RunDrives, RoundGranted, IsRound
<1>33. ASSUME UNCHANGED vars PROVE Consent'
  BY <1>33, <1>0
  DEF vars, queue, memory, history, Consent, GoalGranted, At, Arming, RoundJudged,
      Judging, Creating, Closing, Driving, RunPlaced, RunDrives, RoundGranted, IsRound
<1>. QED
  BY BudgetsNat, <1>1, <1>2, <1>3, <1>4, <1>5, <1>6, <1>7, <1>8, <1>9, <1>10, <1>11,
     <1>12, <1>13, <1>14, <1>15, <1>16, <1>17, <1>18, <1>19, <1>20, <1>21, <1>22, <1>23,
     <1>24, <1>25, <1>26, <1>27, <1>28, <1>29, <1>30, <1>31, <1>32, <1>33
  DEF Next, Step, Callers

-----------------------------------------------------------------------------
(* The stop. While it is under way nothing starts and the run that is there*)
(* is cancelled; from its write on the goal is inactive; and after it no   *)
(* round is past its check that is not cancelled.                          *)
Inactive == goal = None \/ goal.phase # "active"
Ending == {"latches", "lists", "deletes"}
StopHolds ==
  \A w \in Requests :
    call[w].does = "stop" /\ quiet = "asked" =>
      /\ call[w].at # "none" => stopped /\ (Busy => run.cancelled)
      /\ call[w].at \in Ending => Inactive
LooseRound == run.at \in {"begins", "works"} /\ IsRound(run.row) /\ ~run.cancelled
LooseJudging == Judging /\ ~run.cancelled
StopHeld == quiet = "held" => Inactive /\ ~LooseRound /\ ~LooseJudging
Quiet == StopHolds /\ StopHeld

(* What can happen to the run.                                             *)
LEMMA RunChanges ==
  ASSUME Typed, [Next]_vars
  PROVE  \/ run' = run \/ run' = NoRun
         \/ run' = [run EXCEPT !.cancelled = Busy]
         \/ Busy /\ \E p \in {"drops", "drives", "claims"} : run' = [run EXCEPT !.at = p]
         \/ ~stopped /\ ~Busy /\ run' = [NoRun EXCEPT !.at = "looks"]
         \/ Claims \/ Judges \/ Trusts \/ Rejects \/ Begins
<1>1. ASSUME NEW w \in Requests, NEW action, NEW max, RequestBegins(w, action, max)
      PROVE  run' = run \/ run' = [run EXCEPT !.cancelled = Busy]
  BY <1>1 DEF RequestBegins
<1>2. ASSUME NEW c \in Callers, Step(c)
      PROVE  run' # run => Busy /\ run' = [run EXCEPT !.at = "drops"]
  <2>1. CASE c # Run
    BY <1>2, <2>1
    DEF Step, Reads, Checks, Writes, Inserts, Latches, Disarms, Erases, Lists, Deletes,
        Deleted, Resumes, ReserveReads, ReserveWeighs, ReserveExhausts, ReserveRetires,
        ReserveRaises, ReserveEnqueues, Driven
  <2>2. CASE c = Run /\ run' # run
    <3>1. call[Run].at \in Driving /\ run' = [run EXCEPT !.at = "drops"]
      BY <1>2, <2>2
      DEF Step, Reads, Checks, Writes, Inserts, Latches, Disarms, Erases, Lists, Deletes,
          Deleted, Resumes, ReserveReads, ReserveWeighs, ReserveExhausts, ReserveRetires,
          ReserveRaises, ReserveEnqueues, Driven, Driving, At
    <3>. QED  BY <3>1 DEF Typed, Types, RunDrives, Busy
  <2>. QED  BY <2>1, <2>2
<1>3. ASSUME Spawns
      PROVE  run' # run => ~stopped /\ ~Busy /\ run' = [NoRun EXCEPT !.at = "looks"]
  BY <1>3 DEF Spawns
<1>4. ASSUME Looks PROVE Busy /\ (run' = NoRun \/ run' = [run EXCEPT !.at = "claims"])
  BY <1>4 DEF Looks, Busy
<1>5. ASSUME UserSends \/ (\E action, max : ToolBegins(action, max)) \/ UNCHANGED vars
      PROVE  run' = run
  BY <1>5 DEF UserSends, ToolBegins, vars, memory
<1>6. ASSUME Empties \/ Drops \/ CrashAndRestart PROVE run' = NoRun
  BY <1>6 DEF Empties, Drops, CrashAndRestart
<1>7. ASSUME Ends PROVE Busy /\ run' = [run EXCEPT !.at = "drives"]
  BY <1>7 DEF Ends, Busy
<1>8. ASSUME Fails PROVE Busy /\ run' = [run EXCEPT !.at = "drops"]
  BY <1>8 DEF Fails, Busy
<1>. QED  BY <1>1, <1>2, <1>3, <1>4, <1>5, <1>6, <1>7, <1>8 DEF Next

(* A cancelled run stays so, and none starts in a stopped session.         *)
LEMMA CancelKept ==
  ASSUME Typed, [Next]_vars, stopped \/ Busy, Busy => run.cancelled
  PROVE  Busy' => run'.cancelled
<1>1. run \in RunRecords
  BY DEF Typed, Types, RunTyped
<1>2. CASE run' \in {run, NoRun}
  BY <1>2, NothingTyped DEF Busy
<1>3. CASE run' = [run EXCEPT !.cancelled = Busy]
  <2>1. run'.at = run.at /\ run'.cancelled = Busy
    BY <1>1, <1>3 DEF RunRecords
  <2>. QED  BY <2>1 DEF Busy
<1>4. CASE Busy /\ \E p \in {"drops", "drives", "claims"} : run' = [run EXCEPT !.at = p]
  <2>1. run'.cancelled = run.cancelled
    BY <1>1, <1>4 DEF RunRecords
  <2>. QED  BY <1>4, <2>1
<1>5. CASE Claims \/ Judges \/ Trusts \/ Rejects \/ Begins
  <2>1. run'.cancelled = run.cancelled /\ Busy
    BY <1>1, <1>5 DEF Claims, Judges, Trusts, Rejects, Begins, Busy, RunRecords
  <2>. QED  BY <2>1
<1>. QED  BY <1>2, <1>3, <1>4, <1>5, RunChanges

(* Only a goal that is active lets a round through.                        *)
LEMMA RunStep ==
  ASSUME Typed, [Next]_vars
  PROVE  /\ LooseJudging' => LooseJudging \/ ~Inactive
         /\ LooseRound' => LooseRound \/ LooseJudging
<1>1. run \in RunRecords
  BY DEF Typed, Types, RunTyped
<1>2. CASE run' \in {run, NoRun}
  BY <1>2, NothingTyped DEF LooseJudging, LooseRound, Judging, IsRound
<1>3. CASE run' = [run EXCEPT !.cancelled = Busy]
  <2>1. run'.at = run.at /\ (run'.at # "none" => run'.cancelled)
    BY <1>1, <1>3 DEF RunRecords, Busy
  <2>. QED  BY <2>1 DEF LooseJudging, LooseRound, Judging
<1>4. CASE \E p \in {"drops", "drives", "claims"} : run' = [run EXCEPT !.at = p]
  BY <1>1, <1>4 DEF RunRecords, LooseJudging, LooseRound, Judging
<1>5. CASE run' = [NoRun EXCEPT !.at = "looks"]
  BY <1>5 DEF NoRun, LooseJudging, LooseRound, Judging
<1>6. CASE Claims
  <2>1. run'.at # "trusts" /\ (run'.at \in {"begins", "works"} => ~IsRound(run'.row))
    BY <1>1, <1>6 DEF Claims, RunRecords
  <2>. QED  BY <2>1 DEF LooseJudging, LooseRound, Judging, IsRound
<1>7. CASE Judges
  <2>1. run'.at = "trusts" /\ (run'.ok => goal # None /\ goal.phase = "active")
    BY <1>1, <1>7 DEF Judges, RunRecords
  <2>. QED  BY <2>1 DEF LooseJudging, LooseRound, Judging, Inactive
<1>8. CASE Trusts
  <2>1. /\ run'.at \in {"begins", "rejects"} /\ (run'.at = "begins" => run.at = "trusts" /\ run.ok)
        /\ run'.cancelled = run.cancelled
    BY <1>1, <1>8 DEF Trusts, RunRecords
  <2>. QED  BY <2>1 DEF LooseJudging, LooseRound, Judging
<1>9. CASE Rejects
  BY <1>1, <1>9 DEF Rejects, RunRecords, LooseJudging, LooseRound, Judging
<1>10. CASE Begins
  <2>1. /\ run.at = "begins" /\ run'.at \in {"drops", "works"}
        /\ run'.row = run.row /\ run'.cancelled = run.cancelled
    BY <1>1, <1>10 DEF Begins, RunRecords
  <2>. QED  BY <2>1 DEF LooseJudging, LooseRound, Judging, IsRound
<1>. QED  BY <1>2, <1>3, <1>4, <1>5, <1>6, <1>7, <1>8, <1>9, <1>10, RunChanges

(* A goal becomes active by what ends the quiet as well.                   *)
LEMMA InactiveKept ==
  ASSUME Typed, [Next]_vars, Inactive, quiet' # "no"
  PROVE  Inactive'
<1>1. CASE goal' = goal
  BY <1>1 DEF Inactive
<1>2. ASSUME NEW c \in Callers, Writes(c) PROVE Inactive'
  <2>1. CASE Rewritten(c)
    <3>1. call[c].does \in {"pause", "stop", "complete", "blocked", "edit", "resume"}
      BY <1>2, WritesMoves, PlacedNow DEF PlacedAnyone, At
    <3>2. call[c].does = "resume" => goal' = goal \/ quiet' = "no"
      BY <1>2, WritesMoves
    <3>. QED  BY <2>1, <3>1, <3>2 DEF Rewritten, Inactive
  <2>. QED  BY <1>1, <1>2, <2>1, WritesMoves
<1>3. ASSUME NEW c \in Callers, Inserts(c) PROVE Inactive'
  BY <1>1, <1>3, InsertsMoves DEF Inserted
<1>4. ASSUME NEW c \in Callers, Erases(c) PROVE Inactive'
  BY <1>4 DEF Erases, Inactive
<1>5. ASSUME NEW c \in Callers, ReserveExhausts(c) \/ ReserveRaises(c) PROVE Inactive'
  BY <1>1, <1>5, ReserveExhaustsMoves, ReserveRaisesMoves DEF Inactive
<1>. QED  BY <1>1, <1>2, <1>3, <1>4, <1>5, GoalChanges

(* Nobody but the caller of a step moves.                                  *)
LEMMA StepMovesOne ==
  ASSUME Typed, NEW c \in Callers, Step(c)
  PROVE  \A d \in Callers : d # c => call'[d] = call[d]
<1>1. ASSUME \/ Reads(c) \/ Checks(c) \/ Writes(c) \/ Inserts(c) \/ Latches(c) \/ Resumes(c)
      PROVE  \A d \in Callers : d # c => call'[d] = call[d]
  BY <1>1, ReadsMoves, ChecksMoves, WritesGrants, InsertsGrants, LatchesMoves, ResumesMoves
  DEF Moved, MovedOn, Returned
<1>2. ASSUME Disarms(c) \/ Erases(c) \/ Lists(c) \/ Deletes(c) \/ Deleted(c)
      PROVE  \A d \in Callers : d # c => call'[d] = call[d]
  BY <1>2, ErasureMoves, ClosingMoves DEF Moved, MovedOn, Returned
<1>3. ASSUME \/ ReserveReads(c) \/ ReserveWeighs(c) \/ ReserveExhausts(c)
             \/ ReserveRetires(c) \/ ReserveRaises(c) \/ ReserveEnqueues(c)
      PROVE  \A d \in Callers : d # c => call'[d] = call[d]
  BY <1>3, ReserveReadsMoves, ReserveWeighsMoves, ReserveExhaustsMoves,
     ReserveRetiresMoves, ReserveRaisesMoves, ReserveEnqueuesMoves
  DEF Moved, MovedOn, Returned, DrivenOn
<1>. QED  BY <1>1, <1>2, <1>3 DEF Step

(* What ends a stop that is under way.                                     *)
LEMMA StopHoldsStep ==
  ASSUME OneRequest, Typed, Quiet, [Next]_vars
  PROVE  StopHolds'
<1>0. /\ StopHolds /\ \A w \in Requests : w # Run /\ w \in Callers
      /\ \A v, w \in Requests : v = w
      /\ \A c \in Callers : c # Run => c \in Requests
  BY RunIsNoRequest DEF Quiet, OneRequest, Callers
<1>i. Inactive /\ quiet' # "no" => Inactive'
  BY InactiveKept
<1>s. (stopped \/ Busy) /\ (Busy => run.cancelled) => (Busy' => run'.cancelled)
  BY CancelKept
<1>k. ASSUME \A w \in Requests : call'[w] = call[w], quiet' \in {quiet, "no"}, stopped' = stopped
      PROVE  StopHolds'
  BY <1>0, <1>i, <1>s, <1>k DEF StopHolds
<1>1. ASSUME NEW w \in Requests, NEW max \in Nat,
             NEW action \in {"create", "resume", "pause", "clear", "stop"},
             action \in {"create", "resume"} => max \in Budgets, RequestBegins(w, action, max)
      PROVE  StopHolds'
  <2>1. call'[w].at = FirstStep[action] /\ call'[w].does = action
    BY <1>1, RequestMoves DEF Moved
  <2>2. CASE action = "stop"
    <3>1. call'[w].at = "reads" /\ stopped'
      BY <1>1, <2>1, <2>2, RequestMoves DEF RequestBegins
    <3>2. run' = [run EXCEPT !.cancelled = Busy] /\ run \in RunRecords
      BY <1>1, <2>2 DEF RequestBegins, Typed, Types, RunTyped
    <3>3. run'.at = run.at /\ run'.cancelled = Busy
      BY <3>2 DEF RunRecords
    <3>4. Busy' => run'.cancelled
      BY <3>3 DEF Busy
    <3>. QED  BY <1>0, <3>1, <3>4 DEF StopHolds, Ending
  <2>3. CASE action # "stop"
    BY <1>0, <2>1, <2>3 DEF StopHolds
  <2>. QED  BY <2>2, <2>3
<1>2. ASSUME NEW max \in Nat,
             NEW action \in {"create", "edit", "pause", "resume", "complete", "blocked"},
             action = "create" => max \in Budgets, ToolBegins(action, max)
      PROVE  StopHolds'
  <2>1. \A w \in Requests : call'[w] = call[w]
    BY <1>0, <1>2, ToolMoves DEF Moved
  <2>2. quiet' = quiet /\ stopped' = stopped
    BY <1>2 DEF ToolBegins, history
  <2>. QED  BY <1>k, <2>1, <2>2
<1>3. ASSUME Step(Run) PROVE StopHolds'
  <2>0. Run \in Callers
    BY DEF Callers
  <2>1. \A w \in Requests : call'[w] = call[w]
    BY <1>0, <1>3, <2>0, StepMovesOne
  <2>2. ~Resumes(Run) /\ ~Deleted(Run)
    BY <2>0, ResumesMoves, ClosingMoves
  <2>3. quiet' \in {quiet, "no"} /\ stopped' = stopped
    BY <1>3, <2>2
    DEF Step, Reads, Checks, Writes, Inserts, Latches, Disarms, Erases, Lists, Deletes,
        ReserveReads, ReserveWeighs, ReserveExhausts, ReserveRetires, ReserveRaises,
        ReserveEnqueues, history
  <2>. QED  BY <1>k, <2>1, <2>3
<1>4. ASSUME NEW c \in Requests, Step(c) PROVE StopHolds'
  <2>0. c \in Callers /\ c # Run /\ PlacedRequest(call[c].at, call[c].does)
    BY <1>0, PlacedNow
  <2>m. ASSUME /\ call'[c].does = "stop" =>
                    /\ call[c].does = "stop" /\ call[c].at # "none"
                    /\ call'[c].at \in Ending => call[c].at \in Ending \/ Inactive'
               /\ stopped' = stopped /\ (quiet' = "asked" => quiet = "asked")
        PROVE  StopHolds'
    BY <1>0, <1>i, <1>s, <2>m DEF StopHolds
  <2>1. ASSUME Reads(c) PROVE StopHolds'
    <3>1. stopped' = stopped /\ quiet' = quiet /\ goal' = goal
      BY <2>1 DEF Reads, history
    <3>. QED
      BY <2>0, <2>1, <2>m, <3>1, ReadsMoves DEF Moved, Returned, Inactive, Ending, At
  <2>2. ASSUME Checks(c) PROVE StopHolds'
    <3>1. stopped' = stopped /\ quiet' = quiet
      BY <2>2 DEF Checks, history
    <3>. QED  BY <2>0, <2>2, <2>m, <3>1, ChecksMoves DEF Moved, Returned, Ending, At
  <2>3. ASSUME Writes(c) PROVE StopHolds'
    <3>1. stopped' = stopped /\ (quiet' = "asked" => quiet = "asked")
      BY <2>3 DEF Writes, history
    <3>2. call'[c].does = "stop" =>
            call[c].does = "stop" /\ call[c].at # "none" /\ (call'[c].at \in Ending => Inactive')
      BY <2>0, <2>3, WritesMoves
      DEF Rewritten, Moved, MovedOn, Returned, Inactive, Ending, At
    <3>. QED  BY <2>m, <3>1, <3>2
  <2>4. ASSUME Inserts(c) PROVE StopHolds'
    <3>1. call'[c].does # "stop"
      BY <2>0, <2>4, InsertsMoves DEF Moved, MovedOn, Returned
    <3>. QED  BY <1>0, <3>1 DEF StopHolds
  <2>5. ASSUME Latches(c) PROVE StopHolds'
    <3>1. stopped' = stopped /\ quiet' = quiet
      BY <2>5 DEF Latches, history
    <3>. QED
      BY <2>0, <2>5, <2>m, <3>1, LatchesMoves DEF Moved, MovedOn, Arming, Ending, At
  <2>6. ASSUME Disarms(c) \/ Erases(c) PROVE StopHolds'
    <3>1. call'[c].does # "stop"
      BY <2>0, <2>6, ErasureMoves DEF Moved, MovedOn, Returned, PlacedRequest, At
    <3>. QED  BY <1>0, <3>1 DEF StopHolds
  <2>7. ASSUME Lists(c) \/ Deletes(c) PROVE StopHolds'
    <3>1. stopped' = stopped /\ quiet' = quiet
      BY <2>7 DEF Lists, Deletes, history
    <3>. QED  BY <2>0, <2>7, <2>m, <3>1, ClosingMoves DEF Moved, MovedOn, Ending, At
  <2>8. ASSUME Deleted(c) PROVE StopHolds'
    <3>1. call'[c].does # "stop"
      BY <2>0, <2>8, ClosingMoves DEF Moved, MovedOn, Returned
    <3>. QED  BY <1>0, <3>1 DEF StopHolds
  <2>9. ASSUME Resumes(c) PROVE StopHolds'
    <3>1. call'[c].does # "stop"
      BY <2>0, <2>9, ResumesMoves DEF Moved, MovedOn, PlacedRequest, Arming, At
    <3>. QED  BY <1>0, <3>1 DEF StopHolds
  <2>10. ASSUME \/ ReserveReads(c) \/ ReserveWeighs(c) \/ ReserveExhausts(c)
                \/ ReserveRetires(c) \/ ReserveRaises(c) \/ ReserveEnqueues(c)
         PROVE  StopHolds'
    <3>1. call[c].at \in Driving
      BY <2>10 DEF ReserveReads, ReserveWeighs, ReserveExhausts, ReserveRetires,
         ReserveRaises, ReserveEnqueues, Driving, At
    <3>2. call[c].does # "stop"
      BY <2>0, <3>1 DEF PlacedRequest, Arming
    <3>3. call'[c].does \in {call[c].does, "none"}
      BY <2>0, <2>10, ReserveReadsMoves, ReserveWeighsMoves, ReserveExhaustsMoves,
         ReserveRetiresMoves, ReserveRaisesMoves, ReserveEnqueuesMoves
      DEF Moved, MovedOn, Returned, DrivenOn
    <3>. QED  BY <1>0, <3>2, <3>3 DEF StopHolds
  <2>. QED  BY <1>4, <2>1, <2>2, <2>3, <2>4, <2>5, <2>6, <2>7, <2>8, <2>9, <2>10 DEF Step
<1>5. ASSUME UserSends PROVE StopHolds'
  <2>1. quiet' # "asked"
    BY <1>5 DEF UserSends
  <2>. QED  BY <2>1 DEF StopHolds
<1>6. ASSUME CrashAndRestart PROVE StopHolds'
  BY <1>0, <1>6 DEF CrashAndRestart, NoCall, StopHolds, Ending
<1>7. ASSUME \/ Spawns \/ Looks \/ Claims \/ Empties \/ Judges \/ Trusts \/ Rejects
             \/ Begins \/ Fails \/ Drops \/ UNCHANGED vars
      PROVE  StopHolds'
  <2>1. call' = call /\ stopped' = stopped /\ quiet' = quiet
    BY <1>7 DEF Spawns, Looks, Claims, Empties, Judges, Trusts, Rejects, Begins, Fails, Drops,
       vars, memory, history
  <2>. QED  BY <1>k, <2>1
<1>8. ASSUME Ends PROVE StopHolds'
  <2>1. \A w \in Requests : call'[w] = call[w]
    BY <1>0, <1>8, EndsMoves DEF MovedOn, Moved
  <2>2. quiet' = quiet /\ stopped' = stopped
    BY <1>8 DEF Ends, history
  <2>. QED  BY <1>k, <2>1, <2>2
<1>. QED
  BY <1>0, <1>1, <1>2, <1>3, <1>4, <1>5, <1>6, <1>7, <1>8, BudgetsNat DEF Next, Callers

(* The stop is held by its last step.                                      *)
LEMMA HeldByStop ==
  ASSUME [Next]_vars, quiet' = "held"
  PROVE  \/ quiet = "held"
         \/ \E c \in Callers : Deleted(c) /\ call[c].does = "stop" /\ quiet = "asked"
BY DEF Next, Step, vars, history, RequestBegins, ToolBegins, Reads, Checks, Writes, Inserts,
   Latches, Disarms, Erases, Lists, Deletes, Deleted, Resumes, ReserveReads, ReserveWeighs,
   ReserveExhausts, ReserveRetires, ReserveRaises, ReserveEnqueues, UserSends, Spawns,
   Looks, Claims, Empties, Judges, Trusts, Rejects, Begins, Ends, Fails, Drops,
   CrashAndRestart

LEMMA QuietStep ==
  ASSUME OneRequest, Typed, Quiet, [Next]_vars
  PROVE  Quiet'
<1>1. StopHolds'
  BY StopHoldsStep
<1>2. ASSUME quiet' = "held", quiet = "held"
      PROVE  Inactive' /\ ~LooseRound' /\ ~LooseJudging'
  BY <1>2, InactiveKept, RunStep DEF Quiet, StopHeld
<1>3. ASSUME NEW c \in Callers, Deleted(c), call[c].does = "stop", quiet = "asked"
      PROVE  Inactive' /\ ~LooseRound' /\ ~LooseJudging'
  <2>1. At(c, "deletes") /\ c \in Requests
    BY <1>3, ClosingMoves DEF Callers
  <2>2. Inactive /\ (Busy => run.cancelled)
    BY <1>3, <2>1 DEF Quiet, StopHolds, Ending, At
  <2>3. goal' = goal /\ run' = run
    BY <1>3 DEF Deleted
  <2>. QED
    BY <2>2, <2>3 DEF Inactive, LooseRound, LooseJudging, Judging, Busy, IsRound
<1>. QED  BY <1>1, <1>2, <1>3, HeldByStop DEF Quiet, StopHeld

-----------------------------------------------------------------------------
(* The budget. A row of a round is pending, claimed, with the run, about to*)
(* be enqueued by a driver, or begun. The rows that count are those taken  *)
(* of the goal since its budget was set; each has a number of its own, up  *)
(* to the goal's rounds, which the check of the budget bounds.             *)
Pending == Range(waiting) \cup {call[c].round : c \in Callers}
Held == (Pending \cup {claimed, run.row} \cup begun) \cap Rows
Counted == {r \in Held : r.goal = goal.id /\ r.revision > renewed}
BudgetWeighed == \A c \in Callers : At(c, "raises") => ~Exhausted(call[c].copy)
RoundsBounded == goal # None /\ goal.max > 0 => goal.rounds <= goal.max
RowsKnown == \A r \in Held : r.goal <= used.goals
RowsOld == goal # None => \A r \in Held : r.goal = goal.id => r.revision <= goal.revision
RowsCounted == goal # None => \A r \in Counted : r.round \in 1..goal.rounds
RowsDistinct == goal # None => \A r, q \in Counted : r.round = q.round => r = q
Rounds == RowsKnown /\ RowsOld /\ RowsCounted /\ RowsDistinct
Budget == BudgetWeighed /\ RoundsBounded /\ Rounds

(* What takes a round.                                                     *)
Raised(c, r) ==
  /\ Matches(c) /\ At(c, "raises") /\ goal # None
  /\ goal' \in Goals /\ goal'.id = goal.id /\ goal'.revision = goal.revision + 1
  /\ goal'.rounds = goal.rounds + 1 /\ goal'.max = goal.max
  /\ r.goal = goal.id /\ r.revision = goal.revision + 1 /\ r.round = goal.rounds + 1
  /\ UNCHANGED <<run, queue, history, used>>
  /\ Moved(c, "enqueues", call[c].does, call[c].copy, r)

LEMMA RaisesRaised ==
  ASSUME Typed, NEW c \in Callers, ReserveRaises(c)
  PROVE  (\E r \in Rows : Raised(c, r)) \/ (goal' = goal /\ DrivenOn(c))
<1>1. UNCHANGED <<queue, history, used>>
  BY DEF ReserveRaises
<1>2. ASSUME NEW r \in Rows,
             /\ Matches(c) /\ goal # None /\ goal' \in Goals /\ goal'.id = goal.id
             /\ goal'.revision = goal.revision + 1
             /\ goal'.rounds = goal.rounds + 1 /\ goal'.max = goal.max
             /\ r.goal = goal.id /\ r.revision = goal.revision + 1 /\ r.round = goal.rounds + 1
             /\ Moved(c, "enqueues", call[c].does, call[c].copy, r) /\ run' = run,
             At(c, "raises")
      PROVE  Raised(c, r)
  BY <1>1, <1>2 DEF Raised
<1>. QED  BY <1>2, ReserveRaisesMoves

(* The rows of the queue: each comes from where a row was.                 *)
LEMMA AppendRange ==
  ASSUME NEW S, NEW s \in Seq(S), NEW x \in S
  PROVE  Range(Append(s, x)) \subseteq Range(s) \cup {x}
BY DEF Range

LEMMA QueueChanges ==
  ASSUME [Next]_vars, waiting' # waiting
  PROVE  \/ \E c \in Callers : Deletes(c) \/ ReserveEnqueues(c)
         \/ UserSends \/ Claims
BY DEF Next, Step, vars, queue, RequestBegins, ToolBegins, Reads, Checks, Writes, Inserts,
   Latches, Disarms, Erases, Lists, Deleted, Resumes, ReserveReads, ReserveWeighs,
   ReserveExhausts, ReserveRetires, ReserveRaises, Spawns, Looks, Empties, Judges,
   Trusts, Rejects, Begins, Ends, Fails, Drops, CrashAndRestart

LEMMA WaitingKept ==
  ASSUME Typed, [Next]_vars
  PROVE  Range(waiting') \subseteq Pending \cup {Message}
<1>1. waiting \in Seq(Rows \cup {Message})
  BY DEF Typed, Types, QueueTyped
<1>2. ASSUME NEW c \in Callers, Deletes(c) PROVE Range(waiting') \subseteq Range(waiting)
  <2>1. PICK r \in call[c].listed :
          IF r \in Range(waiting)
          THEN \E i \in DOMAIN waiting : waiting[i] = r /\ waiting' = RemoveAt(waiting, i)
          ELSE UNCHANGED waiting
    BY <1>2 DEF Deletes
  <2>. QED  BY <1>1, <2>1, RemoveAtTyped
<1>3. ASSUME NEW c \in Callers, ReserveEnqueues(c)
      PROVE  Range(waiting') \subseteq Range(waiting) \cup {call[c].round}
  <2>1. call[c].round \in Rows \cup {Message} /\ waiting' = Append(waiting, call[c].round)
    BY <1>3, ReserveEnqueuesMoves
  <2>. QED  BY <1>1, <2>1, AppendRange
<1>4. ASSUME UserSends PROVE Range(waiting') \subseteq Range(waiting) \cup {Message}
  BY <1>1, <1>4, AppendRange DEF UserSends
<1>5. ASSUME Claims PROVE Range(waiting') \subseteq Range(waiting)
  BY <1>5, ClaimsRun DEF queue
<1>6. CASE waiting' = waiting
  BY <1>6 DEF Pending
<1>. QED  BY <1>2, <1>3, <1>4, <1>5, <1>6, QueueChanges DEF Pending

(* A caller keeps its row or gives it up, but for the driver that takes it.*)
LEMMA CallsKept ==
  ASSUME Typed, [Next]_vars, NEW c \in Callers, call'[c].round \notin {call[c].round, None}
  PROVE  ReserveRaises(c) /\ goal' # goal
<1>0. Run \in Callers /\ Requests \subseteq Callers
  BY DEF Callers
<1>1. ASSUME NEW w \in Requests, NEW max \in Nat,
             NEW action \in {"create", "resume", "pause", "clear", "stop"},
             action \in {"create", "resume"} => max \in Budgets, RequestBegins(w, action, max)
      PROVE  FALSE
  BY <1>0, <1>1, RequestMoves DEF Moved
<1>2. ASSUME NEW max \in Nat,
             NEW action \in {"create", "edit", "pause", "resume", "complete", "blocked"},
             action = "create" => max \in Budgets, ToolBegins(action, max)
      PROVE  FALSE
  BY <1>0, <1>2, ToolMoves DEF Moved
<1>3. ASSUME NEW d \in Callers, Step(d), d # c PROVE FALSE
  BY <1>3, StepMovesOne
<1>4. ASSUME Step(c) PROVE ReserveRaises(c) /\ goal' # goal
  <2>1. ASSUME \/ Reads(c) \/ Checks(c) \/ Writes(c) \/ Inserts(c) \/ Latches(c) \/ Resumes(c)
        PROVE  FALSE
    BY <2>1, ReadsMoves, ChecksMoves, WritesMoves, InsertsMoves, LatchesMoves, ResumesMoves
    DEF Moved, MovedOn, Returned
  <2>2. ASSUME Disarms(c) \/ Erases(c) \/ Lists(c) \/ Deletes(c) \/ Deleted(c)
        PROVE  FALSE
    BY <2>2, ErasureMoves, ClosingMoves DEF Moved, MovedOn, Returned
  <2>3. ASSUME \/ ReserveReads(c) \/ ReserveWeighs(c) \/ ReserveExhausts(c)
               \/ ReserveRetires(c) \/ ReserveEnqueues(c)
        PROVE  FALSE
    BY <2>3, ReserveReadsMoves, ReserveWeighsMoves, ReserveExhaustsMoves,
       ReserveRetiresMoves, ReserveEnqueuesMoves
    DEF Moved, MovedOn, Returned, DrivenOn
  <2>4. ASSUME ReserveRaises(c) PROVE goal' # goal
    <3>1. ~DrivenOn(c)
      BY DEF DrivenOn, Returned, Moved
    <3>2. PICK r \in Rows : Raised(c, r)
      BY <2>4, <3>1, RaisesRaised
    <3>3. goal.rounds \in Nat /\ goal'.rounds = goal.rounds + 1
      BY <3>2, GoalTypes DEF Raised, Typed, Types, GoalTyped
    <3>. QED  BY <3>3
  <2>. QED  BY <1>4, <2>1, <2>2, <2>3, <2>4 DEF Step
<1>5. ASSUME CrashAndRestart PROVE FALSE
  BY <1>5 DEF CrashAndRestart, NoCall
<1>6. ASSUME \/ UserSends \/ Spawns \/ Looks \/ Claims \/ Empties \/ Judges \/ Trusts \/ Rejects
             \/ Begins \/ Fails \/ Drops \/ UNCHANGED vars
      PROVE  FALSE
  BY <1>6 DEF UserSends, Spawns, Looks, Claims, Empties, Judges, Trusts, Rejects, Begins,
     Fails, Drops, vars, memory
<1>7. ASSUME Ends PROVE FALSE
  BY <1>0, <1>7, EndsMoves DEF MovedOn, Moved
<1>. QED
  BY <1>1, <1>2, <1>3, <1>4, <1>5, <1>6, <1>7, BudgetsNat DEF Next, Callers

(* The row of the run, and what it has begun.                              *)
LEMMA RowKept ==
  ASSUME Typed, [Next]_vars
  PROVE  {claimed', run'.row} \cup begun' \subseteq
           Range(waiting) \cup {claimed, run.row, None} \cup begun
<1>1. run \in RunRecords
  BY DEF Typed, Types, RunTyped
<1>2. run'.row \in Range(waiting) \cup {claimed, run.row, None}
  <2>1. CASE run' \in {run, NoRun}
    BY <2>1, NothingTyped
  <2>2. CASE \/ run' = [run EXCEPT !.cancelled = Busy]
             \/ \E p \in {"drops", "drives", "claims"} : run' = [run EXCEPT !.at = p]
    BY <1>1, <2>2 DEF RunRecords
  <2>3. CASE run' = [NoRun EXCEPT !.at = "looks"]
    BY <2>3 DEF NoRun
  <2>4. CASE Claims
    <3>1. CASE run' = [run EXCEPT !.at = "empties"]
      BY <1>1, <3>1 DEF RunRecords
    <3>2. CASE \E r \in Rows \cup {Message} :
                 /\ r = claimed \/ r \in Range(waiting)
                 /\ run' = [run EXCEPT !.row = r,
                                       !.at = IF IsRound(r) THEN "judges" ELSE "begins"]
      BY <1>1, <3>2 DEF RunRecords
    <3>. QED  BY <2>4, <3>1, <3>2, ClaimsRun
  <2>5. CASE Judges \/ Trusts \/ Rejects \/ Begins
    BY <1>1, <2>5 DEF Judges, Trusts, Rejects, Begins, RunRecords
  <2>. QED  BY <2>1, <2>2, <2>3, <2>4, <2>5, RunChanges
<1>3. begun' \subseteq begun \cup {run.row}
  BY DEF Next, Step, vars, history, RequestBegins, ToolBegins, Reads, Checks, Writes, Inserts,
     Latches, Disarms, Erases, Lists, Deletes, Deleted, Resumes, ReserveReads,
     ReserveWeighs, ReserveExhausts, ReserveRetires, ReserveRaises, ReserveEnqueues,
     UserSends, Spawns, Looks, Claims, Empties, Judges, Trusts, Rejects, Begins, Ends,
     Fails, Drops, CrashAndRestart
<1>4. claimed' \in {claimed, None} \cup Range(waiting)
  <2>1. CASE Claims
    BY <2>1, ClaimsRun DEF queue
  <2>2. CASE ~Claims
    BY <2>2
    DEF Next, Step, vars, queue, RequestBegins, ToolBegins, Reads, Checks, Writes, Inserts,
        Latches, Disarms, Erases, Lists, Deletes, Deleted, Resumes, ReserveReads,
        ReserveWeighs, ReserveExhausts, ReserveRetires, ReserveRaises, ReserveEnqueues,
        UserSends, Spawns, Looks, Empties, Judges, Trusts, Rejects, Begins, Ends,
        Fails, Drops, CrashAndRestart
  <2>. QED  BY <2>1, <2>2
<1>. QED  BY <1>2, <1>3, <1>4

LEMMA HeldKept ==
  ASSUME Typed, [Next]_vars, goal' = goal \/ ~\E c \in Callers : ReserveRaises(c)
  PROVE  Held' \subseteq Held
<1>1. {call'[c].round : c \in Callers} \subseteq {call[c].round : c \in Callers} \cup {None}
  BY CallsKept
<1>. QED  BY <1>1, WaitingKept, RowKept, NothingTyped DEF Held, Pending

LEMMA HeldRaised ==
  ASSUME NEW c \in Callers, NEW r \in Rows, Raised(c, r)
  PROVE  Held' \subseteq Held \cup {r}
<1>1. \A d \in Callers : call'[d].round \in {call[d].round, r}
  BY DEF Raised, Moved
<1>. QED  BY <1>1 DEF Raised, queue, history, Held, Pending

(* A step that takes no round and leaves the budget's revision.            *)
LEMMA RoundsKept ==
  ASSUME Typed, [Next]_vars, Rounds, Held' \subseteq Held, renewed' = renewed,
         goal' # None => /\ goal # None /\ goal'.id = goal.id
                         /\ goal.revision <= goal'.revision /\ goal.rounds = goal'.rounds,
         used.goals <= used'.goals, Typed'
  PROVE  Rounds'
<1>1. \A r \in Held : r.goal \in Nat /\ r.revision \in Nat /\ r.round \in Nat
  BY MaxGoalsNat DEF Held, Rows, GoalIds
<1>2. used.goals \in Nat /\ used'.goals \in Nat
  BY DEF Typed, Types, UsedTyped
<1>3. RowsKnown'
  BY <1>1, <1>2 DEF Rounds, RowsKnown
<1>4. goal' # None => goal.revision \in Nat /\ goal'.revision \in Nat /\ Counted' \subseteq Counted
  <2>1. goal' # None => goal.revision \in Nat /\ goal'.revision \in Nat
    BY GoalTypes DEF Typed, Types, GoalTyped
  <2>. QED  BY <2>1 DEF Counted
<1>5. RowsOld'
  BY <1>1, <1>4 DEF Rounds, RowsOld
<1>6. RowsCounted' /\ RowsDistinct'
  BY <1>4 DEF Rounds, RowsCounted, RowsDistinct
<1>. QED  BY <1>3, <1>5, <1>6 DEF Rounds

(* A goal whose budget is new has no row that counts.                      *)
LEMMA RoundsNone ==
  ASSUME Typed, Typed', Rounds, Held' \subseteq Held, used.goals <= used'.goals,
         goal' # None,
         \/ goal'.id = used.goals + 1
         \/ /\ goal # None /\ goal'.id = goal.id /\ goal.revision <= goal'.revision
            /\ renewed' = goal'.revision
  PROVE  Rounds'
<1>1. \A r \in Held : r.goal \in Nat /\ r.revision \in Nat
  BY MaxGoalsNat DEF Held, Rows, GoalIds
<1>2. used.goals \in Nat /\ used'.goals \in Nat
  BY DEF Typed, Types, UsedTyped
<1>3. goal'.revision \in Nat /\ (goal # None => goal.revision \in Nat)
  BY GoalTypes DEF Typed, Types, GoalTyped
<1>4. RowsKnown'
  BY <1>1, <1>2 DEF Rounds, RowsKnown
<1>5. CASE goal'.id = used.goals + 1
  <2>1. \A r \in Held' : r.goal # goal'.id
    BY <1>1, <1>2, <1>5 DEF Rounds, RowsKnown
  <2>. QED  BY <1>4, <2>1 DEF Rounds, RowsOld, RowsCounted, RowsDistinct, Counted
<1>6. CASE /\ goal # None /\ goal'.id = goal.id /\ goal.revision <= goal'.revision
           /\ renewed' = goal'.revision
  <2>1. \A r \in Held' : r.goal = goal'.id => r.revision <= goal'.revision
    BY <1>1, <1>3, <1>6 DEF Rounds, RowsOld
  <2>2. Counted' = {}
    BY <1>1, <1>3, <1>6, <2>1 DEF Counted
  <2>. QED  BY <1>4, <2>1, <2>2 DEF Rounds, RowsOld, RowsCounted, RowsDistinct
<1>. QED  BY <1>5, <1>6

(* The round that is taken has the next number.                            *)
LEMMA RoundsRaised ==
  ASSUME Typed, Rounds, NEW c \in Callers, NEW r \in Rows, Raised(c, r)
  PROVE  Rounds'
<1>1. \A q \in Held \cup {r} : q.goal \in Nat /\ q.revision \in Nat /\ q.round \in Nat
  BY MaxGoalsNat DEF Held, Rows, GoalIds
<1>2. /\ goal # None /\ goal.revision \in Nat /\ goal.rounds \in Nat
      /\ used.goals \in Nat /\ goal.id <= used.goals
  <2>1. goal # None
    BY DEF Raised
  <2>2. goal \in Goals /\ used.goals \in Nat /\ goal.id <= used.goals
    BY <2>1, PlacedNow
  <2>. QED  BY <2>1, <2>2, GoalTypes
<1>3. /\ goal'.id = goal.id /\ goal'.revision = goal.revision + 1 /\ goal'.rounds = goal.rounds + 1
      /\ r.goal = goal.id /\ r.revision = goal.revision + 1 /\ r.round = goal.rounds + 1
      /\ renewed' = renewed /\ used' = used
  BY DEF Raised, history
<1>4. Held' \subseteq Held \cup {r}
  BY HeldRaised
<1>5. RowsKnown' /\ RowsOld'
  BY <1>1, <1>2, <1>3, <1>4 DEF Rounds, RowsKnown, RowsOld
<1>6. Counted' \subseteq Counted \cup {r}
  BY <1>3, <1>4 DEF Counted
<1>7. \A q \in Counted : q.round \in 1..goal.rounds
  BY <1>2 DEF Rounds, RowsCounted
<1>8. RowsCounted'
  BY <1>2, <1>3, <1>6, <1>7 DEF RowsCounted
<1>9. RowsDistinct'
  BY <1>2, <1>3, <1>6, <1>7 DEF Rounds, RowsDistinct
<1>. QED  BY <1>5, <1>8, <1>9 DEF Rounds

LEMMA UsedGrows ==
  ASSUME Typed, [Next]_vars
  PROVE  used.goals <= used'.goals
<1>1. used.goals \in Nat
  BY DEF Typed, Types, UsedTyped
<1>2. ASSUME NEW what \in {"runs", "messages", "requests", "calls", "faults"}, NEW limit,
             Count(what, limit)
      PROVE  used.goals <= used'.goals
  BY <1>1, <1>2, CountTyped DEF Typed, Types
<1>3. ASSUME NEW c \in Callers, Inserts(c) PROVE used.goals <= used'.goals
  <2>1. used' = used \/ used'.goals = used.goals + 1
    BY <1>3, InsertsMoves DEF Inserted, Typed, Types, UsedTyped
  <2>. QED  BY <1>1, <2>1
<1>4. CASE used' = used
  BY <1>1, <1>4
<1>. QED
  BY <1>2, <1>3, <1>4
  DEF Next, Step, vars, RequestBegins, ToolBegins, Reads, Checks, Writes, Latches, Disarms,
      Erases, Lists, Deletes, Deleted, Resumes, ReserveReads, ReserveWeighs,
      ReserveExhausts, ReserveRetires, ReserveRaises, ReserveEnqueues, UserSends, Spawns,
      Looks, Claims, Empties, Judges, Trusts, Rejects, Begins, Ends, Fails, Drops,
      CrashAndRestart

LEMMA RenewedChanges ==
  ASSUME Typed, [Next]_vars, renewed' # renewed
  PROVE  \E c \in Callers : \/ Writes(c) /\ Rewritten(c) /\ call[c].does = "resume" /\ c # Run
                                /\ renewed' = goal'.revision
                            \/ Inserts(c) /\ Inserted(c)
<1>1. \E c \in Callers : Writes(c) \/ Inserts(c)
  BY DEF Next, Step, vars, history, RequestBegins, ToolBegins, Reads, Checks, Latches, Disarms,
     Erases, Lists, Deletes, Deleted, Resumes, ReserveReads, ReserveWeighs,
     ReserveExhausts, ReserveRetires, ReserveRaises, ReserveEnqueues, UserSends, Spawns,
     Looks, Claims, Empties, Judges, Trusts, Rejects, Begins, Ends, Fails, Drops,
     CrashAndRestart
<1>2. ASSUME NEW c \in Callers, Writes(c)
      PROVE  Rewritten(c) /\ call[c].does = "resume" /\ c # Run /\ renewed' = goal'.revision
  <2>1. Matches(c)
    BY <1>2, WritesMoves DEF history
  <2>2. Rewritten(c) /\ call[c].does = "resume"
    BY <1>2, <2>1, WritesMoves DEF history
  <2>3. c # Run /\ renewed' = goal.revision + 1
    BY <1>2, <2>1, <2>2, WritesMoves
  <2>. QED  BY <2>2, <2>3 DEF Rewritten
<1>3. ASSUME NEW c \in Callers, Inserts(c) PROVE Inserted(c)
  BY <1>3, InsertsMoves DEF history
<1>. QED  BY <1>1, <1>2, <1>3

(* The steps that change the goal or its budget, and the others.           *)
LEMMA RoundsStep ==
  ASSUME Typed, Typed', Rounds, [Next]_vars
  PROVE  Rounds'
<1>0. used.goals <= used'.goals
  BY UsedGrows
<1>g. goal # None => goal.revision \in Nat /\ goal.rounds \in Nat
  BY GoalTypes DEF Typed, Types, GoalTyped
<1>1. CASE goal' = goal
  <2>1. renewed' = renewed
    <3>1. ASSUME NEW c \in Callers, Rewritten(c) PROVE FALSE
      BY <1>1, <1>g, <3>1 DEF Rewritten
    <3>2. ASSUME NEW c \in Callers, Inserted(c) PROVE FALSE
      BY <1>1, <3>2, NothingTyped DEF Inserted
    <3>. QED  BY <3>1, <3>2, RenewedChanges
  <2>2. Held' \subseteq Held
    BY <1>1, HeldKept
  <2>. QED  BY <1>0, <1>1, <1>g, <2>1, <2>2, RoundsKept
<1>2. ASSUME NEW c \in Callers, ReserveRaises(c) PROVE Rounds'
  BY <1>1, <1>2, RaisesRaised, RoundsRaised
<1>3. ASSUME NEW c \in Callers, Writes(c), goal' # goal, Held' \subseteq Held PROVE Rounds'
  <2>1. Rewritten(c) /\ Matches(c)
    BY <1>3, WritesMoves
  <2>2. goal # None /\ goal' # None /\ goal'.id = goal.id /\ goal.revision <= goal'.revision
    BY <1>g, <2>1, NothingTyped DEF Rewritten
  <2>3. CASE call[c].does = "resume" /\ c # Run
    <3>1. renewed' = goal'.revision
      BY <1>3, <2>1, <2>3, WritesMoves DEF Rewritten
    <3>. QED  BY <1>0, <1>3, <2>2, <3>1, RoundsNone
  <2>4. CASE ~(call[c].does = "resume" /\ c # Run)
    <3>1. renewed' = renewed
      BY <1>3, <2>1, <2>4, WritesMoves DEF history
    <3>2. goal'.rounds = goal.rounds
      BY <2>1, <2>4 DEF Rewritten
    <3>. QED  BY <1>0, <1>3, <2>2, <3>1, <3>2, RoundsKept
  <2>. QED  BY <2>3, <2>4
<1>4. ASSUME NEW c \in Callers, Inserts(c), goal' # goal, Held' \subseteq Held PROVE Rounds'
  <2>1. Inserted(c)
    BY <1>4, InsertsMoves
  <2>2. goal' # None /\ goal'.id = used.goals + 1
    BY <2>1, NothingTyped DEF Inserted
  <2>. QED  BY <1>0, <1>4, <2>2, RoundsNone
<1>5. ASSUME NEW c \in Callers, Erases(c), Held' \subseteq Held PROVE Rounds'
  <2>1. goal' = None /\ renewed' = renewed
    BY <1>5 DEF Erases, history
  <2>. QED  BY <1>0, <1>5, <2>1, RoundsKept
<1>6. ASSUME NEW c \in Callers, ReserveExhausts(c), goal' # goal, Held' \subseteq Held
      PROVE  Rounds'
  <2>1. goal # None /\ goal'.id = goal.id /\ goal.revision <= goal'.revision
        /\ goal'.rounds = goal.rounds
    BY <1>6, <1>g, ReserveExhaustsMoves
  <2>2. renewed' = renewed
    BY <1>6 DEF ReserveExhausts, history
  <2>. QED  BY <1>0, <1>6, <2>1, <2>2, RoundsKept
<1>7. CASE goal' # goal /\ ~\E c \in Callers : ReserveRaises(c)
  <2>1. Held' \subseteq Held
    BY <1>7, HeldKept
  <2>. QED  BY <1>3, <1>4, <1>5, <1>6, <1>7, <2>1, GoalChanges
<1>. QED  BY <1>1, <1>2, <1>7

(* A driver goes on to raise only what it has weighed.                     *)
LEMMA WeighedStep ==
  ASSUME Typed, BudgetWeighed, [Next]_vars
  PROVE  BudgetWeighed'
<1> SUFFICES ASSUME NEW c \in Callers, call'[c].at = "raises", call'[c] # call[c]
             PROVE  ~Exhausted(call'[c].copy)
  BY DEF BudgetWeighed, At
<1>0. Run \in Callers /\ Requests \subseteq Callers
  BY DEF Callers
<1>1. ASSUME NEW w \in Requests, NEW max \in Nat,
             NEW action \in {"create", "resume", "pause", "clear", "stop"},
             action \in {"create", "resume"} => max \in Budgets, RequestBegins(w, action, max)
      PROVE  FALSE
  BY <1>0, <1>1, RequestMoves DEF Moved
<1>2. ASSUME NEW max \in Nat,
             NEW action \in {"create", "edit", "pause", "resume", "complete", "blocked"},
             action = "create" => max \in Budgets, ToolBegins(action, max)
      PROVE  FALSE
  BY <1>0, <1>2, ToolMoves DEF Moved
<1>3. ASSUME NEW d \in Callers, Step(d), d # c PROVE FALSE
  BY <1>3, StepMovesOne
<1>4. ASSUME Step(c) PROVE ~Exhausted(call'[c].copy)
  <2>1. ASSUME \/ Reads(c) \/ Checks(c) \/ Writes(c) \/ Inserts(c) \/ Latches(c) \/ Resumes(c)
        PROVE  FALSE
    BY <2>1, ReadsMoves, ChecksMoves, WritesMoves, InsertsMoves, LatchesMoves, ResumesMoves
    DEF Moved, MovedOn, Returned
  <2>2. ASSUME Disarms(c) \/ Erases(c) \/ Lists(c) \/ Deletes(c) \/ Deleted(c)
        PROVE  FALSE
    BY <2>2, ErasureMoves, ClosingMoves DEF Moved, MovedOn, Returned
  <2>3. ASSUME \/ ReserveReads(c) \/ ReserveExhausts(c)
               \/ ReserveRetires(c) \/ ReserveRaises(c) \/ ReserveEnqueues(c)
        PROVE  FALSE
    BY <2>3, ReserveReadsMoves, ReserveExhaustsMoves,
       ReserveRetiresMoves, ReserveRaisesMoves, ReserveEnqueuesMoves
    DEF Moved, MovedOn, Returned, DrivenOn
  <2>4. ASSUME ReserveWeighs(c) PROVE ~Exhausted(call'[c].copy)
    BY <2>4, ReserveWeighsMoves DEF Moved, MovedOn, Returned, DrivenOn
  <2>. QED  BY <1>4, <2>1, <2>2, <2>3, <2>4 DEF Step
<1>5. ASSUME CrashAndRestart PROVE FALSE
  BY <1>5 DEF CrashAndRestart, NoCall
<1>6. ASSUME \/ UserSends \/ Spawns \/ Looks \/ Claims \/ Empties \/ Judges \/ Trusts \/ Rejects
             \/ Begins \/ Fails \/ Drops \/ UNCHANGED vars
      PROVE  FALSE
  BY <1>6 DEF UserSends, Spawns, Looks, Claims, Empties, Judges, Trusts, Rejects, Begins,
     Fails, Drops, vars, memory
<1>7. ASSUME Ends PROVE FALSE
  BY <1>0, <1>7, EndsMoves DEF MovedOn, Moved
<1>. QED
  BY <1>1, <1>2, <1>3, <1>4, <1>5, <1>6, <1>7, BudgetsNat DEF Next, Callers

(* The rounds of a goal stay within its budget, since whoever raises them  *)
(* has weighed the goal as it is.                                          *)
LEMMA BoundedStep ==
  ASSUME Typed, Copies, BudgetWeighed, RoundsBounded, [Next]_vars
  PROVE  RoundsBounded'
<1>g. goal # None => goal.rounds \in Nat /\ goal.max \in Nat
  <2>1. goal # None => goal.rounds \in Nat /\ goal.max \in Budgets
    BY GoalTypes DEF Typed, Types, GoalTyped
  <2>. QED  BY <2>1, BudgetsNat
<1>1. CASE goal' = goal
  BY <1>1 DEF RoundsBounded
<1>2. ASSUME NEW c \in Callers, Rewritten(c) PROVE RoundsBounded'
  <2>1. goal'.max \in Nat
    BY <1>2, GoalTypes, BudgetsNat DEF Rewritten
  <2>. QED  BY <1>2, <1>g, <2>1 DEF Rewritten, RoundsBounded
<1>3. ASSUME NEW c \in Callers, Inserted(c) PROVE RoundsBounded'
  <2>1. goal'.max \in Nat
    BY <1>3, GoalTypes, BudgetsNat DEF Inserted
  <2>. QED  BY <1>3, <2>1 DEF Inserted, RoundsBounded
<1>4. ASSUME NEW c \in Callers, Erases(c) PROVE RoundsBounded'
  BY <1>4 DEF Erases, RoundsBounded
<1>5. ASSUME NEW c \in Callers, ReserveExhausts(c), goal' # goal PROVE RoundsBounded'
  BY <1>5, ReserveExhaustsMoves DEF RoundsBounded
<1>6. ASSUME NEW c \in Callers, ReserveRaises(c), goal' # goal PROVE RoundsBounded'
  <2>1. PICK r \in Rows : Raised(c, r)
    BY <1>6, RaisesRaised
  <2>2. Matches(c) /\ call[c].at = "raises" /\ goal # None
    BY <2>1 DEF Raised, At
  <2>3. call[c].copy = goal
    BY <2>2, CopyIsGoal DEF At
  <2>4. ~Exhausted(goal)
    BY <2>2, <2>3 DEF BudgetWeighed, At
  <2>. QED  BY <1>g, <2>1, <2>2, <2>4 DEF Raised, Exhausted, RoundsBounded
<1>. QED
  BY <1>1, <1>2, <1>3, <1>4, <1>5, <1>6, GoalChanges, WritesMoves, InsertsMoves

LEMMA BudgetStep ==
  ASSUME Typed, Typed', Copies, Budget, [Next]_vars
  PROVE  Budget'
BY RoundsStep, WeighedStep, BoundedStep DEF Budget

(* Rows with numbers of their own, up to a bound, are no more than that.   *)
LEMMA CountedBounded ==
  ASSUME NEW S, NEW n \in Nat, \A r \in S : r.round \in 1..n,
         \A r, q \in S : r.round = q.round => r = q
  PROVE  Cardinality(S) <= n /\ Cardinality(S) \in Nat
<1> DEFINE f == [r \in S |-> r.round]
<1>1. f \in Injection(S, 1..n)
  BY DEF Injection, IsInjective
<1>2. IsFiniteSet(1..n) /\ Cardinality(1..n) = n
  BY FS_Interval
<1>. QED  BY <1>1, <1>2, FS_Injection, FS_CardinalityType

LEMMA BudgetIsKept ==
  ASSUME Typed, Budget
  PROVE  BudgetKept
<1> SUFFICES ASSUME goal # None, goal.max > 0
             PROVE  Cardinality({r \in begun : r.goal = goal.id /\ r.revision > renewed}) <= goal.max
  BY DEF BudgetKept
<1> DEFINE S == {r \in begun : r.goal = goal.id /\ r.revision > renewed}
<1>1. goal.rounds \in Nat /\ goal.max \in Nat
  <2>1. goal.rounds \in Nat /\ goal.max \in Budgets
    BY GoalTypes DEF Typed, Types, GoalTyped
  <2>. QED  BY <2>1, BudgetsNat
<1>2. S \subseteq Counted
  BY DEF Typed, Types, HistoryTyped, Counted, Held
<1>3. Cardinality(S) <= goal.rounds /\ Cardinality(S) \in Nat
  <2>1. \A r \in S : r.round \in 1..goal.rounds
    BY <1>2 DEF Budget, Rounds, RowsCounted
  <2>2. \A r, q \in S : r.round = q.round => r = q
    BY <1>2 DEF Budget, Rounds, RowsDistinct
  <2>. HIDE DEF S
  <2>. QED  BY <1>1, <2>1, <2>2, CountedBounded
<1>4. goal.rounds <= goal.max
  BY DEF Budget, RoundsBounded
<1>. QED  BY <1>1, <1>3, <1>4

-----------------------------------------------------------------------------
(* The driver. What is still to come, while nothing failed, when a goal is *)
(* active and armed. A run that a stop cancelled before its turn began has *)
(* that stop still under way on the goal as it is (or the goal inactive);  *)
(* one that was cancelled in its turn leaves the session stopped, or the   *)
(* message that ended that in the queue.                                   *)
Early == {"looks", "claims", "empties", "judges", "trusts", "rejects", "begins"}
Late == {"works", "drives", "drops"}
Current(c) == goal # None /\ call[c].copy = goal
Stopping ==
  \E w \in Requests :
    /\ call[w].does = "stop"
    /\ At(w, "reads") \/ (call[w].at \in {"checks", "writes"} /\ Current(w))
Messages == Message \in Range(waiting)

CancelledIsBusy == run.cancelled => Busy
StoppedCancels == stopped /\ Busy => run.cancelled
ArmsUncancelled ==
  \A w \in Requests : call[w].does \in Arming /\ ~At(w, "none") => ~run.cancelled
EarlyCancelled == run.cancelled /\ run.at \in Early => Inactive \/ Stopping
LateCancelled == run.cancelled /\ run.at = "works" => stopped \/ Messages
Cancels ==
  /\ CancelledIsBusy /\ StoppedCancels /\ ArmsUncancelled
  /\ EarlyCancelled /\ LateCancelled

(* What brings the next round, one for each way it may have to come.       *)
Paused == stopped /\ run.at \in {"none"} \cup Late
Queued ==
  \E r \in WaitingRounds \cup cut : r.goal = goal.id /\ r.round = goal.rounds
Served ==
  Messages /\ \/ due /\ ~Busy
              \/ run.at \in Late
              \/ run.at \in Early \ {"empties"} /\ ~run.cancelled
Resuming(w) ==
  \/ call[w].does = "resume" /\ (call[w].at \in {"lists", "deletes", "reads"}
                                 \/ (At(w, "writes") /\ Current(w)))
  \/ call[w].does \in Arming /\ call[w].at \in {"latches", "resumes"}
Reserving(c) ==
  \/ At(c, "reserves")
  \/ call[c].at \in {"weighs", "raises", "exhausts"} /\ Current(c)
  \/ At(c, "enqueues") /\ call[c].round.goal = goal.id /\ call[c].round.round = goal.rounds
Running ==
  /\ ~run.cancelled
  /\ \/ run.at \in {"works", "begins"}
     \/ run.at = "trusts" /\ run.ok
     \/ run.at = "judges" /\ run.row.goal = goal.id
Coming ==
  \/ Paused \/ Queued \/ Served \/ Running \/ Stopping
  \/ (\E w \in Requests : Resuming(w)) \/ (\E c \in Callers : Reserving(c))
Going == used.faults = 0 /\ goal # None /\ goal.phase = "active" /\ armed

(* Every step of the run, and what moves it besides.                       *)
RunActs ==
  \/ Looks \/ Claims \/ Empties \/ Judges \/ Trusts \/ Rejects \/ Begins \/ Ends \/ Fails
  \/ Drops
LEMMA RunSteps ==
  ASSUME Typed, [Next]_vars
  PROVE  \/ run' = run
         \/ CrashAndRestart /\ run' = NoRun
         \/ \E w \in Requests : RequestBegins(w, "stop", 0)
         \/ Spawns /\ ~stopped /\ ~Busy /\ run' = [NoRun EXCEPT !.at = "looks"]
         \/ run.at = "drives" /\ run' = [run EXCEPT !.at = "drops"]
         \/ RunActs
<1>1. ASSUME NEW w \in Requests, NEW action, NEW max, RequestBegins(w, action, max), action # "stop"
      PROVE  run' = run
  BY <1>1 DEF RequestBegins
<1>2. ASSUME NEW c \in Callers, Step(c)
      PROVE  run' # run => run.at = "drives" /\ run' = [run EXCEPT !.at = "drops"]
  <2>1. CASE c # Run
    BY <1>2, <2>1
    DEF Step, Reads, Checks, Writes, Inserts, Latches, Disarms, Erases, Lists, Deletes,
        Deleted, Resumes, ReserveReads, ReserveWeighs, ReserveExhausts, ReserveRetires,
        ReserveRaises, ReserveEnqueues, Driven
  <2>2. CASE c = Run /\ run' # run
    <3>1. call[Run].at \in Driving /\ run' = [run EXCEPT !.at = "drops"]
      BY <1>2, <2>2
      DEF Step, Reads, Checks, Writes, Inserts, Latches, Disarms, Erases, Lists, Deletes,
          Deleted, Resumes, ReserveReads, ReserveWeighs, ReserveExhausts, ReserveRetires,
          ReserveRaises, ReserveEnqueues, Driven, Driving, At
    <3>. QED  BY <3>1 DEF Typed, Types, RunDrives
  <2>. QED  BY <2>1, <2>2
<1>3. ASSUME Spawns, run' # run
      PROVE  ~stopped /\ ~Busy /\ run' = [NoRun EXCEPT !.at = "looks"]
  BY <1>3 DEF Spawns
<1>4. ASSUME UserSends \/ (\E action, max : ToolBegins(action, max)) \/ UNCHANGED vars
      PROVE  run' = run
  BY <1>4 DEF UserSends, ToolBegins, vars, memory
<1>5. CrashAndRestart => run' = NoRun
  BY DEF CrashAndRestart
<1>. QED  BY <1>1, <1>2, <1>3, <1>4, <1>5 DEF Next, RunActs

(* What each step of the run does to the run.                              *)
LEMMA RunActsDo ==
  ASSUME Typed
  PROVE  /\ Looks => /\ run.at = "looks"
                     /\ IF stopped THEN run' = NoRun
                        ELSE run'.at = "claims" /\ run'.cancelled = run.cancelled
         /\ Empties => run.at = "empties" /\ run' = NoRun
         /\ Judges => /\ run.at = "judges" /\ run'.at = "trusts" /\ run'.cancelled = run.cancelled
                      /\ run'.ok = (goal # None /\ goal.phase = "active" /\ goal.id = run.row.goal)
         /\ Trusts => /\ run.at = "trusts" /\ run'.cancelled = run.cancelled
                      /\ run'.at = IF run.ok /\ armed THEN "begins" ELSE "rejects"
         /\ Rejects => run.at = "rejects" /\ run'.at = "looks" /\ run'.cancelled = run.cancelled
         /\ Begins => /\ run.at = "begins" /\ run'.cancelled = run.cancelled
                      /\ run'.at = IF run.cancelled THEN "drops" ELSE "works"
         /\ Ends => /\ run.at = "works" /\ run'.at = "drives" /\ run'.cancelled = run.cancelled
                    /\ call'[Run].at = "reserves"
         /\ Fails => /\ run.at = "works" /\ run'.at = "drops" /\ run'.cancelled = run.cancelled
                     /\ run.cancelled \/ Count("faults", MaxFaults)
         /\ Drops => run.at = "drops" /\ run' = NoRun /\ due'
<1>1. run \in RunRecords
  BY DEF Typed, Types, RunTyped
<1>2. Ends => call'[Run].at = "reserves"
  BY EndsMoves DEF MovedOn, Moved
<1>3. /\ Looks => /\ run.at = "looks"
                  /\ IF stopped THEN run' = NoRun
                     ELSE run'.at = "claims" /\ run'.cancelled = run.cancelled
      /\ Empties => run.at = "empties" /\ run' = NoRun
      /\ Drops => run.at = "drops" /\ run' = NoRun /\ due'
  BY <1>1 DEF Looks, Empties, Drops, RunRecords
<1>4. Judges => /\ run.at = "judges" /\ run'.at = "trusts" /\ run'.cancelled = run.cancelled
                /\ run'.ok = (goal # None /\ goal.phase = "active" /\ goal.id = run.row.goal)
  BY <1>1 DEF Judges, RunRecords
<1>5. /\ Trusts => /\ run.at = "trusts" /\ run'.cancelled = run.cancelled
                   /\ run'.at = IF run.ok /\ armed THEN "begins" ELSE "rejects"
      /\ Rejects => run.at = "rejects" /\ run'.at = "looks" /\ run'.cancelled = run.cancelled
      /\ Begins => /\ run.at = "begins" /\ run'.cancelled = run.cancelled
                   /\ run'.at = IF run.cancelled THEN "drops" ELSE "works"
  BY <1>1 DEF Trusts, Rejects, Begins, RunRecords
<1>6. /\ Ends => run.at = "works" /\ run'.at = "drives" /\ run'.cancelled = run.cancelled
      /\ Fails => /\ run.at = "works" /\ run'.at = "drops" /\ run'.cancelled = run.cancelled
                  /\ run.cancelled \/ Count("faults", MaxFaults)
  BY <1>1 DEF Ends, Fails, RunRecords
<1>. QED  BY <1>2, <1>3, <1>4, <1>5, <1>6

LEMMA ClaimsDo ==
  ASSUME Typed, Claims
  PROVE  /\ run.at = "claims" /\ run'.cancelled = run.cancelled
         /\ \/ run'.at = "empties" /\ UNCHANGED queue /\ waiting = <<>>
            \/ /\ run'.at = "judges" \/ (run'.at = "begins" /\ run'.row = Message)
               /\ \/ waiting' = waiting
                  \/ waiting # <<>> /\ waiting' = Tail(waiting) /\ run'.row = Head(waiting)
         /\ UNCHANGED <<goal, armed, stopped, due, call, history, used>>
<1>1. run \in RunRecords /\ run.at = "claims"
  BY DEF Typed, Types, RunTyped, Claims
<1>2. UNCHANGED <<goal, armed, stopped, due, call, history, used>>
  BY DEF Claims
<1>3. CASE claimed = None /\ waiting = <<>>
  BY <1>1, <1>2, <1>3 DEF Claims, RunRecords
<1>4. CASE ~(claimed = None /\ waiting = <<>>)
  <2> DEFINE r == IF claimed # None THEN claimed ELSE Head(waiting)
  <2>1. /\ run' = [run EXCEPT !.row = r, !.at = IF IsRound(r) THEN "judges" ELSE "begins"]
        /\ waiting' = IF claimed # None THEN waiting ELSE Tail(waiting)
    BY <1>4 DEF Claims
  <2>2. /\ run'.row = r /\ run'.cancelled = run.cancelled
        /\ run'.at = IF IsRound(r) THEN "judges" ELSE "begins"
    BY <1>1, <2>1 DEF RunRecords
  <2>3. r # None
    <3>1. waiting \in Seq(Rows \cup {Message})
      BY DEF Typed, Types, QueueTyped
    <3>2. waiting # <<>> => Head(waiting) \in Rows \cup {Message}
      BY <3>1
    <3>. QED  BY <1>4, <3>2, NothingTyped
  <2>. QED  BY <1>1, <1>2, <1>4, <2>1, <2>2, <2>3 DEF IsRound
<1>. QED  BY <1>3, <1>4

(* Where the run goes.                                                     *)
StopBegins == \E w \in Requests : RequestBegins(w, "stop", 0)
RunGoes ==
  /\ run.at = "none" => run'.at = "none" \/ (Spawns /\ ~stopped /\ run'.at = "looks")
  /\ run.at \in Late => run'.at \in Late \/ (run'.at = "none" /\ (due' \/ CrashAndRestart))
  /\ run'.at = "works" => run.at = "works" \/ (Begins /\ ~run.cancelled)
  /\ run'.at \in Early => run.at \in Early \/ (run.at = "none" /\ ~run'.cancelled)
  /\ run'.at = "none" => run.at = "none" \/ ~run'.cancelled
  /\ run'.cancelled => run.cancelled \/ StopBegins
LEMMA RunAt ==
  ASSUME Typed, [Next]_vars
  PROVE  RunGoes
<1>0. run \in RunRecords /\ NoRun.at = "none" /\ ~NoRun.cancelled
  BY NothingTyped DEF Typed, Types, RunTyped
<1> USE DEF RunGoes, Early, Late, Busy
<1>1. CASE run' = run
  BY <1>0, <1>1
<1>2. CASE CrashAndRestart /\ run' = NoRun
  BY <1>0, <1>2
<1>3. ASSUME NEW w \in Requests, RequestBegins(w, "stop", 0) PROVE RunGoes
  <2>1. run' = [run EXCEPT !.cancelled = Busy]
    BY <1>3 DEF RequestBegins
  <2>2. run'.at = run.at /\ run'.cancelled = (run.at # "none")
    BY <1>0, <2>1 DEF RunRecords
  <2>. QED  BY <1>3, <2>2 DEF StopBegins
<1>4. CASE Spawns /\ ~stopped /\ ~Busy /\ run' = [NoRun EXCEPT !.at = "looks"]
  <2>1. run'.at = "looks" /\ ~run'.cancelled
    BY <1>0, <1>4 DEF NoRun
  <2>. QED  BY <1>4, <2>1
<1>5. CASE run.at = "drives" /\ run' = [run EXCEPT !.at = "drops"]
  <2>1. run'.at = "drops" /\ run'.cancelled = run.cancelled
    BY <1>0, <1>5 DEF RunRecords
  <2>. QED  BY <1>5, <2>1
<1>6. CASE Claims
  BY <1>6, ClaimsDo
<1>7. CASE Looks \/ Empties \/ Judges \/ Trusts \/ Rejects
  BY <1>0, <1>7, RunActsDo
<1>8. CASE Begins \/ Ends \/ Fails \/ Drops
  BY <1>0, <1>8, RunActsDo
<1>. QED  BY <1>1, <1>2, <1>3, <1>4, <1>5, <1>6, <1>7, <1>8, RunSteps DEF RunActs

(* A caller that is at work stays where it is, or takes a step.            *)
LEMMA CallStays ==
  ASSUME Typed, [Next]_vars, NEW c \in Callers, ~At(c, "none"), ~Step(c), ~CrashAndRestart
  PROVE  call'[c] = call[c]
<1>0. Run \in Callers /\ Requests \subseteq Callers
  BY DEF Callers
<1>1. ASSUME NEW w \in Requests, NEW max \in Nat,
             NEW action \in {"create", "resume", "pause", "clear", "stop"},
             action \in {"create", "resume"} => max \in Budgets, RequestBegins(w, action, max)
      PROVE  call'[c] = call[c]
  BY <1>0, <1>1, RequestMoves DEF Moved
<1>2. ASSUME NEW max \in Nat,
             NEW action \in {"create", "edit", "pause", "resume", "complete", "blocked"},
             action = "create" => max \in Budgets, ToolBegins(action, max)
      PROVE  call'[c] = call[c]
  BY <1>0, <1>2, ToolMoves DEF Moved
<1>3. ASSUME NEW d \in Callers, Step(d) PROVE call'[c] = call[c]
  BY <1>3, StepMovesOne
<1>4. ASSUME \/ UserSends \/ Spawns \/ Looks \/ Claims \/ Empties \/ Judges \/ Trusts \/ Rejects
             \/ Begins \/ Fails \/ Drops \/ UNCHANGED vars
      PROVE  call'[c] = call[c]
  BY <1>4 DEF UserSends, Spawns, Looks, Claims, Empties, Judges, Trusts, Rejects, Begins,
     Fails, Drops, vars, memory
<1>5. ASSUME Ends PROVE call'[c] = call[c]
  BY <1>0, <1>5, EndsMoves DEF MovedOn, Moved, Ends
<1>. QED  BY <1>1, <1>2, <1>3, <1>4, <1>5, BudgetsNat DEF Next, Callers

(* A request that begins.                                                  *)
Begun(w) ==
  \E action \in {"create", "resume", "pause", "clear", "stop"}, max \in Nat :
    (action \in {"create", "resume"} => max \in Budgets) /\ RequestBegins(w, action, max)

(* A caller does what it began with.                                       *)
LEMMA StepDoes ==
  ASSUME Typed, NEW c \in Callers, Step(c)
  PROVE  ~At(c, "none") /\ (call'[c].does = call[c].does \/ call'[c].at = "none")
<1>0. ~At(c, "none")
  BY DEF Step, Reads, Checks, Writes, Inserts, Latches, Disarms, Erases, Lists, Deletes,
     Deleted, Resumes, ReserveReads, ReserveWeighs, ReserveExhausts, ReserveRetires,
     ReserveRaises, ReserveEnqueues, At
<1>1. CASE Reads(c) \/ Checks(c) \/ Latches(c) \/ Resumes(c)
  BY <1>0, <1>1, ReadsMoves, ChecksMoves, LatchesMoves, ResumesMoves DEF Moved, MovedOn, Returned
<1>2. CASE Writes(c)
  BY <1>0, <1>2, WritesGrants
<1>3. CASE Inserts(c)
  BY <1>0, <1>3, InsertsMoves DEF Moved, MovedOn, Returned
<1>4. CASE Disarms(c) \/ Erases(c) \/ Lists(c) \/ Deletes(c) \/ Deleted(c)
  BY <1>0, <1>4, ErasureMoves, ClosingMoves DEF Moved, MovedOn, Returned
<1>5. CASE \/ ReserveReads(c) \/ ReserveWeighs(c) \/ ReserveExhausts(c)
           \/ ReserveRetires(c) \/ ReserveRaises(c) \/ ReserveEnqueues(c)
  BY <1>0, <1>5, ReserveReadsMoves, ReserveWeighsMoves, ReserveExhaustsMoves,
     ReserveRetiresMoves, ReserveRaisesMoves, ReserveEnqueuesMoves
  DEF Moved, MovedOn, Returned, DrivenOn
<1>. QED  BY <1>1, <1>2, <1>3, <1>4, <1>5 DEF Step

LEMMA DoesKept ==
  ASSUME OneRequest, Typed, [Next]_vars, NEW w \in Requests, call'[w].at # "none"
  PROVE  \/ call[w].at # "none" /\ call'[w].does = call[w].does
         \/ /\ call'[w].does \in Arming => ~Busy /\ run' = run
            /\ StopBegins => call'[w].does = "stop"
<1>0. w \in Callers /\ w # Run /\ Run \in Callers
  BY RunIsNoRequest DEF Callers
<1>1. CASE ~At(w, "none") /\ ~CrashAndRestart
  BY <1>0, <1>1, CallStays, StepDoes DEF At
<1>2. CASE CrashAndRestart
  BY <1>0, <1>2, NothingTyped DEF CrashAndRestart
<1>3. CASE At(w, "none") /\ ~CrashAndRestart
  <2>1. ASSUME NEW v \in Requests, NEW max \in Nat,
               NEW action \in {"create", "resume", "pause", "clear", "stop"},
               action \in {"create", "resume"} => max \in Budgets, RequestBegins(v, action, max)
        PROVE  /\ call'[w].does = action
               /\ call'[w].does \in Arming => ~Busy /\ run' = run
    <3>1. v = w /\ call'[v].does = action
      BY <2>1, RequestMoves DEF Moved, OneRequest
    <3>. QED  BY <2>1, <3>1 DEF Arming, RequestBegins
  <2>2. ASSUME StopBegins PROVE call'[w].does = "stop"
    BY <2>1, <2>2 DEF StopBegins
  <2>3. ASSUME ~\E v \in Requests : Begun(v)
        PROVE  call'[w] = call[w]
    <3>1. ASSUME NEW max \in Nat,
                 NEW action \in {"create", "edit", "pause", "resume", "complete", "blocked"},
                 action = "create" => max \in Budgets, ToolBegins(action, max)
          PROVE  call'[w] = call[w]
      BY <1>0, <3>1, ToolMoves DEF Moved
    <3>2. ASSUME NEW d \in Callers, Step(d) PROVE call'[w] = call[w]
      BY <1>0, <1>3, <3>2, StepMovesOne, StepDoes
    <3>3. ASSUME \/ UserSends \/ Spawns \/ Looks \/ Claims \/ Empties \/ Judges \/ Trusts
                 \/ Rejects \/ Begins \/ Fails \/ Drops \/ UNCHANGED vars
          PROVE  call'[w] = call[w]
      BY <3>3 DEF UserSends, Spawns, Looks, Claims, Empties, Judges, Trusts, Rejects, Begins,
         Fails, Drops, vars, memory
    <3>4. ASSUME Ends PROVE call'[w] = call[w]
      BY <1>0, <3>4, EndsMoves DEF MovedOn, Moved
    <3>. QED  BY <1>3, <2>3, <3>1, <3>2, <3>3, <3>4, BudgetsNat DEF Next, Begun
  <2>4. \E v \in Requests : Begun(v)
    BY <1>3, <2>3 DEF At
  <2>. QED  BY <2>1, <2>2, <2>4 DEF Begun
<1>. QED  BY <1>1, <1>2, <1>3

(* What a stop, a create or a resume of a goal does to the flags.          *)
LEMMA StoppedChanges ==
  ASSUME [Next]_vars, stopped' # stopped
  PROVE  \/ stopped' /\ StopBegins
         \/ ~stopped' /\ (UserSends \/ CrashAndRestart \/ \E c \in Callers : Resumes(c))
<1>1. ASSUME NEW w \in Requests, NEW action, NEW max, RequestBegins(w, action, max)
      PROVE  stopped' # stopped => stopped' /\ action = "stop"
  BY <1>1 DEF RequestBegins
<1>2. UserSends \/ CrashAndRestart \/ (\E c \in Callers : Resumes(c)) => ~stopped'
  BY DEF UserSends, CrashAndRestart, Resumes
<1>. QED
  BY <1>1, <1>2
  DEF Next, Step, vars, memory, StopBegins, ToolBegins, Reads, Checks, Writes, Inserts, Latches,
     Disarms, Erases, Lists, Deletes, Deleted, ReserveReads, ReserveWeighs, ReserveExhausts,
     ReserveRetires, ReserveRaises, ReserveEnqueues, Spawns, Looks, Claims, Empties, Judges,
     Trusts, Rejects, Begins, Ends, Fails, Drops

(* A goal is activated by a resume or a create.                            *)
LEMMA GoalWakes ==
  ASSUME Typed, [Next]_vars, Inactive, ~Inactive'
  PROVE  \E c \in Callers : call[c].does \in Arming /\ (Writes(c) \/ Inserts(c))
<1>1. PICK c \in Callers : \/ Writes(c) \/ Inserts(c) \/ Erases(c)
                           \/ ReserveExhausts(c) \/ ReserveRaises(c)
  BY GoalChanges DEF Inactive
<1>2. CASE Writes(c)
  <2>1. Rewritten(c)
    BY <1>2, WritesMoves DEF Inactive
  <2>2. call[c].does \in {"pause", "stop", "complete", "blocked", "edit", "resume"}
    BY <1>2, WritesMoves, PlacedNow DEF PlacedAnyone, At
  <2>. QED  BY <1>2, <2>1, <2>2 DEF Rewritten, Inactive, Arming
<1>3. CASE Inserts(c)
  <2>1. call[c].does = "create"
    BY <1>3, PlacedNow DEF PlacedAnyone, At, Inserts
  <2>. QED  BY <1>3, <2>1 DEF Arming
<1>4. CASE Erases(c)
  BY <1>4 DEF Erases, Inactive
<1>5. CASE ReserveExhausts(c) \/ ReserveRaises(c)
  BY <1>5, ReserveExhaustsMoves, ReserveRaisesMoves DEF Inactive
<1>. QED  BY <1>1, <1>2, <1>3, <1>4, <1>5

(* Where the run must be for its caller to write.                          *)
LEMMA RunWrites ==
  ASSUME Typed, Step(Run)
  PROVE  run.at \in {"works", "drives"}
<1>1. ~At(Run, "none")
  BY StepDoes DEF Callers
<1>. QED  BY <1>1 DEF Typed, Types, RunPlaced, RunDrives, At, Driving

(* A copy that is the goal matches it.                                     *)
LEMMA CurrentMatches ==
  ASSUME NEW c \in Callers, Current(c)
  PROVE  Matches(c)
BY DEF Current, Matches

(* The goal changes when what matches is written.                          *)
LEMMA MatchesWrites ==
  ASSUME Typed, NEW c \in Callers, Matches(c),
         Writes(c) \/ ReserveExhausts(c) \/ ReserveRaises(c)
  PROVE  goal' # goal
<1>1. goal \in Goals /\ goal.revision \in Nat
  BY GoalTypes DEF Typed, Types, GoalTyped, Matches
<1>2. CASE Writes(c)
  <2>1. Rewritten(c)
    BY <1>2, WritesMoves
  <2>. QED  BY <1>1, <2>1 DEF Rewritten
<1>3. CASE ReserveExhausts(c)
  <2>1. goal' = [goal EXCEPT !.revision = @ + 1, !.phase = "paused"]
    BY <1>3 DEF ReserveExhausts
  <2>2. goal'.revision = goal.revision + 1
    BY <1>1, <2>1 DEF Goals
  <2>. QED  BY <1>1, <2>2
<1>4. CASE ReserveRaises(c)
  <2>1. goal' = [goal EXCEPT !.revision = @ + 1, !.rounds = @ + 1]
    BY <1>4 DEF ReserveRaises
  <2>2. goal'.revision = goal.revision + 1
    BY <1>1, <2>1 DEF Goals
  <2>. QED  BY <1>1, <2>2
<1>. QED  BY <1>2, <1>3, <1>4

(* A stop under way goes on to pause an active goal, unless the run has    *)
(* changed it.                                                             *)
LEMMA StoppingStep ==
  ASSUME OneRequest, Typed, [Next]_vars, ~CrashAndRestart, Stopping, ~Inactive
  PROVE  \/ Stopping' \/ Inactive'
         \/ goal' # goal /\ run.at \in {"works", "drives"} /\ run' = run
<1>1. PICK w \in Requests :
        /\ call[w].does = "stop"
        /\ At(w, "reads") \/ (call[w].at \in {"checks", "writes"} /\ Current(w))
  BY DEF Stopping
<1>2. /\ w \in Callers /\ w # Run /\ Run \in Callers /\ goal # None /\ goal.phase = "active"
      /\ \A c \in Callers : c # Run => c = w
  BY <1>1, RunIsNoRequest DEF Callers, OneRequest, Inactive
<1>3. CASE goal' # goal
  <2>1. PICK c \in Callers : \/ Writes(c) \/ Inserts(c) \/ Erases(c)
                             \/ ReserveExhausts(c) \/ ReserveRaises(c)
    BY <1>3, GoalChanges
  <2>2. CASE c = Run
    <3>1. run.at \in {"works", "drives"}
      BY <2>1, <2>2, RunWrites DEF Step
    <3>2. run' = run
      BY <1>3, <2>1, <2>2, MatchesWrites
      DEF Writes, Inserts, Erases, ReserveExhausts, ReserveRaises, Driven
    <3>. QED  BY <1>3, <3>1, <3>2
  <2>3. CASE c = w
    <3>0. /\ Inserts(w) => At(w, "inserts")
          /\ Erases(w) => At(w, "erases")
          /\ ReserveExhausts(w) => At(w, "exhausts")
          /\ ReserveRaises(w) => At(w, "raises")
      BY DEF Inserts, Erases, ReserveExhausts, ReserveRaises
    <3>1. Writes(w)
      BY <1>1, <2>1, <2>3, <3>0 DEF At
    <3>2. Rewritten(w)
      BY <1>2, <1>3, <3>1, WritesMoves
    <3>. QED  BY <1>1, <3>2 DEF Rewritten, Inactive
  <2>. QED  BY <1>2, <2>2, <2>3
<1>4. CASE goal' = goal /\ call'[w] = call[w]
  BY <1>1, <1>4 DEF Stopping, Current, At
<1>5. CASE goal' = goal /\ call'[w] # call[w]
  <2>1. Step(w)
    BY <1>1, <1>2, <1>5, CallStays DEF At
  <2>2. CASE At(w, "reads")
    <3>1. Reads(w)
      BY <2>1, <2>2 DEF Step, Checks, Writes, Inserts, Latches, Disarms, Erases, Lists, Deletes,
         Deleted, Resumes, ReserveReads, ReserveWeighs, ReserveExhausts, ReserveRetires,
         ReserveRaises, ReserveEnqueues, At
    <3>2. call' = [call EXCEPT ![w] = [call[w] EXCEPT !.at = "checks", !.copy = goal]]
      BY <1>1, <1>2, <3>1 DEF Reads
    <3>3. Moved(w, "checks", "stop", goal, call[w].round)
      BY <1>1, <1>2, <3>2, CopyMoved DEF Typed, Types, GoalTyped, StepPcs
    <3>. QED  BY <1>2, <1>5, <3>3 DEF Moved, Stopping, Current, At
  <2>3. CASE At(w, "checks") /\ Current(w)
    <3>1. Checks(w)
      BY <2>1, <2>3 DEF Step, Reads, Writes, Inserts, Latches, Disarms, Erases, Lists, Deletes,
         Deleted, Resumes, ReserveReads, ReserveWeighs, ReserveExhausts, ReserveRetires,
         ReserveRaises, ReserveEnqueues, At
    <3>2. call' = [call EXCEPT ![w] = [call[w] EXCEPT !.at = "writes", !.copy = goal]]
      BY <1>1, <1>2, <2>3, <3>1 DEF Checks, Current, Allowed
    <3>3. Moved(w, "writes", "stop", goal, call[w].round)
      BY <1>1, <1>2, <3>2, CopyMoved DEF Typed, Types, GoalTyped, StepPcs
    <3>. QED  BY <1>2, <1>5, <3>3 DEF Moved, Stopping, Current, At
  <2>4. CASE At(w, "writes") /\ Current(w)
    <3>1. Writes(w)
      BY <2>1, <2>4 DEF Step, Reads, Checks, Inserts, Latches, Disarms, Erases, Lists, Deletes,
         Deleted, Resumes, ReserveReads, ReserveWeighs, ReserveExhausts, ReserveRetires,
         ReserveRaises, ReserveEnqueues, At
    <3>. QED  BY <1>2, <1>5, <2>4, <3>1, MatchesWrites, CurrentMatches
  <2>. QED  BY <1>1, <2>2, <2>3, <2>4 DEF At
<1>. QED  BY <1>3, <1>4, <1>5

(* A row stays in the queue until it is deleted or claimed.                *)
LEMMA Joined ==
  ASSUME NEW S, NEW a \in Seq(S), NEW b \in Seq(S)
  PROVE  Range(a) \cup Range(b) \subseteq Range(a \o b)
<1>1. a \o b \in Seq(S) /\ Len(a \o b) = Len(a) + Len(b) /\ Len(a) \in Nat /\ Len(b) \in Nat
  OBVIOUS
<1>2. ASSUME NEW j \in 1..Len(a) PROVE a[j] \in Range(a \o b)
  <2>1. (a \o b)[j] = a[j] /\ j \in 1..Len(a \o b)
    BY <1>1
  <2>. QED  BY <1>1, <2>1 DEF Range
<1>3. ASSUME NEW j \in 1..Len(b) PROVE b[j] \in Range(a \o b)
  <2>1. (a \o b)[Len(a) + j] = b[j] /\ Len(a) + j \in 1..Len(a \o b)
    BY <1>1
  <2>. QED  BY <1>1, <2>1 DEF Range
<1>4. DOMAIN a = 1..Len(a) /\ DOMAIN b = 1..Len(b)
  OBVIOUS
<1>. QED  BY <1>2, <1>3, <1>4 DEF Range

LEMMA RemoveAtKeeps ==
  ASSUME NEW S, NEW s \in Seq(S), NEW i \in DOMAIN s, NEW x \in Range(s), x # s[i]
  PROVE  x \in Range(RemoveAt(s, i))
<1>1. i \in 1..Len(s) /\ Len(s) \in Nat
  OBVIOUS
<1> DEFINE before == SubSeq(s, 1, i - 1)
           after == SubSeq(s, i + 1, Len(s))
<1>2. before \in Seq(S) /\ Len(before) = i - 1 /\ \A j \in 1..Len(before) : before[j] = s[j]
  BY <1>1
<1>3. after \in Seq(S) /\ Len(after) = Len(s) - i /\ \A j \in 1..Len(after) : after[j] = s[i + j]
  BY <1>1
<1>4. RemoveAt(s, i) = before \o after
  BY DEF RemoveAt
<1>. HIDE DEF before, after
<1>5. PICK k \in 1..Len(s) : s[k] = x
  BY DEF Range
<1>6. Range(before) \cup Range(after) \subseteq Range(before \o after)
  BY <1>2, <1>3, Joined
<1>7. CASE k < i
  <2>1. k \in 1..Len(before)
    BY <1>1, <1>2, <1>7
  <2>2. before[k] = x /\ k \in DOMAIN before
    BY <1>2, <1>5, <2>1
  <2>. QED  BY <1>4, <1>6, <2>2 DEF Range
<1>8. CASE k > i
  <2>1. k - i \in 1..Len(after) /\ i + (k - i) = k
    BY <1>1, <1>3, <1>8
  <2>2. after[k - i] = x /\ k - i \in DOMAIN after
    BY <1>3, <1>5, <2>1
  <2>. QED  BY <1>4, <1>6, <2>2 DEF Range
<1>9. k # i
  BY <1>5
<1>. QED  BY <1>1, <1>7, <1>8, <1>9

LEMMA AppendKeeps ==
  ASSUME NEW S, NEW s \in Seq(S), NEW x \in S
  PROVE  Range(s) \cup {x} \subseteq Range(Append(s, x))
<1>1. /\ Append(s, x) \in Seq(S) /\ Len(Append(s, x)) = Len(s) + 1 /\ Len(s) \in Nat
      /\ Append(s, x)[Len(s) + 1] = x /\ \A j \in 1..Len(s) : Append(s, x)[j] = s[j]
  OBVIOUS
<1>2. Len(s) + 1 \in DOMAIN Append(s, x) /\ \A j \in 1..Len(s) : j \in DOMAIN Append(s, x)
  BY <1>1
<1>. HIDE <1>2
<1>3. x \in Range(Append(s, x))
  BY <1>1, <1>2 DEF Range
<1>4. Range(s) \subseteq Range(Append(s, x))
  BY <1>1, <1>2 DEF Range
<1>. QED  BY <1>3, <1>4

LEMMA TailKeeps ==
  ASSUME NEW S, NEW s \in Seq(S), s # <<>>, NEW x \in Range(s), x # Head(s)
  PROVE  x \in Range(Tail(s))
<1>1. PICK k \in 1..Len(s) : s[k] = x
  BY DEF Range
<1>2. /\ Tail(s) \in Seq(S) /\ Len(Tail(s)) = Len(s) - 1 /\ Head(s) = s[1] /\ Len(s) \in Nat
      /\ \A j \in 1..Len(s) - 1 : Tail(s)[j] = s[j + 1]
  OBVIOUS
<1>3. k # 1
  BY <1>1, <1>2
<1>4. k - 1 \in 1..Len(s) - 1 /\ (k - 1) + 1 = k
  BY <1>2, <1>3
<1>5. Tail(s)[k - 1] = x
  BY <1>1, <1>2, <1>4
<1>6. k - 1 \in DOMAIN Tail(s)
  BY <1>2, <1>4
<1>. QED  BY <1>5, <1>6 DEF Range

Taken(x) ==
  \/ /\ Claims /\ run'.row = x
     /\ run'.at = IF IsRound(x) THEN "judges" ELSE "begins"
  \/ \E c \in Callers : /\ Deletes(c) /\ x \in call[c].listed
                        /\ x \in cut' \/ call[c].does \notin {"stop", "pause", "clear"}
LEMMA RowStays ==
  ASSUME Typed, [Next]_vars, NEW x \in Range(waiting)
  PROVE  x \in Range(waiting') \/ Taken(x)
<1>1. waiting \in Seq(Rows \cup {Message}) /\ run \in RunRecords
  BY DEF Typed, Types, QueueTyped, RunTyped
<1>2. ASSUME NEW c \in Callers, Deletes(c) PROVE x \in Range(waiting') \/ Taken(x)
  <2>1. PICK r \in call[c].listed :
          /\ IF r \in Range(waiting)
             THEN \E i \in DOMAIN waiting : waiting[i] = r /\ waiting' = RemoveAt(waiting, i)
             ELSE UNCHANGED waiting
          /\ cut' = IF call[c].does \in {"stop", "pause", "clear"} THEN cut \cup {r} ELSE cut
    BY <1>2 DEF Deletes
  <2>2. CASE r # x
    BY <1>1, <2>1, <2>2, RemoveAtKeeps
  <2>3. CASE r = x
    BY <1>2, <2>1, <2>3 DEF Taken
  <2>. QED  BY <2>2, <2>3
<1>3. ASSUME NEW c \in Callers, ReserveEnqueues(c) PROVE x \in Range(waiting')
  <2>1. call[c].round \in Rows \cup {Message} /\ waiting' = Append(waiting, call[c].round)
    BY <1>3, ReserveEnqueuesMoves
  <2>. QED  BY <1>1, <2>1, AppendKeeps
<1>4. ASSUME UserSends PROVE x \in Range(waiting')
  BY <1>1, <1>4, AppendKeeps DEF UserSends
<1>5. ASSUME Claims PROVE x \in Range(waiting') \/ Taken(x)
  <2>1. CASE waiting' = waiting
    BY <2>1
  <2>2. CASE waiting' # waiting
    <3>1. /\ claimed = None /\ waiting # <<>> /\ waiting' = Tail(waiting)
          /\ run' = [run EXCEPT !.row = Head(waiting),
                                !.at = IF IsRound(Head(waiting)) THEN "judges" ELSE "begins"]
      BY <1>5, <2>2 DEF Claims, queue
    <3>2. /\ run'.row = Head(waiting)
          /\ run'.at = IF IsRound(Head(waiting)) THEN "judges" ELSE "begins"
      BY <1>1, <3>1 DEF RunRecords
    <3>3. CASE x = Head(waiting)
      BY <1>5, <3>2, <3>3 DEF Taken
    <3>4. CASE x # Head(waiting)
      BY <1>1, <3>1, <3>4, TailKeeps
    <3>. QED  BY <3>3, <3>4
  <2>. QED  BY <2>1, <2>2
<1>6. CASE waiting' = waiting
  BY <1>6
<1>. QED  BY <1>2, <1>3, <1>4, <1>5, <1>6, QueueChanges

LEMMA MessageStays ==
  ASSUME Typed, [Next]_vars, Messages
  PROVE  Messages' \/ (Claims /\ run'.row = Message /\ run'.at = "begins")
<1>1. \A c \in Callers : Message \notin call[c].listed
  BY NothingTyped DEF Typed, Types, CallsTyped, CallRecords
<1>2. Message \in Range(waiting') \/ Taken(Message)
  BY RowStays DEF Messages
<1>. QED  BY <1>1, <1>2 DEF Messages, Taken, IsRound

(* A stop that begins.                                                     *)
LEMMA StopBeginsDo ==
  ASSUME OneRequest, Typed, StopBegins
  PROVE  /\ run'.at = run.at /\ run'.cancelled = Busy /\ stopped' /\ Stopping'
         /\ \A w \in Requests : At(w, "none")
         /\ UNCHANGED <<goal, queue, armed, due>>
<1>1. PICK w \in Requests : RequestBegins(w, "stop", 0)
  BY DEF StopBegins
<1>2. Moved(w, "reads", "stop", None, None) /\ At(w, "none")
  BY <1>1, RequestMoves
<1>3. Stopping'
  BY <1>2 DEF Moved, Stopping, At
<1>4. run \in RunRecords /\ run' = [run EXCEPT !.cancelled = Busy]
  BY <1>1 DEF Typed, Types, RunTyped, RequestBegins
<1>5. run'.at = run.at /\ run'.cancelled = Busy
  BY <1>4 DEF RunRecords
<1>6. stopped' /\ UNCHANGED <<goal, queue, armed, due>>
  BY <1>1 DEF RequestBegins
<1>. QED  BY <1>2, <1>3, <1>5, <1>6 DEF OneRequest

(* What a cancelled run leaves behind.                                     *)
LEMMA CancelsStep ==
  ASSUME OneRequest, Typed, Cancels, [Next]_vars
  PROVE  Cancels'
<1>0. /\ CancelledIsBusy /\ StoppedCancels /\ ArmsUncancelled
      /\ EarlyCancelled /\ LateCancelled /\ RunGoes /\ Requests \subseteq Callers
  BY RunAt DEF Cancels, Callers
<1>1. CancelledIsBusy'
  <2> SUFFICES ASSUME run'.cancelled, run'.at = "none" PROVE FALSE
    BY DEF CancelledIsBusy, Busy
  <2>1. run.at = "none"
    BY <1>0 DEF RunGoes
  <2>2. CASE run.cancelled
    BY <1>0, <2>1, <2>2 DEF CancelledIsBusy, Busy
  <2>3. CASE StopBegins
    BY <2>1, <2>3, StopBeginsDo DEF Busy
  <2>. QED  BY <1>0, <2>2, <2>3 DEF RunGoes
<1>2. StoppedCancels'
  <2> SUFFICES ASSUME stopped', Busy' PROVE run'.cancelled
    BY DEF StoppedCancels
  <2>1. CASE stopped
    BY <1>0, <2>1, CancelKept DEF StoppedCancels
  <2>2. CASE ~stopped
    <3>1. StopBegins
      BY <2>2, StoppedChanges
    <3>. QED  BY <3>1, StopBeginsDo DEF Busy
  <2>. QED  BY <2>1, <2>2
<1>3. ArmsUncancelled'
  <2> SUFFICES ASSUME NEW w \in Requests, call'[w].does \in Arming, call'[w].at # "none",
                      run'.cancelled
               PROVE  FALSE
    BY DEF ArmsUncancelled, At
  <2>1. CASE call[w].at # "none" /\ call'[w].does = call[w].does
    <3>1. ~run.cancelled
      BY <1>0, <2>1 DEF ArmsUncancelled, At
    <3>2. StopBegins
      BY <1>0, <3>1 DEF RunGoes
    <3>. QED  BY <2>1, <3>2, StopBeginsDo DEF At
  <2>2. CASE ~Busy /\ run' = run
    BY <1>0, <2>2 DEF CancelledIsBusy
  <2>. QED  BY <2>1, <2>2, DoesKept
<1>4. EarlyCancelled'
  <2> SUFFICES ASSUME run'.cancelled, run'.at \in Early, ~Inactive', ~Stopping' PROVE FALSE
    BY DEF EarlyCancelled
  <2>1. ~StopBegins
    BY StopBeginsDo
  <2>2. run.cancelled /\ run.at \in Early
    BY <1>0, <2>1 DEF RunGoes
  <2>3. ~CrashAndRestart
    BY NothingTyped DEF CrashAndRestart
  <2>4. CASE Inactive
    <3>1. PICK c \in Callers : call[c].does \in Arming /\ (Writes(c) \/ Inserts(c))
      BY <2>4, GoalWakes
    <3>2. CASE c = Run
      BY <2>2, <3>1, <3>2, RunWrites DEF Step, Early
    <3>3. CASE c \in Requests
      <4>1. ~At(c, "none")
        BY <3>1, StepDoes DEF Step
      <4>. QED  BY <1>0, <2>2, <3>1, <3>3, <4>1 DEF ArmsUncancelled
    <3>. QED  BY <3>2, <3>3 DEF Callers
  <2>5. CASE Stopping /\ ~Inactive
    BY <2>2, <2>3, <2>5, StoppingStep DEF Early
  <2>. QED  BY <1>0, <2>2, <2>4, <2>5 DEF EarlyCancelled
<1>5. LateCancelled'
  <2> SUFFICES ASSUME run'.cancelled, run'.at = "works", ~stopped', ~Messages' PROVE FALSE
    BY DEF LateCancelled
  <2>1. ~StopBegins
    BY StopBeginsDo
  <2>2. run.cancelled
    BY <1>0, <2>1 DEF RunGoes
  <2>3. run.at = "works"
    BY <1>0, <2>2, RunActsDo DEF RunGoes
  <2>4. CASE stopped
    <3>1. CASE UserSends
      <4>1. waiting \in Seq(Rows \cup {Message})
        BY DEF Typed, Types, QueueTyped
      <4>. QED  BY <3>1, <4>1, AppendKeeps DEF UserSends, Messages
    <3>2. CASE CrashAndRestart
      BY <3>2, NothingTyped DEF CrashAndRestart
    <3>3. ASSUME NEW c \in Callers, Resumes(c) PROVE FALSE
      <4>1. At(c, "resumes") /\ c # Run
        BY <3>3, ResumesMoves
      <4>2. call[c].does \in Arming /\ c \in Requests
        BY <4>1, PlacedNow DEF PlacedRequest, Driving, At, Callers
      <4>. QED  BY <1>0, <2>2, <4>1, <4>2 DEF ArmsUncancelled, At
    <3>. QED  BY <2>4, <3>1, <3>2, <3>3, StoppedChanges
  <2>5. CASE Messages
    BY <2>3, <2>5, MessageStays, ClaimsDo
  <2>. QED  BY <1>0, <2>2, <2>3, <2>4, <2>5 DEF LateCancelled
<1>. QED  BY <1>1, <1>2, <1>3, <1>4, <1>5 DEF Cancels

(* The acts that end what the run is at.                                   *)
RunLeaves ==
  /\ run.at = "works" => run'.at = "works" \/ Ends \/ Fails
  /\ run.at = "begins" => run'.at = "begins" \/ Begins
  /\ run.at = "trusts" => (run'.at = "trusts" /\ run'.ok = run.ok) \/ Trusts
  /\ run.at = "judges" => (run'.at = "judges" /\ run'.row = run.row) \/ Judges
  /\ run.at \in Early /\ run'.at = "none" => (Looks /\ stopped) \/ Empties
  /\ run'.at = "empties" => run.at = "empties" \/ (Claims /\ waiting = <<>>)
LEMMA RunLeft ==
  ASSUME Typed, [Next]_vars, ~CrashAndRestart
  PROVE  RunLeaves
<1>0. run \in RunRecords
  BY DEF Typed, Types, RunTyped
<1> USE DEF RunLeaves, Early
<1>1. CASE run' = run
  BY <1>0, <1>1
<1>2. CASE StopBegins
  <2>1. run' = [run EXCEPT !.cancelled = Busy]
    BY <1>2 DEF StopBegins, RequestBegins
  <2>2. run'.at = run.at /\ run'.ok = run.ok /\ run'.row = run.row
    BY <1>0, <2>1 DEF RunRecords
  <2>. QED  BY <2>2
<1>3. CASE ~Busy /\ run' = [NoRun EXCEPT !.at = "looks"]
  <2>1. run'.at = "looks" /\ run.at = "none"
    BY <1>3 DEF NoRun, Busy
  <2>. QED  BY <2>1
<1>4. CASE run.at = "drives" /\ run' = [run EXCEPT !.at = "drops"]
  <2>1. run'.at = "drops"
    BY <1>0, <1>4 DEF RunRecords
  <2>. QED  BY <1>4, <2>1
<1>5. CASE Claims
  BY <1>5, ClaimsDo
<1>6. CASE Looks
  BY <1>6, NothingTyped, RunActsDo
<1>7. CASE Empties \/ Judges \/ Trusts \/ Rejects
  BY <1>7, NothingTyped, RunActsDo
<1>8. CASE Begins \/ Ends \/ Fails \/ Drops
  BY <1>8, NothingTyped, RunActsDo
<1>. QED
  BY <1>1, <1>2, <1>3, <1>4, <1>5, <1>6, <1>7, <1>8, RunSteps DEF RunActs, StopBegins

(* What is in the way of a fault, of arming and of a dispatch that is due. *)
LEMMA FaultsGrow ==
  ASSUME Typed, [Next]_vars, used'.faults = 0
  PROVE  used.faults = 0 /\ ~CrashAndRestart /\ (Fails => run.cancelled)
<1>1. used \in [{"goals", "runs", "messages", "requests", "calls", "faults"} -> Nat]
  BY DEF Typed, Types, UsedTyped
<1>2. ~Count("faults", MaxFaults)
  BY <1>1 DEF Count
<1>3. ASSUME NEW what \in {"goals", "runs", "messages", "requests", "calls"}, NEW limit,
             Count(what, limit)
      PROVE  used.faults = 0
  BY <1>1, <1>3 DEF Count
<1>4. ~CrashAndRestart /\ (Fails => run.cancelled /\ used' = used)
  BY <1>2 DEF CrashAndRestart, Fails
<1>. QED
  BY <1>3, <1>4
  DEF Next, Step, vars, RequestBegins, ToolBegins, Reads, Checks, Writes, Inserts, Latches,
      Disarms, Erases, Lists, Deletes, Deleted, Resumes, ReserveReads, ReserveWeighs,
      ReserveExhausts, ReserveRetires, ReserveRaises, ReserveEnqueues, UserSends, Spawns,
      Looks, Claims, Empties, Judges, Trusts, Rejects, Begins, Ends, Drops

LEMMA ArmsAtLatches ==
  ASSUME [Next]_vars, armed', ~armed
  PROVE  \E c \in Callers : Latches(c)
BY DEF Next, Step, vars, memory, RequestBegins, ToolBegins, Reads, Checks, Writes, Inserts,
   Disarms, Erases, Lists, Deletes, Deleted, Resumes, ReserveReads, ReserveWeighs,
   ReserveExhausts, ReserveRetires, ReserveRaises, ReserveEnqueues, UserSends, Spawns,
   Looks, Claims, Empties, Judges, Trusts, Rejects, Begins, Ends, Fails, Drops,
   CrashAndRestart

LEMMA DueUntilSpawn ==
  ASSUME [Next]_vars, ~CrashAndRestart, due, ~due'
  PROVE  Spawns
BY DEF Next, Step, vars, memory, RequestBegins, ToolBegins, Reads, Checks, Writes, Inserts,
   Latches, Disarms, Erases, Lists, Deletes, Deleted, Resumes, ReserveReads, ReserveWeighs,
   ReserveExhausts, ReserveRetires, ReserveRaises, ReserveEnqueues, Driven, UserSends,
   Looks, Claims, Empties, Judges, Trusts, Rejects, Begins, Ends, Fails, Drops

LEMMA CutGrows ==
  ASSUME [Next]_vars
  PROVE  cut \subseteq cut'
BY DEF Next, Step, vars, history, RequestBegins, ToolBegins, Reads, Checks, Writes, Inserts,
   Latches, Disarms, Erases, Lists, Deletes, Deleted, Resumes, ReserveReads, ReserveWeighs,
   ReserveExhausts, ReserveRetires, ReserveRaises, ReserveEnqueues, UserSends, Spawns,
   Looks, Claims, Empties, Judges, Trusts, Rejects, Begins, Ends, Fails, Drops,
   CrashAndRestart

(* A turn under way brings the next round, and so does what cancelled a    *)
(* run before its turn.                                                    *)
LEMMA WorksComes ==
  ASSUME Cancels', run'.at = "works"
  PROVE  Coming'
<1>1. CASE run'.cancelled
  BY <1>1 DEF Cancels, LateCancelled, Coming, Paused, Served, Late
<1>2. CASE ~run'.cancelled
  BY <1>2 DEF Coming, Running
<1>. QED  BY <1>1, <1>2

LEMMA EarlyComes ==
  ASSUME Cancels', Going', run'.at \in Early, run'.cancelled
  PROVE  Coming'
BY DEF Cancels, EarlyCancelled, Going, Inactive, Coming

(* Where the caller of the run is when it writes.                          *)
LEMMA RunAtWorks ==
  ASSUME Typed, call[Run].at \in {"writes", "inserts", "latches"}
  PROVE  run.at = "works"
BY DEF Typed, RunPlaced, Driving

(* A goal that changes, or is armed.                                       *)
LEMMA ChangedComes ==
  ASSUME Typed, Cancels', [Next]_vars, Going', goal' # goal
  PROVE  Coming'
<1>1. PICK c \in Callers : \/ Writes(c) \/ Inserts(c) \/ Erases(c)
                           \/ ReserveExhausts(c) \/ ReserveRaises(c)
  BY GoalChanges
<1>2. c # Run => c \in Requests
  BY DEF Callers
<1>3. CASE Writes(c)
  <2>1. Rewritten(c) /\ At(c, "writes") /\ Matches(c)
    BY <1>3, WritesMoves
  <2>2. CASE c = Run
    BY <1>3, <2>1, <2>2, RunAtWorks, WorksComes DEF At, Writes
  <2>3. CASE c # Run
    <3>1. call[c].does = "resume"
      BY <2>1, <2>3, PlacedNow DEF PlacedRequest, Rewritten, At, Going
    <3>2. call'[c].at = "latches" /\ call'[c].does = "resume"
      BY <1>3, <2>1, <3>1, WritesMoves DEF MovedOn, Moved
    <3>. QED  BY <1>2, <2>3, <3>2 DEF Coming, Resuming, Arming
  <2>. QED  BY <2>2, <2>3
<1>4. CASE Inserts(c)
  <2>1. At(c, "inserts") /\ call[c].does = "create" /\ MovedOn(c, "latches")
    BY <1>4, InsertsMoves
  <2>2. CASE c = Run
    BY <1>4, <2>1, <2>2, RunAtWorks, WorksComes DEF At, Inserts
  <2>3. CASE c # Run
    <3>1. call'[c].at = "latches" /\ call'[c].does = "create"
      BY <2>1 DEF MovedOn, Moved
    <3>. QED  BY <1>2, <2>3, <3>1 DEF Coming, Resuming, Arming
  <2>. QED  BY <2>2, <2>3
<1>5. CASE Erases(c)
  BY <1>5 DEF Erases, Going
<1>6. CASE ReserveExhausts(c)
  BY <1>6, ReserveExhaustsMoves DEF Going
<1>7. CASE ReserveRaises(c)
  <2>1. PICK r \in Rows : Raised(c, r)
    BY <1>7, RaisesRaised
  <2>2. call'[c].at = "enqueues" /\ call'[c].round = r
    BY <2>1 DEF Raised, Moved
  <2>3. r.goal = goal'.id /\ r.round = goal'.rounds
    BY <2>1 DEF Raised
  <2>. QED  BY <2>2, <2>3 DEF Coming, Reserving, At
<1>. QED  BY <1>1, <1>3, <1>4, <1>5, <1>6, <1>7

LEMMA ArmedComes ==
  ASSUME Typed, Cancels', [Next]_vars, Going', ~armed
  PROVE  Coming'
<1>1. PICK c \in Callers : Latches(c)
  BY ArmsAtLatches DEF Going
<1>2. At(c, "latches") /\ call[c].does \in Arming
  BY <1>1, LatchesMoves DEF Going
<1>3. CASE c = Run
  BY <1>1, <1>2, <1>3, RunAtWorks, WorksComes DEF At, Latches
<1>4. CASE c # Run
  <2>1. call'[c].at = "resumes" /\ call'[c].does \in Arming
    BY <1>1, <1>2, <1>4, LatchesMoves DEF MovedOn, Moved
  <2>. QED  BY <1>4, <2>1 DEF Coming, Resuming, Callers
<1>. QED  BY <1>3, <1>4

(* A session that was stopped: what resumes its queue brings a dispatch.   *)
LEMMA PausedComes ==
  ASSUME Typed, [Next]_vars, ~CrashAndRestart, Paused
  PROVE  Coming'
<1>1. run'.at \in {"none"} \cup Late
  BY RunAt DEF RunGoes, Paused
<1>2. CASE stopped'
  BY <1>1, <1>2 DEF Coming, Paused
<1>3. CASE UserSends
  <2>1. waiting \in Seq(Rows \cup {Message})
    BY DEF Typed, Types, QueueTyped
  <2>2. Messages' /\ due'
    BY <1>3, <2>1, AppendKeeps DEF UserSends, Messages
  <2>. QED  BY <1>1, <2>2 DEF Coming, Served, Busy
<1>4. ASSUME NEW c \in Callers, Resumes(c) PROVE Coming'
  <2>1. call'[c].at = "reserves"
    BY <1>4, ResumesMoves DEF MovedOn, Moved
  <2>. QED  BY <2>1 DEF Coming, Reserving, At
<1>. QED  BY <1>2, <1>3, <1>4, StoppedChanges DEF Paused

(* A round of the goal in the queue: it is claimed, or deleted and cut.    *)
LEMMA QueuedComes ==
  ASSUME Typed, Copies, Cancels', [Next]_vars, ~CrashAndRestart, Going', goal' = goal, Queued
  PROVE  Coming'
<1>1. PICK r \in WaitingRounds \cup cut : r.goal = goal.id /\ r.round = goal.rounds
  BY DEF Queued
<1>2. r \in Range(waiting') /\ IsRound(r) => Coming'
  BY <1>1 DEF Coming, Queued, WaitingRounds
<1>3. r \in cut' => Coming'
  BY <1>1 DEF Coming, Queued
<1>4. CASE r \in cut
  BY <1>3, <1>4, CutGrows
<1>5. CASE r \in WaitingRounds
  <2>1. r \in Range(waiting) /\ IsRound(r)
    BY <1>5 DEF WaitingRounds
  <2>2. CASE Claims /\ run'.row = r /\ run'.at = "judges"
    <3>1. CASE run'.cancelled
      BY <2>2, <3>1, EarlyComes DEF Early
    <3>2. CASE ~run'.cancelled
      BY <1>1, <2>2, <3>2 DEF Coming, Running
    <3>. QED  BY <3>1, <3>2
  <2>3. ASSUME NEW c \in Callers, Deletes(c), call[c].does \notin {"stop", "pause", "clear"}
        PROVE  Coming'
    <3>1. At(c, "deletes") /\ c # Run /\ c \in Requests /\ MovedOn(c, "deletes")
      BY <2>3, ClosingMoves DEF Callers
    <3>2. call[c].does \in Arming
      BY <2>3, <3>1, PlacedNow DEF PlacedRequest, At
    <3>3. call[c].does # "create"
      BY <3>1 DEF Copies, RequestCopies, Closing, At, Going
    <3>4. call'[c].at = "deletes" /\ call'[c].does = "resume"
      BY <3>1, <3>2, <3>3 DEF MovedOn, Moved, Arming
    <3>. QED  BY <3>1, <3>4 DEF Coming, Resuming
  <2>4. r \in Range(waiting') \/ Taken(r)
    BY <2>1, RowStays
  <2>. QED  BY <1>2, <1>3, <2>1, <2>2, <2>3, <2>4 DEF Taken
<1>. QED  BY <1>4, <1>5

(* A message in the queue: a dispatch that is due, or a run, comes to it.  *)
LEMMA ServedComes ==
  ASSUME Typed, Cancels, Cancels', [Next]_vars, ~CrashAndRestart, Going', Served
  PROVE  Coming'
<1>0. Messages /\ RunGoes /\ RunLeaves
  BY RunAt, RunLeft DEF Served
<1>1. run'.at \in Early /\ run'.cancelled => Coming'
  BY EarlyComes
<1>2. CASE ~Messages'
  <2>1. Claims /\ run'.at = "begins"
    BY <1>0, <1>2, MessageStays
  <2>. QED  BY <1>1, <2>1 DEF Coming, Running, Early
<1>3. CASE Messages' /\ run'.at \in Late
  BY <1>3 DEF Coming, Served
<1>4. CASE Messages' /\ due' /\ run'.at = "none"
  BY <1>4 DEF Coming, Served, Busy
<1>5. CASE Messages' /\ run'.at \in Early \ {"empties"}
  BY <1>1, <1>5 DEF Coming, Served
<1>6. CASE due /\ ~Busy
  <2>1. CASE run'.at = "none" /\ ~due'
    <3>1. Spawns
      BY <1>6, <2>1, DueUntilSpawn
    <3>2. CASE stopped
      BY <2>1, <3>1, <3>2 DEF Spawns, Coming, Paused
    <3>3. CASE ~stopped
      <4>1. run' = [NoRun EXCEPT !.at = "looks"]
        BY <1>6, <3>1, <3>3 DEF Spawns
      <4>. QED  BY <2>1, <4>1 DEF NoRun
    <3>. QED  BY <3>2, <3>3
  <2>2. run'.at \in {"none", "looks"}
    BY <1>0, <1>6 DEF RunGoes, Busy
  <2>. QED  BY <1>2, <1>4, <1>5, <2>1, <2>2 DEF Early
<1>7. CASE run.at \in Late
  BY <1>0, <1>2, <1>3, <1>4, <1>7 DEF RunGoes
<1>8. CASE run.at \in Early \ {"empties"} /\ ~run.cancelled
  <2>1. run'.at # "none"
    <3>1. ~(Looks /\ stopped)
      BY <1>8 DEF Cancels, StoppedCancels, Busy, Early
    <3>2. ~Empties
      BY <1>8 DEF Empties
    <3>. QED  BY <1>0, <1>8, <3>1, <3>2 DEF RunLeaves
  <2>2. run'.at # "empties"
    <3>1. waiting # <<>>
      BY <1>0 DEF Messages, Range
    <3>. QED  BY <1>0, <1>8, <3>1 DEF RunLeaves
  <2>3. run' \in RunRecords
    BY TypeStep DEF Typed, Types, RunTyped
  <2>. QED  BY <1>2, <1>3, <1>5, <2>1, <2>2, <2>3 DEF RunRecords, RunPcs, Early, Late
<1>. QED  BY <1>6, <1>7, <1>8 DEF Served

(* A round or a message that the run has and has not been refused.         *)
LEMMA RunningComes ==
  ASSUME Typed, Cancels', [Next]_vars, ~CrashAndRestart, Fails => run.cancelled,
         Going, Going', goal' = goal, Running
  PROVE  Coming'
<1>0. RunLeaves /\ ~run.cancelled
  BY RunLeft DEF Running
<1>1. run'.at \in Early /\ run'.cancelled => Coming'
  BY EarlyComes
<1>2. CASE run.at = "works"
  <2>1. CASE Ends
    BY <2>1, RunActsDo DEF Coming, Reserving, At, Callers
  <2>. QED  BY <1>0, <1>2, <2>1, WorksComes DEF RunLeaves
<1>3. CASE run.at = "begins"
  <2>1. CASE Begins
    BY <1>0, <2>1, RunActsDo, WorksComes
  <2>. QED  BY <1>0, <1>1, <1>3, <2>1 DEF RunLeaves, Coming, Running, Early
<1>4. CASE run.at = "trusts" /\ run.ok
  <2>1. CASE Trusts
    <3>1. run'.at = "begins"
      BY <1>4, <2>1, RunActsDo DEF Going
    <3>. QED  BY <1>1, <3>1 DEF Coming, Running, Early
  <2>. QED  BY <1>0, <1>1, <1>4, <2>1 DEF RunLeaves, Coming, Running, Early
<1>5. CASE run.at = "judges" /\ run.row.goal = goal.id
  <2>1. CASE Judges
    <3>1. run'.at = "trusts" /\ run'.ok
      BY <1>5, <2>1, RunActsDo DEF Going
    <3>. QED  BY <1>1, <3>1 DEF Coming, Running, Early
  <2>. QED  BY <1>0, <1>1, <1>5, <2>1 DEF RunLeaves, Coming, Running, Early
<1>. QED  BY <1>2, <1>3, <1>4, <1>5 DEF Running

(* Where a caller is for each of its steps.                                *)
LEMMA StepAt ==
  ASSUME NEW c \in Callers
  PROVE  /\ Reads(c) => At(c, "reads")
         /\ Checks(c) => At(c, "checks")
         /\ Writes(c) => At(c, "writes")
         /\ Inserts(c) => At(c, "inserts")
         /\ Latches(c) => At(c, "latches")
         /\ Disarms(c) => At(c, "disarms")
         /\ Erases(c) => At(c, "erases")
         /\ Lists(c) => At(c, "lists")
         /\ Deletes(c) \/ Deleted(c) => At(c, "deletes")
         /\ Resumes(c) => At(c, "resumes")
         /\ ReserveReads(c) => At(c, "reserves")
         /\ ReserveWeighs(c) => At(c, "weighs")
         /\ ReserveExhausts(c) => At(c, "exhausts")
         /\ ReserveRetires(c) => At(c, "retires")
         /\ ReserveRaises(c) => At(c, "raises")
         /\ ReserveEnqueues(c) => At(c, "enqueues")
BY DEF Reads, Checks, Writes, Inserts, Latches, Disarms, Erases, Lists, Deletes,
   Deleted, Resumes, ReserveReads, ReserveWeighs, ReserveExhausts, ReserveRetires,
   ReserveRaises, ReserveEnqueues

(* A request that resumes, or has armed, the goal goes on to its driver.   *)
LEMMA ResumingComes ==
  ASSUME Typed, [Next]_vars, ~CrashAndRestart, Going, goal' = goal,
         NEW w \in Requests, Resuming(w)
  PROVE  Coming'
<1>0. w \in Callers /\ w # Run /\ ~At(w, "none")
  BY RunIsNoRequest DEF Callers, Resuming, At
<1>1. CASE ~Step(w)
  <2>1. call'[w] = call[w]
    BY <1>0, <1>1, CallStays
  <2>. QED  BY <2>1 DEF Coming, Resuming, Current, At
<1>2. CASE At(w, "lists") /\ call[w].does = "resume" /\ Step(w)
  <2>1. MovedOn(w, "deletes")
    BY <1>0, <1>2, StepAt, ClosingMoves DEF Step, At
  <2>. QED  BY <1>2, <2>1 DEF MovedOn, Moved, Coming, Resuming
<1>3. CASE At(w, "deletes") /\ call[w].does = "resume" /\ Step(w)
  <2>1. MovedOn(w, "deletes") \/ MovedOn(w, "reads")
    BY <1>0, <1>3, StepAt, ClosingMoves DEF Step, At
  <2>. QED  BY <1>3, <2>1 DEF MovedOn, Moved, Coming, Resuming
<1>4. CASE At(w, "reads") /\ call[w].does = "resume" /\ Step(w)
  <2>1. Reads(w)
    BY <1>0, <1>4, StepAt DEF Step, At
  <2>2. call' = [call EXCEPT ![w] = [call[w] EXCEPT !.at = "writes", !.copy = goal]]
    BY <1>4, <2>1 DEF Reads, Going
  <2>3. Moved(w, "writes", "resume", goal, call[w].round)
    BY <1>0, <1>4, <2>2, CopyMoved DEF Typed, Types, GoalTyped, StepPcs
  <2>. QED  BY <2>3 DEF Moved, Coming, Resuming, Current, At, Going
<1>5. CASE At(w, "writes") /\ Current(w) /\ Step(w)
  <2>1. Writes(w)
    BY <1>0, <1>5, StepAt DEF Step, At
  <2>. QED  BY <1>0, <1>5, <2>1, MatchesWrites, CurrentMatches
<1>6. CASE At(w, "latches") /\ call[w].does \in Arming /\ Step(w)
  <2>1. Latches(w)
    BY <1>0, <1>6, StepAt DEF Step, At
  <2>2. MovedOn(w, "resumes")
    BY <1>0, <1>6, <2>1, LatchesMoves
  <2>. QED  BY <1>6, <2>2 DEF MovedOn, Moved, Coming, Resuming
<1>7. CASE At(w, "resumes") /\ Step(w)
  <2>1. MovedOn(w, "reserves")
    BY <1>0, <1>7, StepAt, ResumesMoves DEF Step, At
  <2>. QED  BY <1>0, <2>1 DEF MovedOn, Moved, Coming, Reserving, At
<1>. QED  BY <1>1, <1>2, <1>3, <1>4, <1>5, <1>6, <1>7 DEF Resuming, At

(* A driver that has the goal as it is takes the round it brings.          *)
LEMMA ReservingComes ==
  ASSUME Typed, [Next]_vars, ~CrashAndRestart, Going, goal' = goal,
         NEW c \in Callers, Reserving(c)
  PROVE  Coming'
<1>0. ~At(c, "none") /\ CallsTyped /\ goal \in Goals
  BY DEF Reserving, At, Typed, Types, GoalTyped, Going
<1>1. CASE ~Step(c)
  <2>1. call'[c] = call[c]
    BY <1>0, <1>1, CallStays
  <2>. QED  BY <2>1 DEF Coming, Reserving, Current, At
<1>2. CASE At(c, "reserves") /\ Step(c)
  <2>1. ReserveReads(c)
    BY <1>2, StepAt DEF Step, At
  <2>2. call' = [call EXCEPT ![c] = [@ EXCEPT !.at = "weighs", !.copy = goal]]
    BY <2>1 DEF ReserveReads, Going
  <2>3. Moved(c, "weighs", call[c].does, goal, call[c].round)
    BY <1>0, <2>2, CopyMoved DEF StepPcs
  <2>. QED  BY <2>3 DEF Moved, Coming, Reserving, Current, Going
<1>3. CASE At(c, "weighs") /\ Current(c) /\ Step(c)
  <2>1. ReserveWeighs(c)
    BY <1>3, StepAt DEF Step, At
  <2>2. PICK p \in {"exhausts", "raises"} : Goto(c, p)
    BY <1>3, <2>1 DEF ReserveWeighs, Current, Going
  <2>3. MovedOn(c, p)
    BY <1>0, <2>2, GotoMoved DEF StepPcs
  <2>. QED  BY <1>3, <2>3 DEF MovedOn, Moved, Coming, Reserving, Current
<1>4. CASE call[c].at \in {"exhausts", "raises"} /\ Current(c) /\ Step(c)
  <2>1. ReserveExhausts(c) \/ ReserveRaises(c)
    BY <1>4, StepAt DEF Step, At
  <2>. QED  BY <1>4, <2>1, MatchesWrites, CurrentMatches
<1>5. CASE /\ At(c, "enqueues") /\ Step(c)
           /\ call[c].round.goal = goal.id /\ call[c].round.round = goal.rounds
  <2>1. ReserveEnqueues(c)
    BY <1>5, StepAt DEF Step, At
  <2>2. call[c].round \in Rows /\ waiting' = Append(waiting, call[c].round)
    BY <2>1, ReserveEnqueuesMoves
  <2>3. waiting \in Seq(Rows \cup {Message})
    BY DEF Typed, Types, QueueTyped
  <2>4. call[c].round \in Range(waiting')
    BY <2>2, <2>3, AppendKeeps
  <2>5. IsRound(call[c].round)
    BY <2>2, NothingTyped DEF IsRound
  <2>. QED  BY <1>5, <2>4, <2>5 DEF Coming, Queued, WaitingRounds
<1>. QED  BY <1>1, <1>2, <1>3, <1>4, <1>5 DEF Reserving, At

LEMMA ComingStep ==
  ASSUME OneRequest, Typed, Copies, Cancels, Going => Coming, [Next]_vars, Going'
  PROVE  Coming'
<1>0. Cancels'
  BY CancelsStep
<1>1. used.faults = 0 /\ ~CrashAndRestart /\ (Fails => run.cancelled)
  BY FaultsGrow DEF Going
<1>2. CASE goal' = goal /\ armed
  <2>1. Going /\ Coming /\ ~Inactive /\ ~Inactive'
    BY <1>1, <1>2 DEF Going, Inactive
  <2>2. Stopping => Coming'
    BY <1>1, <1>2, <2>1, StoppingStep DEF Coming
  <2>. QED
    BY <1>0, <1>1, <1>2, <2>1, <2>2, PausedComes, QueuedComes, ServedComes, RunningComes,
       ResumingComes, ReservingComes
    DEF Coming
<1>. QED  BY <1>0, <1>2, ChangedComes, ArmedComes

(* When all is settled, what is still to come is in the queue, or was cut. *)
LEMMA SettledQueued ==
  ASSUME Going => Coming
  PROVE  DriverNeverForgets
<1> SUFFICES ASSUME Settled, ~stopped, Going
             PROVE  \E r \in WaitingRounds \cup ({claimed} \ {None}) \cup cut :
                      r.goal = goal.id /\ r.round = goal.rounds
  BY DEF DriverNeverForgets, Going
<1>1. Coming /\ run.at = "none" /\ ~due /\ \A c \in Callers : call[c].at = "none"
  BY DEF Settled, Busy, At
<1>2. Requests \subseteq Callers
  BY DEF Callers
<1>3. ~Paused /\ ~Running
  BY <1>1 DEF Paused, Running
<1>4. ~Served
  BY <1>1 DEF Served, Late, Early
<1>5. ~Stopping /\ (\A w \in Requests : ~Resuming(w)) /\ \A c \in Callers : ~Reserving(c)
  BY <1>1, <1>2 DEF Stopping, Resuming, Reserving, At
<1>6. Queued
  BY <1>1, <1>3, <1>4, <1>5 DEF Coming
<1>. QED  BY <1>6 DEF Queued

-----------------------------------------------------------------------------
(* The theorems.                                                           *)
GoalsSafe == Typed /\ Copies /\ Consent /\ Quiet /\ Budget

LEMMA GoalsInit == Init => GoalsSafe
<1> SUFFICES ASSUME Init PROVE GoalsSafe
  OBVIOUS
<1>1. Typed
  BY TypeInit
<1>2. \A c \in Callers : call[c] = NoCall
  BY DEF Init
<1>3. \A c \in Callers : call[c].at = "none" /\ call[c].does = "none" /\ call[c].round = None
  BY <1>2 DEF NoCall
<1>4. goal = None /\ ~armed /\ quiet = "no" /\ run.at = "none" /\ run.row = None
  BY NothingTyped DEF Init
<1>5. Run \in Callers /\ Requests \subseteq Callers
  BY DEF Callers
<1>6. Copies
  BY <1>3, <1>5 DEF Copies, RequestCopies, RunCopies, CopiesJudged, Judged, Copying, Closing, At
<1>7. Consent
  BY <1>4 DEF Consent, GoalGranted, RoundJudged, RoundGranted, Judging
<1>8. Quiet
  BY <1>3, <1>4, <1>5 DEF Quiet, StopHolds, StopHeld
<1>9. Held = {}
  <2>1. Range(waiting) = {} /\ claimed = None /\ begun = {}
    BY DEF Init, Range
  <2>2. {call[c].round : c \in Callers} \subseteq {None}
    BY <1>3
  <2>. QED  BY <1>4, <2>1, <2>2, NothingTyped DEF Held, Pending
<1>10. Budget
  BY <1>3, <1>4, <1>9
  DEF Budget, BudgetWeighed, RoundsBounded, Rounds, RowsKnown, RowsOld, RowsCounted,
      RowsDistinct, At
<1>. QED  BY <1>1, <1>6, <1>7, <1>8, <1>10 DEF GoalsSafe

(* The types hold for any number of requests, and with them where the run's*)
(* caller is: in the driver exactly while the run ends.                    *)
THEOREM TypeCorrect == Spec => []TypeOK
<1>1. Init => Typed
  BY TypeInit
<1>2. Typed /\ [Next]_vars => Typed'
  BY TypeStep
<1>3. Typed => TypeOK
  BY TypesAreTypeOK DEF Typed
<1>. QED  BY <1>1, <1>2, <1>3, PTL DEF Spec

LEMMA GoalsStep ==
  ASSUME OneRequest, GoalsSafe, [Next]_vars
  PROVE  GoalsSafe'
<1>1. Typed'
  BY TypeStep DEF GoalsSafe
<1>2. Copies' /\ Consent'
  BY CopiesStep, ConsentStep DEF GoalsSafe
<1>3. Quiet' /\ Budget'
  BY <1>1, QuietStep, BudgetStep DEF GoalsSafe
<1>. QED  BY <1>1, <1>2, <1>3 DEF GoalsSafe

LEMMA GoalsAreSafe ==
  ASSUME OneRequest
  PROVE  Spec => []GoalsSafe
<1>1. Init => GoalsSafe
  BY GoalsInit
<1>2. GoalsSafe /\ [Next]_vars => GoalsSafe'
  BY GoalsStep
<1>. QED  BY <1>1, <1>2, PTL DEF Spec

(* Whatever every caller decides on its copy of the goal, nobody reopens a *)
(* goal that is complete, and one that is blocked is reopened by the       *)
(* user's resume alone, which makes it active with a new budget.           *)
THEOREM GoalsStayClosed ==
  ASSUME OneRequest
  PROVE  Spec => ClosedPhases
<1>1. GoalsSafe /\ [Next]_vars =>
        [goal # None /\ goal' # None /\ goal'.id = goal.id =>
           /\ goal.phase = "complete" => goal'.phase = "complete"
           /\ goal.phase = "blocked" /\ goal'.phase \in {"active", "paused"}
                => goal'.rounds = 0 /\ goal'.phase = "active"]_vars
  BY GoalStep DEF GoalsSafe
<1>. QED  BY <1>1, GoalsAreSafe, PTL DEF Spec, ClosedPhases

(* A round works only for a goal that was created or resumed since the     *)
(* process started, although its goal and the latch are read in two steps. *)
THEOREM RoundsNeedConsent ==
  ASSUME OneRequest
  PROVE  Spec => []FreshConsent
<1>1. GoalsSafe => FreshConsent
  BY DEF GoalsSafe, Consent, RoundGranted, FreshConsent
<1>. QED  BY <1>1, GoalsAreSafe, PTL

(* After a stop that succeeded no round works that is not cancelled, and   *)
(* the goal stays inactive until somebody creates or resumes one.          *)
THEOREM StopQuiets ==
  ASSUME OneRequest
  PROVE  Spec => []QuietAfterStop
<1>1. GoalsSafe => QuietAfterStop
  BY DEF GoalsSafe, Quiet, StopHeld, Inactive, LooseRound, QuietAfterStop
<1>. QED  BY <1>1, GoalsAreSafe, PTL

(* The rounds a goal began since its budget was set are no more than its   *)
(* budget, whichever drivers took them and whatever crashed in between.    *)
THEOREM RoundsWithinBudget ==
  ASSUME OneRequest
  PROVE  Spec => []BudgetKept
<1>1. GoalsSafe => BudgetKept
  BY BudgetIsKept DEF GoalsSafe
<1>. QED  BY <1>1, GoalsAreSafe, PTL

(* The chain of rounds does not end by itself: whatever stopped, cancelled *)
(* or served the session in between, a goal that is active and armed has   *)
(* its next round in the queue once all is settled, or it was cut.         *)
THEOREM DriverRemembers ==
  ASSUME OneRequest
  PROVE  Spec => []DriverNeverForgets
<1>1. Init => Cancels /\ (Going => Coming)
  <2> SUFFICES ASSUME Init PROVE Cancels /\ ~armed
    BY DEF Going
  <2>1. run.at = "none" /\ ~run.cancelled /\ ~armed
    BY NothingTyped DEF Init
  <2>. QED
    BY <2>1
    DEF Cancels, CancelledIsBusy, StoppedCancels, ArmsUncancelled, EarlyCancelled,
        LateCancelled, Busy
<1>2. GoalsSafe /\ Cancels /\ (Going => Coming) /\ [Next]_vars
        => Cancels' /\ (Going => Coming)'
  BY CancelsStep, ComingStep DEF GoalsSafe
<1>3. (Going => Coming) => DriverNeverForgets
  BY SettledQueued
<1>. QED  BY <1>1, <1>2, <1>3, GoalsAreSafe, PTL DEF Spec

=============================================================================
