---------------------------- MODULE UpdateManager ----------------------------
(* The update manager of the agent (src/update/manager.rs): checks, downloads *)
(* and installs are operations that take one gate; checks and downloads run   *)
(* in a spawned task whose abort handle is registered after the spawn, an     *)
(* install runs in its request, and a cancel keeps the gate locked until the  *)
(* aborted task is gone.  Each update_state is one step: it changes the state *)
(* in memory and writes update_state.json.  State writes that fail and cancel *)
(* requests whose client goes away are left out.                              *)
EXTENDS UpdateFiles

VARIABLES
  up,           \* the agent process runs
  built,        \* build_version() of that process
  phase,        \* UpdateManagerState.phase, in memory and in update_state.json
  shown,        \* UpdateManagerState.version, kept where it is read: installing
  gate,         \* operation: the token of the operation that holds the gate
  registered,   \* active_task: the operation whose abort handle is kept
  op,           \* the operations: see Operations
  cancelling,   \* the operation a cancel request waits for, the gate locked
  stopping,     \* signal_shutdown was called
  late          \* history: a step overtook the registration of a handle

managerVars ==
  <<up, built, phase, shown, gate, registered, op, cancelling, stopping, late>>

Kinds == {"check", "download", "install"}

ASSUME UpdateManagerAssumption == None \notin Kinds /\ None \notin Ops

Phases == {"idle", "checking", "available", "downloading", "preparing",
           "ready", "installing", "cancelled", "error"}

\* req is how far the request has come, at how far the task (for an install,
\* the request itself) has.
Operations ==
  [kind : Kinds \cup {None},
   req : {"none", "begun", "spawned", "registered"},
   at : {"none", "resolving", "downloading", "preparing", "copying",
         "staged", "marked", "arming", "armed", "releasing", "handingOver",
         "signalling", "done"},
   tag : Tags \cup {None},
   aborted : BOOLEAN]

Unused ==
  [kind |-> None, req |-> "none", at |-> "none", tag |-> None,
   aborted |-> FALSE]

\* The task of an operation is spawned and not over, or its install runs.
Live(o) == op[o].at \notin {"none", "signalling", "done"}

\* The operation still has steps of its own before its gate is given back.
Working(o) ==
  Live(o) \/ (op[o].at = "none" /\ op[o].req = "begun")

\* What is kept of an operation that is over: whether its request has yet to
\* register the task.
Over(o) ==
  [Unused EXCEPT !.at = "done",
                 !.req = IF op[o].req = "spawned" THEN "spawned" ELSE "none"]

\* Points where the task awaits, and where an abort takes effect.
AwaitPoints == {"resolving", "downloading", "preparing", "releasing"}

ManagerTypeOK ==
  /\ up \in BOOLEAN
  /\ built \in Versions
  /\ phase \in Phases
  /\ shown \in Tags \cup {None}
  /\ gate \in Ops \cup {None}
  /\ registered \in Ops \cup {None}
  /\ op \in [Ops -> Operations]
  /\ cancelling \in Ops \cup {None}
  /\ stopping \in BOOLEAN
  /\ late \in BOOLEAN

ManagerInit ==
  /\ up = FALSE
  /\ built = FirstVersion
  /\ phase = IF prepared = None THEN "idle" ELSE "ready"
  /\ shown = None
  /\ gate = None
  /\ registered = None
  /\ op = [o \in Ops |-> Unused]
  /\ cancelling = None
  /\ stopping = FALSE
  /\ late = FALSE

------------------------------------------------------------------------------
\* Requests: the gate is taken, the task spawned, and only then is its handle
\* registered.

\* begin_operation: the gate mutex is free and holds no operation.
Begin(o, kind) ==
  /\ up /\ ~stopping
  /\ gate = None /\ cancelling = None
  /\ op[o] = Unused /\ \A q \in 1 .. o - 1 : op[q] # Unused
  /\ gate' = o
  /\ op' = [op EXCEPT ![o] = [@ EXCEPT !.kind = kind, !.req = "begun"]]
  /\ UNCHANGED <<files, up, built, phase, shown, registered, cancelling,
                 stopping, late>>

\* check and start_download announce the phase and spawn the task.
SpawnTask(o) ==
  /\ op[o].req = "begun" /\ op[o].at = "none"
  /\ op[o].kind \in {"check", "download"}
  /\ phase' = IF op[o].kind = "check" THEN "checking" ELSE "downloading"
  /\ op' = [op EXCEPT ![o] = [@ EXCEPT !.req = "spawned",
                                       !.at = "resolving"]]
  /\ UNCHANGED <<files, up, built, shown, gate, registered, cancelling,
                 stopping, late>>

\* register_task aborts whatever task was registered before.
Register(o) ==
  /\ op[o].req = "spawned"
  /\ registered' = o
  /\ op' = [q \in Ops |->
              IF q = o
              THEN IF Live(o) THEN [op[o] EXCEPT !.req = "registered"]
                   ELSE [op[o] EXCEPT !.req = "none"]
              ELSE IF q = registered /\ Live(q)
              THEN [op[q] EXCEPT !.aborted = TRUE]
              ELSE op[q]]
  /\ UNCHANGED <<files, up, built, phase, shown, gate, cancelling, stopping,
                 late>>

------------------------------------------------------------------------------
\* The task of a check or of a download.

\* A task that is done with the network before its handle is registered.
Overtakes(o) == late' = (late \/ op[o].req # "registered")

\* A task goes from one place to the next and sets the phase.
TaskMoves(o, from, to, newPhase) ==
  /\ op[o].at = from
  /\ op' = [op EXCEPT ![o].at = to]
  /\ phase' = newPhase
  /\ UNCHANGED <<up, built, shown, gate, registered, cancelling, stopping>>

\* run_check: an error, or what the release list says unless an update that is
\* prepared stays ready.
CheckEnds(o) ==
  /\ op[o].kind = "check" /\ Overtakes(o)
  /\ \/ TaskMoves(o, "resolving", "releasing", "error")
     \/ /\ prepared # None /\ Installable(prepared)
        /\ TaskMoves(o, "resolving", "releasing", "ready")
     \/ /\ prepared = None \/ ~Installable(prepared)
        /\ \E found \in {"available", "idle"} :
             TaskMoves(o, "resolving", "releasing", found)
  /\ UNCHANGED files

\* No release on the channel, or a list that cannot be read.
ResolveFails(o) ==
  /\ op[o].kind = "download" /\ Overtakes(o)
  /\ \E end \in {"idle", "error"} : TaskMoves(o, "resolving", "releasing", end)
  /\ UNCHANGED files

\* Mutant: the task does not keep the tag it resolved.
Resolve_ForgetsTag(o, tag) ==
  /\ op[o].kind = "download" /\ op[o].at = "resolving" /\ Overtakes(o)
  /\ staged' = OnlyStaged(tag)
  /\ op' = [op EXCEPT ![o].at = "downloading"]
  /\ UNCHANGED <<prepared, pending, up, built, phase, shown, gate, registered,
                 cancelling, stopping>>

\* The payloads of every other tag go before the download starts.
Resolve(o, tag) ==
  /\ op[o].kind = "download" /\ op[o].at = "resolving" /\ Overtakes(o)
  /\ staged' = OnlyStaged(tag)
  /\ op' = [op EXCEPT ![o] = [@ EXCEPT !.at = "downloading", !.tag = tag]]
  /\ UNCHANGED <<prepared, pending, up, built, phase, shown, gate, registered,
                 cancelling, stopping>>

DownloadEnds(o) ==
  /\ \/ TaskMoves(o, "downloading", "preparing", "preparing")
     \/ TaskMoves(o, "downloading", "releasing", "error")
  /\ UNCHANGED <<files, late>>

\* prepare_update: the archive is unpacked, a launcher staged before is
\* removed, the new one copied in its place.
RemoveStaged(o) ==
  /\ TaskMoves(o, "preparing", "copying", phase)
  /\ staged' = staged \ {op[o].tag}
  /\ UNCHANGED <<prepared, pending, late>>

CopyStaged(o) ==
  /\ TaskMoves(o, "copying", "staged", phase)
  /\ staged' = staged \cup {op[o].tag}
  /\ UNCHANGED <<prepared, pending, late>>

PrepareFails(o) ==
  /\ \E from \in {"preparing", "copying"} :
       TaskMoves(o, from, "releasing", "error")
  /\ UNCHANGED <<files, late>>

MarkPrepared(o) ==
  /\ \/ /\ Installable(op[o].tag)
        /\ TaskMoves(o, "staged", "marked", phase)
        /\ prepared' = op[o].tag
     \/ /\ ~Installable(op[o].tag)
        /\ TaskMoves(o, "staged", "releasing", "error")
        /\ UNCHANGED prepared
  /\ UNCHANGED <<staged, pending, late>>

DownloadReady(o) ==
  /\ TaskMoves(o, "marked", "releasing", "ready")
  /\ staged' = OnlyStaged(op[o].tag)
  /\ UNCHANGED <<prepared, pending, late>>

\* release_operation gives the gate back if it is still this operation's.
Release(o) ==
  /\ op[o].at \in {"releasing", "handingOver"} /\ cancelling = None
  /\ gate' = IF gate = o THEN None ELSE gate
  /\ op' = IF op[o].at = "releasing" THEN [op EXCEPT ![o] = Over(o)]
           ELSE [op EXCEPT ![o].at = "signalling"]
  /\ UNCHANGED <<files, up, built, phase, shown, registered, cancelling,
                 stopping, late>>

\* An aborted task ends at the next await.  What it gave to spawn_blocking, hashing
\* and unpacking in the directory of its download, goes on and is left out: none
\* of it writes a staged launcher or a marker.
AbortLands(o) ==
  /\ op[o].aborted /\ op[o].at \in AwaitPoints
  /\ op' = [op EXCEPT ![o] = Over(o)]
  /\ UNCHANGED <<files, up, built, phase, shown, gate, registered, cancelling,
                 stopping, late>>

------------------------------------------------------------------------------
\* Cancel.

Cancellable(o) ==
  /\ up /\ gate = o /\ cancelling = None
  /\ op[o].kind # "install"
  /\ phase \in {"checking", "downloading"}

\* The registered handle is taken and aborted; the gate stays locked.
CancelBegins(o) ==
  /\ Cancellable(o) /\ registered = o
  /\ op' = [op EXCEPT ![o].aborted = TRUE]
  /\ registered' = None
  /\ cancelling' = o
  /\ UNCHANGED <<files, up, built, phase, shown, gate, stopping, late>>

\* Mutant: the cancel does not wait until its task is gone.
CancelEnds_AtOnce(o) ==
  /\ cancelling = o
  /\ phase' = "cancelled"
  /\ gate' = None
  /\ cancelling' = None
  /\ UNCHANGED <<files, up, built, shown, registered, op, stopping, late>>

\* The task has dropped its completion guard.
CancelEnds(o) ==
  /\ cancelling = o /\ op[o].at = "done"
  /\ phase' = "cancelled"
  /\ gate' = None
  /\ cancelling' = None
  /\ UNCHANGED <<files, up, built, shown, registered, op, stopping, late>>

\* No handle of this operation is registered, so nothing is aborted and there
\* is nothing to wait for.
CancelFindsNoTask(o) ==
  /\ Cancellable(o) /\ registered # o
  /\ phase' = "cancelled"
  /\ gate' = None
  /\ late' = TRUE
  /\ UNCHANGED <<files, up, built, shown, registered, op, cancelling,
                 stopping>>

------------------------------------------------------------------------------
\* Install.

\* The update to install: the prepared one, or one whose handoff failed.
ToInstall ==
  CASE prepared # None -> prepared
    [] prepared = None /\ pending.phase = "failed" -> pending.tag
    [] OTHER -> None

InstallBegun(o) ==
  op[o].kind = "install" /\ op[o].req = "begun" /\ op[o].at = "none"

\* Mutant: the marker of another transaction does not stand in the way.
InstallAllowed_OverMarker == ToInstall # None /\ Installable(ToInstall)

InstallAllowed ==
  /\ ToInstall # None /\ Installable(ToInstall)
  /\ pending.phase \in {"none", "failed"}

\* Mutant: a refused install discards the prepared marker.
InstallRefused_Discards(o) ==
  /\ InstallBegun(o)
  /\ op' = [op EXCEPT ![o].at = "releasing"]
  /\ prepared' = None
  /\ UNCHANGED <<staged, pending, up, built, phase, shown, gate, registered,
                 cancelling, stopping, late>>

\* Refused; a request may also name another tag than the prepared one.
InstallRefused(o) ==
  /\ InstallBegun(o)
  /\ op' = [op EXCEPT ![o].at = "releasing"]
  /\ UNCHANGED <<files, up, built, phase, shown, gate, registered, cancelling,
                 stopping, late>>

InstallStarts(o) ==
  /\ InstallBegun(o) /\ InstallAllowed
  /\ op' = [op EXCEPT ![o] = [@ EXCEPT !.at = "arming", !.tag = ToInstall]]
  /\ phase' = "installing"
  /\ shown' = ToInstall
  /\ UNCHANGED <<files, up, built, gate, registered, cancelling, stopping,
                 late>>

\* mark_update_pending checks the payload once more and writes the marker.
InstallArms(o) ==
  /\ IF Installable(op[o].tag)
     THEN /\ TaskMoves(o, "arming", "armed", phase)
          /\ pending' = [tx |-> o, tag |-> op[o].tag, phase |-> "installing"]
     ELSE /\ TaskMoves(o, "arming", "releasing", "error")
          /\ UNCHANGED pending
  /\ UNCHANGED <<staged, prepared, late>>

\* reconcile_helper_completion: what a status request makes of an install whose
\* marker the helper has changed or removed.
PhaseSeen ==
  CASE pending.phase = "failed" -> "error"
    [] pending.phase = "committed" -> "idle"
    [] pending.phase = "none" -> IF shown = built THEN "idle" ELSE "error"
    [] OTHER -> "installing"

InstallClears(o) ==
  /\ TaskMoves(o, "armed", "handingOver",
               IF phase = "installing" THEN PhaseSeen ELSE phase)
  /\ prepared' = None
  /\ UNCHANGED <<staged, pending, late>>

\* install_update signals the shutdown after install returned.
SignalShutdown(o) ==
  /\ op[o].at = "signalling"
  /\ op' = [op EXCEPT ![o] = Over(o)]
  /\ stopping' = TRUE
  /\ UNCHANGED <<files, up, built, phase, shown, gate, registered, cancelling,
                 late>>

Poll ==
  /\ up /\ phase = "installing" /\ PhaseSeen # "installing"
  /\ phase' = PhaseSeen
  /\ UNCHANGED <<files, up, built, shown, gate, registered, op, cancelling,
                 stopping, late>>

------------------------------------------------------------------------------
\* The process ends, by itself or killed, and is started again.

\* Nothing in memory survives; the phase does, in update_state.json.
AgentGone ==
  /\ up' = FALSE
  /\ gate' = None /\ registered' = None /\ cancelling' = None
  /\ stopping' = FALSE
  /\ op' = [o \in Ops |->
              IF op[o] = Unused THEN Unused ELSE [Unused EXCEPT !.at = "done"]]
  /\ UNCHANGED <<built, phase, shown, late>>

AgentEnds == up /\ AgentGone /\ UNCHANGED files

\* reconcile_markers.
PendingUsable == pending # NoMarker /\ Installable(pending.tag)

PreparedUsable == prepared # None /\ Installable(prepared)

ReconciledPhase(version) ==
  CASE PendingUsable ->
         (CASE pending.phase = "failed" -> "error"
            [] pending.phase = "committed" -> "idle"
            [] OTHER -> "installing")
    [] ~PendingUsable /\ PreparedUsable -> "ready"
    [] ~PendingUsable /\ ~PreparedUsable
       /\ (pending # NoMarker \/ prepared # None) -> "error"
    [] OTHER ->
         (CASE phase = "installing" /\ shown = version -> "idle"
            [] phase = "installing" /\ shown # version -> "cancelled"
            [] phase \in {"checking", "downloading", "preparing"} ->
                 "cancelled"
            [] phase = "ready" -> "idle"
            [] OTHER -> phase)

AgentStarts(version) ==
  /\ ~up
  /\ up' = TRUE
  /\ built' = version
  /\ phase' = ReconciledPhase(version)
  /\ shown' = IF PendingUsable THEN pending.tag ELSE shown
  /\ prepared' = IF ~PendingUsable /\ PreparedUsable THEN prepared ELSE None
  /\ UNCHANGED <<staged, pending, gate, registered, op, cancelling, stopping,
                 late>>

------------------------------------------------------------------------------
Request(o) ==
  \/ \E kind \in Kinds : Begin(o, kind)
  \/ SpawnTask(o) \/ Register(o)

Task(o) ==
  \/ CheckEnds(o) \/ ResolveFails(o) \/ DownloadEnds(o)
  \/ \E tag \in Tags : Resolve(o, tag)
  \/ RemoveStaged(o) \/ CopyStaged(o) \/ PrepareFails(o)
  \/ MarkPrepared(o) \/ DownloadReady(o)
  \/ Release(o) \/ AbortLands(o)

Cancel(o) == CancelBegins(o) \/ CancelEnds(o) \/ CancelFindsNoTask(o)

Install(o) ==
  \/ InstallRefused(o) \/ InstallStarts(o) \/ InstallArms(o)
  \/ InstallClears(o) \/ SignalShutdown(o)

\* Every step of the running agent.
ManagerStep ==
  \/ \E o \in Ops : Request(o) \/ Task(o) \/ Cancel(o) \/ Install(o)
  \/ Poll
  \/ AgentEnds

------------------------------------------------------------------------------
\* The operation that holds the gate will still give it back, and no other
\* operation is at work: a cancel that did not wait for its task, or a handle
\* registered for the wrong one, lets two downloads write the same directory
\* or leaves the gate taken for ever (begin_operation, cancel, register_task).
\* It takes, as the next one does, that no step overtook the registration of a
\* handle: a cancel that comes before it gives the gate away under a task that
\* runs on, which the model shows (CancelFindsNoTask).
GateIsOwned ==
  ~late =>
  /\ \A o \in Ops : Live(o) => gate = o
  /\ gate # None => Working(gate) \/ cancelling = gate

\* An agent that shows an update as ready has the marker install asks for, also
\* after a restart in the middle of an install or of another download: "A ready
\* state without a marker is stale and must not be installable through the
\* API" (reconcile_markers).
ReadyHasMarker ==
  ~late /\ up /\ phase = "ready" /\ gate = None => prepared # None
==============================================================================
