---------------------------- MODULE UpdatesProofs ----------------------------
(* Proofs about Updates, for any tags, launcher slots and bounds: its type   *)
(* invariant, that a launcher never seen to work has its backup and, but for  *)
(* a death, its helper, that the gate is owned by the operation at work, and  *)
(* that an update shown as ready has its marker.                              *)
EXTENDS Updates, TLAPS

------------------------------------------------------------------------------
\* The launcher that was never seen to work (UnprovenHasHelper).

\* An operation that may have armed a transaction.
Used == {"armed", "handingOver", "signalling", "done"}

\* The places of an install in its request.
Arming == {"arming", "armed", "handingOver"}

\* An install keeps the gate until it hands over, so there is one at a time.
InstallsOwnGate ==
  \A o \in Ops :
    /\ op[o].kind = "install" /\ op[o].at \notin {"signalling", "done"}
         => gate = o
    /\ op[o].at \in Arming => op[o].kind = "install"

\* A cancel waits for the holder of the gate.
CancelsOwnGate == cancelling # None => gate = cancelling

\* Nothing is armed while an install goes from its checks to the marker.
ArmsOverNothing ==
  \A o \in Ops : op[o].at = "arming" => pending.phase \in {"none", "failed"}

\* No trace of a transaction that has not been armed.
FreshTransactions ==
  \A o \in Ops : op[o].at \notin Used =>
    /\ pending.tx # o /\ o \notin acks
    /\ \A l \in Launchers : launcher[l].tx # o

Early == {"started", "copying", "backedUp"}
Swapped == {"swapped", "waiting", "committing"}

\* The phase of the marker while the helper is at work on it.
PhaseOf(at) ==
  CASE at = "started" -> {"installing"}
    [] at \in {"committed", "unbacked", "cleaned"} -> {"committed"}
    [] at \in {"relaunching", "failing"} -> {"installing", "applying"}
    [] OTHER -> {"applying"}

\* The helper works on the transaction of the marker.
HelperHasMarker ==
  helper.at # "none" =>
    /\ pending.tx = helper.tx /\ pending.tag = helper.tag
    /\ pending.phase \in PhaseOf(helper.at)

\* What the launcher's path holds at each step of the helper.
HelperKnowsBinary ==
  /\ helper.at \in Early \cup {"relaunching", "failing", "committing"}
       => binary \in proven
  /\ helper.at \in Swapped => binary = helper.tag
  /\ helper.at \in Swapped \cup {"backedUp", "restoring"}
       => \E b \in backups : b.tx = helper.tx

\* A launcher started for the transaction of the marker has its version, and
\* its acknowledgement says that this version works.
LaunchedIsMarked ==
  \A l \in Launchers :
    launcher[l].tx # 0 /\ launcher[l].tx = pending.tx
      => launcher[l].version = pending.tag

AckedIsProven == pending.tx \in acks => pending.tag \in proven

BackupsAreProven == \A b \in backups : b.version \in proven

ManagerInv == InstallsOwnGate /\ CancelsOwnGate

HandoffInv ==
  /\ HelperHasMarker /\ HelperKnowsBinary
  /\ LaunchedIsMarked /\ AckedIsProven /\ BackupsAreProven
  /\ UnprovenHasHelper

UnprovenInv ==
  /\ TypeOK
  /\ ManagerInv /\ ArmsOverNothing /\ FreshTransactions
  /\ HandoffInv

------------------------------------------------------------------------------
\* The gate (GateIsOwned) and the marker of a ready update (ReadyHasMarker).

\* As long as no step overtook the registration of a handle: see GateIsOwned.
OperationOwned(o) ==
  /\ op[o].req = "spawned" => op[o].at = "resolving"
  /\ op[o].at = "none" => ~op[o].aborted
  /\ op[o].aborted /\ Live(o) => cancelling = o
  /\ registered = o => op[o].at # "none" /\ op[o].req # "spawned"
  /\ cancelling = o => op[o].at # "none" /\ op[o].req # "spawned"
  /\ Working(o) => gate = o
  /\ gate = o => Working(o) \/ cancelling = o

GateInv ==
  ~late =>
  /\ cancelling # None => gate = cancelling
  /\ \A o \in Ops : OperationOwned(o)

AgentDown ==
  ~up => \A o \in Ops : op[o].at \in {"none", "done"} /\ ~Working(o)

ReadyInv ==
  ~late =>
  /\ up /\ phase = "ready" => prepared # None
  /\ \A o \in Ops :
       /\ op[o].at = "marked" => prepared # None
       /\ op[o].at \in {"arming", "armed"} => phase # "ready"

------------------------------------------------------------------------------
\* The types with what the steps need: a task past its resolution has a tag, and
\* the helper that runs has a transaction and a tag.
TasksHaveTags ==
  \A o \in Ops :
    op[o].at \in {"downloading", "preparing", "copying", "staged", "marked"}
      => op[o].tag \in Tags

HelperHasTag == helper.at # "none" => helper.tx \in Ops /\ helper.tag \in Tags

ManagerTyped == ManagerTypeOK /\ TasksHaveTags
HandoffTyped == HandoffTypeOK /\ HelperHasTag
Typed == FilesTypeOK /\ ManagerTyped /\ HandoffTyped

LEMMA RecordTypes ==
  /\ NoMarker \in Markers /\ Unused \in Operations
  /\ NotRunning \in LauncherStates /\ NoHelper \in HelperStates
BY DEF NoMarker, Markers, Unused, Operations, NotRunning, LauncherStates,
  Versions, NoHelper, HelperStates

LEMMA OverTypes ==
  ASSUME ManagerTypeOK, NEW o \in Ops
  PROVE  /\ Over(o) \in Operations /\ Over(o).at = "done"
         /\ Over(o).aborted = FALSE
         /\ op[o].req # "spawned" => Over(o).req = "none"
BY DEF Over, Unused, Operations, ManagerTypeOK

LEMMA HandOverFailsIs ==
  ASSUME HandoffTypeOK, NEW l \in Launchers, NEW at \in {"checked", "up"},
         HandOverFails(l, at)
  PROVE  /\ launcher' \in [Launchers -> LauncherStates]
         /\ \A k \in Launchers : launcher'[k].tx = launcher[k].tx /\
           launcher'[k].version = launcher[k].version
         /\ UNCHANGED <<files, binary, backups, acks, helper, proven,
           launches, deaths>>
<1>1. launcher[l] \in LauncherStates
  BY DEF HandoffTypeOK
<1>2. PICK s : /\ s = [launcher[l] EXCEPT !.at = at, !.broken = TRUE]
               /\ launcher' = [launcher EXCEPT ![l] = s]
  BY DEF HandOverFails
<1>3. s \in LauncherStates /\ s.tx = launcher[l].tx /\ s.version =
  launcher[l].version
  BY <1>1, <1>2 DEF LauncherStates
<1>. QED
  BY <1>2, <1>3 DEF HandOverFails, HandoffTypeOK

LEMMA Ended ==
  ASSUME ManagerTypeOK, NEW o \in Ops, op' = [op EXCEPT ![o] = Over(o)]
  PROVE  /\ op'[o] = Over(o) /\ op'[o].at = "done" /\ op'[o].aborted = FALSE
         /\ op[o].req # "spawned" => op'[o].req = "none"
         /\ \A q \in Ops \ {o} : op'[q] = op[q]
BY OverTypes DEF ManagerTypeOK

LEMMA Released ==
  ASSUME ManagerTypeOK, NEW o \in Ops, Release(o)
  PROVE  /\ op'[o].at \in {"done", "signalling"} /\ op'[o] \in Operations
         /\ op'[o].aborted = TRUE => op[o].aborted = TRUE
         /\ op[o].req # "spawned" => op'[o].req # "spawned"
         /\ \A q \in Ops \ {o} : op'[q] = op[q]
<1>1. CASE op[o].at = "releasing"
  <2>1. op' = [op EXCEPT ![o] = Over(o)]
    BY <1>1 DEF Release
  <2>. QED  BY <2>1, Ended, OverTypes DEF Operations
<1>2. CASE op[o].at = "handingOver"
  <2>1. op' = [op EXCEPT ![o].at = "signalling"]
    BY <1>2 DEF Release
  <2>. QED  BY <2>1 DEF ManagerTypeOK, Operations
<1>. QED  BY <1>1, <1>2 DEF Release

\* A marker the helper has rewritten is the one it had, but for its phase.
LEMMA MarksType ==
  ASSUME FilesTypeOK, HelperHasTag, helper.at # "none",
         NEW newPhase \in {"applying", "committed", "failed"}, Marks(newPhase)
  PROVE  /\ pending' \in Markers
         /\ pending'.tx = pending.tx /\ pending'.tag = pending.tag
         /\ pending'.phase = newPhase
<1>1. pending.tx # 0
  BY UpdateFilesAssumption DEF HelperHasTag, Marks, Ops
<1>2. pending \in [tx : Ops, tag : Tags, phase : {"installing", "applying",
  "committed", "failed"}]
  BY <1>1 DEF FilesTypeOK, Markers, NoMarker
<1>. QED  BY <1>2 DEF Marks, Markers

\* A step from one place of an operation to the next.
LEMMA Moved ==
  ASSUME ManagerTypeOK, NEW o \in Ops, NEW from, NEW to, NEW newPhase,
         TaskMoves(o, from, to, newPhase)
  PROVE  /\ op[o].at = from /\ op'[o].at = to
         /\ op'[o].tag = op[o].tag /\ op'[o].kind = op[o].kind
         /\ op'[o].req = op[o].req /\ op'[o].aborted = op[o].aborted
         /\ \A q \in Ops \ {o} : op'[q] = op[q]
         /\ phase' = newPhase
         /\ UNCHANGED <<up, built, shown, gate, registered, cancelling,
           stopping>>
BY DEF TaskMoves, ManagerTypeOK, Operations

\* Every step of the agent keeps the types of the files and of its own state.
LEMMA ManagerTypes ==
  ASSUME FilesTypeOK, ManagerTyped, ManagerStep
  PROVE  FilesTypeOK' /\ ManagerTyped'
<1>. USE DEF ManagerTyped
<1>1. ASSUME NEW o \in Ops, NEW kind \in Kinds, Begin(o, kind)
     PROVE  FilesTypeOK' /\ ManagerTyped'
  <2>1. op' \in [Ops -> Operations] /\ phase' \in Phases
    BY <1>1, RecordTypes DEF Begin, ManagerTypeOK, Kinds, Operations, Phases
  <2>2. TasksHaveTags'
    BY <1>1, <2>1 DEF Begin, TasksHaveTags, ManagerTypeOK
  <2>. QED  BY <1>1, <2>1, <2>2 DEF Begin, TasksHaveTags, files, FilesTypeOK,
    ManagerTypeOK
<1>2. ASSUME NEW o \in Ops, SpawnTask(o)
     PROVE  FilesTypeOK' /\ ManagerTyped'
  <2>1. op' \in [Ops -> Operations] /\ phase' \in Phases
    BY <1>2, RecordTypes DEF SpawnTask, ManagerTypeOK, Operations, Phases
  <2>2. TasksHaveTags'
    BY <1>2, <2>1 DEF SpawnTask, TasksHaveTags, ManagerTypeOK
  <2>. QED  BY <1>2, <2>1, <2>2 DEF SpawnTask, TasksHaveTags, files,
    FilesTypeOK, ManagerTypeOK
<1>3. ASSUME NEW o \in Ops, Register(o)
     PROVE  FilesTypeOK' /\ ManagerTyped'
  <2>0. \A q \in Ops : op'[q] \in Operations
    <3>. SUFFICES ASSUME NEW q \in Ops PROVE op'[q] \in Operations
      OBVIOUS
    <3>1. op[q] \in Operations
      BY DEF ManagerTypeOK
    <3>2. op'[q] \in {op[q], [op[q] EXCEPT !.req = "registered"], [op[q]
      EXCEPT !.req = "none"], [op[q] EXCEPT !.aborted = TRUE]}
      BY <1>3 DEF Register
    <3>. QED  BY <3>1, <3>2 DEF Operations
  <2>1. op' \in [Ops -> Operations] /\ phase' \in Phases
    BY <1>3, RecordTypes, <2>0 DEF Register, ManagerTypeOK, Phases
  <2>2. TasksHaveTags'
    BY <1>3, <2>1, <2>0 DEF Register, TasksHaveTags, ManagerTypeOK
  <2>. QED  BY <1>3, <2>1, <2>2, <2>0 DEF Register, TasksHaveTags, files,
    FilesTypeOK, ManagerTypeOK
<1>4. ASSUME NEW o \in Ops, CheckEnds(o)
     PROVE  FilesTypeOK' /\ ManagerTyped'
  <2>1. op' \in [Ops -> Operations] /\ phase' \in Phases
    BY <1>4, RecordTypes DEF CheckEnds, TaskMoves, ManagerTypeOK, Operations,
      Phases
  <2>2. TasksHaveTags'
    BY <1>4, Moved, <2>1 DEF CheckEnds, TasksHaveTags, ManagerTypeOK
  <2>. QED  BY <1>4, <2>1, <2>2 DEF CheckEnds, TaskMoves, Overtakes,
    TasksHaveTags, files, FilesTypeOK, ManagerTypeOK
<1>5. ASSUME NEW o \in Ops, ResolveFails(o)
     PROVE  FilesTypeOK' /\ ManagerTyped'
  <2>1. op' \in [Ops -> Operations] /\ phase' \in Phases
    BY <1>5, RecordTypes DEF ResolveFails, TaskMoves, ManagerTypeOK,
      Operations, Phases
  <2>2. TasksHaveTags'
    BY <1>5, Moved, <2>1 DEF ResolveFails, TasksHaveTags, ManagerTypeOK
  <2>. QED  BY <1>5, <2>1, <2>2 DEF ResolveFails, TaskMoves, Overtakes,
    TasksHaveTags, files, FilesTypeOK, ManagerTypeOK
<1>6. ASSUME NEW o \in Ops, DownloadEnds(o)
     PROVE  FilesTypeOK' /\ ManagerTyped'
  <2>1. op' \in [Ops -> Operations] /\ phase' \in Phases
    BY <1>6, RecordTypes DEF DownloadEnds, TaskMoves, ManagerTypeOK,
      Operations, Phases
  <2>2. TasksHaveTags'
    BY <1>6, Moved, <2>1 DEF DownloadEnds, TasksHaveTags, ManagerTypeOK
  <2>. QED  BY <1>6, <2>1, <2>2 DEF DownloadEnds, TaskMoves, TasksHaveTags,
    files, FilesTypeOK, ManagerTypeOK
<1>7. ASSUME NEW o \in Ops, NEW tag \in Tags, Resolve(o, tag)
     PROVE  FilesTypeOK' /\ ManagerTyped'
  <2>1. op' \in [Ops -> Operations] /\ phase' \in Phases
    BY <1>7, RecordTypes DEF Resolve, ManagerTypeOK, Operations, Phases
  <2>2. TasksHaveTags'
    BY <1>7, <2>1 DEF Resolve, TasksHaveTags, ManagerTypeOK
  <2>. QED  BY <1>7, <2>1, <2>2 DEF Resolve, Overtakes, OnlyStaged,
    TasksHaveTags, files, FilesTypeOK, ManagerTypeOK
<1>8. ASSUME NEW o \in Ops, RemoveStaged(o)
     PROVE  FilesTypeOK' /\ ManagerTyped'
  <2>1. op' \in [Ops -> Operations] /\ phase' \in Phases
    BY <1>8, RecordTypes DEF RemoveStaged, TaskMoves, ManagerTypeOK,
      Operations, Phases
  <2>2. TasksHaveTags'
    BY <1>8, Moved, <2>1 DEF RemoveStaged, TasksHaveTags, ManagerTypeOK
  <2>. QED  BY <1>8, <2>1, <2>2 DEF RemoveStaged, TaskMoves, TasksHaveTags,
    files, FilesTypeOK, ManagerTypeOK
<1>9. ASSUME NEW o \in Ops, CopyStaged(o)
     PROVE  FilesTypeOK' /\ ManagerTyped'
  <2>1. op' \in [Ops -> Operations] /\ phase' \in Phases
    BY <1>9, RecordTypes DEF CopyStaged, TaskMoves, ManagerTypeOK, Operations,
      Phases
  <2>2. TasksHaveTags'
    BY <1>9, Moved, <2>1 DEF CopyStaged, TasksHaveTags, ManagerTypeOK
  <2>. QED  BY <1>9, <2>1, <2>2 DEF CopyStaged, TaskMoves, TasksHaveTags,
    files, FilesTypeOK, ManagerTypeOK
<1>10. ASSUME NEW o \in Ops, PrepareFails(o)
     PROVE  FilesTypeOK' /\ ManagerTyped'
  <2>1. op' \in [Ops -> Operations] /\ phase' \in Phases
    BY <1>10, RecordTypes DEF PrepareFails, TaskMoves, ManagerTypeOK,
      Operations, Phases
  <2>2. TasksHaveTags'
    BY <1>10, Moved, <2>1 DEF PrepareFails, TasksHaveTags, ManagerTypeOK
  <2>. QED  BY <1>10, <2>1, <2>2 DEF PrepareFails, TaskMoves, TasksHaveTags,
    files, FilesTypeOK, ManagerTypeOK
<1>11. ASSUME NEW o \in Ops, MarkPrepared(o)
     PROVE  FilesTypeOK' /\ ManagerTyped'
  <2>1. op' \in [Ops -> Operations] /\ phase' \in Phases
    BY <1>11, RecordTypes DEF MarkPrepared, TaskMoves, ManagerTypeOK,
      Operations, Phases
  <2>2. TasksHaveTags'
    BY <1>11, Moved, <2>1 DEF MarkPrepared, TasksHaveTags, ManagerTypeOK
  <2>. QED  BY <1>11, <2>1, <2>2 DEF MarkPrepared, TaskMoves, Installable,
    TasksHaveTags, files, FilesTypeOK, ManagerTypeOK
<1>12. ASSUME NEW o \in Ops, DownloadReady(o)
     PROVE  FilesTypeOK' /\ ManagerTyped'
  <2>1. op' \in [Ops -> Operations] /\ phase' \in Phases
    BY <1>12, RecordTypes DEF DownloadReady, TaskMoves, ManagerTypeOK,
      Operations, Phases
  <2>2. TasksHaveTags'
    BY <1>12, Moved, <2>1 DEF DownloadReady, TasksHaveTags, ManagerTypeOK
  <2>. QED  BY <1>12, <2>1, <2>2 DEF DownloadReady, TaskMoves, OnlyStaged,
    TasksHaveTags, files, FilesTypeOK, ManagerTypeOK
<1>13. ASSUME NEW o \in Ops, Release(o)
     PROVE  FilesTypeOK' /\ ManagerTyped'
  <2>1. op' \in [Ops -> Operations] /\ phase' \in Phases
    BY <1>13, OverTypes, RecordTypes DEF Release, ManagerTypeOK, Operations,
      Phases
  <2>2. TasksHaveTags'
    BY <1>13, Released, <2>1 DEF Release, TasksHaveTags, ManagerTypeOK
  <2>. QED  BY <1>13, <2>1, <2>2 DEF Release, TasksHaveTags, files,
    FilesTypeOK, ManagerTypeOK
<1>14. ASSUME NEW o \in Ops, AbortLands(o)
     PROVE  FilesTypeOK' /\ ManagerTyped'
  <2>1. op' \in [Ops -> Operations] /\ phase' \in Phases
    BY <1>14, OverTypes, RecordTypes DEF AbortLands, ManagerTypeOK,
      Operations, Phases
  <2>2. TasksHaveTags'
    BY <1>14, Ended, <2>1 DEF AbortLands, TasksHaveTags, ManagerTypeOK
  <2>. QED  BY <1>14, <2>1, <2>2 DEF AbortLands, TasksHaveTags, files,
    FilesTypeOK, ManagerTypeOK
<1>15. ASSUME NEW o \in Ops, CancelBegins(o)
     PROVE  FilesTypeOK' /\ ManagerTyped'
  <2>1. op' \in [Ops -> Operations] /\ phase' \in Phases
    BY <1>15, RecordTypes DEF CancelBegins, ManagerTypeOK, Operations, Phases
  <2>2. TasksHaveTags'
    BY <1>15, <2>1 DEF CancelBegins, TasksHaveTags, ManagerTypeOK
  <2>. QED  BY <1>15, <2>1, <2>2 DEF CancelBegins, TasksHaveTags, files,
    FilesTypeOK, ManagerTypeOK
<1>16. ASSUME NEW o \in Ops, CancelEnds(o)
     PROVE  FilesTypeOK' /\ ManagerTyped'
  <2>1. op' \in [Ops -> Operations] /\ phase' \in Phases
    BY <1>16, RecordTypes DEF CancelEnds, ManagerTypeOK, Operations, Phases
  <2>2. TasksHaveTags'
    BY <1>16, <2>1 DEF CancelEnds, TasksHaveTags, ManagerTypeOK
  <2>. QED  BY <1>16, <2>1, <2>2 DEF CancelEnds, TasksHaveTags, files,
    FilesTypeOK, ManagerTypeOK
<1>17. ASSUME NEW o \in Ops, CancelFindsNoTask(o)
     PROVE  FilesTypeOK' /\ ManagerTyped'
  <2>1. op' \in [Ops -> Operations] /\ phase' \in Phases
    BY <1>17, RecordTypes DEF CancelFindsNoTask, ManagerTypeOK, Operations,
      Phases
  <2>2. TasksHaveTags'
    BY <1>17, <2>1 DEF CancelFindsNoTask, TasksHaveTags, ManagerTypeOK
  <2>. QED  BY <1>17, <2>1, <2>2 DEF CancelFindsNoTask, TasksHaveTags, files,
    FilesTypeOK, ManagerTypeOK
<1>18. ASSUME NEW o \in Ops, InstallRefused(o)
     PROVE  FilesTypeOK' /\ ManagerTyped'
  <2>1. op' \in [Ops -> Operations] /\ phase' \in Phases
    BY <1>18, RecordTypes DEF InstallRefused, InstallBegun, ManagerTypeOK,
      Operations, Phases
  <2>2. TasksHaveTags'
    BY <1>18, <2>1 DEF InstallRefused, InstallBegun, TasksHaveTags,
      ManagerTypeOK
  <2>. QED  BY <1>18, <2>1, <2>2 DEF InstallRefused, InstallBegun,
    TasksHaveTags, files, FilesTypeOK, ManagerTypeOK
<1>19. ASSUME NEW o \in Ops, InstallStarts(o)
     PROVE  FilesTypeOK' /\ ManagerTyped'
  <2>0. ToInstall \in Tags
    BY <1>19 DEF InstallStarts, InstallAllowed, ToInstall, FilesTypeOK,
      Markers, NoMarker
  <2>1. op' \in [Ops -> Operations] /\ phase' \in Phases
    BY <1>19, RecordTypes, <2>0 DEF InstallStarts, InstallBegun,
      ManagerTypeOK, Operations, Phases
  <2>2. TasksHaveTags'
    BY <1>19, <2>1, <2>0 DEF InstallStarts, InstallBegun, TasksHaveTags,
      ManagerTypeOK
  <2>. QED  BY <1>19, <2>1, <2>2, <2>0 DEF InstallStarts, InstallBegun,
    TasksHaveTags, files, FilesTypeOK, ManagerTypeOK
<1>20. ASSUME NEW o \in Ops, InstallArms(o)
     PROVE  FilesTypeOK' /\ ManagerTyped'
  <2>1. op' \in [Ops -> Operations] /\ phase' \in Phases
    BY <1>20, RecordTypes DEF InstallArms, TaskMoves, ManagerTypeOK,
      Operations, Phases
  <2>2. TasksHaveTags'
    BY <1>20, Moved, <2>1 DEF InstallArms, TasksHaveTags, ManagerTypeOK
  <2>. QED  BY <1>20, <2>1, <2>2 DEF InstallArms, TaskMoves, Installable,
    Markers, TasksHaveTags, files, FilesTypeOK, ManagerTypeOK
<1>21. ASSUME NEW o \in Ops, InstallClears(o)
     PROVE  FilesTypeOK' /\ ManagerTyped'
  <2>1. op' \in [Ops -> Operations] /\ phase' \in Phases
    BY <1>21, RecordTypes DEF InstallClears, TaskMoves, PhaseSeen,
      ManagerTypeOK, Operations, Phases
  <2>2. TasksHaveTags'
    BY <1>21, Moved, <2>1 DEF InstallClears, PhaseSeen, TasksHaveTags,
      ManagerTypeOK
  <2>. QED  BY <1>21, <2>1, <2>2 DEF InstallClears, TaskMoves, PhaseSeen,
    TasksHaveTags, files, FilesTypeOK, ManagerTypeOK
<1>22. ASSUME NEW o \in Ops, SignalShutdown(o)
     PROVE  FilesTypeOK' /\ ManagerTyped'
  <2>1. op' \in [Ops -> Operations] /\ phase' \in Phases
    BY <1>22, OverTypes, RecordTypes DEF SignalShutdown, ManagerTypeOK,
      Operations, Phases
  <2>2. TasksHaveTags'
    BY <1>22, Ended, <2>1 DEF SignalShutdown, TasksHaveTags, ManagerTypeOK
  <2>. QED  BY <1>22, <2>1, <2>2 DEF SignalShutdown, TasksHaveTags, files,
    FilesTypeOK, ManagerTypeOK
<1>23. ASSUME Poll
     PROVE  FilesTypeOK' /\ ManagerTyped'
  <2>1. op' \in [Ops -> Operations] /\ phase' \in Phases
    BY <1>23, RecordTypes DEF Poll, PhaseSeen, ManagerTypeOK, Operations,
      Phases
  <2>2. TasksHaveTags'
    BY <1>23, <2>1 DEF Poll, PhaseSeen, TasksHaveTags, ManagerTypeOK
  <2>. QED  BY <1>23, <2>1, <2>2 DEF Poll, PhaseSeen, TasksHaveTags, files,
    FilesTypeOK, ManagerTypeOK
<1>24. ASSUME AgentEnds
     PROVE  FilesTypeOK' /\ ManagerTyped'
  <2>1. op' \in [Ops -> Operations] /\ phase' \in Phases
    BY <1>24, RecordTypes DEF AgentEnds, AgentGone, Unused, ManagerTypeOK,
      Operations, Phases
  <2>2. TasksHaveTags'
    BY <1>24, <2>1 DEF AgentEnds, AgentGone, Unused, TasksHaveTags,
      ManagerTypeOK
  <2>. QED  BY <1>24, <2>1, <2>2 DEF AgentEnds, AgentGone, TasksHaveTags,
    files, FilesTypeOK, ManagerTypeOK
<1>. QED
  BY <1>1, <1>2, <1>3, <1>4, <1>5, <1>6, <1>7, <1>8, <1>9, <1>10, <1>11,
    <1>12, <1>13, <1>14, <1>15, <1>16, <1>17, <1>18, <1>19, <1>20, <1>21,
    <1>22, <1>23, <1>24 DEF ManagerStep, Request, Task, Cancel, Install

\* So does every step of the launchers and the helper.
LEMMA HandoffTypes ==
  ASSUME FilesTypeOK, HandoffTyped,
         HelperStep \/ \E l \in Launchers : LauncherStep(l)
  PROVE  FilesTypeOK' /\ HandoffTyped'
<1>. USE DEF HandoffTyped
<1>1. ASSUME NEW l \in Launchers, UserLaunches(l)
     PROVE  FilesTypeOK' /\ HandoffTyped'
  <2>1. FilesTypeOK'
    BY <1>1, RecordTypes DEF UserLaunches, HelperAt, Goes, HandOver,
      HandOverFails, Waiting, Started, files, FilesTypeOK, HelperHasTag,
      Markers
  <2>2. launcher' \in [Launchers -> LauncherStates]
    BY <1>1, RecordTypes DEF UserLaunches, HelperAt, Goes, HandOver,
      HandOverFails, Waiting, Started, HelperHasTag, HandoffTypeOK,
      LauncherStates, HelperStates
  <2>3. helper' \in HelperStates /\ HelperHasTag'
    BY <1>1, RecordTypes DEF UserLaunches, HelperAt, Goes, HandOver,
      HandOverFails, Waiting, Started, HelperHasTag, HandoffTypeOK,
      HelperStates, FilesTypeOK, Markers, NoMarker, NoHelper
  <2>. QED  BY <1>1, <2>1, <2>2, <2>3, UpdateHandoffAssumption DEF
    UserLaunches, HelperAt, Goes, HandOver, HandOverFails, Waiting, Started,
    Acknowledges, HelperHasTag, FilesTypeOK, HandoffTypeOK, Backups, Versions,
    Markers, NoMarker, LauncherStates
<1>2. ASSUME NEW l \in Launchers, StartHandsOver(l)
     PROVE  FilesTypeOK' /\ HandoffTyped'
  <2>1. FilesTypeOK'
    BY <1>2, RecordTypes DEF StartHandsOver, HelperAt, Goes, HandOver,
      HandOverFails, Waiting, Started, files, FilesTypeOK, HelperHasTag,
      Markers
  <2>2. launcher' \in [Launchers -> LauncherStates]
    BY <1>2, RecordTypes DEF StartHandsOver, HelperAt, Goes, HandOver,
      HandOverFails, Waiting, Started, HelperHasTag, HandoffTypeOK,
      LauncherStates, HelperStates
  <2>3. helper' \in HelperStates /\ HelperHasTag'
    BY <1>2, RecordTypes DEF StartHandsOver, HelperAt, Goes, HandOver,
      HandOverFails, Waiting, Started, HelperHasTag, HandoffTypeOK,
      HelperStates, FilesTypeOK, Markers, NoMarker, NoHelper
  <2>. QED  BY <1>2, <2>1, <2>2, <2>3, UpdateHandoffAssumption DEF
    StartHandsOver, HelperAt, Goes, HandOver, HandOverFails, Waiting, Started,
    Acknowledges, HelperHasTag, FilesTypeOK, HandoffTypeOK, Backups, Versions,
    Markers, NoMarker, LauncherStates
<1>3. ASSUME NEW l \in Launchers, StartGoesOn(l)
     PROVE  FilesTypeOK' /\ HandoffTyped'
  <2>1. CASE HandOverFails(l, "checked")
    BY <2>1, HandOverFailsIs DEF files, FilesTypeOK, HelperHasTag,
      HandoffTypeOK
  <2>2. CASE launcher' = [launcher EXCEPT ![l].at = "checked"] /\ UNCHANGED
    <<files, binary, backups, acks, helper, proven, launches, deaths>>
    BY <2>2 DEF files, FilesTypeOK, HelperHasTag, HandoffTypeOK, LauncherStates
  <2>. QED  BY <1>3, <2>1, <2>2 DEF StartGoesOn
<1>4. ASSUME NEW l \in Launchers, SingleInstance(l)
     PROVE  FilesTypeOK' /\ HandoffTyped'
  <2>1. FilesTypeOK'
    BY <1>4, RecordTypes DEF SingleInstance, HelperAt, Goes, HandOver,
      HandOverFails, Waiting, Started, files, FilesTypeOK, HelperHasTag,
      Markers
  <2>2. launcher' \in [Launchers -> LauncherStates]
    BY <1>4, RecordTypes DEF SingleInstance, HelperAt, Goes, HandOver,
      HandOverFails, Waiting, Started, HelperHasTag, HandoffTypeOK,
      LauncherStates, HelperStates
  <2>3. helper' \in HelperStates /\ HelperHasTag'
    BY <1>4, RecordTypes DEF SingleInstance, HelperAt, Goes, HandOver,
      HandOverFails, Waiting, Started, HelperHasTag, HandoffTypeOK,
      HelperStates, FilesTypeOK, Markers, NoMarker, NoHelper
  <2>. QED  BY <1>4, <2>1, <2>2, <2>3, UpdateHandoffAssumption DEF
    SingleInstance, HelperAt, Goes, HandOver, HandOverFails, Waiting, Started,
    Acknowledges, HelperHasTag, FilesTypeOK, HandoffTypeOK, Backups, Versions,
    Markers, NoMarker, LauncherStates
<1>5. ASSUME NEW l \in Launchers, SetupEnds(l)
     PROVE  FilesTypeOK' /\ HandoffTyped'
  <2>1. FilesTypeOK'
    BY <1>5, RecordTypes DEF SetupEnds, HelperAt, Goes, HandOver,
      HandOverFails, Waiting, Started, files, FilesTypeOK, HelperHasTag,
      Markers
  <2>2. launcher' \in [Launchers -> LauncherStates]
    BY <1>5, RecordTypes DEF SetupEnds, HelperAt, Goes, HandOver,
      HandOverFails, Waiting, Started, HelperHasTag, HandoffTypeOK,
      LauncherStates, HelperStates
  <2>3. helper' \in HelperStates /\ HelperHasTag'
    BY <1>5, RecordTypes DEF SetupEnds, HelperAt, Goes, HandOver,
      HandOverFails, Waiting, Started, HelperHasTag, HandoffTypeOK,
      HelperStates, FilesTypeOK, Markers, NoMarker, NoHelper
  <2>. QED  BY <1>5, <2>1, <2>2, <2>3, UpdateHandoffAssumption DEF SetupEnds,
    HelperAt, Goes, HandOver, HandOverFails, Waiting, Started, Acknowledges,
    HelperHasTag, FilesTypeOK, HandoffTypeOK, Backups, Versions, Markers,
    NoMarker, LauncherStates
<1>6. ASSUME NEW l \in Launchers, MonitorFindsNoPayload(l)
     PROVE  FilesTypeOK' /\ HandoffTyped'
  <2>1. HandOverFails(l, "up")
    BY <1>6 DEF MonitorFindsNoPayload
  <2>. QED  BY <2>1, HandOverFailsIs DEF files, FilesTypeOK, HelperHasTag,
    HandoffTypeOK
<1>7. ASSUME NEW l \in Launchers, LauncherDies(l)
     PROVE  FilesTypeOK' /\ HandoffTyped'
  <2>1. FilesTypeOK'
    BY <1>7, RecordTypes DEF LauncherDies, HelperAt, Goes, HandOver,
      HandOverFails, Waiting, Started, files, FilesTypeOK, HelperHasTag,
      Markers
  <2>2. launcher' \in [Launchers -> LauncherStates]
    BY <1>7, RecordTypes DEF LauncherDies, HelperAt, Goes, HandOver,
      HandOverFails, Waiting, Started, HelperHasTag, HandoffTypeOK,
      LauncherStates, HelperStates
  <2>3. helper' \in HelperStates /\ HelperHasTag'
    BY <1>7, RecordTypes DEF LauncherDies, HelperAt, Goes, HandOver,
      HandOverFails, Waiting, Started, HelperHasTag, HandoffTypeOK,
      HelperStates, FilesTypeOK, Markers, NoMarker, NoHelper
  <2>. QED  BY <1>7, <2>1, <2>2, <2>3, UpdateHandoffAssumption DEF
    LauncherDies, HelperAt, Goes, HandOver, HandOverFails, Waiting, Started,
    Acknowledges, HelperHasTag, FilesTypeOK, HandoffTypeOK, Backups, Versions,
    Markers, NoMarker, LauncherStates
<1>8. ASSUME HelperApplies
     PROVE  FilesTypeOK' /\ HandoffTyped'
  <2>0. pending' \in Markers
    BY <1>8, MarksType DEF HelperApplies, HelperAt, FilesTypeOK
  <2>1. FilesTypeOK'
    BY <1>8, <2>0 DEF HelperApplies, Marks, FilesTypeOK
  <2>3. helper' \in HelperStates /\ HelperHasTag'
    BY <1>8, RecordTypes DEF HelperApplies, HelperAt, Goes, HelperHasTag,
      HandoffTypeOK, HelperStates, NoHelper
  <2>. QED  BY <1>8, <2>1, <2>3, UpdateHandoffAssumption DEF HelperApplies,
    HandoffTypeOK
<1>9. ASSUME HelperFailsEarly
     PROVE  FilesTypeOK' /\ HandoffTyped'
  <2>1. FilesTypeOK'
    BY <1>9, RecordTypes DEF HelperFailsEarly, HelperAt, Goes, HandOver,
      HandOverFails, Waiting, Started, files, FilesTypeOK, HelperHasTag,
      Markers
  <2>2. launcher' \in [Launchers -> LauncherStates]
    BY <1>9, RecordTypes DEF HelperFailsEarly, HelperAt, Goes, HandOver,
      HandOverFails, Waiting, Started, HelperHasTag, HandoffTypeOK,
      LauncherStates, HelperStates
  <2>3. helper' \in HelperStates /\ HelperHasTag'
    BY <1>9, RecordTypes DEF HelperFailsEarly, HelperAt, Goes, HandOver,
      HandOverFails, Waiting, Started, HelperHasTag, HandoffTypeOK,
      HelperStates, FilesTypeOK, Markers, NoMarker, NoHelper
  <2>. QED  BY <1>9, <2>1, <2>2, <2>3, UpdateHandoffAssumption DEF
    HelperFailsEarly, HelperAt, Goes, HandOver, HandOverFails, Waiting,
    Started, Acknowledges, HelperHasTag, FilesTypeOK, HandoffTypeOK, Backups,
    Versions, Markers, NoMarker, LauncherStates
<1>10. ASSUME HelperBacksUp
     PROVE  FilesTypeOK' /\ HandoffTyped'
  <2>1. FilesTypeOK'
    BY <1>10, RecordTypes DEF HelperBacksUp, HelperAt, Goes, HandOver,
      HandOverFails, Waiting, Started, files, FilesTypeOK, HelperHasTag,
      Markers
  <2>2. launcher' \in [Launchers -> LauncherStates]
    BY <1>10, RecordTypes DEF HelperBacksUp, HelperAt, Goes, HandOver,
      HandOverFails, Waiting, Started, HelperHasTag, HandoffTypeOK,
      LauncherStates, HelperStates
  <2>3. helper' \in HelperStates /\ HelperHasTag'
    BY <1>10, RecordTypes DEF HelperBacksUp, HelperAt, Goes, HandOver,
      HandOverFails, Waiting, Started, HelperHasTag, HandoffTypeOK,
      HelperStates, FilesTypeOK, Markers, NoMarker, NoHelper
  <2>. QED  BY <1>10, <2>1, <2>2, <2>3, UpdateHandoffAssumption DEF
    HelperBacksUp, HelperAt, Goes, HandOver, HandOverFails, Waiting, Started,
    Acknowledges, HelperHasTag, FilesTypeOK, HandoffTypeOK, Backups, Versions,
    Markers, NoMarker, LauncherStates
<1>11. ASSUME HelperSwaps
     PROVE  FilesTypeOK' /\ HandoffTyped'
  <2>1. FilesTypeOK'
    BY <1>11, RecordTypes DEF HelperSwaps, HelperAt, Goes, HandOver,
      HandOverFails, Waiting, Started, files, FilesTypeOK, HelperHasTag,
      Markers
  <2>2. launcher' \in [Launchers -> LauncherStates]
    BY <1>11, RecordTypes DEF HelperSwaps, HelperAt, Goes, HandOver,
      HandOverFails, Waiting, Started, HelperHasTag, HandoffTypeOK,
      LauncherStates, HelperStates
  <2>3. helper' \in HelperStates /\ HelperHasTag'
    BY <1>11, RecordTypes DEF HelperSwaps, HelperAt, Goes, HandOver,
      HandOverFails, Waiting, Started, HelperHasTag, HandoffTypeOK,
      HelperStates, FilesTypeOK, Markers, NoMarker, NoHelper
  <2>. QED  BY <1>11, <2>1, <2>2, <2>3, UpdateHandoffAssumption DEF
    HelperSwaps, HelperAt, Goes, HandOver, HandOverFails, Waiting, Started,
    Acknowledges, HelperHasTag, FilesTypeOK, HandoffTypeOK, Backups, Versions,
    Markers, NoMarker, LauncherStates
<1>12. ASSUME NEW l \in Launchers, HelperLaunches(l)
     PROVE  FilesTypeOK' /\ HandoffTyped'
  <2>1. FilesTypeOK'
    BY <1>12, RecordTypes DEF HelperLaunches, HelperAt, Goes, HandOver,
      HandOverFails, Waiting, Started, files, FilesTypeOK, HelperHasTag,
      Markers
  <2>2. launcher' \in [Launchers -> LauncherStates]
    BY <1>12, RecordTypes DEF HelperLaunches, HelperAt, Goes, HandOver,
      HandOverFails, Waiting, Started, HelperHasTag, HandoffTypeOK,
      LauncherStates, HelperStates
  <2>3. helper' \in HelperStates /\ HelperHasTag'
    BY <1>12, RecordTypes DEF HelperLaunches, HelperAt, Goes, HandOver,
      HandOverFails, Waiting, Started, HelperHasTag, HandoffTypeOK,
      HelperStates, FilesTypeOK, Markers, NoMarker, NoHelper
  <2>. QED  BY <1>12, <2>1, <2>2, <2>3, UpdateHandoffAssumption DEF
    HelperLaunches, HelperAt, Goes, HandOver, HandOverFails, Waiting, Started,
    Acknowledges, HelperHasTag, FilesTypeOK, HandoffTypeOK, Backups, Versions,
    Markers, NoMarker, LauncherStates
<1>13. ASSUME HelperCannotLaunch
     PROVE  FilesTypeOK' /\ HandoffTyped'
  <2>1. FilesTypeOK'
    BY <1>13, RecordTypes DEF HelperCannotLaunch, HelperAt, Goes, HandOver,
      HandOverFails, Waiting, Started, files, FilesTypeOK, HelperHasTag,
      Markers
  <2>2. launcher' \in [Launchers -> LauncherStates]
    BY <1>13, RecordTypes DEF HelperCannotLaunch, HelperAt, Goes, HandOver,
      HandOverFails, Waiting, Started, HelperHasTag, HandoffTypeOK,
      LauncherStates, HelperStates
  <2>3. helper' \in HelperStates /\ HelperHasTag'
    BY <1>13, RecordTypes DEF HelperCannotLaunch, HelperAt, Goes, HandOver,
      HandOverFails, Waiting, Started, HelperHasTag, HandoffTypeOK,
      HelperStates, FilesTypeOK, Markers, NoMarker, NoHelper
  <2>. QED  BY <1>13, <2>1, <2>2, <2>3, UpdateHandoffAssumption DEF
    HelperCannotLaunch, HelperAt, Goes, HandOver, HandOverFails, Waiting,
    Started, Acknowledges, HelperHasTag, FilesTypeOK, HandoffTypeOK, Backups,
    Versions, Markers, NoMarker, LauncherStates
<1>14. ASSUME HelperSeesAck
     PROVE  FilesTypeOK' /\ HandoffTyped'
  <2>1. FilesTypeOK'
    BY <1>14, RecordTypes DEF HelperSeesAck, HelperAt, Goes, HandOver,
      HandOverFails, Waiting, Started, files, FilesTypeOK, HelperHasTag,
      Markers
  <2>2. launcher' \in [Launchers -> LauncherStates]
    BY <1>14, RecordTypes DEF HelperSeesAck, HelperAt, Goes, HandOver,
      HandOverFails, Waiting, Started, HelperHasTag, HandoffTypeOK,
      LauncherStates, HelperStates
  <2>3. helper' \in HelperStates /\ HelperHasTag'
    BY <1>14, RecordTypes DEF HelperSeesAck, HelperAt, Goes, HandOver,
      HandOverFails, Waiting, Started, HelperHasTag, HandoffTypeOK,
      HelperStates, FilesTypeOK, Markers, NoMarker, NoHelper
  <2>. QED  BY <1>14, <2>1, <2>2, <2>3, UpdateHandoffAssumption DEF
    HelperSeesAck, HelperAt, Goes, HandOver, HandOverFails, Waiting, Started,
    Acknowledges, HelperHasTag, FilesTypeOK, HandoffTypeOK, Backups, Versions,
    Markers, NoMarker, LauncherStates
<1>15. ASSUME HelperGivesUp
     PROVE  FilesTypeOK' /\ HandoffTyped'
  <2>1. FilesTypeOK'
    BY <1>15, RecordTypes DEF HelperGivesUp, HelperAt, Goes, HandOver,
      HandOverFails, Waiting, Started, KillChild, files, FilesTypeOK,
      HelperHasTag, Markers
  <2>2. launcher' \in [Launchers -> LauncherStates]
    BY <1>15, RecordTypes DEF HelperGivesUp, HelperAt, Goes, HandOver,
      HandOverFails, Waiting, Started, KillChild, HelperHasTag, HandoffTypeOK,
      LauncherStates, HelperStates
  <2>3. helper' \in HelperStates /\ HelperHasTag'
    BY <1>15, RecordTypes DEF HelperGivesUp, HelperAt, Goes, HandOver,
      HandOverFails, Waiting, Started, KillChild, HelperHasTag, HandoffTypeOK,
      HelperStates, FilesTypeOK, Markers, NoMarker, NoHelper
  <2>. QED  BY <1>15, <2>1, <2>2, <2>3, UpdateHandoffAssumption DEF
    HelperGivesUp, HelperAt, Goes, HandOver, HandOverFails, Waiting, Started,
    KillChild, Acknowledges, HelperHasTag, FilesTypeOK, HandoffTypeOK,
    Backups, Versions, Markers, NoMarker, LauncherStates
<1>16. ASSUME HelperCommits
     PROVE  FilesTypeOK' /\ HandoffTyped'
  <2>0. pending' \in Markers
    BY <1>16, MarksType DEF HelperCommits, HelperAt, FilesTypeOK
  <2>1. FilesTypeOK'
    BY <1>16, <2>0 DEF HelperCommits, Marks, FilesTypeOK
  <2>3. helper' \in HelperStates /\ HelperHasTag'
    BY <1>16, RecordTypes DEF HelperCommits, HelperAt, Goes, HelperHasTag,
      HandoffTypeOK, HelperStates, NoHelper
  <2>. QED  BY <1>16, <2>1, <2>3, UpdateHandoffAssumption DEF HelperCommits,
    HandoffTypeOK
<1>17. ASSUME HelperDropsBackup
     PROVE  FilesTypeOK' /\ HandoffTyped'
  <2>1. FilesTypeOK'
    BY <1>17, RecordTypes DEF HelperDropsBackup, HelperAt, Goes, HandOver,
      HandOverFails, Waiting, Started, files, FilesTypeOK, HelperHasTag,
      Markers
  <2>2. launcher' \in [Launchers -> LauncherStates]
    BY <1>17, RecordTypes DEF HelperDropsBackup, HelperAt, Goes, HandOver,
      HandOverFails, Waiting, Started, HelperHasTag, HandoffTypeOK,
      LauncherStates, HelperStates
  <2>3. helper' \in HelperStates /\ HelperHasTag'
    BY <1>17, RecordTypes DEF HelperDropsBackup, HelperAt, Goes, HandOver,
      HandOverFails, Waiting, Started, HelperHasTag, HandoffTypeOK,
      HelperStates, FilesTypeOK, Markers, NoMarker, NoHelper
  <2>. QED  BY <1>17, <2>1, <2>2, <2>3, UpdateHandoffAssumption DEF
    HelperDropsBackup, HelperAt, Goes, HandOver, HandOverFails, Waiting,
    Started, Acknowledges, HelperHasTag, FilesTypeOK, HandoffTypeOK, Backups,
    Versions, Markers, NoMarker, LauncherStates
<1>18. ASSUME HelperCleans
     PROVE  FilesTypeOK' /\ HandoffTyped'
  <2>1. FilesTypeOK'
    BY <1>18, RecordTypes DEF HelperCleans, HelperAt, Goes, HandOver,
      HandOverFails, Waiting, Started, files, FilesTypeOK, HelperHasTag,
      Markers
  <2>2. launcher' \in [Launchers -> LauncherStates]
    BY <1>18, RecordTypes DEF HelperCleans, HelperAt, Goes, HandOver,
      HandOverFails, Waiting, Started, HelperHasTag, HandoffTypeOK,
      LauncherStates, HelperStates
  <2>3. helper' \in HelperStates /\ HelperHasTag'
    BY <1>18, RecordTypes DEF HelperCleans, HelperAt, Goes, HandOver,
      HandOverFails, Waiting, Started, HelperHasTag, HandoffTypeOK,
      HelperStates, FilesTypeOK, Markers, NoMarker, NoHelper
  <2>. QED  BY <1>18, <2>1, <2>2, <2>3, UpdateHandoffAssumption DEF
    HelperCleans, HelperAt, Goes, HandOver, HandOverFails, Waiting, Started,
    Acknowledges, HelperHasTag, FilesTypeOK, HandoffTypeOK, Backups, Versions,
    Markers, NoMarker, LauncherStates
<1>19. ASSUME HelperDropsMarker
     PROVE  FilesTypeOK' /\ HandoffTyped'
  <2>1. FilesTypeOK'
    BY <1>19, RecordTypes DEF HelperDropsMarker, HelperAt, Goes, HandOver,
      HandOverFails, Waiting, Started, files, FilesTypeOK, HelperHasTag,
      Markers
  <2>2. launcher' \in [Launchers -> LauncherStates]
    BY <1>19, RecordTypes DEF HelperDropsMarker, HelperAt, Goes, HandOver,
      HandOverFails, Waiting, Started, HelperHasTag, HandoffTypeOK,
      LauncherStates, HelperStates
  <2>3. helper' \in HelperStates /\ HelperHasTag'
    BY <1>19, RecordTypes DEF HelperDropsMarker, HelperAt, Goes, HandOver,
      HandOverFails, Waiting, Started, HelperHasTag, HandoffTypeOK,
      HelperStates, FilesTypeOK, Markers, NoMarker, NoHelper
  <2>. QED  BY <1>19, <2>1, <2>2, <2>3, UpdateHandoffAssumption DEF
    HelperDropsMarker, HelperAt, Goes, HandOver, HandOverFails, Waiting,
    Started, Acknowledges, HelperHasTag, FilesTypeOK, HandoffTypeOK, Backups,
    Versions, Markers, NoMarker, LauncherStates
<1>20. ASSUME HelperRestores
     PROVE  FilesTypeOK' /\ HandoffTyped'
  <2>1. FilesTypeOK'
    BY <1>20, RecordTypes DEF HelperRestores, HelperAt, Goes, HandOver,
      HandOverFails, Waiting, Started, files, FilesTypeOK, HelperHasTag,
      Markers
  <2>2. launcher' \in [Launchers -> LauncherStates]
    BY <1>20, RecordTypes DEF HelperRestores, HelperAt, Goes, HandOver,
      HandOverFails, Waiting, Started, HelperHasTag, HandoffTypeOK,
      LauncherStates, HelperStates
  <2>3. helper' \in HelperStates /\ HelperHasTag'
    BY <1>20, RecordTypes DEF HelperRestores, HelperAt, Goes, HandOver,
      HandOverFails, Waiting, Started, HelperHasTag, HandoffTypeOK,
      HelperStates, FilesTypeOK, Markers, NoMarker, NoHelper
  <2>. QED  BY <1>20, <2>1, <2>2, <2>3, UpdateHandoffAssumption DEF
    HelperRestores, HelperAt, Goes, HandOver, HandOverFails, Waiting, Started,
    Acknowledges, HelperHasTag, FilesTypeOK, HandoffTypeOK, Backups, Versions,
    Markers, NoMarker, LauncherStates
<1>21. ASSUME HelperRelaunches
     PROVE  FilesTypeOK' /\ HandoffTyped'
  <2>1. CASE UNCHANGED launcher
    BY <1>21, <2>1 DEF HelperRelaunches, HelperAt, Goes, files, HelperHasTag,
      HelperStates, FilesTypeOK, HandoffTypeOK
  <2>2. ASSUME NEW l \in Launchers, Started(l, 0) PROVE FilesTypeOK' /\
    HandoffTyped'
    <3>1. launcher' \in [Launchers -> LauncherStates]
      BY <2>2 DEF Started, HandoffTypeOK, LauncherStates
    <3>. QED  BY <1>21, <3>1 DEF HelperRelaunches, HelperAt, Goes, files,
      HelperHasTag, HelperStates, FilesTypeOK, HandoffTypeOK
  <2>. QED  BY <1>21, <2>1, <2>2 DEF HelperRelaunches
<1>22. ASSUME HelperMarksFailed
     PROVE  FilesTypeOK' /\ HandoffTyped'
  <2>0. pending' \in Markers
    BY <1>22, MarksType DEF HelperMarksFailed, HelperAt, FilesTypeOK
  <2>1. FilesTypeOK'
    BY <1>22, <2>0 DEF HelperMarksFailed, Marks, FilesTypeOK
  <2>3. helper' \in HelperStates /\ HelperHasTag'
    BY <1>22, RecordTypes DEF HelperMarksFailed, HelperAt, Goes, HelperHasTag,
      HandoffTypeOK, HelperStates, NoHelper
  <2>. QED  BY <1>22, <2>1, <2>3, UpdateHandoffAssumption DEF
    HelperMarksFailed, HandoffTypeOK
<1>23. ASSUME HelperDies
     PROVE  FilesTypeOK' /\ HandoffTyped'
  <2>1. FilesTypeOK'
    BY <1>23, RecordTypes DEF HelperDies, HelperAt, Goes, HandOver,
      HandOverFails, Waiting, Started, files, FilesTypeOK, HelperHasTag,
      Markers
  <2>2. launcher' \in [Launchers -> LauncherStates]
    BY <1>23, RecordTypes DEF HelperDies, HelperAt, Goes, HandOver,
      HandOverFails, Waiting, Started, HelperHasTag, HandoffTypeOK,
      LauncherStates, HelperStates
  <2>3. helper' \in HelperStates /\ HelperHasTag'
    BY <1>23, RecordTypes DEF HelperDies, HelperAt, Goes, HandOver,
      HandOverFails, Waiting, Started, HelperHasTag, HandoffTypeOK,
      HelperStates, FilesTypeOK, Markers, NoMarker, NoHelper
  <2>. QED  BY <1>23, <2>1, <2>2, <2>3, UpdateHandoffAssumption DEF
    HelperDies, HelperAt, Goes, HandOver, HandOverFails, Waiting, Started,
    Acknowledges, HelperHasTag, FilesTypeOK, HandoffTypeOK, Backups, Versions,
    Markers, NoMarker, LauncherStates
<1>. QED
  BY <1>1, <1>2, <1>3, <1>4, <1>5, <1>6, <1>7, <1>8, <1>9, <1>10, <1>11,
    <1>12, <1>13, <1>14, <1>15, <1>16, <1>17, <1>18, <1>19, <1>20, <1>21,
    <1>22, <1>23 DEF HelperStep, LauncherStep

LEMMA AgentGoneTypes ==
  ASSUME ManagerTyped, AgentGone
  PROVE  ManagerTyped'
<1>1. op' \in [Ops -> Operations] /\ \A o \in Ops : op'[o].at \in {"none",
  "done"}
  BY DEF AgentGone, Operations, Unused
<1>. QED
  BY <1>1 DEF AgentGone, ManagerTyped, ManagerTypeOK, TasksHaveTags

LEMMA AgentStartsTypes ==
  ASSUME FilesTypeOK, ManagerTyped, NEW version \in Versions,
         AgentStarts(version)
  PROVE  FilesTypeOK' /\ ManagerTyped'
<1>1. phase' \in Phases
  BY DEF AgentStarts, ReconciledPhase, Phases, ManagerTyped, ManagerTypeOK
<1>2. PendingUsable => pending.tag \in Tags
  BY DEF PendingUsable, FilesTypeOK, Markers
<1>. QED
  BY <1>1, <1>2 DEF AgentStarts, PreparedUsable, FilesTypeOK, ManagerTyped,
    ManagerTypeOK, TasksHaveTags

LEMMA MonitorTypes ==
  ASSUME FilesTypeOK, HandoffTyped, NEW l \in Launchers,
         MonitorHandsOver(l) \/ MonitorSpawnFails(l)
  PROVE  FilesTypeOK' /\ HandoffTyped'
<1>1. CASE HandOver(l)
  <2>1. launcher' \in [Launchers -> LauncherStates]
    BY <1>1, RecordTypes DEF HandOver, HandoffTyped, HandoffTypeOK
  <2>2. helper' \in HelperStates /\ HelperHasTag'
    BY <1>1 DEF HandOver, Waiting, HandoffTyped, HandoffTypeOK, HelperHasTag,
      HelperStates, FilesTypeOK, Markers, NoMarker
  <2>. QED
    BY <1>1, <2>1, <2>2 DEF HandOver, files, FilesTypeOK, HandoffTyped,
      HandoffTypeOK
<1>2. CASE HandOverFails(l, "up")
  BY <1>2, HandOverFailsIs DEF HandoffTyped, files, FilesTypeOK, HelperHasTag,
    HandoffTypeOK
<1>. QED
  BY <1>1, <1>2 DEF MonitorHandsOver, MonitorSpawnFails

LEMMA TypeInit == Init => Typed
<1>. SUFFICES ASSUME Init PROVE Typed
  OBVIOUS
<1>1. FilesTypeOK
  BY RecordTypes DEF Init, FilesInit, FilesTypeOK
<1>2. ManagerTyped
  BY RecordTypes, <1>1 DEF Init, ManagerInit, FilesTypeOK, ManagerTyped,
    ManagerTypeOK, TasksHaveTags, Phases, Versions, Unused
<1>3. HandoffTyped
  BY RecordTypes, UpdateHandoffAssumption DEF Init, HandoffInit, HandoffTyped,
    HandoffTypeOK, HelperHasTag, Versions, NoHelper
<1>. QED  BY <1>1, <1>2, <1>3 DEF Typed

LEMMA TypeStep == Typed /\ [Next]_vars => Typed'
<1>. SUFFICES ASSUME Typed, [Next]_vars PROVE Typed'
  OBVIOUS
<1>. USE DEF Typed
<1>1. CASE ManagerStep /\ UNCHANGED handoffVars
  BY <1>1, ManagerTypes DEF handoffVars, HandoffTyped, HandoffTypeOK,
    HelperHasTag
<1>2. CASE (HelperStep \/ \E l \in Launchers : LauncherStep(l)) /\ UNCHANGED
  managerVars
  BY <1>2, HandoffTypes DEF managerVars, ManagerTyped, ManagerTypeOK,
    TasksHaveTags
<1>3. ASSUME NEW l \in Launchers, LauncherStartsAgent(l) PROVE Typed'
  <2>1. launcher[l].version \in Versions
    BY DEF HandoffTyped, HandoffTypeOK, LauncherStates
  <2>. QED
    BY <1>3, <2>1, AgentStartsTypes DEF LauncherStartsAgent, handoffVars,
      HandoffTyped, HandoffTypeOK, HelperHasTag
<1>4. ASSUME NEW l \in Launchers, MonitorApplies(l) PROVE Typed'
  <2>1. FilesTypeOK' /\ HandoffTyped'
    BY <1>4, MonitorTypes DEF MonitorApplies
  <2>2. ManagerTyped'
    BY <1>4, AgentGoneTypes DEF MonitorApplies, managerVars, ManagerTyped,
      ManagerTypeOK, TasksHaveTags
  <2>. QED  BY <2>1, <2>2
<1>5. CASE UNCHANGED vars
  BY <1>5 DEF vars, files, managerVars, handoffVars, FilesTypeOK,
    ManagerTyped, ManagerTypeOK, TasksHaveTags, HandoffTyped, HandoffTypeOK,
    HelperHasTag
<1>. QED  BY <1>1, <1>2, <1>3, <1>4, <1>5 DEF Next

\* The files, the agent's memory and the states of the launchers and the helper
\* stay what they are declared to be, for any tags, launchers and bounds.
THEOREM TypeCorrect == Spec => []TypeOK
<1>1. Init => Typed
  BY TypeInit
<1>2. Typed /\ [Next]_vars => Typed'
  BY TypeStep
<1>3. Typed => TypeOK
  BY DEF Typed, ManagerTyped, HandoffTyped, TypeOK
<1>. QED  BY <1>1, <1>2, <1>3, PTL DEF Spec

------------------------------------------------------------------------------
\* An operation that may have armed a transaction stays one.
LEMMA UsedStays ==
  ASSUME ManagerTypeOK, ManagerStep
  PROVE  \A q \in Ops : op[q].at \in Used => op'[q].at \in Used
<1>1. ASSUME NEW o \in Ops, NEW kind \in Kinds, Begin(o, kind)
     PROVE  \A q \in Ops : op[q].at \in Used => op'[q].at \in Used
  BY <1>1 DEF Begin, Unused, Used, ManagerTypeOK, Operations
<1>2. ASSUME NEW o \in Ops, SpawnTask(o)
     PROVE  \A q \in Ops : op[q].at \in Used => op'[q].at \in Used
  BY <1>2 DEF SpawnTask, Used, ManagerTypeOK, Operations
<1>3. ASSUME NEW o \in Ops, Register(o)
     PROVE  \A q \in Ops : op[q].at \in Used => op'[q].at \in Used
  BY <1>3 DEF Register, Used, ManagerTypeOK, Operations
<1>4. ASSUME NEW o \in Ops, CheckEnds(o)
     PROVE  \A q \in Ops : op[q].at \in Used => op'[q].at \in Used
  BY <1>4, Moved DEF CheckEnds, Used
<1>5. ASSUME NEW o \in Ops, ResolveFails(o)
     PROVE  \A q \in Ops : op[q].at \in Used => op'[q].at \in Used
  BY <1>5, Moved DEF ResolveFails, Used
<1>6. ASSUME NEW o \in Ops, DownloadEnds(o)
     PROVE  \A q \in Ops : op[q].at \in Used => op'[q].at \in Used
  BY <1>6, Moved DEF DownloadEnds, Used
<1>7. ASSUME NEW o \in Ops, NEW tag \in Tags, Resolve(o, tag)
     PROVE  \A q \in Ops : op[q].at \in Used => op'[q].at \in Used
  BY <1>7 DEF Resolve, Used, ManagerTypeOK, Operations
<1>8. ASSUME NEW o \in Ops, RemoveStaged(o)
     PROVE  \A q \in Ops : op[q].at \in Used => op'[q].at \in Used
  BY <1>8, Moved DEF RemoveStaged, Used
<1>9. ASSUME NEW o \in Ops, CopyStaged(o)
     PROVE  \A q \in Ops : op[q].at \in Used => op'[q].at \in Used
  BY <1>9, Moved DEF CopyStaged, Used
<1>10. ASSUME NEW o \in Ops, PrepareFails(o)
     PROVE  \A q \in Ops : op[q].at \in Used => op'[q].at \in Used
  BY <1>10, Moved DEF PrepareFails, Used
<1>11. ASSUME NEW o \in Ops, MarkPrepared(o)
     PROVE  \A q \in Ops : op[q].at \in Used => op'[q].at \in Used
  BY <1>11, Moved DEF MarkPrepared, Used
<1>12. ASSUME NEW o \in Ops, DownloadReady(o)
     PROVE  \A q \in Ops : op[q].at \in Used => op'[q].at \in Used
  BY <1>12, Moved DEF DownloadReady, Used
<1>13. ASSUME NEW o \in Ops, Release(o)
     PROVE  \A q \in Ops : op[q].at \in Used => op'[q].at \in Used
  BY <1>13, Released DEF Release, Used, ManagerTypeOK, Operations
<1>14. ASSUME NEW o \in Ops, AbortLands(o)
     PROVE  \A q \in Ops : op[q].at \in Used => op'[q].at \in Used
  BY <1>14, Ended DEF AbortLands, Used, ManagerTypeOK, Operations
<1>15. ASSUME NEW o \in Ops, CancelBegins(o)
     PROVE  \A q \in Ops : op[q].at \in Used => op'[q].at \in Used
  BY <1>15 DEF CancelBegins, Used, ManagerTypeOK, Operations
<1>16. ASSUME NEW o \in Ops, CancelEnds(o)
     PROVE  \A q \in Ops : op[q].at \in Used => op'[q].at \in Used
  BY <1>16 DEF CancelEnds, Used, ManagerTypeOK, Operations
<1>17. ASSUME NEW o \in Ops, CancelFindsNoTask(o)
     PROVE  \A q \in Ops : op[q].at \in Used => op'[q].at \in Used
  BY <1>17 DEF CancelFindsNoTask, Used, ManagerTypeOK, Operations
<1>18. ASSUME NEW o \in Ops, InstallRefused(o)
     PROVE  \A q \in Ops : op[q].at \in Used => op'[q].at \in Used
  BY <1>18 DEF InstallRefused, InstallBegun, Used, ManagerTypeOK, Operations
<1>19. ASSUME NEW o \in Ops, InstallStarts(o)
     PROVE  \A q \in Ops : op[q].at \in Used => op'[q].at \in Used
  BY <1>19 DEF InstallStarts, InstallBegun, Used, ManagerTypeOK, Operations
<1>20. ASSUME NEW o \in Ops, InstallArms(o)
     PROVE  \A q \in Ops : op[q].at \in Used => op'[q].at \in Used
  BY <1>20, Moved DEF InstallArms, Used
<1>21. ASSUME NEW o \in Ops, InstallClears(o)
     PROVE  \A q \in Ops : op[q].at \in Used => op'[q].at \in Used
  BY <1>21, Moved DEF InstallClears, Used
<1>22. ASSUME NEW o \in Ops, SignalShutdown(o)
     PROVE  \A q \in Ops : op[q].at \in Used => op'[q].at \in Used
  BY <1>22, Ended DEF SignalShutdown, Used, ManagerTypeOK, Operations
<1>23. ASSUME Poll
     PROVE  \A q \in Ops : op[q].at \in Used => op'[q].at \in Used
  BY <1>23 DEF Poll, Used, ManagerTypeOK, Operations
<1>24. ASSUME AgentEnds
     PROVE  \A q \in Ops : op[q].at \in Used => op'[q].at \in Used
  BY <1>24 DEF AgentEnds, AgentGone, Unused, Used, ManagerTypeOK, Operations
<1>. QED
  BY <1>1, <1>2, <1>3, <1>4, <1>5, <1>6, <1>7, <1>8, <1>9, <1>10, <1>11,
    <1>12, <1>13, <1>14, <1>15, <1>16, <1>17, <1>18, <1>19, <1>20, <1>21,
    <1>22, <1>23, <1>24 DEF ManagerStep, Request, Task, Cancel, Install

\* Installs and cancels own the gate, and a marker is written over none.
LEMMA ManagerInvStep ==
  ASSUME ManagerTypeOK, ManagerInv, ArmsOverNothing, ManagerStep
  PROVE  ManagerInv' /\ ArmsOverNothing'
<1>. USE UpdateManagerAssumption DEF ManagerInv, Kinds
<1>1. ASSUME NEW o \in Ops, NEW kind \in Kinds, Begin(o, kind)
     PROVE  ManagerInv' /\ ArmsOverNothing'
  BY <1>1 DEF Begin, Unused, InstallsOwnGate, CancelsOwnGate, ArmsOverNothing,
    Arming, files, ManagerTypeOK, Operations
<1>2. ASSUME NEW o \in Ops, SpawnTask(o)
     PROVE  ManagerInv' /\ ArmsOverNothing'
  BY <1>2 DEF SpawnTask, InstallsOwnGate, CancelsOwnGate, ArmsOverNothing,
    Arming, files, ManagerTypeOK, Operations
<1>3. ASSUME NEW o \in Ops, Register(o)
     PROVE  ManagerInv' /\ ArmsOverNothing'
  <2>1. \A q \in Ops : op'[q].kind = op[q].kind /\ op'[q].at = op[q].at
    BY <1>3 DEF Register, ManagerTypeOK, Operations
  <2>. QED  BY <1>3, <2>1 DEF Register, files, InstallsOwnGate,
    CancelsOwnGate, ArmsOverNothing, Arming
<1>4. ASSUME NEW o \in Ops, CheckEnds(o)
     PROVE  ManagerInv' /\ ArmsOverNothing'
  BY <1>4, Moved DEF CheckEnds, InstallsOwnGate, CancelsOwnGate,
    ArmsOverNothing, Arming, files
<1>5. ASSUME NEW o \in Ops, ResolveFails(o)
     PROVE  ManagerInv' /\ ArmsOverNothing'
  BY <1>5, Moved DEF ResolveFails, InstallsOwnGate, CancelsOwnGate,
    ArmsOverNothing, Arming, files
<1>6. ASSUME NEW o \in Ops, DownloadEnds(o)
     PROVE  ManagerInv' /\ ArmsOverNothing'
  BY <1>6, Moved DEF DownloadEnds, InstallsOwnGate, CancelsOwnGate,
    ArmsOverNothing, Arming, files
<1>7. ASSUME NEW o \in Ops, NEW tag \in Tags, Resolve(o, tag)
     PROVE  ManagerInv' /\ ArmsOverNothing'
  BY <1>7 DEF Resolve, InstallsOwnGate, CancelsOwnGate, ArmsOverNothing,
    Arming, files, ManagerTypeOK, Operations
<1>8. ASSUME NEW o \in Ops, RemoveStaged(o)
     PROVE  ManagerInv' /\ ArmsOverNothing'
  BY <1>8, Moved DEF RemoveStaged, InstallsOwnGate, CancelsOwnGate,
    ArmsOverNothing, Arming, files
<1>9. ASSUME NEW o \in Ops, CopyStaged(o)
     PROVE  ManagerInv' /\ ArmsOverNothing'
  BY <1>9, Moved DEF CopyStaged, InstallsOwnGate, CancelsOwnGate,
    ArmsOverNothing, Arming, files
<1>10. ASSUME NEW o \in Ops, PrepareFails(o)
     PROVE  ManagerInv' /\ ArmsOverNothing'
  BY <1>10, Moved DEF PrepareFails, InstallsOwnGate, CancelsOwnGate,
    ArmsOverNothing, Arming, files
<1>11. ASSUME NEW o \in Ops, MarkPrepared(o)
     PROVE  ManagerInv' /\ ArmsOverNothing'
  BY <1>11, Moved DEF MarkPrepared, InstallsOwnGate, CancelsOwnGate,
    ArmsOverNothing, Arming, files
<1>12. ASSUME NEW o \in Ops, DownloadReady(o)
     PROVE  ManagerInv' /\ ArmsOverNothing'
  BY <1>12, Moved DEF DownloadReady, InstallsOwnGate, CancelsOwnGate,
    ArmsOverNothing, Arming, files
<1>13. ASSUME NEW o \in Ops, Release(o)
     PROVE  ManagerInv' /\ ArmsOverNothing'
  <2>1. UNCHANGED <<pending, cancelling>> /\ gate' = IF gate = o THEN None
    ELSE gate
    BY <1>13 DEF Release, files
  <2>2. op'[o].at \in {"done", "signalling"} /\ \A q \in Ops \ {o} : op'[q] =
    op[q]
    BY <1>13, Released
  <2>3. InstallsOwnGate' /\ ArmsOverNothing'
    BY <2>1, <2>2 DEF InstallsOwnGate, ArmsOverNothing, Arming
  <2>. QED  BY <1>13, <2>3 DEF CancelsOwnGate, Release
<1>14. ASSUME NEW o \in Ops, AbortLands(o)
     PROVE  ManagerInv' /\ ArmsOverNothing'
  BY <1>14, Ended DEF AbortLands, InstallsOwnGate, CancelsOwnGate,
    ArmsOverNothing, Arming, files, ManagerTypeOK, Operations
<1>15. ASSUME NEW o \in Ops, CancelBegins(o)
     PROVE  ManagerInv' /\ ArmsOverNothing'
  BY <1>15 DEF CancelBegins, Cancellable, InstallsOwnGate, CancelsOwnGate,
    ArmsOverNothing, Arming, files, ManagerTypeOK, Operations
<1>16. ASSUME NEW o \in Ops, CancelEnds(o)
     PROVE  ManagerInv' /\ ArmsOverNothing'
  BY <1>16 DEF CancelEnds, InstallsOwnGate, CancelsOwnGate, ArmsOverNothing,
    Arming, files, ManagerTypeOK, Operations
<1>17. ASSUME NEW o \in Ops, CancelFindsNoTask(o)
     PROVE  ManagerInv' /\ ArmsOverNothing'
  BY <1>17 DEF CancelFindsNoTask, Cancellable, InstallsOwnGate,
    CancelsOwnGate, ArmsOverNothing, Arming, files, ManagerTypeOK, Operations
<1>18. ASSUME NEW o \in Ops, InstallRefused(o)
     PROVE  ManagerInv' /\ ArmsOverNothing'
  BY <1>18 DEF InstallRefused, InstallBegun, InstallsOwnGate, CancelsOwnGate,
    ArmsOverNothing, Arming, files, ManagerTypeOK, Operations
<1>19. ASSUME NEW o \in Ops, InstallStarts(o)
     PROVE  ManagerInv' /\ ArmsOverNothing'
  BY <1>19 DEF InstallStarts, InstallBegun, InstallAllowed, InstallsOwnGate,
    CancelsOwnGate, ArmsOverNothing, Arming, files, ManagerTypeOK, Operations
<1>20. ASSUME NEW o \in Ops, InstallArms(o)
     PROVE  ManagerInv' /\ ArmsOverNothing'
  BY <1>20, Moved DEF InstallArms, InstallsOwnGate, CancelsOwnGate,
    ArmsOverNothing, Arming, files
<1>21. ASSUME NEW o \in Ops, InstallClears(o)
     PROVE  ManagerInv' /\ ArmsOverNothing'
  BY <1>21, Moved DEF InstallClears, InstallsOwnGate, CancelsOwnGate,
    ArmsOverNothing, Arming, files
<1>22. ASSUME NEW o \in Ops, SignalShutdown(o)
     PROVE  ManagerInv' /\ ArmsOverNothing'
  BY <1>22, Ended DEF SignalShutdown, InstallsOwnGate, CancelsOwnGate,
    ArmsOverNothing, Arming, files, ManagerTypeOK, Operations
<1>23. ASSUME Poll
     PROVE  ManagerInv' /\ ArmsOverNothing'
  BY <1>23 DEF Poll, InstallsOwnGate, CancelsOwnGate, ArmsOverNothing, Arming,
    files, ManagerTypeOK, Operations
<1>24. ASSUME AgentEnds
     PROVE  ManagerInv' /\ ArmsOverNothing'
  BY <1>24 DEF AgentEnds, AgentGone, Unused, InstallsOwnGate, CancelsOwnGate,
    ArmsOverNothing, Arming, files, ManagerTypeOK, Operations
<1>. QED
  BY <1>1, <1>2, <1>3, <1>4, <1>5, <1>6, <1>7, <1>8, <1>9, <1>10, <1>11,
    <1>12, <1>13, <1>14, <1>15, <1>16, <1>17, <1>18, <1>19, <1>20, <1>21,
    <1>22, <1>23, <1>24 DEF ManagerStep, Request, Task, Cancel, Install

\* The agent writes the marker of an update in one place.
LEMMA PendingKept ==
  ASSUME ManagerStep
  PROVE  pending' = pending \/ \E o \in Ops : InstallArms(o)
<1>1. ASSUME NEW o \in Ops, NEW kind \in Kinds, Begin(o, kind)
     PROVE  pending' = pending \/ \E q \in Ops : InstallArms(q)
  BY <1>1 DEF Begin, files
<1>2. ASSUME NEW o \in Ops, SpawnTask(o)
     PROVE  pending' = pending \/ \E q \in Ops : InstallArms(q)
  BY <1>2 DEF SpawnTask, files
<1>3. ASSUME NEW o \in Ops, Register(o)
     PROVE  pending' = pending \/ \E q \in Ops : InstallArms(q)
  BY <1>3 DEF Register, files
<1>4. ASSUME NEW o \in Ops, CheckEnds(o)
     PROVE  pending' = pending \/ \E q \in Ops : InstallArms(q)
  BY <1>4 DEF CheckEnds, files, TaskMoves
<1>5. ASSUME NEW o \in Ops, ResolveFails(o)
     PROVE  pending' = pending \/ \E q \in Ops : InstallArms(q)
  BY <1>5 DEF ResolveFails, files, TaskMoves
<1>6. ASSUME NEW o \in Ops, DownloadEnds(o)
     PROVE  pending' = pending \/ \E q \in Ops : InstallArms(q)
  BY <1>6 DEF DownloadEnds, files, TaskMoves
<1>7. ASSUME NEW o \in Ops, NEW tag \in Tags, Resolve(o, tag)
     PROVE  pending' = pending \/ \E q \in Ops : InstallArms(q)
  BY <1>7 DEF Resolve, files
<1>8. ASSUME NEW o \in Ops, RemoveStaged(o)
     PROVE  pending' = pending \/ \E q \in Ops : InstallArms(q)
  BY <1>8 DEF RemoveStaged, files, TaskMoves
<1>9. ASSUME NEW o \in Ops, CopyStaged(o)
     PROVE  pending' = pending \/ \E q \in Ops : InstallArms(q)
  BY <1>9 DEF CopyStaged, files, TaskMoves
<1>10. ASSUME NEW o \in Ops, PrepareFails(o)
     PROVE  pending' = pending \/ \E q \in Ops : InstallArms(q)
  BY <1>10 DEF PrepareFails, files, TaskMoves
<1>11. ASSUME NEW o \in Ops, MarkPrepared(o)
     PROVE  pending' = pending \/ \E q \in Ops : InstallArms(q)
  BY <1>11 DEF MarkPrepared, files, TaskMoves
<1>12. ASSUME NEW o \in Ops, DownloadReady(o)
     PROVE  pending' = pending \/ \E q \in Ops : InstallArms(q)
  BY <1>12 DEF DownloadReady, files, TaskMoves
<1>13. ASSUME NEW o \in Ops, Release(o)
     PROVE  pending' = pending \/ \E q \in Ops : InstallArms(q)
  BY <1>13 DEF Release, files
<1>14. ASSUME NEW o \in Ops, AbortLands(o)
     PROVE  pending' = pending \/ \E q \in Ops : InstallArms(q)
  BY <1>14 DEF AbortLands, files
<1>15. ASSUME NEW o \in Ops, CancelBegins(o)
     PROVE  pending' = pending \/ \E q \in Ops : InstallArms(q)
  BY <1>15 DEF CancelBegins, files
<1>16. ASSUME NEW o \in Ops, CancelEnds(o)
     PROVE  pending' = pending \/ \E q \in Ops : InstallArms(q)
  BY <1>16 DEF CancelEnds, files
<1>17. ASSUME NEW o \in Ops, CancelFindsNoTask(o)
     PROVE  pending' = pending \/ \E q \in Ops : InstallArms(q)
  BY <1>17 DEF CancelFindsNoTask, files
<1>18. ASSUME NEW o \in Ops, InstallRefused(o)
     PROVE  pending' = pending \/ \E q \in Ops : InstallArms(q)
  BY <1>18 DEF InstallRefused, files
<1>19. ASSUME NEW o \in Ops, InstallStarts(o)
     PROVE  pending' = pending \/ \E q \in Ops : InstallArms(q)
  BY <1>19 DEF InstallStarts, files
<1>20. ASSUME NEW o \in Ops, InstallArms(o)
     PROVE  pending' = pending \/ \E q \in Ops : InstallArms(q)
  BY <1>20
<1>21. ASSUME NEW o \in Ops, InstallClears(o)
     PROVE  pending' = pending \/ \E q \in Ops : InstallArms(q)
  BY <1>21 DEF InstallClears, files, TaskMoves
<1>22. ASSUME NEW o \in Ops, SignalShutdown(o)
     PROVE  pending' = pending \/ \E q \in Ops : InstallArms(q)
  BY <1>22 DEF SignalShutdown, files
<1>23. ASSUME Poll
     PROVE  pending' = pending \/ \E q \in Ops : InstallArms(q)
  BY <1>23 DEF Poll, files
<1>24. ASSUME AgentEnds
     PROVE  pending' = pending \/ \E q \in Ops : InstallArms(q)
  BY <1>24 DEF AgentEnds, files
<1>. QED
  BY <1>1, <1>2, <1>3, <1>4, <1>5, <1>6, <1>7, <1>8, <1>9, <1>10, <1>11,
    <1>12, <1>13, <1>14, <1>15, <1>16, <1>17, <1>18, <1>19, <1>20, <1>21,
    <1>22, <1>23, <1>24 DEF ManagerStep, Request, Task, Cancel, Install

LEMMA ArmsWithoutHelper ==
  ASSUME UnprovenInv, NEW o \in Ops, op[o].at = "arming"
  PROVE  helper.at = "none" /\ binary \in proven
BY DEF UnprovenInv, ArmsOverNothing, HandoffInv, HelperHasMarker, PhaseOf,
  UnprovenHasHelper

LEMMA UnprovenManager ==
  ASSUME UnprovenInv, Typed, Typed', ManagerStep, UNCHANGED handoffVars
  PROVE  ManagerInv' /\ ArmsOverNothing' /\ FreshTransactions' /\ HandoffInv'
<1>1. ManagerInv' /\ ArmsOverNothing'
  BY ManagerInvStep DEF UnprovenInv, TypeOK
<1>2. \A q \in Ops : op[q].at \in Used => op'[q].at \in Used
  BY UsedStays DEF UnprovenInv, TypeOK
<1>3. CASE pending' = pending
  <2>1. FreshTransactions'
    BY <1>2, <1>3 DEF UnprovenInv, FreshTransactions, handoffVars
  <2>2. HandoffInv'
    BY <1>3 DEF UnprovenInv, handoffVars, HandoffInv, HelperHasMarker,
      HelperKnowsBinary, LaunchedIsMarked, AckedIsProven, BackupsAreProven,
      UnprovenHasHelper
  <2>. QED  BY <1>1, <2>1, <2>2
<1>4. ASSUME NEW o \in Ops, InstallArms(o), pending' # pending
      PROVE  FreshTransactions' /\ HandoffInv'
  <2>1. op[o].at = "arming" /\ op'[o].at = "armed"
    BY <1>4, Moved DEF InstallArms, UnprovenInv, TypeOK
  <2>2. pending' = [tx |-> o, tag |-> op[o].tag, phase |-> "installing"]
    BY <1>4 DEF InstallArms
  <2>3. helper.at = "none" /\ binary \in proven
    BY <2>1, ArmsWithoutHelper
  <2>4. o \notin acks /\ \A l \in Launchers : launcher[l].tx # o
    BY <2>1 DEF UnprovenInv, FreshTransactions, Used
  <2>5. FreshTransactions'
    BY <1>2, <2>1, <2>2 DEF UnprovenInv, FreshTransactions, Used, handoffVars
  <2>6. HandoffInv'
    BY <2>2, <2>3, <2>4 DEF UnprovenInv, handoffVars, Swapped, Early,
      HandoffInv, HelperHasMarker, HelperKnowsBinary, LaunchedIsMarked,
      AckedIsProven, BackupsAreProven, UnprovenHasHelper
  <2>. QED  BY <2>5, <2>6
<1>. QED  BY <1>1, <1>3, <1>4, PendingKept

\* No operation goes back to before its transaction, or comes to write one.
OpsGoOn ==
  \A q \in Ops :
    /\ op[q].at \in Used => op'[q].at \in Used
    /\ op'[q].at = "arming" => op[q].at = "arming"

\* What every step of the launchers and the helper has to keep.
UnprovenGoal == FreshTransactions /\ ArmsOverNothing /\ HandoffInv

LEMMA LaunchersChange ==
  ASSUME UnprovenInv,
         OpsGoOn, UNCHANGED <<pending, binary, backups, acks, helper, proven>>,
         \A l \in Launchers :
           \/ launcher'[l].tx = 0
           \/ /\ launcher'[l].tx = launcher[l].tx
              /\ launcher'[l].version = launcher[l].version,
         deaths' \in {deaths, deaths + 1}
  PROVE  UnprovenGoal'
<1>0. deaths \in Nat
  BY UpdateHandoffAssumption DEF UnprovenInv, TypeOK, HandoffTypeOK
<1>1. FreshTransactions'
  BY UpdateFilesAssumption DEF UnprovenInv, FreshTransactions, Ops, OpsGoOn
<1>2. LaunchedIsMarked'
  BY DEF UnprovenInv, HandoffInv, LaunchedIsMarked
<1>3. ArmsOverNothing'
  BY DEF UnprovenInv, ArmsOverNothing, OpsGoOn
<1>4. UnprovenHasHelper'
  BY <1>0 DEF UnprovenInv, HandoffInv, UnprovenHasHelper
<1>. QED
  BY <1>1, <1>2, <1>3, <1>4 DEF UnprovenInv, UnprovenGoal, HandoffInv,
    HelperHasMarker, HelperKnowsBinary, LaunchedIsMarked, AckedIsProven,
    BackupsAreProven

LEMMA HandOverKeeps ==
  ASSUME UnprovenInv, NEW l \in Launchers, HandOver(l), OpsGoOn
  PROVE  UnprovenGoal'
<1>1. \A k \in Launchers : launcher'[k].tx \in {0, launcher[k].tx} /\
  (launcher'[k].tx # 0 => launcher'[k] = launcher[k])
  BY DEF HandOver, NotRunning, UnprovenInv, TypeOK, HandoffTypeOK
<1>2. FreshTransactions' /\ ArmsOverNothing'
  BY <1>1, UpdateFilesAssumption DEF HandOver, files, UnprovenInv,
    FreshTransactions, ArmsOverNothing, Ops, OpsGoOn
<1>3. HelperHasMarker' /\ HelperKnowsBinary' /\ UnprovenHasHelper'
  BY DEF HandOver, Waiting, files, UnprovenInv, HandoffInv, HelperHasMarker,
    HelperKnowsBinary, UnprovenHasHelper, PhaseOf, Early, Swapped
<1>4. LaunchedIsMarked' /\ AckedIsProven' /\ BackupsAreProven'
  BY <1>1 DEF HandOver, files, UnprovenInv, HandoffInv, LaunchedIsMarked,
    AckedIsProven, BackupsAreProven
<1>. QED  BY <1>2, <1>3, <1>4 DEF UnprovenGoal, HandoffInv

\* The helper that runs works on the transaction of the marker.
HelperAtWork ==
  /\ pending.tx = helper.tx /\ pending.tag = helper.tag
  /\ pending.phase \in PhaseOf(helper.at) /\ helper.at # "none"

\* What a step of the helper may do to the launchers.
LaunchersFollow ==
  \A l \in Launchers :
    \/ launcher'[l].tx = 0
    \/ launcher'[l] = launcher[l]
    \/ launcher'[l].tx = helper.tx /\ launcher'[l].version = helper.tag

LEMMA StartedIs ==
  ASSUME HandoffTypeOK, NEW l \in Launchers, NEW tx, Started(l, tx)
  PROVE  /\ launcher'[l].tx = tx /\ launcher'[l].version = binary
         /\ \A k \in Launchers \ {l} : launcher'[k] = launcher[k]
BY DEF Started, HandoffTypeOK

LEMMA HelperFrame ==
  ASSUME UnprovenInv, HelperAtWork, LaunchersFollow,
         op' = op, proven' = proven, acks' \subseteq acks,
         \/ pending' = pending
         \/ pending'.tx = pending.tx /\ pending'.tag = pending.tag
         \/ pending'.tx = 0
  PROVE  FreshTransactions' /\ ArmsOverNothing' /\ LaunchedIsMarked' /\
    AckedIsProven'
<1>1. 0 \notin Ops /\ 0 \notin acks
  BY UpdateFilesAssumption DEF UnprovenInv, TypeOK, HandoffTypeOK, Ops
<1>2. FreshTransactions'
  BY <1>1 DEF UnprovenInv, FreshTransactions, LaunchersFollow, HelperAtWork
<1>3. ArmsOverNothing'
  BY DEF UnprovenInv, ArmsOverNothing, HelperAtWork, PhaseOf
<1>4. LaunchedIsMarked'
  BY <1>1 DEF UnprovenInv, HandoffInv, LaunchedIsMarked, LaunchersFollow,
    HelperAtWork
<1>5. AckedIsProven'
  BY <1>1 DEF UnprovenInv, HandoffInv, AckedIsProven
<1>. QED  BY <1>2, <1>3, <1>4, <1>5

\* What the launchers and the helper do.
LEMMA UnprovenHandoff ==
  ASSUME UnprovenInv, Typed, UNCHANGED managerVars,
         HelperStep \/ \E l \in Launchers : LauncherStep(l)
  PROVE  UnprovenGoal'
<1>1. ASSUME NEW l \in Launchers, UserLaunches(l)
     PROVE  UnprovenGoal'
  BY <1>1, LaunchersChange DEF UserLaunches, Started, HandOverFails,
    NotRunning, files, TypeOK, UnprovenInv, HandoffTypeOK, LauncherStates,
    managerVars, OpsGoOn
<1>2. ASSUME NEW l \in Launchers, StartHandsOver(l)
     PROVE  UnprovenGoal'
  BY <1>2, HandOverKeeps DEF StartHandsOver, managerVars, OpsGoOn
<1>3. ASSUME NEW l \in Launchers, StartGoesOn(l)
     PROVE  UnprovenGoal'
  <2>1. CASE HandOverFails(l, "checked")
    BY <1>3, <2>1, LaunchersChange, HandOverFailsIs DEF files, TypeOK,
      UnprovenInv, managerVars, OpsGoOn
  <2>2. CASE launcher' = [launcher EXCEPT ![l].at = "checked"] /\ UNCHANGED
    <<files, binary, backups, acks, helper, proven, launches, deaths>>
    BY <1>3, <2>2, LaunchersChange DEF files, TypeOK, UnprovenInv,
      HandoffTypeOK, LauncherStates, managerVars, OpsGoOn
  <2>. QED  BY <1>3, <2>1, <2>2 DEF StartGoesOn
<1>4. ASSUME NEW l \in Launchers, SingleInstance(l)
     PROVE  UnprovenGoal'
  BY <1>4, LaunchersChange DEF SingleInstance, Started, HandOverFails,
    NotRunning, files, TypeOK, UnprovenInv, HandoffTypeOK, LauncherStates,
    managerVars, OpsGoOn
<1>5. ASSUME NEW l \in Launchers, SetupEnds(l)
     PROVE  UnprovenGoal'
  <2>0. op' = op /\ UNCHANGED <<files, binary, backups, helper, deaths>>
    BY <1>5 DEF SetupEnds, managerVars
  <2>1. \A k \in Launchers : launcher'[k].tx = launcher[k].tx /\
    launcher'[k].version = launcher[k].version
    BY <1>5 DEF SetupEnds, UnprovenInv, TypeOK, HandoffTypeOK, LauncherStates
  <2>2. acks' \subseteq acks \cup {pending.tx} /\ proven \subseteq proven'
    BY <1>5 DEF SetupEnds
  <2>3. pending.tx \in acks' => pending.tag \in proven'
    BY <1>5 DEF SetupEnds, Acknowledges, UnprovenInv, HandoffInv,
      LaunchedIsMarked, AckedIsProven
  <2>4. FreshTransactions' /\ ArmsOverNothing'
    BY <2>0, <2>1, <2>2 DEF files, UnprovenInv, FreshTransactions,
      ArmsOverNothing
  <2>5. HelperHasMarker' /\ HelperKnowsBinary' /\ UnprovenHasHelper' /\
    BackupsAreProven'
    BY <2>0, <2>2 DEF files, UnprovenInv, HandoffInv, HelperHasMarker,
      HelperKnowsBinary, UnprovenHasHelper, BackupsAreProven
  <2>6. LaunchedIsMarked' /\ AckedIsProven'
    BY <2>0, <2>1, <2>3 DEF files, LaunchedIsMarked, AckedIsProven,
      UnprovenInv, HandoffInv
  <2>. QED  BY <2>4, <2>5, <2>6 DEF UnprovenGoal, HandoffInv
<1>6. ASSUME NEW l \in Launchers, MonitorFindsNoPayload(l)
     PROVE  UnprovenGoal'
  <2>1. HandOverFails(l, "up")
    BY <1>6 DEF MonitorFindsNoPayload
  <2>. QED  BY <1>6, <2>1, LaunchersChange, HandOverFailsIs DEF files, TypeOK,
    UnprovenInv, managerVars, OpsGoOn
<1>7. ASSUME NEW l \in Launchers, LauncherDies(l)
     PROVE  UnprovenGoal'
  BY <1>7, LaunchersChange DEF LauncherDies, Started, HandOverFails,
    NotRunning, files, TypeOK, UnprovenInv, HandoffTypeOK, LauncherStates,
    managerVars, OpsGoOn
<1>8. ASSUME HelperApplies
     PROVE  UnprovenGoal'
  <2>1. HelperAtWork
    BY <1>8 DEF HelperApplies, HelperAt, HelperAtWork, UnprovenInv, HandoffInv,
      HelperHasMarker
  <2>2. pending'.tx = pending.tx /\ pending'.tag = pending.tag /\
    pending'.phase = "applying"
    BY <1>8, <2>1, MarksType DEF HelperApplies, HelperAtWork, Typed,
      HandoffTyped
  <2>3. LaunchersFollow
    BY <1>8 DEF HelperApplies, LaunchersFollow
  <2>4. FreshTransactions' /\ ArmsOverNothing' /\ LaunchedIsMarked' /\
    AckedIsProven'
    BY <1>8, <2>1, <2>2, <2>3, HelperFrame DEF HelperApplies, managerVars
  <2>5. HelperHasMarker'
    BY <1>8, <2>1, <2>2 DEF HelperApplies, HelperAt, Goes, HelperAtWork,
      NoHelper, HelperHasMarker, PhaseOf, Typed, HandoffTyped, HandoffTypeOK,
      HelperStates
  <2>6. HelperKnowsBinary' /\ BackupsAreProven'
    BY <1>8, <2>1 DEF HelperApplies, HelperAt, Goes, files, HelperAtWork,
      NoHelper, HelperKnowsBinary, UnprovenInv, HandoffInv, AckedIsProven,
      BackupsAreProven, UnprovenHasHelper, PhaseOf, Early, Swapped, Typed,
      HandoffTyped, HandoffTypeOK, HelperStates
  <2>7. UnprovenHasHelper'
    BY <1>8, <2>1, <2>2 DEF HelperApplies, HelperAt, files, HelperAtWork,
      HelperKnowsBinary, UnprovenInv, HandoffInv, BackupsAreProven,
      UnprovenHasHelper, PhaseOf, Early, Swapped
  <2>. QED  BY <2>4, <2>5, <2>6, <2>7 DEF UnprovenGoal, HandoffInv
<1>9. ASSUME HelperFailsEarly
     PROVE  UnprovenGoal'
  <2>1. HelperAtWork
    BY <1>9 DEF HelperFailsEarly, HelperAt, HelperAtWork, UnprovenInv,
      HandoffInv, HelperHasMarker
  <2>2. pending' = pending
    BY <1>9 DEF HelperFailsEarly, files
  <2>3. LaunchersFollow
    BY <1>9 DEF HelperFailsEarly, LaunchersFollow
  <2>4. FreshTransactions' /\ ArmsOverNothing' /\ LaunchedIsMarked' /\
    AckedIsProven'
    BY <1>9, <2>1, <2>2, <2>3, HelperFrame DEF HelperFailsEarly, managerVars
  <2>5. HelperHasMarker'
    BY <1>9, <2>1, <2>2 DEF HelperFailsEarly, HelperAt, Goes, HelperAtWork,
      NoHelper, HelperHasMarker, PhaseOf, Typed, HandoffTyped, HandoffTypeOK,
      HelperStates
  <2>6. HelperKnowsBinary' /\ BackupsAreProven'
    BY <1>9, <2>1 DEF HelperFailsEarly, HelperAt, Goes, files, HelperAtWork,
      NoHelper, HelperKnowsBinary, UnprovenInv, HandoffInv, AckedIsProven,
      BackupsAreProven, UnprovenHasHelper, PhaseOf, Early, Swapped, Typed,
      HandoffTyped, HandoffTypeOK, HelperStates
  <2>7. UnprovenHasHelper'
    BY <1>9, <2>1, <2>2 DEF HelperFailsEarly, HelperAt, files, HelperAtWork,
      HelperKnowsBinary, UnprovenInv, HandoffInv, BackupsAreProven,
      UnprovenHasHelper, PhaseOf, Early, Swapped
  <2>. QED  BY <2>4, <2>5, <2>6, <2>7 DEF UnprovenGoal, HandoffInv
<1>10. ASSUME HelperBacksUp
     PROVE  UnprovenGoal'
  <2>1. HelperAtWork
    BY <1>10 DEF HelperBacksUp, HelperAt, HelperAtWork, UnprovenInv,
      HandoffInv, HelperHasMarker
  <2>2. pending' = pending
    BY <1>10 DEF HelperBacksUp, files
  <2>3. LaunchersFollow
    BY <1>10 DEF HelperBacksUp, LaunchersFollow
  <2>4. FreshTransactions' /\ ArmsOverNothing' /\ LaunchedIsMarked' /\
    AckedIsProven'
    BY <1>10, <2>1, <2>2, <2>3, HelperFrame DEF HelperBacksUp, managerVars
  <2>5. HelperHasMarker'
    BY <1>10, <2>1, <2>2 DEF HelperBacksUp, HelperAt, Goes, HelperAtWork,
      NoHelper, HelperHasMarker, PhaseOf, Typed, HandoffTyped, HandoffTypeOK,
      HelperStates
  <2>6. \E b \in backups' : b.tx = helper.tx
    <3>1. [tx |-> helper.tx, version |-> binary] \in backups'
      BY <1>10 DEF HelperBacksUp
    <3>. QED  BY <3>1
  <2>7. binary \in proven /\ proven' = proven /\ binary' = binary
    BY <1>10 DEF HelperBacksUp, HelperAt, files, UnprovenInv, HandoffInv,
      HelperKnowsBinary, Early
  <2>8. helper'.at = "backedUp" /\ helper'.tx = helper.tx
    BY <1>10 DEF HelperBacksUp, Goes, Typed, HandoffTyped, HandoffTypeOK,
      HelperStates
  <2>9. HelperKnowsBinary'
    BY <2>6, <2>7, <2>8 DEF HelperKnowsBinary, Early, Swapped
  <2>10. BackupsAreProven'
    BY <1>10, <2>7 DEF HelperBacksUp, UnprovenInv, HandoffInv, BackupsAreProven
  <2>11. UnprovenHasHelper'
    BY <2>7 DEF UnprovenHasHelper
  <2>. QED  BY <2>4, <2>5, <2>9, <2>10, <2>11 DEF UnprovenGoal, HandoffInv
<1>11. ASSUME HelperSwaps
     PROVE  UnprovenGoal'
  <2>1. HelperAtWork
    BY <1>11 DEF HelperSwaps, HelperAt, HelperAtWork, UnprovenInv, HandoffInv,
      HelperHasMarker
  <2>2. pending' = pending
    BY <1>11 DEF HelperSwaps, files
  <2>3. LaunchersFollow
    BY <1>11 DEF HelperSwaps, LaunchersFollow
  <2>4. FreshTransactions' /\ ArmsOverNothing' /\ LaunchedIsMarked' /\
    AckedIsProven'
    BY <1>11, <2>1, <2>2, <2>3, HelperFrame DEF HelperSwaps, managerVars
  <2>5. HelperHasMarker'
    BY <1>11, <2>1, <2>2 DEF HelperSwaps, HelperAt, Goes, HelperAtWork,
      NoHelper, HelperHasMarker, PhaseOf, Typed, HandoffTyped, HandoffTypeOK,
      HelperStates
  <2>6. HelperKnowsBinary' /\ BackupsAreProven'
    BY <1>11, <2>1 DEF HelperSwaps, HelperAt, Goes, files, HelperAtWork,
      NoHelper, HelperKnowsBinary, UnprovenInv, HandoffInv, AckedIsProven,
      BackupsAreProven, UnprovenHasHelper, PhaseOf, Early, Swapped, Typed,
      HandoffTyped, HandoffTypeOK, HelperStates
  <2>7. UnprovenHasHelper'
    <3>1. helper'.at = "swapped" /\ helper'.tx = helper.tx
      BY <1>11 DEF HelperSwaps, Goes, Typed, HandoffTyped, HandoffTypeOK,
        HelperStates
    <3>. QED
      BY <1>11, <2>1, <2>2, <3>1 DEF HelperSwaps, HelperAt, files,
        HelperAtWork, HelperKnowsBinary, UnprovenInv, HandoffInv,
        BackupsAreProven, UnprovenHasHelper, PhaseOf, Early, Swapped
  <2>. QED  BY <2>4, <2>5, <2>6, <2>7 DEF UnprovenGoal, HandoffInv
<1>12. ASSUME NEW l \in Launchers, HelperLaunches(l)
     PROVE  UnprovenGoal'
  <2>1. HelperAtWork
    BY <1>12 DEF HelperLaunches, HelperAt, HelperAtWork, UnprovenInv,
      HandoffInv, HelperHasMarker
  <2>2. pending' = pending
    BY <1>12 DEF HelperLaunches, files
  <2>3. LaunchersFollow
    BY <1>12, StartedIs, Zenon DEF HelperLaunches, HelperAt, LaunchersFollow,
      UnprovenInv, TypeOK, HandoffInv, HelperKnowsBinary, Swapped
  <2>4. FreshTransactions' /\ ArmsOverNothing' /\ LaunchedIsMarked' /\
    AckedIsProven'
    BY <1>12, <2>1, <2>2, <2>3, HelperFrame DEF HelperLaunches, managerVars
  <2>5. HelperHasMarker'
    BY <1>12, <2>1, <2>2 DEF HelperLaunches, HelperAt, Goes, HelperAtWork,
      NoHelper, HelperHasMarker, PhaseOf, Typed, HandoffTyped, HandoffTypeOK,
      HelperStates
  <2>6. HelperKnowsBinary' /\ BackupsAreProven'
    BY <1>12, <2>1 DEF HelperLaunches, HelperAt, Goes, files, HelperAtWork,
      NoHelper, HelperKnowsBinary, UnprovenInv, HandoffInv, AckedIsProven,
      BackupsAreProven, UnprovenHasHelper, PhaseOf, Early, Swapped, Typed,
      HandoffTyped, HandoffTypeOK, HelperStates
  <2>7. UnprovenHasHelper'
    BY <1>12, <2>1, <2>2 DEF HelperLaunches, HelperAt, files, HelperAtWork,
      HelperKnowsBinary, UnprovenInv, HandoffInv, BackupsAreProven,
      UnprovenHasHelper, PhaseOf, Early, Swapped
  <2>. QED  BY <2>4, <2>5, <2>6, <2>7 DEF UnprovenGoal, HandoffInv
<1>13. ASSUME HelperCannotLaunch
     PROVE  UnprovenGoal'
  <2>1. HelperAtWork
    BY <1>13 DEF HelperCannotLaunch, HelperAt, HelperAtWork, UnprovenInv,
      HandoffInv, HelperHasMarker
  <2>2. pending' = pending
    BY <1>13 DEF HelperCannotLaunch, files
  <2>3. LaunchersFollow
    BY <1>13 DEF HelperCannotLaunch, LaunchersFollow
  <2>4. FreshTransactions' /\ ArmsOverNothing' /\ LaunchedIsMarked' /\
    AckedIsProven'
    BY <1>13, <2>1, <2>2, <2>3, HelperFrame DEF HelperCannotLaunch, managerVars
  <2>5. HelperHasMarker'
    BY <1>13, <2>1, <2>2 DEF HelperCannotLaunch, HelperAt, Goes, HelperAtWork,
      NoHelper, HelperHasMarker, PhaseOf, Typed, HandoffTyped, HandoffTypeOK,
      HelperStates
  <2>6. HelperKnowsBinary' /\ BackupsAreProven'
    BY <1>13, <2>1 DEF HelperCannotLaunch, HelperAt, Goes, files,
      HelperAtWork, NoHelper, HelperKnowsBinary, UnprovenInv, HandoffInv,
      AckedIsProven, BackupsAreProven, UnprovenHasHelper, PhaseOf, Early,
      Swapped, Typed, HandoffTyped, HandoffTypeOK, HelperStates
  <2>7. UnprovenHasHelper'
    <3>1. helper'.at = "restoring" /\ helper'.tx = helper.tx
      BY <1>13 DEF HelperCannotLaunch, Goes, Typed, HandoffTyped, HandoffTypeOK,
        HelperStates
    <3>. QED
      BY <1>13, <2>1, <2>2, <3>1 DEF HelperCannotLaunch, HelperAt, files,
        HelperAtWork, HelperKnowsBinary, UnprovenInv, HandoffInv,
        BackupsAreProven, UnprovenHasHelper, PhaseOf, Early, Swapped
  <2>. QED  BY <2>4, <2>5, <2>6, <2>7 DEF UnprovenGoal, HandoffInv
<1>14. ASSUME HelperSeesAck
     PROVE  UnprovenGoal'
  <2>1. HelperAtWork
    BY <1>14 DEF HelperSeesAck, HelperAt, HelperAtWork, UnprovenInv,
      HandoffInv, HelperHasMarker
  <2>2. pending' = pending
    BY <1>14 DEF HelperSeesAck, files
  <2>3. LaunchersFollow
    BY <1>14 DEF HelperSeesAck, LaunchersFollow
  <2>4. FreshTransactions' /\ ArmsOverNothing' /\ LaunchedIsMarked' /\
    AckedIsProven'
    BY <1>14, <2>1, <2>2, <2>3, HelperFrame DEF HelperSeesAck, managerVars
  <2>5. HelperHasMarker'
    BY <1>14, <2>1, <2>2 DEF HelperSeesAck, HelperAt, Goes, HelperAtWork,
      NoHelper, HelperHasMarker, PhaseOf, Typed, HandoffTyped, HandoffTypeOK,
      HelperStates
  <2>6. HelperKnowsBinary' /\ BackupsAreProven'
    BY <1>14, <2>1 DEF HelperSeesAck, HelperAt, Goes, files, HelperAtWork,
      NoHelper, HelperKnowsBinary, UnprovenInv, HandoffInv, AckedIsProven,
      BackupsAreProven, UnprovenHasHelper, PhaseOf, Early, Swapped, Typed,
      HandoffTyped, HandoffTypeOK, HelperStates
  <2>7. UnprovenHasHelper'
    <3>1. helper'.at = "committing" /\ helper'.tx = helper.tx
      BY <1>14 DEF HelperSeesAck, Goes, Typed, HandoffTyped, HandoffTypeOK,
        HelperStates
    <3>. QED
      BY <1>14, <2>1, <2>2, <3>1 DEF HelperSeesAck, HelperAt, files,
        HelperAtWork, HelperKnowsBinary, UnprovenInv, HandoffInv,
        AckedIsProven, UnprovenHasHelper, PhaseOf, Early, Swapped
  <2>. QED  BY <2>4, <2>5, <2>6, <2>7 DEF UnprovenGoal, HandoffInv
<1>15. ASSUME HelperGivesUp
     PROVE  UnprovenGoal'
  <2>1. HelperAtWork
    BY <1>15 DEF HelperGivesUp, HelperAt, HelperAtWork, UnprovenInv,
      HandoffInv, HelperHasMarker
  <2>2. pending' = pending
    BY <1>15 DEF HelperGivesUp, files
  <2>3. LaunchersFollow
    BY <1>15 DEF HelperGivesUp, KillChild, NotRunning, LaunchersFollow,
      UnprovenInv, TypeOK, HandoffTypeOK
  <2>4. FreshTransactions' /\ ArmsOverNothing' /\ LaunchedIsMarked' /\
    AckedIsProven'
    BY <1>15, <2>1, <2>2, <2>3, HelperFrame DEF HelperGivesUp, managerVars
  <2>5. HelperHasMarker'
    BY <1>15, <2>1, <2>2 DEF HelperGivesUp, HelperAt, Goes, HelperAtWork,
      NoHelper, HelperHasMarker, PhaseOf, Typed, HandoffTyped, HandoffTypeOK,
      HelperStates
  <2>6. HelperKnowsBinary' /\ BackupsAreProven'
    BY <1>15, <2>1 DEF HelperGivesUp, HelperAt, Goes, files, HelperAtWork,
      NoHelper, HelperKnowsBinary, UnprovenInv, HandoffInv, AckedIsProven,
      BackupsAreProven, UnprovenHasHelper, PhaseOf, Early, Swapped, Typed,
      HandoffTyped, HandoffTypeOK, HelperStates
  <2>7. UnprovenHasHelper'
    <3>1. helper'.at = "restoring" /\ helper'.tx = helper.tx
      BY <1>15 DEF HelperGivesUp, Goes, Typed, HandoffTyped, HandoffTypeOK,
        HelperStates
    <3>. QED
      BY <1>15, <2>1, <2>2, <3>1 DEF HelperGivesUp, HelperAt, files,
        HelperAtWork, HelperKnowsBinary, UnprovenInv, HandoffInv,
        BackupsAreProven, UnprovenHasHelper, PhaseOf, Early, Swapped
  <2>. QED  BY <2>4, <2>5, <2>6, <2>7 DEF UnprovenGoal, HandoffInv
<1>16. ASSUME HelperCommits
     PROVE  UnprovenGoal'
  <2>1. HelperAtWork
    BY <1>16 DEF HelperCommits, HelperAt, HelperAtWork, UnprovenInv,
      HandoffInv, HelperHasMarker
  <2>2. pending'.tx = pending.tx /\ pending'.tag = pending.tag /\
    pending'.phase = "committed"
    BY <1>16, <2>1, MarksType DEF HelperCommits, HelperAtWork, Typed,
      HandoffTyped
  <2>3. LaunchersFollow
    BY <1>16 DEF HelperCommits, LaunchersFollow
  <2>4. FreshTransactions' /\ ArmsOverNothing' /\ LaunchedIsMarked' /\
    AckedIsProven'
    BY <1>16, <2>1, <2>2, <2>3, HelperFrame DEF HelperCommits, managerVars
  <2>5. HelperHasMarker'
    BY <1>16, <2>1, <2>2 DEF HelperCommits, HelperAt, Goes, HelperAtWork,
      NoHelper, HelperHasMarker, PhaseOf, Typed, HandoffTyped, HandoffTypeOK,
      HelperStates
  <2>6. HelperKnowsBinary' /\ BackupsAreProven'
    BY <1>16, <2>1 DEF HelperCommits, HelperAt, Goes, files, HelperAtWork,
      NoHelper, HelperKnowsBinary, UnprovenInv, HandoffInv, AckedIsProven,
      BackupsAreProven, UnprovenHasHelper, PhaseOf, Early, Swapped, Typed,
      HandoffTyped, HandoffTypeOK, HelperStates
  <2>7. UnprovenHasHelper'
    BY <1>16, <2>1, <2>2 DEF HelperCommits, HelperAt, files, HelperAtWork,
      HelperKnowsBinary, UnprovenInv, HandoffInv, BackupsAreProven,
      UnprovenHasHelper, PhaseOf, Early, Swapped
  <2>. QED  BY <2>4, <2>5, <2>6, <2>7 DEF UnprovenGoal, HandoffInv
<1>17. ASSUME HelperDropsBackup
     PROVE  UnprovenGoal'
  <2>1. HelperAtWork
    BY <1>17 DEF HelperDropsBackup, HelperAt, HelperAtWork, UnprovenInv,
      HandoffInv, HelperHasMarker
  <2>2. pending' = pending
    BY <1>17 DEF HelperDropsBackup, files
  <2>3. LaunchersFollow
    BY <1>17 DEF HelperDropsBackup, LaunchersFollow
  <2>4. FreshTransactions' /\ ArmsOverNothing' /\ LaunchedIsMarked' /\
    AckedIsProven'
    BY <1>17, <2>1, <2>2, <2>3, HelperFrame DEF HelperDropsBackup, managerVars
  <2>5. HelperHasMarker'
    BY <1>17, <2>1, <2>2 DEF HelperDropsBackup, HelperAt, Goes, HelperAtWork,
      NoHelper, HelperHasMarker, PhaseOf, Typed, HandoffTyped, HandoffTypeOK,
      HelperStates
  <2>6. HelperKnowsBinary' /\ BackupsAreProven'
    BY <1>17, <2>1 DEF HelperDropsBackup, HelperAt, Goes, files, HelperAtWork,
      NoHelper, HelperKnowsBinary, UnprovenInv, HandoffInv, AckedIsProven,
      BackupsAreProven, UnprovenHasHelper, PhaseOf, Early, Swapped, Typed,
      HandoffTyped, HandoffTypeOK, HelperStates
  <2>7. UnprovenHasHelper'
    BY <1>17, <2>1, <2>2 DEF HelperDropsBackup, HelperAt, files, HelperAtWork,
      HelperKnowsBinary, UnprovenInv, HandoffInv, BackupsAreProven,
      UnprovenHasHelper, PhaseOf, Early, Swapped
  <2>. QED  BY <2>4, <2>5, <2>6, <2>7 DEF UnprovenGoal, HandoffInv
<1>18. ASSUME HelperCleans
     PROVE  UnprovenGoal'
  <2>1. HelperAtWork
    BY <1>18 DEF HelperCleans, HelperAt, HelperAtWork, UnprovenInv, HandoffInv,
      HelperHasMarker
  <2>2. pending' = pending
    BY <1>18 DEF HelperCleans, files
  <2>3. LaunchersFollow
    BY <1>18 DEF HelperCleans, LaunchersFollow
  <2>4. FreshTransactions' /\ ArmsOverNothing' /\ LaunchedIsMarked' /\
    AckedIsProven'
    BY <1>18, <2>1, <2>2, <2>3, HelperFrame DEF HelperCleans, managerVars
  <2>5. HelperHasMarker'
    BY <1>18, <2>1, <2>2 DEF HelperCleans, HelperAt, Goes, HelperAtWork,
      NoHelper, HelperHasMarker, PhaseOf, Typed, HandoffTyped, HandoffTypeOK,
      HelperStates
  <2>6. HelperKnowsBinary' /\ BackupsAreProven'
    BY <1>18, <2>1 DEF HelperCleans, HelperAt, Goes, files, HelperAtWork,
      NoHelper, HelperKnowsBinary, UnprovenInv, HandoffInv, AckedIsProven,
      BackupsAreProven, UnprovenHasHelper, PhaseOf, Early, Swapped, Typed,
      HandoffTyped, HandoffTypeOK, HelperStates
  <2>7. UnprovenHasHelper'
    BY <1>18, <2>1, <2>2 DEF HelperCleans, HelperAt, files, HelperAtWork,
      HelperKnowsBinary, UnprovenInv, HandoffInv, BackupsAreProven,
      UnprovenHasHelper, PhaseOf, Early, Swapped
  <2>. QED  BY <2>4, <2>5, <2>6, <2>7 DEF UnprovenGoal, HandoffInv
<1>19. ASSUME HelperDropsMarker
     PROVE  UnprovenGoal'
  <2>1. HelperAtWork
    BY <1>19 DEF HelperDropsMarker, HelperAt, HelperAtWork, UnprovenInv,
      HandoffInv, HelperHasMarker
  <2>2. pending'.tx = 0 /\ pending'.phase = "none"
    BY <1>19 DEF HelperDropsMarker, NoMarker
  <2>3. LaunchersFollow
    BY <1>19 DEF HelperDropsMarker, LaunchersFollow
  <2>4. FreshTransactions' /\ ArmsOverNothing' /\ LaunchedIsMarked' /\
    AckedIsProven'
    BY <1>19, <2>1, <2>2, <2>3, HelperFrame DEF HelperDropsMarker, managerVars
  <2>5. HelperHasMarker'
    BY <1>19, <2>1, <2>2 DEF HelperDropsMarker, HelperAt, Goes, HelperAtWork,
      NoHelper, HelperHasMarker, PhaseOf, Typed, HandoffTyped, HandoffTypeOK,
      HelperStates
  <2>6. HelperKnowsBinary' /\ BackupsAreProven'
    BY <1>19, <2>1 DEF HelperDropsMarker, HelperAt, Goes, files, HelperAtWork,
      NoHelper, HelperKnowsBinary, UnprovenInv, HandoffInv, AckedIsProven,
      BackupsAreProven, UnprovenHasHelper, PhaseOf, Early, Swapped, Typed,
      HandoffTyped, HandoffTypeOK, HelperStates
  <2>7. UnprovenHasHelper'
    BY <1>19, <2>1, <2>2 DEF HelperDropsMarker, HelperAt, files, HelperAtWork,
      HelperKnowsBinary, UnprovenInv, HandoffInv, BackupsAreProven,
      UnprovenHasHelper, PhaseOf, Early, Swapped
  <2>. QED  BY <2>4, <2>5, <2>6, <2>7 DEF UnprovenGoal, HandoffInv
<1>20. ASSUME HelperRestores
     PROVE  UnprovenGoal'
  <2>1. HelperAtWork
    BY <1>20 DEF HelperRestores, HelperAt, HelperAtWork, UnprovenInv,
      HandoffInv, HelperHasMarker
  <2>2. pending' = pending
    BY <1>20 DEF HelperRestores, files
  <2>3. LaunchersFollow
    BY <1>20 DEF HelperRestores, LaunchersFollow
  <2>4. FreshTransactions' /\ ArmsOverNothing' /\ LaunchedIsMarked' /\
    AckedIsProven'
    BY <1>20, <2>1, <2>2, <2>3, HelperFrame DEF HelperRestores, managerVars
  <2>5. HelperHasMarker'
    BY <1>20, <2>1, <2>2 DEF HelperRestores, HelperAt, Goes, HelperAtWork,
      NoHelper, HelperHasMarker, PhaseOf, Typed, HandoffTyped, HandoffTypeOK,
      HelperStates
  <2>6. HelperKnowsBinary' /\ BackupsAreProven'
    BY <1>20, <2>1 DEF HelperRestores, HelperAt, Goes, files, HelperAtWork,
      NoHelper, HelperKnowsBinary, UnprovenInv, HandoffInv, AckedIsProven,
      BackupsAreProven, UnprovenHasHelper, PhaseOf, Early, Swapped, Typed,
      HandoffTyped, HandoffTypeOK, HelperStates
  <2>7. UnprovenHasHelper'
    BY <1>20, <2>1, <2>2 DEF HelperRestores, HelperAt, files, HelperAtWork,
      HelperKnowsBinary, UnprovenInv, HandoffInv, BackupsAreProven,
      UnprovenHasHelper, PhaseOf, Early, Swapped
  <2>. QED  BY <2>4, <2>5, <2>6, <2>7 DEF UnprovenGoal, HandoffInv
<1>21. ASSUME HelperRelaunches
     PROVE  UnprovenGoal'
  <2>1. HelperAtWork
    BY <1>21 DEF HelperRelaunches, HelperAt, HelperAtWork, UnprovenInv,
      HandoffInv, HelperHasMarker
  <2>2. pending' = pending
    BY <1>21 DEF HelperRelaunches, files
  <2>3. LaunchersFollow
    BY <1>21, StartedIs, Zenon DEF HelperRelaunches, HelperAt,
      LaunchersFollow, UnprovenInv, TypeOK, HandoffInv, HelperKnowsBinary,
      Swapped
  <2>4. FreshTransactions' /\ ArmsOverNothing' /\ LaunchedIsMarked' /\
    AckedIsProven'
    BY <1>21, <2>1, <2>2, <2>3, HelperFrame DEF HelperRelaunches, managerVars
  <2>5. HelperHasMarker'
    BY <1>21, <2>1, <2>2 DEF HelperRelaunches, HelperAt, Goes, HelperAtWork,
      NoHelper, HelperHasMarker, PhaseOf, Typed, HandoffTyped, HandoffTypeOK,
      HelperStates
  <2>6. HelperKnowsBinary' /\ BackupsAreProven'
    BY <1>21, <2>1 DEF HelperRelaunches, HelperAt, Goes, files, HelperAtWork,
      NoHelper, HelperKnowsBinary, UnprovenInv, HandoffInv, AckedIsProven,
      BackupsAreProven, UnprovenHasHelper, PhaseOf, Early, Swapped, Typed,
      HandoffTyped, HandoffTypeOK, HelperStates
  <2>7. UnprovenHasHelper'
    BY <1>21, <2>1, <2>2 DEF HelperRelaunches, HelperAt, files, HelperAtWork,
      HelperKnowsBinary, UnprovenInv, HandoffInv, BackupsAreProven,
      UnprovenHasHelper, PhaseOf, Early, Swapped
  <2>. QED  BY <2>4, <2>5, <2>6, <2>7 DEF UnprovenGoal, HandoffInv
<1>22. ASSUME HelperMarksFailed
     PROVE  UnprovenGoal'
  <2>1. HelperAtWork
    BY <1>22 DEF HelperMarksFailed, HelperAt, HelperAtWork, UnprovenInv,
      HandoffInv, HelperHasMarker
  <2>2. pending'.tx = pending.tx /\ pending'.tag = pending.tag /\
    pending'.phase = "failed"
    BY <1>22, <2>1, MarksType DEF HelperMarksFailed, HelperAtWork, Typed,
      HandoffTyped
  <2>3. LaunchersFollow
    BY <1>22 DEF HelperMarksFailed, LaunchersFollow
  <2>4. FreshTransactions' /\ ArmsOverNothing' /\ LaunchedIsMarked' /\
    AckedIsProven'
    BY <1>22, <2>1, <2>2, <2>3, HelperFrame DEF HelperMarksFailed, managerVars
  <2>5. HelperHasMarker'
    BY <1>22, <2>1, <2>2 DEF HelperMarksFailed, HelperAt, Goes, HelperAtWork,
      NoHelper, HelperHasMarker, PhaseOf, Typed, HandoffTyped, HandoffTypeOK,
      HelperStates
  <2>6. HelperKnowsBinary' /\ BackupsAreProven'
    BY <1>22, <2>1 DEF HelperMarksFailed, HelperAt, Goes, files, HelperAtWork,
      NoHelper, HelperKnowsBinary, UnprovenInv, HandoffInv, AckedIsProven,
      BackupsAreProven, UnprovenHasHelper, PhaseOf, Early, Swapped, Typed,
      HandoffTyped, HandoffTypeOK, HelperStates
  <2>7. UnprovenHasHelper'
    BY <1>22, <2>1, <2>2 DEF HelperMarksFailed, HelperAt, files, HelperAtWork,
      HelperKnowsBinary, UnprovenInv, HandoffInv, BackupsAreProven,
      UnprovenHasHelper, PhaseOf, Early, Swapped
  <2>. QED  BY <2>4, <2>5, <2>6, <2>7 DEF UnprovenGoal, HandoffInv
<1>23. ASSUME HelperDies
     PROVE  UnprovenGoal'
  <2>1. HelperAtWork
    BY <1>23 DEF HelperDies, HelperAt, HelperAtWork, UnprovenInv, HandoffInv,
      HelperHasMarker
  <2>2. pending' = pending
    BY <1>23 DEF HelperDies, files
  <2>3. LaunchersFollow
    BY <1>23 DEF HelperDies, LaunchersFollow
  <2>4. FreshTransactions' /\ ArmsOverNothing' /\ LaunchedIsMarked' /\
    AckedIsProven'
    BY <1>23, <2>1, <2>2, <2>3, HelperFrame DEF HelperDies, managerVars
  <2>5. HelperHasMarker'
    BY <1>23, <2>1, <2>2 DEF HelperDies, HelperAt, Goes, HelperAtWork,
      NoHelper, HelperHasMarker, PhaseOf, Typed, HandoffTyped, HandoffTypeOK,
      HelperStates
  <2>6. HelperKnowsBinary' /\ BackupsAreProven'
    BY <1>23, <2>1 DEF HelperDies, HelperAt, Goes, files, HelperAtWork,
      NoHelper, HelperKnowsBinary, UnprovenInv, HandoffInv, AckedIsProven,
      BackupsAreProven, UnprovenHasHelper, PhaseOf, Early, Swapped, Typed,
      HandoffTyped, HandoffTypeOK, HelperStates
  <2>7. UnprovenHasHelper'
    <3>1. deaths' > 0
      BY <1>23, UpdateHandoffAssumption
      DEF HelperDies, UnprovenInv, TypeOK, HandoffTypeOK
    <3>2. \A c \in backups : c.tx # 0
      BY UpdateFilesAssumption
      DEF UnprovenInv, TypeOK, HandoffTypeOK, Backups, Ops
    <3>3. helper'.tx = 0
      BY <1>23 DEF HelperDies, NoHelper
    <3>. QED
      BY <1>23, <2>2, <3>1, <3>2, <3>3 DEF HelperDies, UnprovenInv,
        HandoffInv, UnprovenHasHelper
  <2>. QED  BY <2>4, <2>5, <2>6, <2>7 DEF UnprovenGoal, HandoffInv
<1>. QED
  BY <1>1, <1>2, <1>3, <1>4, <1>5, <1>6, <1>7, <1>8, <1>9, <1>10, <1>11,
    <1>12, <1>13, <1>14, <1>15, <1>16, <1>17, <1>18, <1>19, <1>20, <1>21,
    <1>22, <1>23 DEF HelperStep, LauncherStep

LEMMA UnprovenStep == UnprovenInv /\ Typed /\ [Next]_vars => UnprovenInv'
<1>. SUFFICES ASSUME UnprovenInv, Typed, [Next]_vars PROVE UnprovenInv'
  OBVIOUS
<1>0. Typed' /\ TypeOK'
  BY TypeStep DEF Typed, ManagerTyped, HandoffTyped, TypeOK
<1>1. CASE ManagerStep /\ UNCHANGED handoffVars
  BY <1>0, <1>1, UnprovenManager DEF UnprovenInv
<1>2. CASE (HelperStep \/ \E l \in Launchers : LauncherStep(l)) /\ UNCHANGED
  managerVars
  <2>1. UnprovenGoal'
    BY <1>2, UnprovenHandoff
  <2>2. ManagerInv'
    BY <1>2 DEF managerVars, UnprovenInv, ManagerInv, InstallsOwnGate,
      CancelsOwnGate
  <2>. QED  BY <1>0, <2>1, <2>2 DEF UnprovenInv, UnprovenGoal
<1>3. ASSUME NEW l \in Launchers, LauncherStartsAgent(l) PROVE UnprovenInv'
  <2>1. UNCHANGED <<op, gate, cancelling, pending, handoffVars>>
    BY <1>3 DEF LauncherStartsAgent, AgentStarts
  <2>. QED
    BY <1>0, <2>1 DEF UnprovenInv, ManagerInv, InstallsOwnGate, CancelsOwnGate,
      ArmsOverNothing, FreshTransactions, handoffVars, HandoffInv,
      HelperHasMarker, HelperKnowsBinary, LaunchedIsMarked, AckedIsProven,
      BackupsAreProven, UnprovenHasHelper
<1>4. ASSUME NEW l \in Launchers, MonitorApplies(l) PROVE UnprovenInv'
  <2>1. ManagerInv' /\ OpsGoOn
    <3>1. CASE UNCHANGED managerVars
      BY <3>1 DEF managerVars, UnprovenInv, ManagerInv, InstallsOwnGate,
        CancelsOwnGate, OpsGoOn
    <3>2. CASE AgentGone
      BY <3>2, UpdateManagerAssumption DEF AgentGone, Unused, Kinds,
        ManagerInv, InstallsOwnGate, CancelsOwnGate, Arming, OpsGoOn, Used
    <3>. QED  BY <1>4, <3>1, <3>2 DEF MonitorApplies
  <2>2. CASE HandOver(l)
    BY <1>0, <2>1, <2>2, HandOverKeeps DEF UnprovenInv, UnprovenGoal
  <2>3. CASE HandOverFails(l, "up")
    <3>1. UnprovenGoal'
      BY <2>1, <2>3, LaunchersChange, HandOverFailsIs DEF files, UnprovenInv,
        TypeOK
    <3>. QED  BY <1>0, <2>1, <3>1 DEF UnprovenInv, UnprovenGoal
  <2>. QED  BY <1>4, <2>2, <2>3 DEF MonitorApplies, MonitorHandsOver,
    MonitorSpawnFails
<1>5. CASE UNCHANGED vars
  BY <1>0, <1>5 DEF vars, files, managerVars, handoffVars, UnprovenInv,
    ManagerInv, InstallsOwnGate, CancelsOwnGate, ArmsOverNothing,
    FreshTransactions, HandoffInv, HelperHasMarker, HelperKnowsBinary,
    LaunchedIsMarked, AckedIsProven, BackupsAreProven, UnprovenHasHelper
<1>. QED  BY <1>1, <1>2, <1>3, <1>4, <1>5 DEF Next

LEMMA UnprovenInit == Init => UnprovenInv
<1>. SUFFICES ASSUME Init PROVE UnprovenInv
  OBVIOUS
<1>1. TypeOK
  BY TypeInit DEF Typed, ManagerTyped, HandoffTyped, TypeOK
<1>2. ManagerInv /\ ArmsOverNothing
  BY UpdateManagerAssumption DEF Init, ManagerInit, ManagerInv,
    InstallsOwnGate, CancelsOwnGate, ArmsOverNothing, Unused, Arming, Kinds
<1>3. FreshTransactions
  BY UpdateFilesAssumption DEF Init, FilesInit, HandoffInit,
    FreshTransactions, NoMarker, NotRunning, Ops
<1>4. HandoffInv
  BY DEF Init, FilesInit, HandoffInit, NoMarker, NotRunning, NoHelper, Early,
    Swapped, HandoffInv, HelperHasMarker, HelperKnowsBinary, LaunchedIsMarked,
    AckedIsProven, BackupsAreProven, UnprovenHasHelper
<1>. QED  BY <1>1, <1>2, <1>3, <1>4 DEF UnprovenInv

\* A launcher that was never seen to work stands only under a marker that says it
\* is being applied, beside the backup of one that was; its helper, while it
\* lives, is about to start it, waits for it or rolls back, and it has none only
\* after a death. So a new transaction cannot start over it, and the helper of a
\* restore finds what to put back. That somebody restores after the helper's
\* death is not said, and nobody does.
THEOREM UnprovenCorrect == Spec => []UnprovenHasHelper
<1>1. Init => Typed /\ UnprovenInv
  BY TypeInit, UnprovenInit
<1>2. Typed /\ UnprovenInv /\ [Next]_vars => (Typed /\ UnprovenInv)'
  BY TypeStep, UnprovenStep
<1>3. UnprovenInv => UnprovenHasHelper
  BY DEF UnprovenInv, HandoffInv
<1>. QED  BY <1>1, <1>2, <1>3, PTL DEF Spec

------------------------------------------------------------------------------

\* No step of the agent gives the gate of a working operation away, as long as
\* none overtakes the registration of a handle.
LEMMA GateManager ==
  ASSUME ManagerTypeOK, GateInv, AgentDown, ManagerStep
  PROVE  GateInv' /\ AgentDown'
<1>. USE UpdateManagerAssumption
<1>1. ASSUME NEW o \in Ops, NEW kind \in Kinds, Begin(o, kind)
     PROVE  GateInv' /\ AgentDown'
  BY <1>1, UpdateManagerAssumption DEF Begin, Unused, files, GateInv, Kinds,
    OperationOwned, Working, Live, AgentDown, ManagerTypeOK, Operations
<1>2. ASSUME NEW o \in Ops, SpawnTask(o)
     PROVE  GateInv' /\ AgentDown'
  BY <1>2 DEF SpawnTask, files, GateInv, OperationOwned, Working, Live,
    AgentDown, ManagerTypeOK, Operations
<1>3. ASSUME NEW o \in Ops, Register(o)
     PROVE  GateInv' /\ AgentDown'
  BY <1>3 DEF Register, files, GateInv, OperationOwned, Working, Live,
    AgentDown, ManagerTypeOK, Operations
<1>4. ASSUME NEW o \in Ops, CheckEnds(o)
     PROVE  GateInv' /\ AgentDown'
  <2>1. PICK p : TaskMoves(o, "resolving", "releasing", p) /\ (p = "ready" =>
    prepared # None)
    BY <1>4 DEF CheckEnds
  <2>2. UNCHANGED prepared /\ (~late' => ~late /\ op[o].req = "registered")
    BY <1>4 DEF CheckEnds, Overtakes, files
  <2>. QED  BY <2>1, <2>2, Moved DEF GateInv, OperationOwned, Working, Live,
    AgentDown
<1>5. ASSUME NEW o \in Ops, ResolveFails(o)
     PROVE  GateInv' /\ AgentDown'
  <2>1. PICK p \in {"idle", "error"} : TaskMoves(o, "resolving", "releasing",
    p)
    BY <1>5 DEF ResolveFails
  <2>2. UNCHANGED prepared /\ (~late' => ~late /\ op[o].req = "registered")
    BY <1>5 DEF ResolveFails, Overtakes, files
  <2>. QED  BY <2>1, <2>2, Moved DEF GateInv, OperationOwned, Working, Live,
    AgentDown
<1>6. ASSUME NEW o \in Ops, DownloadEnds(o)
     PROVE  GateInv' /\ AgentDown'
  BY <1>6, Moved DEF DownloadEnds, files, GateInv, OperationOwned, Working,
    Live, AgentDown
<1>7. ASSUME NEW o \in Ops, NEW tag \in Tags, Resolve(o, tag)
     PROVE  GateInv' /\ AgentDown'
  BY <1>7 DEF Resolve, Overtakes, files, GateInv, OperationOwned, Working,
    Live, AgentDown, ManagerTypeOK, Operations
<1>8. ASSUME NEW o \in Ops, RemoveStaged(o)
     PROVE  GateInv' /\ AgentDown'
  BY <1>8, Moved DEF RemoveStaged, files, GateInv, OperationOwned, Working,
    Live, AgentDown
<1>9. ASSUME NEW o \in Ops, CopyStaged(o)
     PROVE  GateInv' /\ AgentDown'
  BY <1>9, Moved DEF CopyStaged, files, GateInv, OperationOwned, Working,
    Live, AgentDown
<1>10. ASSUME NEW o \in Ops, PrepareFails(o)
     PROVE  GateInv' /\ AgentDown'
  BY <1>10, Moved DEF PrepareFails, files, GateInv, OperationOwned, Working,
    Live, AgentDown
<1>11. ASSUME NEW o \in Ops, MarkPrepared(o)
     PROVE  GateInv' /\ AgentDown'
  BY <1>11, Moved DEF MarkPrepared, files, GateInv, OperationOwned, Working,
    Live, AgentDown
<1>12. ASSUME NEW o \in Ops, DownloadReady(o)
     PROVE  GateInv' /\ AgentDown'
  BY <1>12, Moved DEF DownloadReady, files, GateInv, OperationOwned, Working,
    Live, AgentDown
<1>13. ASSUME NEW o \in Ops, Release(o)
     PROVE  GateInv' /\ AgentDown'
  <2>1. UNCHANGED <<up, cancelling, registered, late>> /\ cancelling = None /\
    op[o].at \in {"releasing", "handingOver"} /\ gate' = IF gate = o THEN None
    ELSE gate
    BY <1>13 DEF Release
  <2>. QED  BY <1>13, <2>1, Released DEF GateInv, OperationOwned, Working,
    Live, AgentDown
<1>14. ASSUME NEW o \in Ops, AbortLands(o)
     PROVE  GateInv' /\ AgentDown'
  BY <1>14, Ended DEF AbortLands, AwaitPoints, files, GateInv, OperationOwned,
    Working, Live, AgentDown, ManagerTypeOK, Operations
<1>15. ASSUME NEW o \in Ops, CancelBegins(o)
     PROVE  GateInv' /\ AgentDown'
  BY <1>15 DEF CancelBegins, Cancellable, files, GateInv, OperationOwned,
    Working, Live, AgentDown, ManagerTypeOK, Operations
<1>16. ASSUME NEW o \in Ops, CancelEnds(o)
     PROVE  GateInv' /\ AgentDown'
  BY <1>16 DEF CancelEnds, files, GateInv, OperationOwned, Working, Live,
    AgentDown, ManagerTypeOK, Operations
<1>17. ASSUME NEW o \in Ops, CancelFindsNoTask(o)
     PROVE  GateInv' /\ AgentDown'
  BY <1>17 DEF CancelFindsNoTask, Cancellable, files, GateInv, OperationOwned,
    Working, Live, AgentDown, ManagerTypeOK, Operations
<1>18. ASSUME NEW o \in Ops, InstallRefused(o)
     PROVE  GateInv' /\ AgentDown'
  <2>1. op[o].req = "begun" /\ op[o].at = "none" /\ UNCHANGED <<up, gate,
    registered, cancelling, late>>
    BY <1>18 DEF InstallRefused, InstallBegun
  <2>2. /\ op'[o].at \in {"releasing", "arming"} /\ op'[o].req = op[o].req
        /\ op'[o].aborted = op[o].aborted
        /\ \A q \in Ops \ {o} : op'[q] = op[q]
    BY <1>18 DEF InstallRefused, ManagerTypeOK, Operations
  <2>. QED  BY <2>1, <2>2 DEF GateInv, OperationOwned, Working, Live, AgentDown
<1>19. ASSUME NEW o \in Ops, InstallStarts(o)
     PROVE  GateInv' /\ AgentDown'
  <2>1. op[o].req = "begun" /\ op[o].at = "none" /\ UNCHANGED <<up, gate,
    registered, cancelling, late>>
    BY <1>19 DEF InstallStarts, InstallBegun
  <2>2. /\ op'[o].at \in {"releasing", "arming"} /\ op'[o].req = op[o].req
        /\ op'[o].aborted = op[o].aborted
        /\ \A q \in Ops \ {o} : op'[q] = op[q]
    BY <1>19 DEF InstallStarts, ManagerTypeOK, Operations
  <2>. QED  BY <2>1, <2>2 DEF GateInv, OperationOwned, Working, Live, AgentDown
<1>20. ASSUME NEW o \in Ops, InstallArms(o)
     PROVE  GateInv' /\ AgentDown'
  BY <1>20, Moved DEF InstallArms, files, GateInv, OperationOwned, Working,
    Live, AgentDown
<1>21. ASSUME NEW o \in Ops, InstallClears(o)
     PROVE  GateInv' /\ AgentDown'
  BY <1>21, Moved DEF InstallClears, files, GateInv, OperationOwned, Working,
    Live, AgentDown
<1>22. ASSUME NEW o \in Ops, SignalShutdown(o)
     PROVE  GateInv' /\ AgentDown'
  BY <1>22, Ended DEF SignalShutdown, files, GateInv, OperationOwned, Working,
    Live, AgentDown, ManagerTypeOK, Operations
<1>23. ASSUME Poll
     PROVE  GateInv' /\ AgentDown'
  BY <1>23 DEF Poll, files, GateInv, OperationOwned, Working, Live, AgentDown,
    ManagerTypeOK, Operations
<1>24. ASSUME AgentEnds
     PROVE  GateInv' /\ AgentDown'
  BY <1>24, UpdateManagerAssumption DEF AgentEnds, AgentGone, Unused, files,
    GateInv, Kinds, OperationOwned, Working, Live, AgentDown, ManagerTypeOK,
    Operations
<1>. QED
  BY <1>1, <1>2, <1>3, <1>4, <1>5, <1>6, <1>7, <1>8, <1>9, <1>10, <1>11,
    <1>12, <1>13, <1>14, <1>15, <1>16, <1>17, <1>18, <1>19, <1>20, <1>21,
    <1>22, <1>23, <1>24 DEF ManagerStep, Request, Task, Cancel, Install

LEMMA GateGone ==
  ASSUME AgentGone
  PROVE  GateInv' /\ AgentDown'
BY UpdateManagerAssumption DEF AgentGone, Unused, Kinds, GateInv,
  OperationOwned, Working, Live, AgentDown

LEMMA GateStep == Typed /\ GateInv /\ AgentDown /\ [Next]_vars => GateInv' /\
  AgentDown'
<1>. SUFFICES ASSUME Typed, GateInv, AgentDown, [Next]_vars PROVE GateInv' /\
  AgentDown'
  OBVIOUS
<1>1. CASE ManagerStep
  BY <1>1, GateManager DEF Typed, ManagerTyped
<1>2. CASE UNCHANGED managerVars
  BY <1>2 DEF managerVars, GateInv, OperationOwned, Working, Live, AgentDown
<1>3. ASSUME NEW l \in Launchers, LauncherStartsAgent(l) PROVE GateInv' /\
  AgentDown'
  BY <1>3 DEF LauncherStartsAgent, AgentStarts, GateInv, OperationOwned,
    Working, Live, AgentDown
<1>4. CASE AgentGone
  BY <1>4, GateGone
<1>. QED  BY <1>1, <1>2, <1>3, <1>4 DEF Next, MonitorApplies, vars

LEMMA GateInit == Init => GateInv /\ AgentDown
BY UpdateManagerAssumption DEF Init, ManagerInit, Unused, Kinds, GateInv,
  OperationOwned, Working, Live, AgentDown

\* As long as no step overtook the registration of a task's handle, the gate is
\* held by the operation that works and by none else: a cancel waits until its
\* task is gone, and a gate that is held will be given back.
THEOREM GateCorrect == Spec => []GateIsOwned
<1>1. Init => Typed /\ GateInv /\ AgentDown
  BY TypeInit, GateInit
<1>2. Typed /\ GateInv /\ AgentDown /\ [Next]_vars => (Typed /\ GateInv /\
  AgentDown)'
  BY TypeStep, GateStep
<1>3. Typed /\ GateInv => GateIsOwned
  BY DEF Typed, ManagerTyped, ManagerTypeOK, GateInv, OperationOwned, Working,
    GateIsOwned
<1>. QED  BY <1>1, <1>2, <1>3, PTL DEF Spec

\* The agent shows an update as ready only with its marker.
LEMMA ReadyManager ==
  ASSUME ManagerTypeOK, FilesTypeOK, GateInv, ReadyInv, ManagerStep
  PROVE  ReadyInv'
<1>. USE UpdateManagerAssumption
<1>1. ASSUME NEW o \in Ops, NEW kind \in Kinds, Begin(o, kind)
     PROVE  ReadyInv'
  BY <1>1 DEF Begin, Unused, files, ReadyInv, GateInv, OperationOwned,
    Working, Live, ManagerTypeOK, Operations
<1>2. ASSUME NEW o \in Ops, SpawnTask(o)
     PROVE  ReadyInv'
  BY <1>2 DEF SpawnTask, files, ReadyInv, GateInv, OperationOwned, Working,
    Live, ManagerTypeOK, Operations
<1>3. ASSUME NEW o \in Ops, Register(o)
     PROVE  ReadyInv'
  BY <1>3 DEF Register, files, ReadyInv, GateInv, OperationOwned, Working,
    Live, ManagerTypeOK, Operations
<1>4. ASSUME NEW o \in Ops, CheckEnds(o)
     PROVE  ReadyInv'
  <2>1. PICK p : TaskMoves(o, "resolving", "releasing", p) /\ (p = "ready" =>
    prepared # None)
    BY <1>4 DEF CheckEnds
  <2>2. UNCHANGED prepared /\ (~late' => ~late /\ op[o].req = "registered")
    BY <1>4 DEF CheckEnds, Overtakes, files
  <2>. QED  BY <2>1, <2>2, Moved DEF ReadyInv, GateInv, OperationOwned,
    Working, Live
<1>5. ASSUME NEW o \in Ops, ResolveFails(o)
     PROVE  ReadyInv'
  <2>1. PICK p \in {"idle", "error"} : TaskMoves(o, "resolving", "releasing",
    p)
    BY <1>5 DEF ResolveFails
  <2>2. UNCHANGED prepared /\ (~late' => ~late /\ op[o].req = "registered")
    BY <1>5 DEF ResolveFails, Overtakes, files
  <2>. QED  BY <2>1, <2>2, Moved DEF ReadyInv, GateInv, OperationOwned,
    Working, Live
<1>6. ASSUME NEW o \in Ops, DownloadEnds(o)
     PROVE  ReadyInv'
  BY <1>6, Moved DEF DownloadEnds, files, ReadyInv, GateInv, OperationOwned,
    Working, Live
<1>7. ASSUME NEW o \in Ops, NEW tag \in Tags, Resolve(o, tag)
     PROVE  ReadyInv'
  BY <1>7 DEF Resolve, Overtakes, files, ReadyInv, GateInv, OperationOwned,
    Working, Live, ManagerTypeOK, Operations
<1>8. ASSUME NEW o \in Ops, RemoveStaged(o)
     PROVE  ReadyInv'
  BY <1>8, Moved DEF RemoveStaged, files, ReadyInv, GateInv, OperationOwned,
    Working, Live
<1>9. ASSUME NEW o \in Ops, CopyStaged(o)
     PROVE  ReadyInv'
  BY <1>9, Moved DEF CopyStaged, files, ReadyInv, GateInv, OperationOwned,
    Working, Live
<1>10. ASSUME NEW o \in Ops, PrepareFails(o)
     PROVE  ReadyInv'
  BY <1>10, Moved DEF PrepareFails, files, ReadyInv, GateInv, OperationOwned,
    Working, Live
<1>11. ASSUME NEW o \in Ops, MarkPrepared(o)
     PROVE  ReadyInv'
  <2>1. CASE Installable(op[o].tag)
    <3>1. prepared' # None
      BY <1>11, <2>1, UpdateFilesAssumption DEF MarkPrepared, Installable,
        FilesTypeOK
    <3>2. TaskMoves(o, "staged", "marked", phase) /\ late' = late
      BY <1>11, <2>1 DEF MarkPrepared
    <3>. QED  BY <3>1, <3>2, Moved DEF ReadyInv
  <2>2. CASE ~Installable(op[o].tag)
    BY <1>11, <2>2, Moved DEF MarkPrepared, ReadyInv
  <2>. QED  BY <2>1, <2>2
<1>12. ASSUME NEW o \in Ops, DownloadReady(o)
     PROVE  ReadyInv'
  BY <1>12, Moved DEF DownloadReady, files, ReadyInv, GateInv, OperationOwned,
    Working, Live
<1>13. ASSUME NEW o \in Ops, Release(o)
     PROVE  ReadyInv'
  <2>1. UNCHANGED <<up, phase, prepared, late>>
    BY <1>13 DEF Release, files
  <2>. QED  BY <1>13, <2>1, Released DEF ReadyInv
<1>14. ASSUME NEW o \in Ops, AbortLands(o)
     PROVE  ReadyInv'
  BY <1>14, Ended DEF AbortLands, files, ReadyInv, GateInv, OperationOwned,
    Working, Live, ManagerTypeOK, Operations
<1>15. ASSUME NEW o \in Ops, CancelBegins(o)
     PROVE  ReadyInv'
  BY <1>15 DEF CancelBegins, files, ReadyInv, GateInv, OperationOwned,
    Working, Live, ManagerTypeOK, Operations
<1>16. ASSUME NEW o \in Ops, CancelEnds(o)
     PROVE  ReadyInv'
  BY <1>16 DEF CancelEnds, files, ReadyInv, GateInv, OperationOwned, Working,
    Live, ManagerTypeOK, Operations
<1>17. ASSUME NEW o \in Ops, CancelFindsNoTask(o)
     PROVE  ReadyInv'
  BY <1>17 DEF CancelFindsNoTask, files, ReadyInv, GateInv, OperationOwned,
    Working, Live, ManagerTypeOK, Operations
<1>18. ASSUME NEW o \in Ops, InstallRefused(o)
     PROVE  ReadyInv'
  BY <1>18 DEF InstallRefused, InstallBegun, files, ReadyInv, GateInv,
    OperationOwned, Working, Live, ManagerTypeOK, Operations
<1>19. ASSUME NEW o \in Ops, InstallStarts(o)
     PROVE  ReadyInv'
  BY <1>19 DEF InstallStarts, InstallBegun, files, ReadyInv, GateInv,
    OperationOwned, Working, Live, ManagerTypeOK, Operations
<1>20. ASSUME NEW o \in Ops, InstallArms(o)
     PROVE  ReadyInv'
  BY <1>20, Moved DEF InstallArms, files, ReadyInv, GateInv, OperationOwned,
    Working, Live
<1>21. ASSUME NEW o \in Ops, InstallClears(o)
     PROVE  ReadyInv'
  BY <1>21, Moved DEF InstallClears, PhaseSeen, files, ReadyInv, GateInv,
    OperationOwned, Working, Live
<1>22. ASSUME NEW o \in Ops, SignalShutdown(o)
     PROVE  ReadyInv'
  BY <1>22, Ended DEF SignalShutdown, files, ReadyInv, GateInv,
    OperationOwned, Working, Live, ManagerTypeOK, Operations
<1>23. ASSUME Poll
     PROVE  ReadyInv'
  BY <1>23 DEF Poll, PhaseSeen, files, ReadyInv, GateInv, OperationOwned,
    Working, Live, ManagerTypeOK, Operations
<1>24. ASSUME AgentEnds
     PROVE  ReadyInv'
  BY <1>24 DEF AgentEnds, AgentGone, Unused, files, ReadyInv, GateInv,
    OperationOwned, Working, Live, ManagerTypeOK, Operations
<1>. QED
  BY <1>1, <1>2, <1>3, <1>4, <1>5, <1>6, <1>7, <1>8, <1>9, <1>10, <1>11,
    <1>12, <1>13, <1>14, <1>15, <1>16, <1>17, <1>18, <1>19, <1>20, <1>21,
    <1>22, <1>23, <1>24 DEF ManagerStep, Request, Task, Cancel, Install

\* The marker of a prepared update is the agent's alone.
LEMMA PreparedKept ==
  ASSUME HelperStep \/ \E l \in Launchers : LauncherStep(l) \/
    MonitorHandsOver(l) \/ MonitorSpawnFails(l)
  PROVE  prepared' = prepared
<1>1. ASSUME NEW l \in Launchers, UserLaunches(l)
     PROVE  prepared' = prepared
  BY <1>1 DEF UserLaunches, HandOver, HandOverFails, files
<1>2. ASSUME NEW l \in Launchers, StartHandsOver(l)
     PROVE  prepared' = prepared
  BY <1>2 DEF StartHandsOver, HandOver, HandOverFails, files
<1>3. ASSUME NEW l \in Launchers, StartGoesOn(l)
     PROVE  prepared' = prepared
  BY <1>3 DEF StartGoesOn, HandOver, HandOverFails, files
<1>4. ASSUME NEW l \in Launchers, SingleInstance(l)
     PROVE  prepared' = prepared
  BY <1>4 DEF SingleInstance, HandOver, HandOverFails, files
<1>5. ASSUME NEW l \in Launchers, SetupEnds(l)
     PROVE  prepared' = prepared
  BY <1>5 DEF SetupEnds, HandOver, HandOverFails, files
<1>6. ASSUME NEW l \in Launchers, MonitorFindsNoPayload(l)
     PROVE  prepared' = prepared
  BY <1>6 DEF MonitorFindsNoPayload, HandOver, HandOverFails, files
<1>7. ASSUME NEW l \in Launchers, LauncherDies(l)
     PROVE  prepared' = prepared
  BY <1>7 DEF LauncherDies, HandOver, HandOverFails, files
<1>8. ASSUME HelperApplies
     PROVE  prepared' = prepared
  BY <1>8 DEF HelperApplies, HandOver, HandOverFails, files
<1>9. ASSUME HelperFailsEarly
     PROVE  prepared' = prepared
  BY <1>9 DEF HelperFailsEarly, HandOver, HandOverFails, files
<1>10. ASSUME HelperBacksUp
     PROVE  prepared' = prepared
  BY <1>10 DEF HelperBacksUp, HandOver, HandOverFails, files
<1>11. ASSUME HelperSwaps
     PROVE  prepared' = prepared
  BY <1>11 DEF HelperSwaps, HandOver, HandOverFails, files
<1>12. ASSUME NEW l \in Launchers, HelperLaunches(l)
     PROVE  prepared' = prepared
  BY <1>12 DEF HelperLaunches, HandOver, HandOverFails, files
<1>13. ASSUME HelperCannotLaunch
     PROVE  prepared' = prepared
  BY <1>13 DEF HelperCannotLaunch, HandOver, HandOverFails, files
<1>14. ASSUME HelperSeesAck
     PROVE  prepared' = prepared
  BY <1>14 DEF HelperSeesAck, HandOver, HandOverFails, files
<1>15. ASSUME HelperGivesUp
     PROVE  prepared' = prepared
  BY <1>15 DEF HelperGivesUp, HandOver, HandOverFails, files
<1>16. ASSUME HelperCommits
     PROVE  prepared' = prepared
  BY <1>16 DEF HelperCommits, HandOver, HandOverFails, files
<1>17. ASSUME HelperDropsBackup
     PROVE  prepared' = prepared
  BY <1>17 DEF HelperDropsBackup, HandOver, HandOverFails, files
<1>18. ASSUME HelperCleans
     PROVE  prepared' = prepared
  BY <1>18 DEF HelperCleans, HandOver, HandOverFails, files
<1>19. ASSUME HelperDropsMarker
     PROVE  prepared' = prepared
  BY <1>19 DEF HelperDropsMarker, HandOver, HandOverFails, files
<1>20. ASSUME HelperRestores
     PROVE  prepared' = prepared
  BY <1>20 DEF HelperRestores, HandOver, HandOverFails, files
<1>21. ASSUME HelperRelaunches
     PROVE  prepared' = prepared
  BY <1>21 DEF HelperRelaunches, HandOver, HandOverFails, files
<1>22. ASSUME HelperMarksFailed
     PROVE  prepared' = prepared
  BY <1>22 DEF HelperMarksFailed, HandOver, HandOverFails, files
<1>23. ASSUME HelperDies
     PROVE  prepared' = prepared
  BY <1>23 DEF HelperDies, HandOver, HandOverFails, files
<1>24. ASSUME NEW l \in Launchers, MonitorHandsOver(l)
     PROVE  prepared' = prepared
  BY <1>24 DEF MonitorHandsOver, HandOver, HandOverFails, files
<1>25. ASSUME NEW l \in Launchers, MonitorSpawnFails(l)
     PROVE  prepared' = prepared
  BY <1>25 DEF MonitorSpawnFails, HandOver, HandOverFails, files
<1>. QED
  BY <1>1, <1>2, <1>3, <1>4, <1>5, <1>6, <1>7, <1>8, <1>9, <1>10, <1>11,
    <1>12, <1>13, <1>14, <1>15, <1>16, <1>17, <1>18, <1>19, <1>20, <1>21,
    <1>22, <1>23, <1>24, <1>25 DEF HelperStep, LauncherStep

LEMMA ReadyStep == Typed /\ GateInv /\ AgentDown /\ ReadyInv /\ [Next]_vars =>
  ReadyInv'
<1>. SUFFICES ASSUME Typed, GateInv, AgentDown, ReadyInv, [Next]_vars PROVE
  ReadyInv'
  OBVIOUS
<1>1. CASE ManagerStep
  BY <1>1, ReadyManager DEF Typed, ManagerTyped
<1>2. CASE UNCHANGED managerVars /\ prepared' = prepared
  BY <1>2 DEF managerVars, ReadyInv
<1>3. ASSUME NEW l \in Launchers, LauncherStartsAgent(l) PROVE ReadyInv'
  <2>1. ~up /\ op' = op /\ late' = late
    BY <1>3 DEF LauncherStartsAgent, AgentStarts
  <2>2. \A o \in Ops : op'[o].at \in {"none", "done"}
    BY <2>1 DEF AgentDown
  <2>3. phase' = "ready" => prepared' # None
    BY <1>3 DEF LauncherStartsAgent, AgentStarts, ReconciledPhase,
      PreparedUsable
  <2>. QED  BY <2>2, <2>3 DEF ReadyInv
<1>4. CASE AgentGone /\ prepared' = prepared
  BY <1>4 DEF AgentGone, Unused, ReadyInv
<1>5. CASE HelperStep \/ \E l \in Launchers : LauncherStep(l) \/
  MonitorApplies(l)
  <2>1. prepared' = prepared
    BY <1>5, PreparedKept DEF MonitorApplies
  <2>. QED  BY <1>1, <1>2, <1>3, <1>4, <1>5, <2>1 DEF Next, MonitorApplies,
    vars, managerVars, files
<1>6. CASE UNCHANGED vars
  BY <1>2, <1>6 DEF vars, files
<1>. QED  BY <1>1, <1>3, <1>5, <1>6 DEF Next

LEMMA ReadyInit == Init => ReadyInv
BY DEF Init, ManagerInit, Unused, ReadyInv

\* As long as no step overtook the registration of a handle, an agent that shows
\* an update as ready has the marker an install asks for, whatever was cut off.
THEOREM ReadyCorrect == Spec => []ReadyHasMarker
<1>1. Init => Typed /\ GateInv /\ AgentDown /\ ReadyInv
  BY TypeInit, GateInit, ReadyInit
<1>2. Typed /\ GateInv /\ AgentDown /\ ReadyInv /\ [Next]_vars => (Typed /\
  GateInv /\ AgentDown /\ ReadyInv)'
  BY TypeStep, GateStep, ReadyStep
<1>3. ReadyInv => ReadyHasMarker
  BY DEF ReadyInv, ReadyHasMarker
<1>. QED  BY <1>1, <1>2, <1>3, PTL DEF Spec
==============================================================================
