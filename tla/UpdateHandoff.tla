---------------------------- MODULE UpdateHandoff ----------------------------
(* How an armed update is applied: the launcher sees the marker, at its start *)
(* or in its process monitor, spawns the updater helper and exits             *)
(* (launcher/src/main.rs); the helper copies the staged launcher beside the   *)
(* installed one, keeps a backup, swaps, starts the new launcher and waits    *)
(* for its acknowledgement, then commits or rolls back (updater/src/main.rs). *)
(* The Unix binary swap is modelled.  The launcher that spawns the helper is  *)
(* gone in the same step, so wait_for_pid has nothing to wait for.  Two       *)
(* launchers that both hand over the one marker before its helper has written *)
(* "applying", and a restore whose rename fails, are left out.                *)
EXTENDS UpdateFiles

CONSTANTS
  Launchers,       \* slots for launcher processes
  MaxLaunches,     \* bound: launches by the user, beyond one for each death
  MaxDeaths        \* bound: helper and launcher processes that die

ASSUME UpdateHandoffAssumption == MaxLaunches \in Nat /\ MaxDeaths \in Nat

VARIABLES
  binary,          \* the version at the launcher's path
  backups,         \* backups the helpers have made: [tx, version]
  acks,            \* transactions with an acknowledgement file
  launcher,        \* the launcher processes: see LauncherStates
  helper,          \* the helper process: see HelperStates
  proven,          \* history: versions that have acknowledged their setup
  launches, deaths \* bounds

handoffVars ==
  <<binary, backups, acks, launcher, helper, proven, launches, deaths>>

NotRunning ==
  [at |-> "down", version |-> FirstVersion, tx |-> 0, broken |-> FALSE]

\* broken is UPDATE_HANDOFF_FAILED: this process will not try again.
LauncherStates ==
  [at : {"down", "starting", "checked", "setup", "up"}, version : Versions,
   tx : Ops \cup {0}, broken : BOOLEAN]

NoHelper == [at |-> "none", tx |-> 0, tag |-> None, child |-> None]

HelperStates ==
  [at : {"none", "started", "copying", "backedUp", "swapped", "waiting",
         "committing", "committed", "unbacked", "cleaned", "restoring",
         "relaunching", "failing"},
   tx : Ops \cup {0}, tag : Tags \cup {None}, child : Launchers \cup {None}]

Backups == [tx : Ops, version : Versions]

HandoffTypeOK ==
  /\ binary \in Versions
  /\ backups \subseteq Backups
  /\ acks \subseteq Ops
  /\ launcher \in [Launchers -> LauncherStates]
  /\ helper \in HelperStates
  /\ proven \subseteq Versions
  /\ launches \in 0 .. MaxLaunches + MaxDeaths /\ deaths \in 0 .. MaxDeaths

HandoffInit ==
  /\ binary = FirstVersion
  /\ backups = {} /\ acks = {}
  /\ launcher = [l \in Launchers |-> NotRunning]
  /\ helper = NoHelper
  /\ proven = {FirstVersion}
  /\ launches = 0 /\ deaths = 0

------------------------------------------------------------------------------
\* The launcher.

\* A process is started in slot l from what is installed now.
Started(l, tx) ==
  launcher' = [launcher EXCEPT ![l] =
    [at |-> "starting", version |-> binary, tx |-> tx, broken |-> FALSE]]

UserLaunches(l) ==
  /\ launcher[l].at = "down" /\ launches < MaxLaunches + deaths
  /\ Started(l, 0)
  /\ launches' = launches + 1
  /\ UNCHANGED <<files, binary, backups, acks, helper, proven, deaths>>

\* A marker the launcher has to hand over.
Waiting == pending.phase = "installing"

\* The helper runs and this launcher has exited.
HandOver(l) ==
  /\ Waiting /\ Installable(pending.tag) /\ helper = NoHelper
  /\ helper' = [at |-> "started", tx |-> pending.tx, tag |-> pending.tag,
                child |-> None]
  /\ launcher' = [launcher EXCEPT ![l] = NotRunning]
  /\ UNCHANGED <<files, binary, backups, acks, proven, launches, deaths>>

\* The payload is missing, or the helper cannot be spawned.
HandOverFails(l, at) ==
  /\ Waiting
  /\ launcher' = [launcher EXCEPT ![l] = [@ EXCEPT !.at = at,
                                                   !.broken = TRUE]]
  /\ UNCHANGED <<files, binary, backups, acks, helper, proven, launches,
                 deaths>>

\* apply_pending_update_if_any, before the single-instance check.
StartHandsOver(l) == launcher[l].at = "starting" /\ HandOver(l)

StartGoesOn(l) ==
  /\ launcher[l].at = "starting"
  /\ \/ HandOverFails(l, "checked")
     \/ /\ ~Waiting
        /\ launcher' = [launcher EXCEPT ![l].at = "checked"]
        /\ UNCHANGED <<files, binary, backups, acks, helper, proven, launches,
                       deaths>>

\* The single-instance plugin ends a second launcher.
SingleInstance(l) ==
  /\ launcher[l].at = "checked"
  /\ launcher' =
       [launcher EXCEPT ![l] =
          IF \E k \in Launchers : launcher[k].at \in {"setup", "up"}
          THEN NotRunning ELSE [@ EXCEPT !.at = "setup"]]
  /\ UNCHANGED <<files, binary, backups, acks, helper, proven, launches,
                 deaths>>

\* acknowledge_update_transaction, at the end of the setup.
Acknowledges(l) ==
  /\ launcher[l].tx # 0
  /\ pending.phase = "applying" /\ pending.tx = launcher[l].tx

SetupEnds(l) ==
  /\ launcher[l].at = "setup"
  /\ launcher' = [launcher EXCEPT ![l].at = "up"]
  /\ IF Acknowledges(l)
     THEN /\ acks' = acks \cup {pending.tx}
          /\ proven' = proven \cup {launcher[l].version}
     ELSE UNCHANGED <<acks, proven>>
  /\ UNCHANGED <<files, binary, backups, helper, launches, deaths>>

\* check_and_apply_pending_update, in the process monitor; it ends the agent
\* before it spawns the helper (see Updates).
Monitors(l) == launcher[l].at = "up" /\ ~launcher[l].broken

MonitorHandsOver(l) == Monitors(l) /\ HandOver(l)

MonitorSpawnFails(l) ==
  Monitors(l) /\ Installable(pending.tag) /\ HandOverFails(l, "up")

MonitorFindsNoPayload(l) ==
  Monitors(l) /\ ~Installable(pending.tag) /\ HandOverFails(l, "up")

LauncherDies(l) ==
  /\ launcher[l].at # "down" /\ deaths < MaxDeaths
  /\ launcher' = [launcher EXCEPT ![l] = NotRunning]
  /\ deaths' = deaths + 1
  /\ UNCHANGED <<files, binary, backups, acks, helper, proven, launches>>

------------------------------------------------------------------------------
\* The helper, one step after the other.

HelperAt(at) == helper.at = at

Goes(to) == helper' = [helper EXCEPT !.at = to]

\* mark_phase refuses the marker of another transaction.
Marks(newPhase) ==
  /\ pending.tx = helper.tx
  /\ pending' = [pending EXCEPT !.phase = newPhase]

HelperApplies ==
  /\ HelperAt("started") /\ Installable(helper.tag)
  /\ Marks("applying")
  /\ acks' = acks \ {helper.tx}
  /\ Goes("copying")
  /\ UNCHANGED <<staged, prepared, binary, backups, launcher, proven, launches,
                 deaths>>

\* The new launcher is gone before it was copied, or a copy fails.
HelperFailsEarly ==
  /\ \/ HelperAt("started") /\ ~Installable(helper.tag)
     \/ HelperAt("copying") \/ HelperAt("backedUp")
  /\ Goes("relaunching")
  /\ UNCHANGED <<files, binary, backups, acks, launcher, proven, launches,
                 deaths>>

HelperBacksUp ==
  /\ HelperAt("copying") /\ Installable(helper.tag)
  /\ backups' = backups \cup {[tx |-> helper.tx, version |-> binary]}
  /\ Goes("backedUp")
  /\ UNCHANGED <<files, binary, acks, launcher, proven, launches, deaths>>

HelperSwaps ==
  /\ HelperAt("backedUp")
  /\ binary' = helper.tag
  /\ Goes("swapped")
  /\ UNCHANGED <<files, backups, acks, launcher, proven, launches, deaths>>

HelperLaunches(l) ==
  /\ HelperAt("swapped") /\ launcher[l].at = "down"
  /\ Started(l, helper.tx)
  /\ helper' = [helper EXCEPT !.at = "waiting", !.child = l]
  /\ UNCHANGED <<files, binary, backups, acks, proven, launches, deaths>>

\* The swapped file does not verify, or cannot be started.
HelperCannotLaunch ==
  /\ HelperAt("swapped")
  /\ Goes("restoring")
  /\ UNCHANGED <<files, binary, backups, acks, launcher, proven, launches,
                 deaths>>

HelperSeesAck ==
  /\ HelperAt("waiting") /\ helper.tx \in acks
  /\ Goes("committing")
  /\ UNCHANGED <<files, binary, backups, acks, launcher, proven, launches,
                 deaths>>

\* The process this helper started, unless it has ended.
ChildRuns == launcher[helper.child].tx = helper.tx

KillChild ==
  launcher' = IF ChildRuns
              THEN [launcher EXCEPT ![helper.child] = NotRunning]
              ELSE launcher

\* The child has exited, the wait is over, or the commit cannot be written.
HelperGivesUp ==
  /\ HelperAt("waiting") \/ HelperAt("committing")
  /\ KillChild
  /\ Goes("restoring")
  /\ UNCHANGED <<files, binary, backups, acks, proven, launches, deaths>>

HelperCommits ==
  /\ HelperAt("committing")
  /\ Marks("committed")
  /\ Goes("committed")
  /\ UNCHANGED <<staged, prepared, binary, backups, acks, launcher, proven,
                 launches, deaths>>

\* After the commit: the backup, the staged directory, then the marker.
HelperDropsBackup ==
  /\ HelperAt("committed")
  /\ backups' = {b \in backups : b.tx # helper.tx}
  /\ Goes("unbacked")
  /\ UNCHANGED <<files, binary, acks, launcher, proven, launches, deaths>>

HelperCleans ==
  /\ HelperAt("unbacked")
  /\ staged' = staged \ {helper.tag}
  /\ Goes("cleaned")
  /\ UNCHANGED <<prepared, pending, binary, backups, acks, launcher, proven,
                 launches, deaths>>

HelperDropsMarker ==
  /\ HelperAt("cleaned")
  /\ acks' = acks \ {helper.tx}
  /\ pending' = NoMarker
  /\ helper' = NoHelper
  /\ UNCHANGED <<staged, prepared, binary, backups, launcher, proven, launches,
                 deaths>>

HelperRestores ==
  /\ HelperAt("restoring")
  /\ \E b \in backups :
       /\ b.tx = helper.tx
       /\ binary' = b.version
       /\ backups' = backups \ {b}
  /\ Goes("relaunching")
  /\ UNCHANGED <<files, acks, launcher, proven, launches, deaths>>

\* relaunch_old; the launch may fail.
HelperRelaunches ==
  /\ HelperAt("relaunching")
  /\ \/ UNCHANGED launcher
     \/ \E l \in Launchers : launcher[l].at = "down" /\ Started(l, 0)
  /\ Goes("failing")
  /\ UNCHANGED <<files, binary, backups, acks, proven, launches, deaths>>

\* main writes "failed" into the marker if it is still this transaction's.
HelperMarksFailed ==
  /\ HelperAt("failing")
  /\ IF pending.tx = helper.tx THEN Marks("failed") ELSE UNCHANGED pending
  /\ helper' = NoHelper
  /\ UNCHANGED <<staged, prepared, binary, backups, acks, launcher, proven,
                 launches, deaths>>

HelperDies ==
  /\ ~HelperAt("none") /\ deaths < MaxDeaths
  /\ helper' = NoHelper
  /\ deaths' = deaths + 1
  /\ UNCHANGED <<files, binary, backups, acks, launcher, proven, launches>>

------------------------------------------------------------------------------
LauncherStep(l) ==
  \/ UserLaunches(l) \/ StartHandsOver(l) \/ StartGoesOn(l)
  \/ SingleInstance(l) \/ SetupEnds(l) \/ MonitorFindsNoPayload(l)
  \/ LauncherDies(l)

HelperStep ==
  \/ HelperApplies \/ HelperFailsEarly \/ HelperBacksUp \/ HelperSwaps
  \/ \E l \in Launchers : HelperLaunches(l)
  \/ HelperCannotLaunch \/ HelperSeesAck \/ HelperGivesUp \/ HelperCommits
  \/ HelperDropsBackup \/ HelperCleans \/ HelperDropsMarker
  \/ HelperRestores \/ HelperRelaunches \/ HelperMarksFailed \/ HelperDies

------------------------------------------------------------------------------
\* A launcher that has never come up is installed only while its transaction is
\* being applied and the backup of one that has come up lies beside it; its
\* helper, while it lives, is about to start it, waits for it or rolls back, and
\* only a death leaves it without a helper. So a handoff that is over, failed or
\* committed, leaves a launcher that works, and no new transaction starts over
\* one that was never seen to (prepare_unix_replacement, commit_success,
\* rollback_and_relaunch_old, and install_prepared that refuses over an armed
\* marker). After the helper's death nothing in the code takes the backup up:
\* the launcher acts on no marker that reads "applying".
UnprovenHasHelper ==
  binary \notin proven =>
    /\ pending.phase = "applying"
    /\ \E b \in backups : b.tx = pending.tx /\ b.version \in proven
    /\ helper.tx = pending.tx => helper.at \in {"swapped", "waiting", "restoring"}
    /\ helper.tx = pending.tx \/ deaths > 0
==============================================================================
