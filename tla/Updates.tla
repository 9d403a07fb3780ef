------------------------------- MODULE Updates -------------------------------
(* The update manager, the launcher and the updater helper over the files they *)
(* share.  The launcher starts the agent, which has the launcher's version     *)
(* (the core is embedded in it), and the launcher's process monitor ends it    *)
(* before it hands an update over.                                             *)
EXTENDS UpdateManager, UpdateHandoff

vars == <<files, managerVars, handoffVars>>

TypeOK == FilesTypeOK /\ ManagerTypeOK /\ HandoffTypeOK

Init == FilesInit /\ ManagerInit /\ HandoffInit

\* start_osagent: the launcher starts its agent when none is running.
LauncherStartsAgent(l) ==
  /\ launcher[l].at \in {"setup", "up"}
  /\ AgentStarts(launcher[l].version)
  /\ UNCHANGED handoffVars

\* terminate_osagent_processes comes before the helper is spawned.
MonitorApplies(l) ==
  /\ MonitorHandsOver(l) \/ MonitorSpawnFails(l)
  /\ IF up THEN AgentGone ELSE UNCHANGED managerVars

Next ==
  \/ ManagerStep /\ UNCHANGED handoffVars
  \/ /\ HelperStep \/ \E l \in Launchers : LauncherStep(l)
     /\ UNCHANGED managerVars
  \/ \E l \in Launchers : LauncherStartsAgent(l) \/ MonitorApplies(l)

Spec == Init /\ [][Next]_vars
==============================================================================
