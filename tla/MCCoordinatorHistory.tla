------------------------ MODULE MCCoordinatorHistory ------------------------
(***************************************************************************)
(* Small instances of CoordinatorHistory.  A behaviour has one of two      *)
(* kinds of users: those who press every button, and those who also fill   *)
(* in the forms.                                                           *)
(***************************************************************************)
EXTENDS MCCoordinator, CoordinatorHistory

VARIABLE users  \* the commands that are sent in this behaviour

mcvars == <<historyVars, users>>

MCInit == HistoryInit /\ users \in {MachineCommands, SettingsCommands}

MCStep ==
    \/ Wait
    \/ (\E cmd \in users : Send(cmd)) /\ UNCHANGED history
    \/ Pour /\ users = MachineCommands /\ UNCHANGED history
    \/ Coordinate /\ Remember
    \/ Operate /\ Remember

MCNext == MCStep /\ UNCHANGED users

MCSpec == MCInit /\ [][MCNext]_mcvars
=============================================================================
