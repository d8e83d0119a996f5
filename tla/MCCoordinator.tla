--------------------------- MODULE MCCoordinator ---------------------------
(***************************************************************************)
(* Small instances of Coordinator: the commands sent and the values they   *)
(* carry.                                                                  *)
(***************************************************************************)
EXTENDS CoordinatorProperties, TLC

CONSTANTS v0, v1, empty

MCProfiles == {<< >>, <<"Pressure">>, <<"Soak", "Flow">>}
MCStandard == <<"Pressure">>
MCStored   == [s \in {0} |-> <<"Soak", "Flow">>]
MCNoStored == [s \in {0} |-> empty]

Plain(k) == [kind |-> k]

SaveMachine == [kind |-> "SaveMachine", edit |-> ("machine" :> v1)]
SavePids    == [kind |-> "SavePids", edit |-> [s \in {"temp_pid", "press_pid"} |-> v1]]
RestorePids == [kind |-> "SavePids", edit |-> [s \in {"temp_pid", "press_pid", "flow_pid"} |-> v0]]
SaveSlot0   == [kind |-> "SaveProfile", slot |-> 0, profile |-> <<"Pressure">>]
SaveSlot9   == [kind |-> "SaveProfile", slot |-> 9, profile |-> <<"Pressure">>]
DeleteSlot0 == [kind |-> "DeleteProfile", slot |-> 0]

\* Everything the four buttons and the web page's controls send.
MachineCommands ==
    {Plain(k) : k \in ActionKinds \ {"RunProfile"}}
        \cup {[kind |-> "RunProfile", profile |-> p] : p \in MCProfiles}
        \cup {[kind |-> "SetSessionTemp", temp |-> t] : t \in {1, 2}}
        \cup {SaveMachine}

\* The page's settings forms, used while somebody makes coffee.
SettingsCommands ==
    {Plain("Brew"), Plain("Stop"), SavePids, RestorePids, SaveSlot0, SaveSlot9, DeleteSlot0}

\* Enough to chain operations, sleep, and hold and replace saves.
LivenessCommands ==
    {Plain(k) : k \in {"Brew", "Stop", "Steam", "Flush", "TogglePower"}}
        \cup {SaveMachine, DeleteSlot0, [kind |-> "SetSessionTemp", temp |-> 2]}

\* Both.
AllCommands == MachineCommands \cup SettingsCommands
=============================================================================
