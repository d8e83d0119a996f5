---------------------------- MODULE MachineTypes ----------------------------
(***************************************************************************)
(* The vocabulary the tasks of the firmware share: machine states, heater  *)
(* target modes, pump modes, operations and the ambient classification of  *)
(* commands.  No variables: constants and operators only.                  *)
(***************************************************************************)
EXTENDS Naturals, Sequences

-----------------------------------------------------------------------------
(* Machine states (state.rs) *)

MachineState == {"Idle", "Brewing", "Steaming", "Sleeping", "Pumping", "Cooling", "HotWater"}

\* MachineState::is_busy: an operation is in flight.
BusyStates == {"Brewing", "Pumping", "Cooling", "HotWater", "Steaming"}

-----------------------------------------------------------------------------
(* Heater targets (control.rs, coordinator.rs) *)

TargetTempMode == {"Brew", "Steam", "Off"}

\* The setpoint a machine state implies.
TargetFor(s) ==
    CASE s = "Steaming"               -> "Steam"
      [] s \in {"Cooling", "Sleeping"} -> "Off"
      [] OTHER                         -> "Brew"

-----------------------------------------------------------------------------
(* Pump modes (control.rs).  Pressure { bar, flow_limit } is told apart by   *)
(* which of its two numbers are non-zero, the only thing the control loop's  *)
(* choice of controller and the integral resets depend on.                   *)

StepModes == {"DirectPump", "Soak", "Pressure", "Flow", "FlowPressure"}

PumpMode == {"Idle"} \cup StepModes

\* pressure_and_flow_limit: is the pressure target, the flow limit, non-zero?
HasBar(m)  == m \in {"Pressure", "FlowPressure"}
HasFlow(m) == m \in {"Flow", "FlowPressure"}

-----------------------------------------------------------------------------
(* Operations (operations.rs) *)

Operation == {"Profile", "Steam", "CooldownFlush", "DirectPump", "HotWater"}

\* Operation::opens_valve: the brew solenoid is open while it runs.
OpensValve(k) == k \in {"Profile", "DirectPump"}

\* The state `start` pairs with each operation.
StateOf(k) ==
    CASE k = "Profile"       -> "Brewing"
      [] k = "Steam"         -> "Steaming"
      [] k = "CooldownFlush" -> "Cooling"
      [] k = "DirectPump"    -> "Pumping"
      [] k = "HotWater"      -> "HotWater"

-----------------------------------------------------------------------------
(* Commands and settings (state.rs, settings.rs) *)

\* Ambient::No: commands that go to the transition table.
ActionKinds == {"Brew", "Stop", "Steam", "Flush", "DirectPump", "TogglePower", "RunProfile"}

\* Ambient::RamAndFlash: settings saves and profile storage.
SettingsSaves == {"SaveMachine", "SavePids", "SaveWifi"}
ProfileSaves  == {"SaveProfile", "DeleteProfile"}
SaveKinds     == SettingsSaves \cup ProfileSaves

\* The sections of `Settings`, one flash key each.
Sections == {"machine", "temp_pid", "press_pid", "flow_pid", "wifi"}

\* The subset the control loop reads (ControlSettings::from).
ControlSections == Sections \ {"wifi"}

\* The sections each settings save edits; the flow gains are optional.
SectionsOf(kind) ==
    CASE kind = "SaveMachine" -> {{"machine"}}
      [] kind = "SavePids"    -> {{"temp_pid", "press_pid"}, {"temp_pid", "press_pid", "flow_pid"}}
      [] kind = "SaveWifi"    -> {{"wifi"}}

\* `edit` written over `s`: the fields a save names, the others untouched.
Edited(s, edit) == [k \in DOMAIN s |-> IF k \in DOMAIN edit THEN edit[k] ELSE s[k]]
=============================================================================
