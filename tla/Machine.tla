------------------------------ MODULE Machine ------------------------------
(***************************************************************************)
(* What the espresso machine promises whoever stands in front of it: which *)
(* mode may follow which, and what the valve, the pump and the heater may  *)
(* be told to do in each.  Coordinator implements it.                      *)
(***************************************************************************)
EXTENDS MachineTypes

VARIABLES
    mode,    \* the machine state shown to the user
    valve,   \* the brew solenoid is open
    pump,    \* how the pump is told to run
    heater   \* what the heater is told to hold

mvars == <<mode, valve, pump, heater>>

\* An operation starts from Idle and ends in Idle; only Steaming may turn
\* into another operation, and only an idle machine sleeps.
Transitions ==
    {<<"Idle", m>> : m \in {"Brewing", "Steaming", "Pumping", "Sleeping"}}
        \cup {<<"Steaming", m>> : m \in {"HotWater", "Cooling"}}
        \cup {<<m, "Idle">> : m \in BusyStates \cup {"Sleeping"}}

\* The valve is open exactly while water is meant for the group head.
ValveFor(m) == m \in {"Brewing", "Pumping"}

PumpModesOf(m) ==
    CASE m = "Brewing"                -> PumpMode
      [] m \in {"Pumping", "HotWater"} -> {"DirectPump"}
      [] m = "Cooling"                -> {"Idle", "DirectPump"}
      [] OTHER                        -> {"Idle"}

MachineInit ==
    /\ mode = "Idle"
    /\ valve = FALSE
    /\ pump = "Idle"
    /\ heater = "Brew"

\* A change of mode takes valve, pump and heater with it.
Move(m) ==
    /\ <<mode, m>> \in Transitions
    /\ mode' = m
    /\ valve' = ValveFor(m)
    /\ heater' = TargetFor(m)
    /\ pump' \in PumpModesOf(m)

\* Within a mode only the pump changes.
DrivePump ==
    /\ pump' \in PumpModesOf(mode)
    /\ UNCHANGED <<mode, valve, heater>>

MachineNext == DrivePump \/ \E m \in MachineState : Move(m)

\* Every operation ends, whether or not anybody asks for it.
OperationEnds == mode \in BusyStates /\ Move("Idle")

MachineSafety == MachineInit /\ [][MachineNext]_mvars

MachineSpec == MachineSafety /\ WF_mvars(OperationEnds)
=============================================================================
