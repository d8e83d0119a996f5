------------------------------ MODULE MCBench ------------------------------
(***************************************************************************)
(* The parts that share nothing but a signal or a counter with the rest,   *)
(* each on its own: the initial state chooses which one runs, the others   *)
(* stay where they start.  What one does to another is an input of its     *)
(* module, so no interleaving of two of them is left out.                  *)
(***************************************************************************)
EXTENDS Buttons, FlowMeter, PowerStage, Operations

VARIABLE device

benchVars == <<device, buttonVars, flowVars, powerVars, opsVars>>

\* Two buttons and a queue that two simultaneous presses fill.
TwoButtons == <<"TogglePower", "Brew">>

\* Steps with a time, a volume, both or none; a time beyond the ceiling.
Steps == [time: {0, 2, 6}, volume: {0, 2}, mode: {"Pressure"}]
ShortProfiles == UNION {[1 .. n -> Steps] : n \in 0 .. 3}

BenchInit ==
    /\ device \in {"buttons", "flow", "power", "operations"}
    /\ ButtonsInit /\ FlowInit /\ PowerInit /\ OpsInit
    /\ device # "buttons" => low = {}
    /\ device # "power" => mains /\ ~high

BenchNext ==
    /\ UNCHANGED device
    /\ \/ device = "buttons" /\ ButtonsNext /\ UNCHANGED <<flowVars, powerVars, opsVars>>
       \/ device = "flow" /\ FlowNext /\ UNCHANGED <<buttonVars, powerVars, opsVars>>
       \/ device = "power" /\ PowerNext /\ UNCHANGED <<buttonVars, flowVars, opsVars>>
       \/ device = "operations" /\ OpsNext /\ UNCHANGED <<buttonVars, flowVars, powerVars>>

\* The fairness of each part, where it runs.
BenchSpec ==
    /\ BenchInit
    /\ [][BenchNext]_benchVars
    /\ WF_buttonVars(device = "buttons" /\ PollAny)
    /\ WF_powerVars(device = "power" /\ Rise)
    /\ WF_powerVars(device = "power" /\ Fall)
    /\ WF_powerVars(device = "power" /\ Fire)
=============================================================================
