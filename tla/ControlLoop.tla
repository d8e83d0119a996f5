---------------------------- MODULE ControlLoop ----------------------------
(***************************************************************************)
(* ac_sync_control_task composed with the coordinator: once per mains      *)
(* cycle it takes what the three signals hold, and drives the pump and     *)
(* the heater.  A signal has one slot, so what the coordinator signals     *)
(* between two ticks collapses into its last word.                         *)
(*                                                                         *)
(* Of the two pump controllers only the integral term is kept, and of it   *)
(* only whose errors it has summed up: nobody's since its last reset, the  *)
(* running operation's, or also those of an operation before it.  Sensors, *)
(* gains and the temperature controller's arithmetic are left out.         *)
(***************************************************************************)
EXTENDS Coordinator

VARIABLES
    mode,        \* the pump mode in force
    target,      \* target_t
    brewActive,  \* brew_active
    drive,       \* what set the pump's duty on the last tick
    pressI,      \* the integral of press_pid
    flowI        \* the integral of flow_pid

loopVars == <<mode, target, brewActive, drive, pressI, flowI>>
allVars  == <<vars, loopVars>>

Integral == {"clear", "running", "earlier"}

\* Mutants of the three below: what is signalled, or nothing; the initial
\* setpoint when nothing is signalled; off when nothing is signalled.
ModeSignalled == sigPump
TargetOrInitial == IF sigTemp.mode = "None" THEN Target("Brew", BrewTemp) ELSE sigTemp
BrewSignalled == sigBrew = "on"

\* The mode, setpoint and flag in force once pending signals are taken.
NextMode   == IF sigPump = "None" THEN mode ELSE sigPump
NextTarget == IF sigTemp.mode = "None" THEN target ELSE sigTemp
NextBrew   == IF sigBrew = "None" THEN brewActive ELSE sigBrew = "on"

\* Which source a pump mode takes the duty from: a flow limit takes the pump
\* outright, and a Pressure mode with neither target leaves it off.
DriveOf(m) ==
    CASE m = "DirectPump"          -> "direct"
      [] HasFlow(m)                -> "flow"
      [] HasBar(m) /\ ~HasFlow(m)  -> "press"
      [] OTHER                     -> "off"

\* reset_if_reactivated: the target goes from zero to non-zero.
PressReactivated == sigPump # "None" /\ ~HasBar(mode) /\ HasBar(sigPump)
FlowReactivated  == sigPump # "None" /\ ~HasFlow(mode) /\ HasFlow(sigPump)

\* What a tick leaves in an integral: cleared by a reset, then added to by the
\* controller that drives the pump.
Integrated(i, reset, updated) ==
    LET kept == IF reset THEN "clear" ELSE i
    IN  IF updated /\ kept = "clear" THEN "running" ELSE kept

\* One turn of the loop, from the zero crossing (or the 25 ms without one) to
\* the next: it holds no await.
Tick ==
    /\ mode' = NextMode
    /\ target' = NextTarget
    /\ brewActive' = NextBrew
    /\ drive' = DriveOf(NextMode)
    /\ pressI' = Integrated(pressI, PressReactivated, DriveOf(NextMode) = "press")
    /\ flowI' = Integrated(flowI, FlowReactivated, DriveOf(NextMode) = "flow")
    /\ sigPump' = "None"
    /\ sigBrew' = "None"
    /\ sigTemp' = NoTarget
    /\ UNCHANGED <<queue, pc, machine, pending, inHand, elapsed, session, volume, caches, sigFlash>>

\* Everybody else's step.  When it starts an operation, what the integrals
\* hold is from then on an earlier operation's.
Starts == op'.kind # op.kind /\ op'.kind # "None"

Aged(i) == IF Starts /\ i # "clear" THEN "earlier" ELSE i

Others ==
    /\ Next
    /\ pressI' = Aged(pressI)
    /\ flowI' = Aged(flowI)
    /\ UNCHANGED <<mode, target, brewActive, drive>>

LoopInit ==
    /\ Init
    /\ mode = "Idle"
    /\ target = Target("Brew", BrewTemp)
    /\ brewActive = FALSE
    /\ drive = "off"
    /\ pressI = "clear"
    /\ flowI = "clear"

LoopNext == Tick \/ Others

\* The 25 ms timeout makes the loop turn with or without mains.
LoopFairness ==
    /\ WF_allVars(Tick)
    /\ WF_allVars(Coordinate /\ Others)
    /\ WF_allVars(Operate /\ Others)

LoopSpec == LoopInit /\ [][LoopNext]_allVars /\ LoopFairness

-----------------------------------------------------------------------------
(* Properties *)

LoopTypeOK ==
    /\ mode \in PumpMode
    /\ target \in [mode: TargetTempMode, temp: Temps \cup {NoTemp}]
    /\ brewActive \in BOOLEAN
    /\ drive \in {"off", "direct", "press", "flow"}
    /\ pressI \in Integral
    /\ flowI \in Integral

\* What the pump and the heater are to do as soon as the loop looks: a signal
\* not taken yet, or what was taken before.
LoopContract == INSTANCE Machine WITH mode <- state, pump <- NextMode, heater <- NextTarget.mode

\* Signals overwritten, taken or left alone, the loop's view of pump and heater
\* together with the state and the valve only ever makes the moves of the
\* contract; taking a signal is not a move (Signal against Machine).
LoopKeepsContract == LoopContract!MachineSafety

\* On every tick the loop acts for the state the machine is in, not for an
\* earlier one: the heater holds what the state implies, the brew boost is on
\* exactly in a shot, and an idle, sleeping or steaming machine does not pump
\* (try_take of the three signals).
DrivesOf(s) == {DriveOf(m) : m \in LoopContract!PumpModesOf(s)}

LoopActsForState ==
    [][Tick => /\ target'.mode = TargetFor(state)
               /\ target'.mode = "Brew" /\ pc # "boot" => target'.temp = session
               /\ brewActive' = (state = "Brewing")
               /\ drive' \in DrivesOf(state)]_allVars

\* Once the machine is out of its busy state the pump stops, or another
\* operation has begun.
PumpStops == ~Busy ~> (drive = "off" \/ Busy)

\* pid.rs, reset_if_reactivated: "so a fresh engagement doesn't inherit stale
\* wind-up".  No operation's tick runs a controller on an earlier operation's
\* integral.
NoInheritedWindup ==
    [][Tick => /\ drive' = "press" => pressI' # "earlier"
               /\ drive' = "flow" => flowI' # "earlier"]_allVars
=============================================================================
