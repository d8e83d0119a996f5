----------------------------- MODULE Operations -----------------------------
(***************************************************************************)
(* The futures of operations.rs with their clocks: execute and what it     *)
(* awaits, from the start of an operation to its end or cancellation.      *)
(* Coordinator has the same operations without time.                       *)
(*                                                                         *)
(* Time is discrete.  The task that owns the future polls it at most       *)
(* Delay after one of its timers has expired: meanwhile it serves a        *)
(* command, or another task holds the core.                                *)
(***************************************************************************)
EXTENDS Saturating, Sequences

CONSTANTS
    StepProfiles, \* profiles: the time, volume and pump mode of each step, 0 for no limit
    StepSafety,   \* STEP_SAFETY_S
    MaxPumpRun,   \* MAX_PUMP_RUN_S
    MaxHotWater,  \* MAX_HOT_WATER_S
    SteamLimit,   \* steam_time_limit_s
    VolumePoll,   \* 50 ms between two looks at the volume
    TempPoll,     \* 100 ms between two looks at the temperature
    MaxFlow,      \* the most the flow meter adds in a unit of time
    Delay         \* the longest an expired timer waits for its poll

ProfileStep == [time: Nat, volume: Nat, mode: {"Pressure", "DirectPump"}]

ASSUME OperationsAssumption ==
    /\ StepProfiles \subseteq Seq(ProfileStep)
    /\ StepSafety \in Nat /\ MaxPumpRun \in Nat /\ MaxHotWater \in Nat /\ SteamLimit \in Nat
    /\ VolumePoll \in Nat \ {0} /\ TempPoll \in Nat \ {0}
    /\ MaxFlow \in Nat /\ Delay \in Nat

VARIABLES
    op,       \* the operation in the future, or "None"
    steps,    \* the profile's steps
    step,     \* the step that runs, 0 before the first and outside a profile
    poll,     \* the future is "waiting", or being "polled"
    spent,    \* time since the step or the operation began
    check,    \* time until the volume or the temperature is looked at
    overdue,  \* time since a timer has expired
    shot,     \* VOLUME_ML
    pump,     \* the pump mode last signalled
    brew,     \* BrewActiveGuard is armed
    valve,    \* SolenoidGuard is open
    ran,      \* history: time since the operation began
    poured    \* history: the volume when the step began

opsVars == <<op, steps, step, poll, spent, check, overdue, shot, pump, brew, valve, ran, poured>>

PumpOnly == {"DirectPump", "HotWater", "CooldownFlush"}

\* The operations that look at a sensor from time to time, and how often.
Looks == op = "CooldownFlush" \/ (op = "Profile" /\ step > 0 /\ steps[step].volume > 0)
Interval == IF op = "Profile" THEN VolumePoll ELSE TempPoll

-----------------------------------------------------------------------------
(* The limits *)

\* A step without a limit of its own is skipped.
Runs(s) == s.time > 0 \/ s.volume > 0

\* Mutant of StepLimit: only the time the step set itself bounds it.
StepLimitDeclared(s) == IF s.time > 0 THEN s.time ELSE StepSafety

\* The timers a step races: its own time if it has one, and the ceiling.
StepLimit(s) == IF s.time > 0 THEN AtMost(s.time, StepSafety) ELSE StepSafety

\* The timer every other operation has.
TimeLimit(k) ==
    CASE k = "Steam"    -> SteamLimit
      [] k = "HotWater" -> MaxHotWater
      [] OTHER          -> MaxPumpRun

\* The timers of the future: the longest it may wait, and the next look.
Limit == IF op = "Profile" THEN (IF step = 0 THEN 0 ELSE StepLimit(steps[step])) ELSE TimeLimit(op)
TimeUp == spent >= Limit
Expired == TimeUp \/ (Looks /\ check = 0)

\* Mutant of VolumeReached: the step's volume is counted from its own start.
VolumeReachedPerStep ==
    op = "Profile" /\ Looks /\ check = 0 /\ shot - poured >= steps[step].volume

\* The volume a step stops at is counted from the start of the profile, and
\* looked at as the step begins.
VolumeReached == op = "Profile" /\ Looks /\ check = 0 /\ shot >= steps[step].volume

\* The steps that would run after this one.
StepsLeft == {j \in step + 1 .. Len(steps) : Runs(steps[j])}

-----------------------------------------------------------------------------
(* The future *)

\* coordinator's start zeroes the volume; execute opens the valve and takes its
\* guards when the future is polled for the first time; the settings that steam
\* and the cooldown flush read first are taken to be free.
Execute(k, profile) ==
    /\ op = "None"
    /\ op' = k
    /\ steps' = profile
    /\ step' = 0
    /\ poll' = "polled"
    /\ spent' = 0
    /\ check' = 0
    /\ overdue' = 0
    /\ shot' = 0
    /\ valve' = (k \in {"Profile", "DirectPump"})
    /\ brew' = (k = "Profile")
    /\ pump' = IF k \in PumpOnly THEN "DirectPump" ELSE "Idle"
    /\ ran' = 0
    /\ poured' = 0

ExecuteAny ==
    \/ \E k \in {"Steam"} \cup PumpOnly : Execute(k, << >>)
    \/ \E p \in StepProfiles : Execute("Profile", p)

\* The step is over, or none has begun: the next one that runs begins.
NextStep ==
    /\ op = "Profile" /\ poll = "polled"
    /\ TimeUp \/ VolumeReached
    /\ \E j \in StepsLeft :
         /\ \A i \in StepsLeft : j <= i
         /\ step' = j
         /\ pump' = steps[j].mode
    /\ spent' = 0
    /\ check' = 0
    /\ poured' = shot
    /\ UNCHANGED <<op, steps, poll, overdue, shot, brew, valve, ran>>

\* Returning and being dropped release the same guards.
ReleaseGuards ==
    /\ op' = "None"
    /\ pump' = "Idle"
    /\ brew' = FALSE
    /\ valve' = FALSE
    /\ steps' = << >>
    /\ step' = 0
    /\ poll' = "waiting"
    /\ spent' = 0 /\ check' = 0 /\ overdue' = 0
    /\ ran' = 0 /\ poured' = 0
    /\ UNCHANGED shot

\* The last step, a time limit, or a temperature low enough ends it.
Finish ==
    /\ op # "None" /\ poll = "polled"
    /\ IF op = "Profile" THEN (TimeUp \/ VolumeReached) /\ StepsLeft = {}
                         ELSE TimeUp \/ (Looks /\ check = 0)
    /\ ReleaseGuards

\* Not over: the next look is set, and the future waits.
Wait ==
    /\ op # "None" /\ poll = "polled"
    /\ ~TimeUp
    /\ ~VolumeReached
    /\ poll' = "waiting"
    /\ check' = IF Looks /\ check = 0 THEN Interval ELSE check
    /\ overdue' = 0
    /\ UNCHANGED <<op, steps, step, spent, shot, pump, brew, valve, ran, poured>>

-----------------------------------------------------------------------------
(* Around it *)

\* Time passes, and with it water.
Pass ==
    /\ op # "None" /\ poll = "waiting"
    /\ Expired => overdue < Delay
    /\ overdue' = IF Expired THEN overdue + 1 ELSE 0
    /\ spent' = spent + 1
    /\ check' = IF check > 0 THEN check - 1 ELSE 0
    /\ ran' = ran + 1
    /\ \E water \in 0 .. MaxFlow : shot' = shot + water
    /\ UNCHANGED <<op, steps, step, poll, pump, brew, valve, poured>>

Wake ==
    /\ op # "None" /\ poll = "waiting"
    /\ Expired
    /\ poll' = "polled"
    /\ UNCHANGED <<op, steps, step, spent, check, overdue, shot, pump, brew, valve,
                   ran, poured>>

\* The coordinator drops a future that waits.
Cancel ==
    /\ op # "None" /\ poll = "waiting"
    /\ ReleaseGuards

OpsInit ==
    /\ op = "None"
    /\ steps = << >>
    /\ step = 0
    /\ poll = "waiting"
    /\ spent = 0 /\ check = 0 /\ overdue = 0
    /\ shot = 0
    /\ pump = "Idle"
    /\ brew = FALSE
    /\ valve = FALSE
    /\ ran = 0 /\ poured = 0

OpsNext == ExecuteAny \/ NextStep \/ Finish \/ Wait \/ Pass \/ Wake \/ Cancel

OpsSpec == OpsInit /\ [][OpsNext]_opsVars

-----------------------------------------------------------------------------
(* Properties *)

\* No operation outlives what bounds it by more than one delay, or one for each
\* step of a profile: the ceiling, and the time the step has set itself (STEP_SAFETY_S
\* is "the only bound on a volume-only step whose target is never reached",
\* MAX_PUMP_RUN_S that of a pump "until the tank ran dry").
EndsOnTime ==
    CASE op = "Profile"     -> /\ ran <= step * (StepSafety + Delay)
                               /\ step > 0 /\ steps[step].time > 0 => spent <= steps[step].time + Delay
      [] op = "Steam"       -> ran <= SteamLimit + Delay
      [] op = "HotWater"    -> ran <= MaxHotWater + Delay
      [] op \in {"DirectPump", "CooldownFlush"} -> ran <= MaxPumpRun + Delay
      [] OTHER              -> pump = "Idle" /\ ~brew /\ ~valve

\* While a step with a volume runs, no more has poured than its volume and what
\* flows between two looks, whatever the steps before have poured: a step whose
\* volume they have reached pours nothing (cumulative, not per step).
DoseRespected ==
    op = "Profile" /\ step > 0 /\ steps[step].volume > 0 =>
        \/ shot = poured
        \/ shot < steps[step].volume + MaxFlow * (VolumePoll + Delay)
=============================================================================
