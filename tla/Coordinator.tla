---------------------------- MODULE Coordinator ----------------------------
(***************************************************************************)
(* coordinator_task: the single owner of MachineState, of the valve and of *)
(* the one operation that may be running.  It takes commands from a queue  *)
(* fed by the buttons (core0) and the web server (core1), and speaks to    *)
(* the control loop and to the flash task through single-slot signals.     *)
(*                                                                         *)
(* A step is what the task does between two points where it can really     *)
(* yield: the select at the bottom of its loop, and the locks on the       *)
(* settings and profile caches, which core1 may be holding.  An operation  *)
(* is a future the coordinator polls, so its guards are taken and released *)
(* inside the coordinator's own steps.                                     *)
(***************************************************************************)
EXTENDS MachineTypes

CONSTANTS
    Profiles,      \* brew profiles: the pump mode of each step that has a limit
    StandardShot,  \* the built-in profile of a bare Brew with slot 0 empty
    NoProfile,     \* an empty profile slot
    MaxProfiles,   \* number of profile slots
    Temps,         \* brew temperatures
    Values,        \* contents of a settings section
    Initial,       \* the section contents loaded at boot
    StoredProfiles,\* the profile slots loaded at boot
    BrewTemp,      \* the brew temperature loaded at boot
    Offered,       \* the commands the producers of this instance send
    QueueDepth,    \* depth of COMMAND_QUEUE
    SleepTimeout,  \* sleep timeout, in housekeeping periods
    MaxVolume      \* bound on the shot volume, in flow-meter units

NoTemp == 0
Slots  == 0 .. MaxProfiles - 1

SettingsCommand ==
    UNION {UNION {[kind: {k}, edit: [ks -> Values]] : ks \in SectionsOf(k)} : k \in SettingsSaves}
ProfileCommand ==
    [kind: {"SaveProfile"}, slot: Nat, profile: Profiles] \cup [kind: {"DeleteProfile"}, slot: Nat]
SaveCommand == SettingsCommand \cup ProfileCommand
Command ==
    [kind: ActionKinds \ {"RunProfile"}] \cup [kind: {"RunProfile"}, profile: Profiles]
        \cup [kind: {"SetSessionTemp"}, temp: Temps] \cup SaveCommand

ASSUME ProfilesAssumption == Profiles \subseteq Seq(StepModes) /\ StandardShot \in Profiles
ASSUME NoProfileAssumption == NoProfile \notin Profiles
ASSUME TempsAssumption == Temps \subseteq Nat \ {NoTemp} /\ BrewTemp \in Temps
ASSUME ValuesAssumption == Initial \in Values
ASSUME StoredProfilesAssumption == StoredProfiles \in [Slots -> Profiles \cup {NoProfile}]
ASSUME OfferedAssumption == Offered \subseteq Command
ASSUME BoundsAssumption ==
    /\ MaxProfiles \in Nat \ {0}
    /\ QueueDepth \in Nat \ {0}
    /\ SleepTimeout \in Nat
    /\ MaxVolume \in Nat

VARIABLES
    queue,     \* COMMAND_QUEUE
    pc,        \* where coordinator_task is suspended
    state,     \* CURRENT_STATE
    op,        \* the running operation: its kind, the steps left, guards taken?
    due,       \* the operation's future is ready to complete
    valve,     \* the solenoid pin
    pending,   \* the save held back while an operation runs
    inHand,    \* the save being applied
    elapsed,   \* housekeeping periods since last_activity
    session,   \* SESSION_BREW_TEMP
    volume,    \* VOLUME_ML
    settings,  \* CURRENT_SETTINGS
    control,   \* CONTROL_SETTINGS
    profiles,  \* PROFILES_CACHE
    sigPump,   \* SIG_PUMP_MODE
    sigBrew,   \* SIG_BREW_ACTIVE
    sigTemp,   \* SIG_TARGET_TEMP
    sigFlash   \* SIG_FLASH_UPDATE

caches  == <<settings, control, profiles>>
signals == <<sigPump, sigBrew, sigTemp, sigFlash>>
machine == <<state, op, due, valve>>
vars    == <<queue, pc, machine, pending, inHand, elapsed, session, volume, caches, signals>>

-----------------------------------------------------------------------------
(* Values of the variables *)

Nothing == [kind |-> "None"]

NoOp == [kind |-> "None", steps |-> << >>, engaged |-> FALSE]

\* set_target_temp: the target carries the session temperature in Brew mode.
Target(mode, temp) == [mode |-> mode, temp |-> IF mode = "Brew" THEN temp ELSE NoTemp]

NoTarget == [mode |-> "None", temp |-> NoTemp]

\* What `signal`ling a save tells the flash task: a stored profile is named
\* by its slot only, and read again when it is written.
FlashUpdate(save) ==
    IF save.kind \in ProfileSaves THEN [kind |-> save.kind, slot |-> save.slot] ELSE save

-----------------------------------------------------------------------------
(* Helpers of the transition table *)

Busy == state \in BusyStates

\* enter: the only way the machine changes state.
Enter(s) ==
    /\ state' = s
    /\ sigTemp' = Target(TargetFor(s), session)

\* The pump mode an operation leaves signalled after its first poll.
FirstPumpMode(k, steps) ==
    CASE k = "Profile" /\ steps # << >>  -> Head(steps)
      [] k \in {"DirectPump", "HotWater"} -> "DirectPump"
      [] OTHER                            -> "Idle"

\* start, then the first poll of the new future, which takes its guards.  The
\* previous future has been dropped before: only Steam can be replaced, and it
\* holds no guard.  A cooldown flush takes its guard after reading settings.
Start(k, steps) ==
    /\ volume' = 0
    /\ Enter(StateOf(k))
    /\ op' = [kind    |-> k,
              steps   |-> IF steps = << >> THEN << >> ELSE Tail(steps),
              engaged |-> k # "CooldownFlush"]
    /\ due' = (k = "Profile" /\ steps = << >>)
    /\ valve' = (OpensValve(k) \/ valve)
    /\ sigPump' = FirstPumpMode(k, steps)
    /\ sigBrew' = IF k = "Profile" THEN "on" ELSE sigBrew
    /\ pc' = "select"
    /\ UNCHANGED <<pending, inHand, session, caches, sigFlash>>

\* Mutant of Release: no guard closes the valve.
ReleaseLeavesValve ==
    /\ op' = NoOp
    /\ due' = FALSE
    /\ valve' = valve
    /\ sigBrew' = IF op.kind = "Profile" THEN "off" ELSE sigBrew

\* Dropping the operation's future releases the guards it holds.
Release ==
    /\ op' = NoOp
    /\ due' = FALSE
    /\ valve' = (valve /\ ~OpensValve(op.kind))
    /\ sigBrew' = IF op.kind = "Profile" THEN "off" ELSE sigBrew

\* Mutants of LoopTop: last_activity is not reset; the held save is copied
\* instead of taken; the held save is forgotten.
LoopTopKeepsClock ==
    /\ elapsed' = elapsed
    /\ inHand' = pending
    /\ pending' = Nothing
    /\ pc' = IF pending = Nothing THEN "select" ELSE "apply"

LoopTopCopiesSave ==
    /\ elapsed' = 0
    /\ inHand' = pending
    /\ pending' = pending
    /\ pc' = IF pending = Nothing THEN "select" ELSE "apply"

LoopTopDropsSave ==
    /\ elapsed' = 0
    /\ inHand' = Nothing
    /\ pending' = Nothing
    /\ pc' = "select"

\* The top of coordinator_task's outer loop, reached not busy.
LoopTop ==
    /\ elapsed' = 0
    /\ inHand' = pending
    /\ pending' = Nothing
    /\ pc' = IF pending = Nothing THEN "select" ELSE "apply"

\* Mutants of EndOperation: the future stays in its slot; no guard stops the pump.
EndKeepsOperation ==
    /\ Enter("Idle")
    /\ sigPump' = "Idle"
    /\ due' = FALSE
    /\ LoopTop
    /\ UNCHANGED <<op, valve, session, volume, caches, sigBrew, sigFlash>>

EndLeavesPump ==
    /\ Enter("Idle")
    /\ Release
    /\ LoopTop
    /\ UNCHANGED <<session, volume, caches, sigPump, sigFlash>>

\* stop_to_idle and the drop of the running future.
EndOperation ==
    /\ Enter("Idle")
    /\ sigPump' = "Idle"
    /\ Release
    /\ LoopTop
    /\ UNCHANGED <<session, volume, caches, sigFlash>>

-----------------------------------------------------------------------------
(* Producers *)

\* send_command: never blocks, and drops the command when the queue is full.
Send(cmd) ==
    /\ queue' = IF Len(queue) < QueueDepth THEN Append(queue, cmd) ELSE queue
    /\ UNCHANGED <<pc, machine, pending, inHand, elapsed, session, volume, caches, signals>>

\* run_flow_task counts a pulse.
Pour ==
    /\ volume < MaxVolume
    /\ volume' = volume + 1
    /\ UNCHANGED <<queue, pc, machine, pending, inHand, elapsed, session, caches, signals>>

-----------------------------------------------------------------------------
(* coordinator_task: one action per arm *)

\* The start of the task, up to its first select.
Boot ==
    /\ pc = "boot"
    /\ session' = BrewTemp
    /\ state' = "Idle"
    /\ sigTemp' = Target(TargetFor("Idle"), BrewTemp)
    /\ LoopTop
    /\ UNCHANGED <<queue, op, due, valve, volume, caches, sigPump, sigBrew, sigFlash>>

\* select3 is biased: the operation first, then the queue.
Receive(cmd) ==
    /\ pc = "select"
    /\ ~due
    /\ queue # << >>
    /\ cmd = Head(queue)
    /\ queue' = Tail(queue)
    /\ elapsed' = 0

\* Mutant of HoldSave: the first save held keeps the slot.
HoldFirstSave(cmd) ==
    /\ Receive(cmd)
    /\ cmd.kind \in SaveKinds
    /\ Busy
    /\ pending' = IF pending = Nothing THEN cmd ELSE pending
    /\ UNCHANGED <<pc, machine, inHand, session, volume, caches, signals>>

\* serve, RamAndFlash while busy: held back in the one slot.
HoldSave(cmd) ==
    /\ Receive(cmd)
    /\ cmd.kind \in SaveKinds
    /\ Busy
    /\ pending' = cmd
    /\ UNCHANGED <<pc, machine, inHand, session, volume, caches, signals>>

\* Mutants of TakeSave: whatever the state; flash signalled before RAM.
TakeSaveAnyTime(cmd) ==
    /\ Receive(cmd)
    /\ cmd.kind \in SaveKinds
    /\ inHand' = cmd
    /\ pc' = "apply"
    /\ UNCHANGED <<machine, pending, session, volume, caches, signals>>

TakeSaveFlashFirst(cmd) ==
    /\ Receive(cmd)
    /\ cmd.kind \in SaveKinds
    /\ ~Busy
    /\ inHand' = cmd
    /\ sigFlash' = FlashUpdate(cmd)
    /\ pc' = "apply"
    /\ UNCHANGED <<machine, pending, session, volume, caches, sigPump, sigBrew, sigTemp>>

\* serve, RamAndFlash otherwise: apply_ambient up to its first lock.
TakeSave(cmd) ==
    /\ Receive(cmd)
    /\ cmd.kind \in SaveKinds
    /\ ~Busy
    /\ inHand' = cmd
    /\ pc' = "apply"
    /\ UNCHANGED <<machine, pending, session, volume, caches, signals>>

\* update_ram publishes the control loop's copy before it locks the other.
PublishControl ==
    /\ pc = "apply"
    /\ control' = IF inHand.kind \in SettingsSaves THEN Edited(control, inHand.edit) ELSE control
    /\ pc' = "commit"
    /\ UNCHANGED <<queue, machine, pending, inHand, elapsed, session, volume,
                   settings, profiles, signals>>

\* Mutants of CommitSave: the slot is not checked; the flash task is not told.
CommitUncheckedSlot ==
    /\ pc = "commit"
    /\ settings' = IF inHand.kind \in SettingsSaves THEN Edited(settings, inHand.edit) ELSE settings
    /\ profiles' = IF inHand.kind = "SaveProfile"
                   THEN [s \in DOMAIN profiles \cup {inHand.slot} |->
                           IF s = inHand.slot THEN inHand.profile ELSE profiles[s]]
                   ELSE profiles
    /\ sigFlash' = FlashUpdate(inHand)
    /\ inHand' = Nothing
    /\ pc' = "select"
    /\ UNCHANGED <<queue, machine, pending, elapsed, session, volume, control,
                   sigPump, sigBrew, sigTemp>>

CommitUnsignalled ==
    /\ pc = "commit"
    /\ settings' = IF inHand.kind \in SettingsSaves THEN Edited(settings, inHand.edit) ELSE settings
    /\ inHand' = Nothing
    /\ pc' = "select"
    /\ UNCHANGED <<queue, machine, pending, elapsed, session, volume, control, profiles, signals>>

\* The cache is locked: the save reaches RAM and the flash task is signalled.
CommitSave ==
    /\ pc = "commit"
    /\ settings' = IF inHand.kind \in SettingsSaves THEN Edited(settings, inHand.edit) ELSE settings
    /\ profiles' = IF inHand.kind \in ProfileSaves /\ inHand.slot \in Slots
                   THEN [profiles EXCEPT ![inHand.slot] =
                           IF inHand.kind = "SaveProfile" THEN inHand.profile ELSE NoProfile]
                   ELSE profiles
    /\ sigFlash' = FlashUpdate(inHand)
    /\ inHand' = Nothing
    /\ pc' = "select"
    /\ UNCHANGED <<queue, machine, pending, elapsed, session, volume, control,
                   sigPump, sigBrew, sigTemp>>

\* Mutant of SetSessionTemp: signalled in Idle only.
SetIdleSessionTemp(cmd) ==
    /\ Receive(cmd)
    /\ cmd.kind = "SetSessionTemp"
    /\ session' = cmd.temp
    /\ sigTemp' = IF state = "Idle" THEN Target("Brew", cmd.temp) ELSE sigTemp
    /\ UNCHANGED <<pc, machine, pending, inHand, volume, caches, sigPump, sigBrew, sigFlash>>

\* RamOnly: signalled at once where the state heats to the brew temperature.
SetSessionTemp(cmd) ==
    /\ Receive(cmd)
    /\ cmd.kind = "SetSessionTemp"
    /\ session' = cmd.temp
    /\ sigTemp' = IF TargetFor(state) = "Brew" THEN Target("Brew", cmd.temp) ELSE sigTemp
    /\ UNCHANGED <<pc, machine, pending, inHand, volume, caches, sigPump, sigBrew, sigFlash>>

\* Auto-wake: the waking command is dropped.
WakeUp(cmd) ==
    /\ Receive(cmd)
    /\ cmd.kind \in ActionKinds
    /\ state = "Sleeping"
    /\ Enter("Idle")
    /\ UNCHANGED <<pc, op, due, valve, pending, inHand, session, volume, caches,
                   sigPump, sigBrew, sigFlash>>

PowerOff(cmd) ==
    /\ Receive(cmd)
    /\ cmd.kind = "TogglePower"
    /\ state = "Idle"
    /\ Enter("Sleeping")
    /\ UNCHANGED <<pc, op, due, valve, pending, inHand, session, volume, caches,
                   sigPump, sigBrew, sigFlash>>

\* Brew when idle first looks up slot 0, under the lock of the profile cache.
LookUpProfile(cmd) ==
    /\ Receive(cmd)
    /\ cmd.kind = "Brew"
    /\ state = "Idle"
    /\ pc' = "lookup"
    /\ UNCHANGED <<machine, pending, inHand, session, volume, caches, signals>>

\* get_default_profile returned.
StartDefaultProfile ==
    /\ pc = "lookup"
    /\ Start("Profile", IF profiles[0] = NoProfile THEN StandardShot ELSE profiles[0])
    /\ elapsed' = 0
    /\ UNCHANGED queue

\* The commands that start an operation in one go, and what each starts.
StartFromIdle(cmd) ==
    /\ Receive(cmd)
    /\ state = "Idle"
    /\ \/ cmd.kind = "RunProfile" /\ Start("Profile", cmd.profile)
       \/ cmd.kind = "Steam" /\ Start("Steam", << >>)
       \/ cmd.kind \in {"Flush", "DirectPump"} /\ Start("DirectPump", << >>)

\* Mutant of StartFromSteaming: taken from any busy state.
StartFromBusy(cmd) ==
    /\ Receive(cmd)
    /\ Busy
    /\ \/ cmd.kind = "Brew" /\ Start("HotWater", << >>)
       \/ cmd.kind = "Flush" /\ Start("CooldownFlush", << >>)

\* The two onward transitions of Steaming.
StartFromSteaming(cmd) ==
    /\ Receive(cmd)
    /\ state = "Steaming"
    /\ \/ cmd.kind = "Brew" /\ Start("HotWater", << >>)
       \/ cmd.kind = "Flush" /\ Start("CooldownFlush", << >>)

\* Stop when already stopped.
StopWhileIdle(cmd) ==
    /\ Receive(cmd)
    /\ cmd.kind = "Stop"
    /\ state = "Idle"
    /\ Enter("Idle")
    /\ sigPump' = "Idle"
    /\ UNCHANGED <<pc, op, due, valve, pending, inHand, session, volume, caches, sigBrew, sigFlash>>

\* Mutant of StopWhileBusy: no command stops a running shot.
StopExceptShot(cmd) ==
    /\ Receive(cmd)
    /\ cmd.kind \in ActionKinds
    /\ Busy
    /\ state # "Brewing"
    /\ ~(state = "Steaming" /\ cmd.kind \in {"Brew", "Flush"})
    /\ EndOperation

\* Any other command while busy stops the machine.
StopWhileBusy(cmd) ==
    /\ Receive(cmd)
    /\ cmd.kind \in ActionKinds
    /\ Busy
    /\ ~(state = "Steaming" /\ cmd.kind \in {"Brew", "Flush"})
    /\ EndOperation

\* The operation's future returned.
FinishOperation ==
    /\ pc = "select"
    /\ due
    /\ EndOperation
    /\ UNCHANGED queue

\* A housekeeping tick.  Auto-sleep reads the timeout under the settings lock.
Housekeeping ==
    /\ pc = "select"
    /\ ~due
    /\ queue = << >>
    /\ elapsed' = IF elapsed < SleepTimeout THEN elapsed + 1 ELSE elapsed
    /\ pc' = IF state = "Idle" /\ elapsed' >= SleepTimeout THEN "sleep" ELSE "select"
    /\ UNCHANGED <<queue, machine, pending, inHand, session, volume, caches, signals>>

\* sleep_timeout returned: the machine goes to sleep.
GoToSleep ==
    /\ pc = "sleep"
    /\ Enter("Sleeping")
    /\ pc' = "select"
    /\ UNCHANGED <<queue, op, due, valve, pending, inHand, elapsed, session, volume, caches,
                   sigPump, sigBrew, sigFlash>>

-----------------------------------------------------------------------------
(* The running operation, polled by the select *)

\* execute_cooldown_flush has read the settings and engages the pump.
EngageCooldown ==
    /\ pc = "select"
    /\ op.kind = "CooldownFlush"
    /\ ~op.engaged
    /\ op' = [op EXCEPT !.engaged = TRUE]
    /\ sigPump' = "DirectPump"
    /\ UNCHANGED <<queue, pc, state, due, valve, pending, inHand, elapsed, session, volume,
                   caches, sigBrew, sigTemp, sigFlash>>

\* execute_profile: a step's time, volume or safety limit ends it.
NextStep ==
    /\ pc = "select"
    /\ op.steps # << >>
    /\ op' = [op EXCEPT !.steps = Tail(op.steps)]
    /\ sigPump' = Head(op.steps)
    /\ UNCHANGED <<queue, pc, state, due, valve, pending, inHand, elapsed, session, volume,
                   caches, sigBrew, sigTemp, sigFlash>>

\* Mutant of OperationDue: steaming has no safety limit.
OperationDueButSteam ==
    /\ pc = "select"
    /\ ~due
    /\ op.engaged
    /\ op.steps = << >>
    /\ op.kind # "Steam"
    /\ due' = TRUE
    /\ UNCHANGED <<queue, pc, state, op, valve, pending, inHand, elapsed, session, volume,
                   caches, signals>>

\* The last timer or sensor condition of the operation is met.
OperationDue ==
    /\ pc = "select"
    /\ ~due
    /\ op.engaged
    /\ op.steps = << >>
    /\ due' = TRUE
    /\ UNCHANGED <<queue, pc, state, op, valve, pending, inHand, elapsed, session, volume,
                   caches, signals>>

-----------------------------------------------------------------------------
(* Specification *)

Init ==
    /\ queue = << >>
    /\ pc = "boot"
    /\ state = "Idle"
    /\ op = NoOp
    /\ due = FALSE
    /\ valve = FALSE
    /\ pending = Nothing
    /\ inHand = Nothing
    /\ elapsed = 0
    /\ session = NoTemp
    /\ volume = 0
    /\ settings = [s \in Sections |-> Initial]
    /\ control = [s \in ControlSections |-> Initial]
    /\ profiles = StoredProfiles
    /\ sigPump = "None"
    /\ sigBrew = "None"
    /\ sigTemp = NoTarget
    /\ sigFlash = Nothing

Serve(cmd) ==
    \/ HoldSave(cmd)
    \/ TakeSave(cmd)
    \/ SetSessionTemp(cmd)
    \/ WakeUp(cmd)
    \/ PowerOff(cmd)
    \/ LookUpProfile(cmd)
    \/ StartFromIdle(cmd)
    \/ StartFromSteaming(cmd)
    \/ StopWhileIdle(cmd)
    \/ StopWhileBusy(cmd)

\* What the coordinator does whenever it can, other than housekeeping.
Coordinate ==
    \/ Boot
    \/ \E cmd \in Offered : Serve(cmd)
    \/ PublishControl
    \/ CommitSave
    \/ StartDefaultProfile
    \/ FinishOperation
    \/ GoToSleep

\* The progress of the running operation.
Operate ==
    \/ EngageCooldown
    \/ NextStep
    \/ OperationDue

Next ==
    \/ \E cmd \in Offered : Send(cmd)
    \/ Pour
    \/ Housekeeping
    \/ Coordinate
    \/ Operate

\* The executor polls a woken task, and every operation is bounded by timers.
\* Nothing obliges a producer to send, water to flow.
Fairness == WF_vars(Coordinate) /\ WF_vars(Operate)

Spec == Init /\ [][Next]_vars /\ Fairness

-----------------------------------------------------------------------------
(* Type invariant *)

TypeOK ==
    /\ queue \in Seq(Offered)
    /\ pc \in {"boot", "select", "lookup", "apply", "commit", "sleep"}
    /\ state \in MachineState
    /\ op \in [kind: Operation \cup {"None"}, steps: Seq(StepModes), engaged: BOOLEAN]
    /\ due \in BOOLEAN
    /\ valve \in BOOLEAN
    /\ pending \in SaveCommand \cup {Nothing}
    /\ inHand \in SaveCommand \cup {Nothing}
    /\ elapsed \in 0 .. SleepTimeout
    /\ session \in Temps \cup {NoTemp}
    /\ volume \in 0 .. MaxVolume
    /\ settings \in [Sections -> Values]
    /\ control \in [ControlSections -> Values]
    /\ profiles \in [Slots -> Profiles \cup {NoProfile}]
    /\ sigPump \in PumpMode \cup {"None"}
    /\ sigBrew \in {"on", "off", "None"}
    /\ sigTemp \in [mode: TargetTempMode \cup {"None"}, temp: Temps \cup {NoTemp}]
    /\ sigFlash \in SettingsCommand \cup [kind: ProfileSaves, slot: Nat] \cup {Nothing}

=============================================================================
