------------------------- MODULE CoordinatorProofs -------------------------
(***************************************************************************)
(* Coordinator keeps its types, its safety invariants and the contract of  *)
(* Machine, for every set of profiles, commands and values, every queue    *)
(* depth and every timeout.                                                *)
(***************************************************************************)
EXTENDS CoordinatorProperties, TLAPS

-----------------------------------------------------------------------------
(* Saves and what they do to the caches *)

\* A settings save edits some of the sections with values.
LEMMA SettingsEdit ==
    ASSUME NEW c \in SaveCommand, c.kind \in SettingsSaves
    PROVE  c \in SettingsCommand /\ \E ks \in SUBSET Sections : c.edit \in [ks -> Values]
<1>1. c \in SettingsCommand
  BY DEF SaveCommand, ProfileCommand, SettingsSaves
<1>2. PICK k \in SettingsSaves : \E ks \in SectionsOf(k) : c \in [kind: {k}, edit: [ks -> Values]]
  BY <1>1 DEF SettingsCommand
<1>3. SectionsOf(k) \subseteq SUBSET Sections
  BY DEF SectionsOf, Sections, SettingsSaves
<1> QED
  BY <1>1, <1>2, <1>3

\* Writing a save over a cache keeps its sections and the type of its values.
LEMMA EditedType ==
    ASSUME NEW S, NEW s \in [S -> Values], NEW ks, NEW edit \in [ks -> Values]
    PROVE  Edited(s, edit) \in [S -> Values]
BY DEF Edited

\* A profile save names a slot, and a SaveProfile carries a profile.
LEMMA ProfileSave ==
    ASSUME NEW c \in SaveCommand, c.kind \in ProfileSaves
    PROVE  c.slot \in Nat /\ (c.kind = "SaveProfile" => c.profile \in Profiles)
<1>1. c \notin SettingsCommand
  BY DEF SettingsCommand, SettingsSaves, ProfileSaves
<1> QED
  BY <1>1 DEF SaveCommand, ProfileCommand, ProfileSaves

\* No save is the absence of one, and saves are no action commands.
LEMMA SaveIsSomething == \A c \in SaveCommand : c # Nothing /\ c.kind \in SaveKinds
<1> SUFFICES ASSUME NEW c \in SaveCommand PROVE c # Nothing /\ c.kind \in SaveKinds
  OBVIOUS
<1>1. CASE c \in SettingsCommand
  <2>1. PICK k \in SettingsSaves : \E ks \in SectionsOf(k) : c \in [kind: {k}, edit: [ks -> Values]]
    BY <1>1 DEF SettingsCommand
  <2> QED
    BY <2>1 DEF SettingsSaves, SaveKinds, Nothing
<1>2. CASE c \in ProfileCommand
  BY <1>2 DEF ProfileCommand, ProfileSaves, SaveKinds, Nothing
<1> QED
  BY <1>1, <1>2 DEF SaveCommand

\* The command at the head of the queue, by kind.
LEMMA CommandByKind ==
    ASSUME NEW c \in Command
    PROVE  /\ c.kind \in SaveKinds => c \in SaveCommand
           /\ c.kind = "RunProfile" => c.profile \in Profiles
           /\ c.kind = "SetSessionTemp" => c.temp \in Temps
<1>1. CASE c \in SaveCommand
  BY <1>1, SaveIsSomething DEF SaveKinds, SettingsSaves, ProfileSaves
<1>2. CASE c \notin SaveCommand
  BY <1>2 DEF Command, ActionKinds, SaveKinds, SettingsSaves, ProfileSaves
<1> QED
  BY <1>1, <1>2

\* Taking a command leaves a queue of commands.
LEMMA ReceiveType ==
    ASSUME queue \in Seq(Offered), NEW cmd, Receive(cmd)
    PROVE  cmd \in Offered /\ cmd \in Command /\ queue' \in Seq(Offered) /\ elapsed' \in 0 .. SleepTimeout
BY OfferedAssumption, BoundsAssumption DEF Receive

-----------------------------------------------------------------------------
(* Types *)

\* The variables of TypeOK an arm of `serve` or a resumed poll may change, by
\* the helper that changes them.
LEMMA EnterType ==
    ASSUME TypeOK, NEW s \in MachineState, Enter(s)
    PROVE  /\ state' \in MachineState
           /\ sigTemp' \in [mode: TargetTempMode \cup {"None"}, temp: Temps \cup {NoTemp}]
BY DEF TypeOK, Enter, Target, TargetFor, TargetTempMode, MachineState

\* Starting an operation keeps the types of everything `start` touches.
LEMMA StartType ==
    ASSUME TypeOK, NEW k \in Operation, NEW steps \in Seq(StepModes), Start(k, steps),
           queue' \in Seq(Offered), elapsed' \in 0 .. SleepTimeout
    PROVE  TypeOK'
<1>1. StateOf(k) \in MachineState
  BY DEF StateOf, MachineState, Operation
<1>2. /\ state' \in MachineState
      /\ sigTemp' \in [mode: TargetTempMode \cup {"None"}, temp: Temps \cup {NoTemp}]
  BY <1>1, EnterType DEF Start
<1>3. op' \in [kind: Operation \cup {"None"}, steps: Seq(StepModes), engaged: BOOLEAN]
  BY DEF Start
<1>4. sigPump' \in PumpMode
  <2>1. steps # << >> => Head(steps) \in StepModes
    OBVIOUS
  <2> QED
    BY <2>1 DEF Start, FirstPumpMode, PumpMode, StepModes
<1>5. volume' \in 0 .. MaxVolume /\ due' \in BOOLEAN /\ valve' \in BOOLEAN
  BY BoundsAssumption DEF Start, TypeOK, OpensValve
<1>6. sigBrew' \in {"on", "off", "None"} /\ pc' = "select"
  BY DEF Start, TypeOK
<1>7. UNCHANGED <<pending, inHand, session, settings, control, profiles, sigFlash>>
  BY DEF Start, caches
<1> QED
  BY <1>2, <1>3, <1>4, <1>5, <1>6, <1>7 DEF TypeOK

\* The top of the loop hands the held save on and keeps the types.
LEMMA LoopTopType ==
    ASSUME TypeOK, LoopTop
    PROVE  /\ elapsed' \in 0 .. SleepTimeout
           /\ inHand' \in SaveCommand \cup {Nothing}
           /\ pending' \in SaveCommand \cup {Nothing}
           /\ pc' \in {"select", "apply"}
BY BoundsAssumption DEF TypeOK, LoopTop

\* Ending an operation keeps the types of everything it touches.
LEMMA EndOperationType ==
    ASSUME TypeOK, EndOperation, queue' \in Seq(Offered)
    PROVE  TypeOK'
<1>1. /\ state' \in MachineState
      /\ sigTemp' \in [mode: TargetTempMode \cup {"None"}, temp: Temps \cup {NoTemp}]
  BY EnterType DEF EndOperation, MachineState
<1>2. op' \in [kind: Operation \cup {"None"}, steps: Seq(StepModes), engaged: BOOLEAN]
  BY DEF EndOperation, Release, NoOp
<1>3. /\ elapsed' \in 0 .. SleepTimeout
      /\ inHand' \in SaveCommand \cup {Nothing}
      /\ pending' \in SaveCommand \cup {Nothing}
      /\ pc' \in {"select", "apply"}
  BY LoopTopType DEF EndOperation
<1>4. due' \in BOOLEAN /\ valve' \in BOOLEAN /\ sigPump' \in PumpMode
  BY DEF EndOperation, Release, PumpMode, OpensValve, TypeOK
<1>5. sigBrew' \in {"on", "off", "None"}
  BY DEF EndOperation, Release, TypeOK
<1>6. UNCHANGED <<session, volume, settings, control, profiles, sigFlash>>
  BY DEF EndOperation, caches
<1> QED
  BY <1>1, <1>2, <1>3, <1>4, <1>5, <1>6 DEF TypeOK

\* A command of the queue keeps the types.
LEMMA ServeType ==
    ASSUME TypeOK, NEW cmd \in Offered, Serve(cmd)
    PROVE  TypeOK'
<1> USE DEF TypeOK
<1>1. Receive(cmd)
  BY DEF Serve, HoldSave, TakeSave, SetSessionTemp, WakeUp, PowerOff, LookUpProfile,
         StartFromIdle, StartFromSteaming, StopWhileIdle, StopWhileBusy
<1>2. cmd \in Command /\ queue' \in Seq(Offered) /\ elapsed' \in 0 .. SleepTimeout
  BY <1>1, ReceiveType
<1>3. /\ cmd.kind \in SaveKinds => cmd \in SaveCommand
      /\ cmd.kind = "RunProfile" => cmd.profile \in Profiles
      /\ cmd.kind = "SetSessionTemp" => cmd.temp \in Temps
  BY <1>2, CommandByKind
<1>4. CASE HoldSave(cmd)
  BY <1>2, <1>3, <1>4 DEF HoldSave, machine, caches, signals
<1>5. CASE TakeSave(cmd)
  BY <1>2, <1>3, <1>5 DEF TakeSave, machine, caches, signals
<1>6. CASE SetSessionTemp(cmd)
  <2>1. sigTemp' \in [mode: TargetTempMode \cup {"None"}, temp: Temps \cup {NoTemp}]
    BY <1>3, <1>6 DEF SetSessionTemp, Target, TargetTempMode
  <2> QED
    BY <1>2, <1>3, <1>6, <2>1 DEF SetSessionTemp, machine, caches
<1>7. CASE WakeUp(cmd)
  BY <1>2, <1>7, EnterType DEF WakeUp, caches, MachineState
<1>8. CASE PowerOff(cmd)
  BY <1>2, <1>8, EnterType DEF PowerOff, caches, MachineState
<1>9. CASE LookUpProfile(cmd)
  BY <1>2, <1>9 DEF LookUpProfile, machine, caches, signals
<1>10. CASE StartFromIdle(cmd)
  <2>1. << >> \in Seq(StepModes) /\ (cmd.kind = "RunProfile" => cmd.profile \in Seq(StepModes))
    BY <1>3, ProfilesAssumption
  <2> QED
    BY <1>2, <1>10, <2>1, StartType DEF StartFromIdle, Operation
<1>11. CASE StartFromSteaming(cmd)
  <2>1. << >> \in Seq(StepModes)
    OBVIOUS
  <2> QED
    BY <1>2, <1>11, <2>1, StartType DEF StartFromSteaming, Operation
<1>12. CASE StopWhileIdle(cmd)
  BY <1>2, <1>12, EnterType DEF StopWhileIdle, caches, MachineState, PumpMode
<1>13. CASE StopWhileBusy(cmd)
  BY <1>2, <1>13, EndOperationType DEF StopWhileBusy
<1> QED
  BY <1>4, <1>5, <1>6, <1>7, <1>8, <1>9, <1>10, <1>11, <1>12, <1>13 DEF Serve

\* The cache an applied save is written to keeps its type.
LEMMA CommitType ==
    ASSUME TypeOK, inHand # Nothing, PublishControl \/ CommitSave
    PROVE  TypeOK'
<1> USE DEF TypeOK
<1>1. inHand \in SaveCommand
  OBVIOUS
<1>2. ASSUME inHand.kind \in SettingsSaves
      PROVE  /\ inHand \in SettingsCommand
             /\ Edited(control, inHand.edit) \in [ControlSections -> Values]
             /\ Edited(settings, inHand.edit) \in [Sections -> Values]
  BY <1>1, <1>2, SettingsEdit, EditedType
<1>3. ASSUME inHand.kind \in ProfileSaves
      PROVE  inHand.slot \in Nat /\ (inHand.kind = "SaveProfile" => inHand.profile \in Profiles)
  BY <1>1, <1>3, ProfileSave
<1>4. CASE PublishControl
  BY <1>2, <1>4 DEF PublishControl, machine, signals
<1>5. CASE CommitSave
  <2>1. settings' \in [Sections -> Values]
    BY <1>2, <1>5 DEF CommitSave
  <2>2. profiles' \in [Slots -> Profiles \cup {NoProfile}]
    BY <1>3, <1>5 DEF CommitSave, ProfileSaves
  <2>3. sigFlash' \in SettingsCommand \cup [kind: ProfileSaves, slot: Nat]
    BY <1>1, <1>2, <1>3, <1>5, SaveIsSomething DEF CommitSave, FlashUpdate, SaveKinds
  <2> QED
    BY <1>5, <2>1, <2>2, <2>3 DEF CommitSave, machine
<1> QED
  BY <1>4, <1>5

\* Every step keeps the types, given that a suspended save is in hand.
LEMMA TypeStep ==
    ASSUME TypeOK, SlotsConsistent, [Next]_vars
    PROVE  TypeOK'
<1> USE DEF TypeOK
<1>1. ASSUME NEW cmd \in Offered, Send(cmd) PROVE TypeOK'
  BY <1>1 DEF Send, machine, caches, signals
<1>2. CASE Pour
  BY <1>2, BoundsAssumption DEF Pour, machine, caches, signals
<1>3. CASE Housekeeping
  BY <1>3, BoundsAssumption DEF Housekeeping, machine, caches, signals
<1>4. CASE Boot
  <2>1. sigTemp' \in [mode: TargetTempMode \cup {"None"}, temp: Temps \cup {NoTemp}]
    BY <1>4, TempsAssumption DEF Boot, Target, TargetFor, TargetTempMode
  <2> QED
    BY <1>4, <2>1, LoopTopType, TempsAssumption DEF Boot, MachineState, caches
<1>5. ASSUME NEW cmd \in Offered, Serve(cmd) PROVE TypeOK'
  BY <1>5, ServeType
<1>6. CASE PublishControl \/ CommitSave
  BY <1>6, CommitType DEF SlotsConsistent, PublishControl, CommitSave
<1>7. CASE StartDefaultProfile
  <2>1. 0 \in Slots
    BY BoundsAssumption DEF Slots
  <2>2. PICK steps \in Seq(StepModes) : Start("Profile", steps)
    BY <1>7, <2>1, ProfilesAssumption DEF StartDefaultProfile
  <2> QED
    BY <1>7, <2>2, StartType, BoundsAssumption DEF StartDefaultProfile, Operation
<1>8. CASE FinishOperation
  BY <1>8, EndOperationType DEF FinishOperation
<1>9. CASE GoToSleep
  BY <1>9, EnterType DEF GoToSleep, caches, MachineState
<1>10. CASE EngageCooldown
  BY <1>10 DEF EngageCooldown, caches, PumpMode, StepModes
<1>11. CASE NextStep
  <2>1. Head(op.steps) \in PumpMode /\ Tail(op.steps) \in Seq(StepModes)
    BY <1>11 DEF NextStep, PumpMode
  <2> QED
    BY <1>11, <2>1 DEF NextStep, caches
<1>12. CASE OperationDue
  BY <1>12 DEF OperationDue, caches, signals
<1>13. CASE UNCHANGED vars
  BY <1>13 DEF vars, machine, caches, signals
<1> QED
  BY <1>1, <1>2, <1>3, <1>4, <1>5, <1>6, <1>7, <1>8, <1>9, <1>10, <1>11, <1>12, <1>13
  DEF Next, Coordinate, Operate

-----------------------------------------------------------------------------
(* Safety *)

\* The valve serves the operation in the slot.
ValveServesOperation == valve = (op.kind # "None" /\ OpensValve(op.kind))

\* The part of the inductive invariant that does not depend on what becomes of
\* a signal: the state, the operation slot, and the points where the
\* coordinator is suspended.
CoreInv ==
    /\ TypeOK
    /\ OperationServesState
    /\ ValveServesOperation
    /\ SavesWaitForIdle
    /\ SlotsConsistent

\* What a step signals: a pump mode, brew flag or setpoint that suits where the
\* step leads, or nothing, and then what suited before still does.
PumpSaid ==
    \/ sigPump' \in Contract!PumpModesOf(state') /\ (sigPump' # "Idle" => op'.engaged)
    \/ /\ UNCHANGED sigPump
       /\ Contract!PumpModesOf(state') = Contract!PumpModesOf(state)
       /\ op.engaged => op'.engaged

BrewSaid ==
    \/ sigBrew' = "on" /\ op'.kind = "Profile"
    \/ sigBrew' = "off" /\ op'.kind # "Profile"
    \/ UNCHANGED sigBrew /\ ((op'.kind = "Profile") = (op.kind = "Profile"))

SetpointSaid ==
    \/ sigTemp' = Target(TargetFor(state'), session')
    \/ /\ UNCHANGED sigTemp
       /\ Target(TargetFor(state'), session') = Target(TargetFor(state), session)
       /\ (pc' = "boot") = (pc = "boot")

\* What the contract lets the pump do, state by state.
LEMMA PumpModesByState ==
    /\ Contract!PumpModesOf("Idle") = {"Idle"}
    /\ Contract!PumpModesOf("Sleeping") = {"Idle"}
    /\ Contract!PumpModesOf("Steaming") = {"Idle"}
    /\ Contract!PumpModesOf("Brewing") = PumpMode
    /\ Contract!PumpModesOf("Pumping") = {"DirectPump"}
    /\ Contract!PumpModesOf("HotWater") = {"DirectPump"}
    /\ Contract!PumpModesOf("Cooling") = {"Idle", "DirectPump"}
BY DEF Contract!PumpModesOf, Contract!PumpMode, Contract!StepModes, PumpMode, StepModes

\* The contract speaks the coordinator's vocabulary.
LEMMA SameVocabulary ==
    /\ Contract!MachineState = MachineState
    /\ Contract!BusyStates = BusyStates
    /\ \A s : Contract!TargetFor(s) = TargetFor(s)
BY DEF Contract!MachineState, MachineState, Contract!BusyStates, BusyStates,
       Contract!TargetFor, TargetFor

\* The machine is consistent when it is switched on.
LEMMA InitCore == Init => CoreInv
<1> SUFFICES ASSUME Init PROVE CoreInv
  OBVIOUS
<1>1. TypeOK
  <2>1. op \in [kind: Operation \cup {"None"}, steps: Seq(StepModes), engaged: BOOLEAN]
    BY DEF Init, NoOp
  <2>2. /\ settings \in [Sections -> Values] /\ control \in [ControlSections -> Values]
        /\ profiles \in [Slots -> Profiles \cup {NoProfile}]
    BY ValuesAssumption, StoredProfilesAssumption DEF Init
  <2>3. elapsed \in 0 .. SleepTimeout /\ volume \in 0 .. MaxVolume
    BY BoundsAssumption DEF Init
  <2>4. queue \in Seq(Offered) /\ sigTemp \in [mode: TargetTempMode \cup {"None"}, temp: Temps \cup {NoTemp}]
    BY DEF Init, NoTarget
  <2> QED
    BY <2>1, <2>2, <2>3, <2>4 DEF Init, TypeOK, MachineState
<1>2. OperationServesState /\ ValveServesOperation
  BY DEF Init, OperationServesState, ValveServesOperation, NoOp, Busy, BusyStates
<1>3. SavesWaitForIdle /\ SlotsConsistent
  BY DEF Init, SavesWaitForIdle, SlotsConsistent, NoOp
<1> QED
  BY <1>1, <1>2, <1>3 DEF CoreInv

\* Starting an operation, from Idle or in place of Steam.
LEMMA StartSafe ==
    ASSUME CoreInv, NEW k \in Operation, NEW steps \in Seq(StepModes),
           steps # << >> => k = "Profile",
           op.kind \in {"None", "Steam"}, pc # "boot", Start(k, steps)
    PROVE  /\ OperationServesState' /\ ValveServesOperation'
           /\ SavesWaitForIdle' /\ SlotsConsistent'
           /\ PumpSaid /\ BrewSaid /\ SetpointSaid
<1>1. /\ op'.kind = k /\ state' = StateOf(k) /\ pc' = "select"
      /\ op'.engaged = (k # "CooldownFlush")
      /\ op'.steps = (IF steps = << >> THEN << >> ELSE Tail(steps))
      /\ due' = (k = "Profile" /\ steps = << >>)
  BY DEF Start, Enter
<1>2. k # "None" /\ StateOf(k) \in BusyStates
  BY DEF Operation, StateOf, BusyStates
<1>3. OperationServesState'
  BY <1>1, <1>2 DEF OperationServesState
<1>4. ValveServesOperation'
  <2>1. valve = FALSE
    BY DEF CoreInv, ValveServesOperation, OpensValve
  <2> QED
    BY <1>1, <1>2, <2>1 DEF Start, OpensValve, ValveServesOperation
<1>5. PumpSaid
  <2>1. sigPump' = FirstPumpMode(k, steps)
    BY DEF Start
  <2>2. steps # << >> => Head(steps) \in PumpMode
    BY DEF PumpMode
  <2>3. CASE k = "Profile"
    BY <1>1, <2>1, <2>2, <2>3, PumpModesByState DEF PumpSaid, FirstPumpMode, StateOf, PumpMode
  <2>4. CASE k \in {"DirectPump", "HotWater"}
    BY <1>1, <2>1, <2>4, PumpModesByState DEF PumpSaid, FirstPumpMode, StateOf
  <2>5. CASE k \in {"Steam", "CooldownFlush"}
    BY <1>1, <2>1, <2>5, PumpModesByState DEF PumpSaid, FirstPumpMode, StateOf
  <2> QED
    BY <2>3, <2>4, <2>5 DEF Operation
<1>6. BrewSaid
  BY <1>1 DEF Start, BrewSaid
<1>7. SetpointSaid
  BY DEF Start, Enter, SetpointSaid
<1>8. SavesWaitForIdle' /\ SlotsConsistent'
  BY <1>1, <1>2 DEF SavesWaitForIdle, SlotsConsistent, Busy
<1> QED
  BY <1>3, <1>4, <1>5, <1>6, <1>7, <1>8

\* Ending one: stop_to_idle, the guards, and the top of the loop.
LEMMA EndSafe ==
    ASSUME CoreInv, EndOperation
    PROVE  /\ OperationServesState' /\ ValveServesOperation'
           /\ SavesWaitForIdle' /\ SlotsConsistent'
           /\ PumpSaid /\ BrewSaid /\ SetpointSaid
<1>1. op' = NoOp /\ due' = FALSE /\ state' = "Idle" /\ sigPump' = "Idle" /\ pending' = Nothing
  BY DEF EndOperation, Release, Enter, LoopTop
<1>2. valve' = FALSE
  BY DEF EndOperation, Release, CoreInv, ValveServesOperation, OpensValve
<1>3. pc' \in {"select", "apply"} /\ (pc' = "apply" => inHand' # Nothing)
  BY DEF EndOperation, LoopTop
<1>4. OperationServesState' /\ ValveServesOperation'
  BY <1>1, <1>2 DEF OperationServesState, ValveServesOperation, NoOp, Busy, BusyStates
<1>5. PumpSaid /\ SetpointSaid
  BY <1>1, PumpModesByState DEF EndOperation, Enter, PumpSaid, SetpointSaid
<1>6. BrewSaid
  BY <1>1 DEF EndOperation, Release, BrewSaid, NoOp
<1>7. SavesWaitForIdle' /\ SlotsConsistent'
  BY <1>1, <1>3 DEF SavesWaitForIdle, SlotsConsistent, Busy, BusyStates, NoOp
<1> QED
  BY <1>4, <1>5, <1>6, <1>7

\* A step that leaves state, operation, valve and session alone, signals
\* nothing, and does not boot.
LEMMA QuietSays ==
    ASSUME CoreInv, UNCHANGED <<state, op, valve, session, sigPump, sigBrew, sigTemp>>,
           (pc' = "boot") = (pc = "boot")
    PROVE  /\ OperationServesState' /\ ValveServesOperation'
           /\ PumpSaid /\ BrewSaid /\ SetpointSaid
BY DEF CoreInv, OperationServesState, ValveServesOperation, Busy, PumpSaid, BrewSaid, SetpointSaid

\* A command served in any state.
LEMMA ServeSafe ==
    ASSUME CoreInv, NEW cmd \in Offered, Serve(cmd)
    PROVE  /\ OperationServesState' /\ ValveServesOperation'
           /\ SavesWaitForIdle' /\ SlotsConsistent'
           /\ PumpSaid /\ BrewSaid /\ SetpointSaid
<1>1. Receive(cmd) /\ pc = "select" /\ due = FALSE
  BY DEF Serve, HoldSave, TakeSave, SetSessionTemp, WakeUp, PowerOff, LookUpProfile,
         StartFromIdle, StartFromSteaming, StopWhileIdle, StopWhileBusy, Receive, CoreInv, TypeOK
<1>2. cmd \in Command
  BY <1>1, ReceiveType DEF CoreInv, TypeOK
<1>3. cmd.kind \in SaveKinds => cmd # Nothing
  BY DEF SaveKinds, SettingsSaves, ProfileSaves, Nothing
<1>4. ~Busy => op.kind = "None" /\ ~op.engaged /\ op.steps = << >>
  BY DEF CoreInv, OperationServesState, SlotsConsistent, StateOf, Operation, Busy, BusyStates, TypeOK
<1>5. CASE HoldSave(cmd)
  <2>1. SavesWaitForIdle' /\ SlotsConsistent'
    BY <1>1, <1>5 DEF HoldSave, machine, signals, CoreInv, SavesWaitForIdle, SlotsConsistent, Busy
  <2> QED
    BY <1>5, <2>1, QuietSays DEF HoldSave, machine, signals
<1>6. CASE TakeSave(cmd)
  <2>1. SavesWaitForIdle' /\ SlotsConsistent'
    BY <1>1, <1>3, <1>4, <1>6 DEF TakeSave, machine, signals, CoreInv, SavesWaitForIdle,
       SlotsConsistent, Busy
  <2> QED
    BY <1>1, <1>6, <2>1, QuietSays DEF TakeSave, machine, signals
<1>7. CASE SetSessionTemp(cmd)
  <2>1. PumpSaid /\ BrewSaid
    BY <1>7 DEF SetSessionTemp, machine, PumpSaid, BrewSaid
  <2>2. SetpointSaid
    BY <1>1, <1>7 DEF SetSessionTemp, machine, SetpointSaid, Target
  <2>3. /\ OperationServesState' /\ ValveServesOperation'
        /\ SavesWaitForIdle' /\ SlotsConsistent'
    BY <1>1, <1>7 DEF SetSessionTemp, machine, CoreInv, OperationServesState, ValveServesOperation,
       SavesWaitForIdle, SlotsConsistent, Busy
  <2> QED
    BY <2>1, <2>2, <2>3
<1>8. CASE WakeUp(cmd) \/ PowerOff(cmd) \/ StopWhileIdle(cmd)
  <2>1. ~Busy /\ state \in {"Idle", "Sleeping"}
    BY <1>8 DEF WakeUp, PowerOff, StopWhileIdle, Busy, BusyStates
  <2>2. /\ state' \in {"Idle", "Sleeping"} /\ pc' = "select" /\ sigPump' \in {sigPump, "Idle"}
        /\ Enter(state') /\ UNCHANGED <<op, due, valve, pending, inHand, session, sigBrew>>
    BY <1>1, <1>8 DEF WakeUp, PowerOff, StopWhileIdle, Enter
  <2>3. BrewSaid /\ SetpointSaid
    BY <2>2 DEF Enter, SetpointSaid, BrewSaid
  <2>4. PumpSaid
    BY <2>1, <2>2, PumpModesByState DEF PumpSaid
  <2>5. OperationServesState' /\ ValveServesOperation'
    BY <1>4, <2>1, <2>2 DEF CoreInv, OperationServesState, ValveServesOperation, Busy, BusyStates
  <2>6. SavesWaitForIdle' /\ SlotsConsistent'
    BY <1>4, <2>1, <2>2 DEF CoreInv, SavesWaitForIdle, SlotsConsistent, Busy, BusyStates
  <2> QED
    BY <2>3, <2>4, <2>5, <2>6
<1>9. CASE LookUpProfile(cmd)
  <2>1. ~Busy
    BY <1>9 DEF LookUpProfile, Busy, BusyStates
  <2>2. SavesWaitForIdle' /\ SlotsConsistent'
    BY <1>1, <1>4, <1>9, <2>1 DEF LookUpProfile, machine, signals, CoreInv, SavesWaitForIdle,
       SlotsConsistent, Busy
  <2> QED
    BY <1>1, <1>9, <2>2, QuietSays DEF LookUpProfile, machine, signals
<1>10. CASE StartFromIdle(cmd)
  <2>1. op.kind = "None"
    BY <1>4, <1>10 DEF StartFromIdle, Busy, BusyStates
  <2>2. PICK k \in Operation, steps \in Seq(StepModes) :
          (steps # << >> => k = "Profile") /\ Start(k, steps)
    <3>1. << >> \in Seq(StepModes) /\ (cmd.kind = "RunProfile" => cmd.profile \in Seq(StepModes))
      BY <1>2, CommandByKind, ProfilesAssumption
    <3> QED
      BY <1>10, <3>1 DEF StartFromIdle, Operation
  <2> QED
    BY <1>1, <2>1, <2>2, StartSafe
<1>11. CASE StartFromSteaming(cmd)
  <2>1. op.kind = "Steam"
    BY <1>11 DEF StartFromSteaming, CoreInv, OperationServesState, Busy, BusyStates, StateOf,
                 Operation, TypeOK
  <2>2. PICK k \in Operation : Start(k, << >>)
    BY <1>11 DEF StartFromSteaming, Operation
  <2>3. << >> \in Seq(StepModes)
    OBVIOUS
  <2> QED
    BY <1>1, <2>1, <2>2, <2>3, StartSafe
<1>12. CASE StopWhileBusy(cmd)
  BY <1>12, EndSafe DEF StopWhileBusy
<1> QED
  BY <1>5, <1>6, <1>7, <1>8, <1>9, <1>10, <1>11, <1>12 DEF Serve

\* Every step of the coordinator, its operation and its producers keeps it so,
\* and signals what suits.
LEMMA StepCore ==
    ASSUME CoreInv, [Next]_vars
    PROVE  CoreInv' /\ PumpSaid /\ BrewSaid /\ SetpointSaid
<1>1. TypeOK'
  BY TypeStep DEF CoreInv
<1> DEFINE Safe == /\ OperationServesState' /\ ValveServesOperation'
                   /\ SavesWaitForIdle' /\ SlotsConsistent'
                   /\ PumpSaid /\ BrewSaid /\ SetpointSaid
<1>2. SUFFICES Safe
  BY <1>1 DEF CoreInv
<1>3. ASSUME \/ \E cmd \in Offered : Send(cmd)
             \/ Pour
             \/ Housekeeping
             \/ OperationDue
             \/ UNCHANGED vars
      PROVE  Safe
  <2>1. /\ UNCHANGED <<state, op, valve, session, sigPump, sigBrew, sigTemp, pending, inHand>>
        /\ pc' = pc \/ (pc = "select" /\ pc' = "sleep" /\ state = "Idle" /\ ~due)
        /\ due' => due \/ op.engaged
    BY <1>3 DEF Send, Pour, Housekeeping, OperationDue, vars, machine, signals
  <2>2. state = "Idle" => op.kind = "None"
    BY DEF CoreInv, OperationServesState, TypeOK, StateOf, Operation
  <2>3. SavesWaitForIdle' /\ SlotsConsistent'
    BY <2>1, <2>2 DEF CoreInv, SavesWaitForIdle, SlotsConsistent, Busy
  <2> QED
    BY <2>1, <2>3, QuietSays
<1>4. CASE Boot
  <2>1. /\ state = "Idle" /\ state' = "Idle" /\ pc' = "select" /\ op.kind = "None"
        /\ pending' = Nothing /\ UNCHANGED <<op, due, valve, sigPump, sigBrew>>
    BY <1>4 DEF Boot, LoopTop, CoreInv, SlotsConsistent
  <2>2. SetpointSaid
    BY <1>4 DEF Boot, SetpointSaid
  <2> QED
    BY <2>1, <2>2 DEF CoreInv, OperationServesState, ValveServesOperation, SavesWaitForIdle,
       SlotsConsistent, Busy, BusyStates, PumpSaid, BrewSaid
<1>5. ASSUME NEW cmd \in Offered, Serve(cmd) PROVE Safe
  BY <1>5, ServeSafe
<1>6. CASE PublishControl \/ CommitSave
  <2>1. /\ UNCHANGED <<state, op, due, valve, session, sigPump, sigBrew, sigTemp, pending>>
        /\ pc \in {"apply", "commit"}
        /\ \/ pc' = "commit" /\ inHand' = inHand
           \/ pc' = "select"
    BY <1>6 DEF PublishControl, CommitSave, machine, signals
  <2>2. SavesWaitForIdle' /\ SlotsConsistent'
    BY <2>1 DEF CoreInv, SavesWaitForIdle, SlotsConsistent, Busy
  <2> QED
    BY <2>1, <2>2, QuietSays
<1>7. CASE StartDefaultProfile
  <2>1. 0 \in Slots
    BY BoundsAssumption DEF Slots
  <2>2. PICK steps \in Seq(StepModes) : Start("Profile", steps)
    BY <1>7, <2>1, ProfilesAssumption DEF StartDefaultProfile, CoreInv, TypeOK
  <2>3. op.kind = "None" /\ pc # "boot"
    BY <1>7 DEF StartDefaultProfile, CoreInv, SlotsConsistent
  <2> QED
    BY <2>2, <2>3, StartSafe DEF Operation
<1>8. CASE FinishOperation
  BY <1>8, EndSafe DEF FinishOperation
<1>9. CASE GoToSleep
  <2>1. op.kind = "None" /\ ~Busy /\ state = "Idle"
    BY <1>9 DEF GoToSleep, CoreInv, SlotsConsistent, Busy, BusyStates
  <2>2. SetpointSaid
    BY <1>9 DEF GoToSleep, Enter, SetpointSaid
  <2> QED
    BY <1>9, <2>1, <2>2, PumpModesByState DEF GoToSleep, Enter, CoreInv, OperationServesState,
       ValveServesOperation, SavesWaitForIdle, SlotsConsistent, Busy, BusyStates, PumpSaid, BrewSaid
<1>10. CASE EngageCooldown
  <2>1. /\ op'.kind = "CooldownFlush" /\ op'.engaged /\ op'.steps = op.steps
        /\ op.kind = "CooldownFlush" /\ state = "Cooling"
    BY <1>10 DEF EngageCooldown, CoreInv, TypeOK, OperationServesState, StateOf
  <2>2. PumpSaid /\ BrewSaid /\ SetpointSaid
    BY <1>10, <2>1, PumpModesByState DEF EngageCooldown, PumpSaid, BrewSaid, SetpointSaid
  <2> QED
    BY <1>10, <2>1, <2>2 DEF EngageCooldown, CoreInv, OperationServesState, ValveServesOperation,
       SavesWaitForIdle, SlotsConsistent, Busy
<1>11. CASE NextStep
  <2>1. /\ op'.kind = "Profile" /\ op.kind = "Profile" /\ op'.engaged = op.engaged /\ op.engaged
        /\ state = "Brewing"
    BY <1>11 DEF NextStep, CoreInv, TypeOK, SlotsConsistent, OperationServesState, StateOf
  <2>2. sigPump' \in PumpMode
    BY <1>11 DEF NextStep, CoreInv, TypeOK, PumpMode
  <2>3. PumpSaid /\ BrewSaid /\ SetpointSaid
    BY <1>11, <2>1, <2>2, PumpModesByState DEF NextStep, PumpSaid, BrewSaid, SetpointSaid
  <2> QED
    BY <1>11, <2>1, <2>3 DEF NextStep, CoreInv, OperationServesState, ValveServesOperation,
       SavesWaitForIdle, SlotsConsistent, Busy
<1> QED
  BY <1>3, <1>4, <1>5, <1>6, <1>7, <1>8, <1>9, <1>10, <1>11 DEF Next, Coordinate, Operate

-----------------------------------------------------------------------------
(* What was last signalled *)

\* The inductive invariant of the coordinator on its own.
IInv == CoreInv /\ ActuatorsFollowOperation /\ SetpointFollowsState

LEMMA InitSafe == Init => IInv
<1> SUFFICES ASSUME Init PROVE IInv
  OBVIOUS
<1>1. ActuatorsFollowOperation /\ SetpointFollowsState
  BY PumpModesByState DEF Init, ActuatorsFollowOperation, SetpointFollowsState, NoOp, Pump, BrewActive
<1> QED
  BY <1>1, InitCore DEF IInv

\* Since nobody takes the signals here, what suited when it was signalled suits
\* for as long as nothing else is signalled.
LEMMA StepSafe == IInv /\ [Next]_vars => IInv'
<1> SUFFICES ASSUME IInv, [Next]_vars PROVE IInv'
  OBVIOUS
<1>1. CoreInv' /\ PumpSaid /\ BrewSaid /\ SetpointSaid
  BY StepCore DEF IInv
<1>2. Pump' \in Contract!PumpModesOf(state') /\ (Pump' # "Idle" => op'.engaged)
  <2>1. "None" \notin Contract!PumpModesOf(state')
    <3>1. state' \in MachineState
      BY <1>1 DEF CoreInv, TypeOK
    <3> QED
      BY <3>1, PumpModesByState DEF MachineState, PumpMode, StepModes
  <2> QED
    BY <1>1, <2>1 DEF PumpSaid, IInv, ActuatorsFollowOperation, Pump
<1>3. BrewActive' = (op'.kind = "Profile")
  BY <1>1 DEF BrewSaid, IInv, ActuatorsFollowOperation, BrewActive
<1>4. SetpointFollowsState'
  BY <1>1 DEF SetpointSaid, IInv, SetpointFollowsState
<1>5. ActuatorsFollowOperation'
  BY <1>1, <1>2, <1>3 DEF CoreInv, ValveServesOperation, ActuatorsFollowOperation
<1> QED
  BY <1>1, <1>4, <1>5 DEF IInv

\* Coordinator keeps its types, whatever its constants are.
THEOREM TypeCorrect == Spec => []TypeOK
<1>1. IInv => TypeOK
  BY DEF IInv, CoreInv
<1> QED
  BY <1>1, InitSafe, StepSafe, PTL DEF Spec

\* A busy state is shown exactly while its operation is in the slot.
THEOREM ServesState == Spec => []OperationServesState
<1>1. IInv => OperationServesState
  BY DEF IInv, CoreInv
<1> QED
  BY <1>1, InitSafe, StepSafe, PTL DEF Spec

\* Whatever operation is dropped, wherever it has got to: valve, pump and brew
\* flag are left to the operation in the slot.
THEOREM ActuatorsSafe == Spec => []ActuatorsFollowOperation
<1>1. IInv => ActuatorsFollowOperation
  BY DEF IInv
<1> QED
  BY <1>1, InitSafe, StepSafe, PTL DEF Spec

\* The setpoint is never an earlier state's, nor an earlier session's.
THEOREM SetpointCorrect == Spec => []SetpointFollowsState
<1>1. IInv => SetpointFollowsState
  BY DEF IInv
<1> QED
  BY <1>1, InitSafe, StepSafe, PTL DEF Spec

\* No save is applied during an operation, and none is held outside one.
THEOREM SavesWait == Spec => []SavesWaitForIdle
<1>1. IInv => SavesWaitForIdle
  BY DEF IInv, CoreInv
<1> QED
  BY <1>1, InitSafe, StepSafe, PTL DEF Spec

-----------------------------------------------------------------------------
(* The contract *)

\* The state determines the valve.
LEMMA ValveOfState == CoreInv => valve = Contract!ValveFor(state)
<1> SUFFICES ASSUME CoreInv PROVE valve = Contract!ValveFor(state)
  OBVIOUS
<1>1. CASE op.kind = "None"
  BY <1>1 DEF CoreInv, OperationServesState, ValveServesOperation, Busy, BusyStates,
              Contract!ValveFor
<1>2. CASE op.kind # "None"
  BY <1>2 DEF CoreInv, TypeOK, OperationServesState, ValveServesOperation, StateOf, Operation,
              OpensValve, Contract!ValveFor
<1> QED
  BY <1>1, <1>2

\* The state determines the valve and the setpoint, and bounds the pump mode.
OutputsFollowState ==
    /\ valve = Contract!ValveFor(state)
    /\ Heater = Contract!TargetFor(state)
    /\ Pump \in Contract!PumpModesOf(state)

\* The inductive invariant fixes the outputs as the contract sees them.
LEMMA OutputsOfState == IInv => OutputsFollowState
<1> SUFFICES ASSUME IInv PROVE OutputsFollowState
  OBVIOUS
<1>1. valve = Contract!ValveFor(state)
  BY ValveOfState DEF IInv
<1>2. Heater = TargetFor(state)
  <2>1. CASE pc = "boot"
    BY <2>1 DEF IInv, CoreInv, SlotsConsistent, NoTarget, Heater, TargetFor
  <2>2. CASE pc # "boot"
    BY <2>2 DEF IInv, SetpointFollowsState, Target, TargetFor, Heater
  <2> QED
    BY <2>1, <2>2
<1> QED
  BY <1>1, <1>2, SameVocabulary DEF IInv, ActuatorsFollowOperation, OutputsFollowState

\* The transition table, read off the coordinator's actions.
LEMMA ModeTransitions ==
    ASSUME CoreInv, [Next]_vars
    PROVE  state' = state \/ <<state, state'>> \in Contract!Transitions
<1> USE DEF Contract!Transitions
<1>1. ASSUME NEW cmd \in Offered, Serve(cmd)
      PROVE  state' = state \/ <<state, state'>> \in Contract!Transitions
  <2>1. CASE HoldSave(cmd) \/ TakeSave(cmd) \/ SetSessionTemp(cmd) \/ LookUpProfile(cmd)
    BY <2>1 DEF HoldSave, TakeSave, SetSessionTemp, LookUpProfile, machine
  <2>2. CASE WakeUp(cmd) \/ PowerOff(cmd) \/ StopWhileIdle(cmd)
    BY <2>2 DEF WakeUp, PowerOff, StopWhileIdle, Enter
  <2>3. CASE StartFromIdle(cmd)
    BY <2>3 DEF StartFromIdle, Start, Enter, StateOf
  <2>4. CASE StartFromSteaming(cmd)
    BY <2>4 DEF StartFromSteaming, Start, Enter, StateOf
  <2>5. CASE StopWhileBusy(cmd)
    BY <2>5, SameVocabulary DEF StopWhileBusy, EndOperation, Enter, Busy
  <2> QED
    BY <1>1, <2>1, <2>2, <2>3, <2>4, <2>5 DEF Serve
<1>2. CASE Boot
  BY <1>2 DEF Boot, CoreInv, SlotsConsistent
<1>3. CASE StartDefaultProfile
  BY <1>3 DEF StartDefaultProfile, Start, Enter, StateOf, CoreInv, SlotsConsistent
<1>4. CASE FinishOperation
  <2>1. state \in BusyStates
    BY <1>4 DEF FinishOperation, CoreInv, SlotsConsistent, OperationServesState, TypeOK, StateOf,
                Operation, BusyStates
  <2> QED
    BY <1>4, <2>1, SameVocabulary DEF FinishOperation, EndOperation, Enter
<1>5. CASE GoToSleep
  BY <1>5 DEF GoToSleep, Enter, CoreInv, SlotsConsistent
<1>6. CASE \/ \E cmd \in Offered : Send(cmd)
           \/ Pour \/ Housekeeping \/ PublishControl \/ CommitSave \/ Operate
           \/ UNCHANGED vars
  BY <1>6 DEF Send, Pour, Housekeeping, PublishControl, CommitSave, Operate, EngageCooldown,
              NextStep, OperationDue, vars, machine
<1> QED
  BY <1>1, <1>2, <1>3, <1>4, <1>5, <1>6 DEF Next, Coordinate

\* Every behaviour of the coordinator is one the contract of Machine allows.
THEOREM ImplementsContract == Spec => KeepsContract
<1>1. Init => Contract!MachineInit
  BY DEF Init, Contract!MachineInit, Pump, Heater, NoTarget
<1>2. IInv /\ IInv' /\ [Next]_vars => [Contract!MachineNext]_Contract!mvars
  <2> SUFFICES ASSUME IInv, IInv', [Next]_vars
               PROVE  [Contract!MachineNext]_Contract!mvars
    OBVIOUS
  <2>1. OutputsFollowState
    BY OutputsOfState
  <2>2. OutputsFollowState'
    BY OutputsOfState, PTL
  <2>3. state' \in Contract!MachineState
    BY SameVocabulary DEF IInv, CoreInv, TypeOK
  <2>4. CASE state' = state
    <3>1. Contract!DrivePump
      BY <2>1, <2>2, <2>4 DEF OutputsFollowState, Contract!DrivePump
    <3> QED
      BY <3>1 DEF Contract!MachineNext
  <2>5. CASE <<state, state'>> \in Contract!Transitions
    <3>1. Contract!Move(state')
      BY <2>2, <2>5 DEF OutputsFollowState, Contract!Move
    <3> QED
      BY <2>3, <3>1 DEF Contract!MachineNext
  <2> QED
    BY <2>4, <2>5, ModeTransitions DEF IInv
<1> QED
  BY <1>1, <1>2, InitSafe, StepSafe, PTL DEF Spec, KeepsContract, Contract!MachineSafety
=============================================================================
