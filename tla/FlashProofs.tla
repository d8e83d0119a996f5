---------------------------- MODULE FlashProofs ----------------------------
(***************************************************************************)
(* What flash holds is never older than what it held, never newer than     *)
(* what RAM holds, and of one form's gains it holds both or neither, for   *)
(* every queue depth, set of forms and number of power cuts and errors.    *)
(* With one form in use flash comes to hold what RAM holds.                *)
(*                                                                         *)
(* FlashVersions and FlashOneForm are two uses of FlashStore: what is      *)
(* assumed of versions is used in the part about versions alone, what is   *)
(* assumed of forms in the part about one form.                            *)
(***************************************************************************)
EXTENDS FlashVersions, FlashOneForm, CoordinatorProofs

-----------------------------------------------------------------------------
(* The flash task and the update in its hand *)

\* The sections still to be written are ones the update in hand carries.
TodoOfUpdate ==
    todo # << >> => held \in SettingsCommand /\ todo \in Seq(DOMAIN held.edit)

StoreInv == CoreInv /\ StoreTypeOK /\ TodoOfUpdate

Update == SettingsCommand \cup [kind: ProfileSaves, slot: Nat] \cup {Nothing}

\* A settings save carries values for sections of the settings.
LEMMA FormEdit ==
    ASSUME NEW u \in SettingsCommand
    PROVE  /\ u.kind \in SettingsSaves
           /\ DOMAIN u.edit \in SectionsOf(u.kind)
           /\ DOMAIN u.edit \subseteq Sections
           /\ u.edit \in [DOMAIN u.edit -> Values]
<1>1. PICK k \in SettingsSaves : \E ks \in SectionsOf(k) : u \in [kind: {k}, edit: [ks -> Values]]
  BY DEF SettingsCommand
<1>2. PICK ks \in SectionsOf(k) : u \in [kind: {k}, edit: [ks -> Values]]
  BY <1>1
<1>3. ks \subseteq Sections
  BY <1>1, <1>2 DEF SectionsOf, Sections, SettingsSaves
<1> QED
  BY <1>1, <1>2, <1>3

LEMMA SomeSections ==
    ASSUME NEW S, NEW x \in S, NEW y \in S, NEW z \in S
    PROVE  <<x>> \in Seq(S) /\ <<x, y>> \in Seq(S) /\ <<x, y, z>> \in Seq(S)
OBVIOUS

\* What an update has the task write: sections it carries, and none unless it
\* is a settings save.
LEMMA SectionsOfUpdate ==
    ASSUME NEW u \in Update
    PROVE  /\ SectionsIn(u) \in Seq(Sections)
           /\ SectionsIn(u) # << >> => u \in SettingsCommand /\ SectionsIn(u) \in Seq(DOMAIN u.edit)
<1>1. CASE u \in SettingsCommand
  <2>1. DOMAIN u.edit \subseteq Sections /\ DOMAIN u.edit \in SectionsOf(u.kind)
        /\ u.kind \in SettingsSaves
    BY <1>1, FormEdit
  <2>2. SectionsIn(u) \in Seq(DOMAIN u.edit)
    <3>1. CASE u.kind = "SaveMachine"
      <4>1. "machine" \in DOMAIN u.edit
        BY <2>1, <3>1 DEF SectionsOf
      <4>2. SectionsIn(u) = <<"machine">>
        BY <3>1 DEF SectionsIn
      <4> QED
        BY <4>1, <4>2, SomeSections
    <3>2. CASE u.kind = "SaveWifi"
      <4>1. "wifi" \in DOMAIN u.edit
        BY <2>1, <3>2 DEF SectionsOf
      <4>2. SectionsIn(u) = <<"wifi">>
        BY <3>2 DEF SectionsIn
      <4> QED
        BY <4>1, <4>2, SomeSections
    <3>3. CASE u.kind = "SavePids"
      <4>1. {"temp_pid", "press_pid"} \subseteq DOMAIN u.edit
        BY <2>1, <3>3 DEF SectionsOf
      <4>2. CASE "flow_pid" \in DOMAIN u.edit
        <5>1. SectionsIn(u) = <<"temp_pid", "press_pid", "flow_pid">>
          BY <3>3, <4>2 DEF SectionsIn
        <5> QED
          BY <4>1, <4>2, <5>1, SomeSections
      <4>3. CASE "flow_pid" \notin DOMAIN u.edit
        BY <3>3, <4>1, <4>3, SomeSections DEF SectionsIn
      <4> QED
        BY <4>2, <4>3
    <3> QED
      BY <2>1, <3>1, <3>2, <3>3 DEF SettingsSaves
  <2> QED
    BY <1>1, <2>1, <2>2
<1>2. CASE u \notin SettingsCommand
  <2>1. SectionsIn(u) = << >>
    BY <1>2 DEF Update, SectionsIn, ProfileSaves, Nothing
  <2> QED
    BY <2>1
<1> QED
  BY <1>1, <1>2

LEMMA StoreStarts == StoreInit => StoreInv
<1> SUFFICES ASSUME StoreInit PROVE StoreInv
  OBVIOUS
<1>1. CoreInv
  BY InitCore DEF StoreInit
<1>2. StoreTypeOK
  BY <1>1, FlashAssumption DEF StoreInit, StoreTypeOK, CoreInv, TypeOK
<1> QED
  BY <1>1, <1>2 DEF StoreInit, StoreInv, TodoOfUpdate

\* The power comes back to a machine as consistent as a new one.
LEMMA RestartSafe == ASSUME StoreInv, PowerCycle PROVE StoreInv'
<1>1. TypeOK'
  <2>1. /\ settings' \in [Sections -> Values] /\ control' \in [ControlSections -> Values]
        /\ profiles' \in [Slots -> Profiles \cup {NoProfile}]
    BY DEF PowerCycle, StoreInv, StoreTypeOK, ControlSections
  <2>2. op' \in [kind: Operation \cup {"None"}, steps: Seq(StepModes), engaged: BOOLEAN]
    BY DEF PowerCycle, NoOp
  <2>3. elapsed' \in 0 .. SleepTimeout /\ volume' \in 0 .. MaxVolume
    BY BoundsAssumption DEF PowerCycle
  <2>4. queue' \in Seq(Offered) /\ sigTemp' \in [mode: TargetTempMode \cup {"None"}, temp: Temps \cup {NoTemp}]
    BY DEF PowerCycle, NoTarget
  <2> QED
    BY <2>1, <2>2, <2>3, <2>4 DEF PowerCycle, TypeOK, MachineState
<1>2. OperationServesState' /\ ValveServesOperation'
  BY DEF PowerCycle, OperationServesState, ValveServesOperation, NoOp, Busy, BusyStates
<1>3. SavesWaitForIdle' /\ SlotsConsistent'
  BY DEF PowerCycle, SavesWaitForIdle, SlotsConsistent, NoOp
<1>4. StoreTypeOK' /\ TodoOfUpdate'
  BY FlashAssumption DEF PowerCycle, StoreInv, StoreTypeOK, TodoOfUpdate, stored
<1> QED
  BY <1>1, <1>2, <1>3, <1>4 DEF StoreInv, CoreInv

\* The flash task takes nothing from the coordinator but the signal.
LEMMA CoreUntouched ==
    ASSUME CoreInv,
           UNCHANGED <<queue, pc, machine, pending, inHand, elapsed, session, volume, caches,
                       sigPump, sigBrew, sigTemp>>,
           sigFlash' \in {sigFlash, Nothing}
    PROVE  CoreInv'
<1>1. TypeOK'
  BY DEF CoreInv, TypeOK, machine, caches
<1>2. /\ OperationServesState' /\ ValveServesOperation'
      /\ SavesWaitForIdle' /\ SlotsConsistent'
  BY DEF CoreInv, OperationServesState, ValveServesOperation, SavesWaitForIdle, SlotsConsistent,
     Busy, machine
<1> QED
  BY <1>1, <1>2 DEF CoreInv

\* Every access to flash writes something of the type of what it replaces.
LEMMA AccessType ==
    ASSUME StoreTypeOK, TodoOfUpdate, Access
    PROVE  /\ storedSettings' \in [Sections -> Values]
           /\ storedProfiles' \in [Slots -> Profiles \cup {NoProfile}]
<1>1. CASE StoreSection
  <2>1. held \in SettingsCommand /\ Head(todo) \in DOMAIN held.edit
    BY <1>1 DEF StoreSection, TodoOfUpdate
  <2>2. held.edit[Head(todo)] \in Values
    BY <2>1, FormEdit
  <2> QED
    BY <1>1, <2>2 DEF StoreSection, StoreTypeOK
<1>2. CASE StoreProfile
  BY <1>2 DEF StoreProfile, StoreTypeOK
<1>3. CASE DropProfile
  BY <1>3 DEF DropProfile, StoreTypeOK
<1> QED
  BY <1>1, <1>2, <1>3 DEF Access

\* What is left to do after one access.
LEMMA AdvanceSafe ==
    ASSUME StoreTypeOK, TodoOfUpdate, Advance
    PROVE  todo' \in Seq(Sections) /\ ftask' \in {"wait", "write"} /\ TodoOfUpdate'
<1>1. CASE todo = << >>
  BY <1>1 DEF Advance, TodoOfUpdate
<1>2. CASE todo # << >>
  BY <1>2 DEF Advance, StoreTypeOK, TodoOfUpdate
<1> QED
  BY <1>1, <1>2

LEMMA FlashTaskSafe == ASSUME StoreInv, FlashTask PROVE StoreInv'
<1>1. StoreTypeOK /\ TodoOfUpdate /\ CoreInv
  BY DEF StoreInv
<1>2. CASE TakeUpdate
  <2>1. sigFlash \in Update
    BY <1>1 DEF CoreInv, TypeOK, Update
  <2>2. CoreInv'
    BY <1>1, <1>2, CoreUntouched DEF TakeUpdate
  <2>3. TodoOfUpdate' /\ todo' \in Seq(Sections)
    BY <1>2, <2>1, SectionsOfUpdate DEF TakeUpdate, TodoOfUpdate
  <2>4. StoreTypeOK'
    BY <1>1, <1>2, <2>1, <2>3 DEF TakeUpdate, StoreTypeOK, Update, stored, faults
  <2> QED
    BY <2>2, <2>3, <2>4 DEF StoreInv
<1>3. CASE HoldOver \/ ReadProfile
  <2>1. CoreInv'
    BY <1>1, <1>3, CoreUntouched DEF HoldOver, ReadProfile, vars, signals
  <2>2. image' \in Profiles \cup {NoProfile}
    BY <1>1, <1>3 DEF HoldOver, ReadProfile, StoreTypeOK, CoreInv, TypeOK
  <2>3. StoreTypeOK' /\ TodoOfUpdate'
    BY <1>1, <1>3, <2>2 DEF HoldOver, ReadProfile, StoreTypeOK, TodoOfUpdate, stored, faults
  <2> QED
    BY <2>1, <2>3 DEF StoreInv
<1>4. CASE Write \/ WriteFails
  <2>1. Advance
    BY <1>4 DEF Write, WriteFails
  <2>2. CoreInv'
    BY <1>1, <2>1, CoreUntouched DEF Advance, vars, signals
  <2>3. /\ storedSettings' \in [Sections -> Values]
        /\ storedProfiles' \in [Slots -> Profiles \cup {NoProfile}]
    BY <1>1, <1>4, AccessType DEF Write, WriteFails, stored, StoreTypeOK
  <2>4. failures' \in 0 .. MaxFailures
    BY <1>1, <1>4, FlashAssumption DEF Write, WriteFails, StoreTypeOK
  <2>5. StoreTypeOK'
    BY <1>1, <2>1, <2>3, <2>4, AdvanceSafe DEF Advance, StoreTypeOK
  <2> QED
    BY <1>1, <2>1, <2>2, <2>5, AdvanceSafe DEF StoreInv
<1> QED
  BY <1>2, <1>3, <1>4 DEF FlashTask

LEMMA StoreStep == StoreInv /\ [StoreNext]_storeVars => StoreInv'
<1> SUFFICES ASSUME StoreInv, [StoreNext]_storeVars PROVE StoreInv'
  OBVIOUS
<1>1. CASE FlashTask
  BY <1>1, FlashTaskSafe
<1>2. CASE PowerCycle
  BY <1>2, RestartSafe
<1>3. CASE Elsewhere(Next) \/ UNCHANGED storeVars
  <2>1. [Next]_vars /\ UNCHANGED <<flashTask, stored, faults>>
    BY <1>3 DEF Elsewhere, storeVars
  <2>2. CoreInv'
    BY <2>1, StepCore DEF StoreInv
  <2> QED
    BY <2>1, <2>2 DEF StoreInv, StoreTypeOK, TodoOfUpdate, flashTask, stored, faults
<1> QED
  BY <1>1, <1>2, <1>3 DEF StoreNext

\* The flash task, the update in its hand and flash keep their types, with
\* errors and power cuts at any point (flash_update_task).
THEOREM StoreTypeCorrect == StoreSpec => []StoreTypeOK
<1>1. StoreInv => StoreTypeOK
  BY DEF StoreInv
<1> QED
  BY <1>1, StoreStarts, StoreStep, PTL DEF StoreSpec

-----------------------------------------------------------------------------
(* The coordinator beside the flash task, through power cuts *)

\* What was last signalled suits the state, as it does without flash and power.
LEMMA SignalsStart == StoreInit => IInv
BY InitSafe DEF StoreInit

LEMMA SignalsStep == StoreInv /\ IInv /\ [StoreNext]_storeVars => IInv'
<1> SUFFICES ASSUME StoreInv, IInv, [StoreNext]_storeVars PROVE IInv'
  OBVIOUS
<1>1. CoreInv'
  BY StoreStep DEF StoreInv
<1>2. CASE FlashTask
  <2>1. UNCHANGED <<pc, machine, session, sigPump, sigBrew, sigTemp>>
    BY <1>2 DEF FlashTask, TakeUpdate, HoldOver, ReadProfile, Write, WriteFails, Advance, vars, signals
  <2>2. ActuatorsFollowOperation'
    BY <2>1 DEF IInv, ActuatorsFollowOperation, Pump, BrewActive, machine
  <2>3. SetpointFollowsState'
    BY <2>1 DEF IInv, SetpointFollowsState, machine
  <2> QED
    BY <1>1, <2>2, <2>3 DEF IInv
<1>3. CASE PowerCycle
  <2>1. ActuatorsFollowOperation' /\ SetpointFollowsState'
    BY <1>3, PumpModesByState
    DEF PowerCycle, ActuatorsFollowOperation, SetpointFollowsState, NoOp, Pump, BrewActive
  <2> QED
    BY <1>1, <2>1 DEF IInv
<1>4. CASE Elsewhere(Next) \/ UNCHANGED storeVars
  <2>1. [Next]_vars
    BY <1>4 DEF Elsewhere, storeVars
  <2> QED
    BY <2>1, StepSafe
<1> QED
  BY <1>2, <1>3, <1>4 DEF StoreNext

\* A machine that is switched off at any point, with a save in any of the slots
\* and flash half written, comes back with its operation, actuators, setpoint
\* and saves as consistent as before (main, coordinator_task).
THEOREM SafeThroughCuts ==
    StoreSpec => [](/\ OperationServesState /\ ActuatorsFollowOperation
                    /\ SetpointFollowsState /\ SavesWaitForIdle)
<1>1. IInv => /\ OperationServesState /\ ActuatorsFollowOperation
              /\ SetpointFollowsState /\ SavesWaitForIdle
  BY DEF IInv, CoreInv
<1> QED
  BY <1>1, StoreStarts, StoreStep, SignalsStart, SignalsStep, PTL DEF StoreSpec

\* To the contract a power cut is the end of what was going on: the machine is
\* idle, with its valve closed, its pump off and its heater at brew.
LEMMA CutEndsMode ==
    ASSUME StoreInv, PowerCycle
    PROVE  state' = state \/ <<state, state'>> \in Contract!Transitions
<1>1. state \in MachineState /\ state' = "Idle"
  BY DEF StoreInv, CoreInv, TypeOK, PowerCycle
<1>2. CASE state \in BusyStates \cup {"Sleeping"}
  BY <1>1, <1>2, SameVocabulary DEF Contract!Transitions
<1>3. CASE state = "Idle"
  BY <1>1, <1>3
<1> QED
  BY <1>1, <1>2, <1>3 DEF MachineState, BusyStates

\* The coordinator keeps the contract of Machine beside the flash task and
\* through power cuts too (coordinator_task, flash_update_task, main).
THEOREM ContractThroughCuts == StoreSpec => KeepsContract
<1>1. StoreInit => Contract!MachineInit
  BY DEF StoreInit, Init, Contract!MachineInit, Pump, Heater, NoTarget
<1>2. StoreInv /\ IInv /\ IInv' /\ [StoreNext]_storeVars => [Contract!MachineNext]_Contract!mvars
  <2> SUFFICES ASSUME StoreInv, IInv, IInv', [StoreNext]_storeVars
               PROVE  [Contract!MachineNext]_Contract!mvars
    OBVIOUS
  <2>1. OutputsFollowState
    BY OutputsOfState
  <2>2. OutputsFollowState'
    BY OutputsOfState, PTL
  <2>3. state' \in Contract!MachineState
    BY SameVocabulary DEF IInv, CoreInv, TypeOK
  <2>4. state' = state \/ <<state, state'>> \in Contract!Transitions
    <3>1. CASE FlashTask
      BY <3>1 DEF FlashTask, TakeUpdate, HoldOver, ReadProfile, Write, WriteFails, Advance, vars, machine
    <3>2. CASE PowerCycle
      BY <3>2, CutEndsMode
    <3>3. CASE Elsewhere(Next) \/ UNCHANGED storeVars
      <4>1. [Next]_vars
        BY <3>3 DEF Elsewhere, storeVars
      <4> QED
        BY <4>1, ModeTransitions DEF StoreInv
    <3> QED
      BY <3>1, <3>2, <3>3 DEF StoreNext
  <2>5. CASE state' = state
    <3>1. Contract!DrivePump
      BY <2>1, <2>2, <2>5 DEF OutputsFollowState, Contract!DrivePump
    <3> QED
      BY <3>1 DEF Contract!MachineNext
  <2>6. CASE <<state, state'>> \in Contract!Transitions
    <3>1. Contract!Move(state')
      BY <2>2, <2>6 DEF OutputsFollowState, Contract!Move
    <3> QED
      BY <2>3, <3>1 DEF Contract!MachineNext
  <2> QED
    BY <2>4, <2>5, <2>6
<1> QED
  BY <1>1, <1>2, StoreStarts, StoreStep, SignalsStart, SignalsStep, PTL
  DEF StoreSpec, KeepsContract, Contract!MachineSafety

-----------------------------------------------------------------------------
(* The order of the versions *)

Form(c) == c.kind \in SettingsSaves

\* A form on its way to RAM: nothing newer is in RAM yet.
OnItsWay(c) ==
    Form(c) => VersionOf(c) <= newest /\ \A s \in Sections : settings[s] <= VersionOf(c)

\* Of two forms, the one to reach RAM first is not the newer.
InTurn(c, d) == Form(c) /\ Form(d) => VersionOf(c) <= VersionOf(d)

WaitingInOrder ==
    /\ pending \in Offered \cup {Nothing} /\ inHand \in Offered \cup {Nothing}
    /\ OnItsWay(pending) /\ OnItsWay(inHand)
    /\ \A i \in 1 .. Len(queue) :
          /\ OnItsWay(queue[i]) /\ InTurn(pending, queue[i]) /\ InTurn(inHand, queue[i])
          /\ \A j \in i .. Len(queue) : InTurn(queue[i], queue[j])

\* A form on its way to flash: RAM has it, flash nothing newer.
BetweenRAMAndFlash(c, S) ==
    c \in Offered /\ \A s \in S : storedSettings[s] <= c.edit[s] /\ c.edit[s] <= settings[s]

Left == {todo[i] : i \in 1 .. Len(todo)}

StoringInOrder ==
    /\ Form(sigFlash) => BetweenRAMAndFlash(sigFlash, DOMAIN sigFlash.edit)
    /\ todo # << >> => BetweenRAMAndFlash(held, Left)
    /\ Form(sigFlash) => \A s \in Left \cap DOMAIN sigFlash.edit : held.edit[s] <= sigFlash.edit[s]

VersionsInOrder ==
    /\ newest \in Nat
    /\ \A s \in Sections : storedSettings[s] <= settings[s] /\ settings[s] <= newest
    /\ WaitingInOrder
    /\ StoringInOrder

\* The pressure gains are written right after the temperature gains.
GainsInTurn ==
    /\ ftask \in {"wait", "store"} => todo = << >>
    /\ todo \in {<< >>, <<"machine">>, <<"wifi">>, <<"flow_pid">>,
                 <<"press_pid">>, <<"press_pid", "flow_pid">>,
                 <<"temp_pid", "press_pid">>, <<"temp_pid", "press_pid", "flow_pid">>}
    /\ (outages = 0 /\ failures = 0) =>
          IF todo # << >> /\ Head(todo) = "press_pid"
          THEN storedSettings["temp_pid"] = held.edit["press_pid"]
          ELSE storedSettings["temp_pid"] = storedSettings["press_pid"]

VersionInv == StoreInv /\ VersionsInOrder /\ GainsInTurn

\* An offered form carries its version in all its sections.
LEMMA FormVersion ==
    ASSUME NEW c \in Offered, Form(c)
    PROVE  /\ c \in SettingsCommand
           /\ DOMAIN c.edit \subseteq Sections
           /\ VersionOf(c) \in Nat
           /\ \A s \in DOMAIN c.edit : c.edit[s] = VersionOf(c)
<1>1. c \in SettingsCommand
  BY OfferedAssumption, CommandByKind, SettingsEdit DEF Form, SaveKinds
<1>2. DOMAIN c.edit # {}
  BY <1>1, FormEdit DEF SectionsOf, SettingsSaves
<1>3. \A s \in DOMAIN c.edit : c.edit[s] = VersionOf(c)
  BY VersionsAssumption DEF Form
<1> QED
  BY <1>1, <1>2, <1>3, FormEdit, VersionsAssumption

LEMMA NothingIsNoForm == ~Form(Nothing)
BY DEF Form, Nothing, SettingsSaves

\* What the coordinator does to the updates it holds, other than to apply one:
\* each comes from where it was held before, or from the head of the queue.
Handed(popped) ==
    /\ popped => queue # << >>
    /\ queue' = IF popped THEN Tail(queue) ELSE queue
    /\ {pending', inHand'} \subseteq
          {pending, inHand, Nothing} \cup IF popped THEN {Head(queue)} ELSE {}
    /\ UNCHANGED <<settings, profiles, sigFlash>>

LEMMA ServeHands ==
    ASSUME NEW cmd \in Offered, Serve(cmd)
    PROVE  Handed(TRUE)
<1>1. Receive(cmd)
  BY DEF Serve, HoldSave, TakeSave, SetSessionTemp, WakeUp, PowerOff, LookUpProfile,
         StartFromIdle, StartFromSteaming, StopWhileIdle, StopWhileBusy
<1>2. queue # << >> /\ queue' = Tail(queue) /\ cmd = Head(queue)
  BY <1>1 DEF Receive
<1>3. CASE HoldSave(cmd) \/ TakeSave(cmd)
  BY <1>2, <1>3 DEF HoldSave, TakeSave, Handed, caches, signals
<1>4. CASE SetSessionTemp(cmd) \/ WakeUp(cmd) \/ PowerOff(cmd) \/ LookUpProfile(cmd) \/ StopWhileIdle(cmd)
  BY <1>2, <1>4 DEF SetSessionTemp, WakeUp, PowerOff, LookUpProfile, StopWhileIdle, Handed, caches, signals
<1>5. CASE StartFromIdle(cmd) \/ StartFromSteaming(cmd)
  BY <1>2, <1>5 DEF StartFromIdle, StartFromSteaming, Start, Handed, caches
<1>6. CASE StopWhileBusy(cmd)
  BY <1>2, <1>6 DEF StopWhileBusy, EndOperation, LoopTop, Handed, caches
<1> QED
  BY <1>3, <1>4, <1>5, <1>6 DEF Serve

\* The steps of the coordinator and of its operation, by what they do to the
\* updates held.
LEMMA CoordinatorHands ==
    ASSUME Housekeeping \/ Coordinate \/ Operate \/ Pour
    PROVE  CommitSave \/ \E popped \in BOOLEAN : Handed(popped)
<1>1. ASSUME NEW cmd \in Offered, Serve(cmd) PROVE Handed(TRUE)
  BY <1>1, ServeHands
<1>2. CASE Boot \/ FinishOperation
  <2>1. Handed(FALSE)
    BY <1>2 DEF Boot, FinishOperation, EndOperation, LoopTop, Handed, caches
  <2> QED
    BY <2>1
<1>3. CASE PublishControl \/ StartDefaultProfile \/ GoToSleep \/ Housekeeping \/ Operate \/ Pour
  <2>1. UNCHANGED <<queue, pending, inHand, settings, profiles, sigFlash>>
    BY <1>3 DEF PublishControl, StartDefaultProfile, Start, GoToSleep, Housekeeping, Operate, Pour,
       EngageCooldown, NextStep, OperationDue, caches, signals
  <2>2. Handed(FALSE)
    BY <2>1 DEF Handed
  <2> QED
    BY <2>2
<1> QED
  BY <1>1, <1>2, <1>3 DEF Coordinate

\* The forms the coordinator holds stay in their order as it passes them on.
LEMMA HandedInOrder ==
    ASSUME VersionsInOrder, queue \in Seq(Offered), NEW popped \in BOOLEAN, Handed(popped),
           UNCHANGED <<newest, flashTask, stored>>
    PROVE  VersionsInOrder'
<1>1. /\ newest' \in Nat
      /\ \A s \in Sections : storedSettings'[s] <= settings'[s] /\ settings'[s] <= newest'
  BY DEF VersionsInOrder, Handed, stored
<1>2. StoringInOrder'
  BY DEF VersionsInOrder, StoringInOrder, BetweenRAMAndFlash, Left, Form, Handed, stored, flashTask
<1>3. \A c : OnItsWay(c) => OnItsWay(c)'
  BY DEF OnItsWay, Form, VersionOf, Handed
<1>4. \A c, d : InTurn(c, d) => InTurn(c, d)'
  BY DEF InTurn, Form, VersionOf
<1>5. WaitingInOrder'
  <2>1. CASE ~popped
    BY <1>3, <1>4, <2>1, NothingIsNoForm DEF VersionsInOrder, WaitingInOrder, Handed, OnItsWay, InTurn
  <2>2. CASE popped
    <3>1. /\ queue # << >> /\ queue' = Tail(queue) /\ queue[1] = Head(queue)
          /\ {pending', inHand'} \subseteq {pending, inHand, Nothing, queue[1]}
      BY <2>2 DEF Handed
    <3>2. /\ Len(queue) \in Nat /\ Len(queue) >= 1 /\ Len(queue') = Len(queue) - 1
          /\ \A i \in 1 .. Len(queue') : queue'[i] = queue[i + 1]
          /\ queue[1] \in Offered
      BY <3>1
    <3>3. /\ pending' \in Offered \cup {Nothing} /\ inHand' \in Offered \cup {Nothing}
          /\ OnItsWay(pending') /\ OnItsWay(inHand')
      BY <3>1, <3>2, NothingIsNoForm DEF VersionsInOrder, WaitingInOrder, OnItsWay
    <3>4. ASSUME NEW i \in 1 .. Len(queue')
          PROVE  /\ OnItsWay(queue'[i]) /\ InTurn(pending', queue'[i]) /\ InTurn(inHand', queue'[i])
                 /\ \A j \in i .. Len(queue') : InTurn(queue'[i], queue'[j])
      <4>1. i + 1 \in 1 .. Len(queue) /\ queue'[i] = queue[i + 1] /\ i + 1 \in 1 .. Len(queue)
        BY <3>2
      <4>2. OnItsWay(queue'[i])
        BY <4>1 DEF VersionsInOrder, WaitingInOrder
      <4>3. \A c \in {pending, inHand, Nothing, queue[1]} : InTurn(c, queue[i + 1])
        BY <3>2, <4>1, NothingIsNoForm DEF VersionsInOrder, WaitingInOrder, InTurn
      <4>4. ASSUME NEW j \in i .. Len(queue') PROVE InTurn(queue'[i], queue'[j])
        <5>1. j + 1 \in (i + 1) .. Len(queue) /\ queue'[j] = queue[j + 1]
          BY <3>2
        <5> QED
          BY <4>1, <5>1 DEF VersionsInOrder, WaitingInOrder
      <4> QED
        BY <3>1, <4>1, <4>2, <4>3, <4>4
    <3> QED
      BY <1>3, <1>4, <3>3, <3>4 DEF WaitingInOrder
  <2> QED
    BY <2>1, <2>2
<1> QED
  BY <1>1, <1>2, <1>5 DEF VersionsInOrder

\* A form is sent after all the others, and is newer than they.
LEMMA SentInOrder ==
    ASSUME VersionsInOrder, queue \in Seq(Offered), settings \in [Sections -> Values], SendNewer
    PROVE  VersionsInOrder'
<1>1. PICK cmd \in Offered :
          /\ Form(cmd) => VersionOf(cmd) = newest + 1
          /\ newest' = IF Form(cmd) THEN newest + 1 ELSE newest
          /\ Elsewhere(Send(cmd))
  BY DEF SendNewer, Form
<1>2. UNCHANGED <<pending, inHand, settings, sigFlash, stored, flashTask>>
  BY <1>1 DEF Elsewhere, Send, caches, signals
<1>3. newest \in Nat /\ newest' \in Nat /\ newest <= newest'
  BY <1>1 DEF VersionsInOrder
<1>4. \A s \in Sections : settings[s] \in Nat
  BY VersionsAssumption
<1>5. \A s \in Sections : storedSettings'[s] <= settings'[s] /\ settings'[s] <= newest'
  BY <1>2, <1>3, <1>4 DEF VersionsInOrder, stored
<1>6. StoringInOrder'
  BY <1>2 DEF VersionsInOrder, StoringInOrder, BetweenRAMAndFlash, Left, Form, stored, flashTask
<1> DEFINE NowOnItsWay(c) ==
             Form(c) => VersionOf(c) <= newest' /\ \A s \in Sections : settings'[s] <= VersionOf(c)
<1>7. ASSUME NEW c \in Offered \cup {Nothing}, OnItsWay(c)
      PROVE  NowOnItsWay(c) /\ InTurn(c, cmd)
  <2>1. CASE Form(c)
    <3>1. VersionOf(c) \in Nat /\ VersionOf(c) <= newest
          /\ \A s \in Sections : settings[s] <= VersionOf(c)
      BY <1>7, <2>1, FormVersion, NothingIsNoForm DEF OnItsWay
    <3>2. VersionOf(c) <= newest'
      BY <1>1, <3>1, <1>3
    <3>3. Form(cmd) => VersionOf(c) <= VersionOf(cmd)
      BY <1>1, <1>3, <3>1
    <3> QED
      BY <1>2, <3>1, <3>2, <3>3 DEF InTurn
  <2> QED
    BY <2>1 DEF InTurn
<1>8. NowOnItsWay(cmd) /\ InTurn(cmd, cmd)
  <2>1. CASE Form(cmd)
    <3>1. VersionOf(cmd) = newest + 1 /\ newest' = newest + 1
      BY <1>1, <2>1
    <3>2. \A s \in Sections : settings[s] <= newest + 1
      BY <1>3, <1>4 DEF VersionsInOrder
    <3> QED
      BY <1>2, <1>3, <3>1, <3>2 DEF InTurn
  <2> QED
    BY <2>1 DEF InTurn
<1>9. WaitingInOrder'
  <2>1. /\ pending \in Offered \cup {Nothing} /\ inHand \in Offered \cup {Nothing}
        /\ NowOnItsWay(pending) /\ NowOnItsWay(inHand)
        /\ InTurn(pending, cmd) /\ InTurn(inHand, cmd)
    BY <1>7 DEF VersionsInOrder, WaitingInOrder
  <2>2. Len(queue) \in Nat /\ \A i \in 1 .. Len(queue) : queue[i] \in Offered
    OBVIOUS
  <2>3. ASSUME NEW i \in 1 .. Len(queue)
        PROVE  /\ NowOnItsWay(queue[i]) /\ InTurn(queue[i], cmd)
               /\ InTurn(pending, queue[i]) /\ InTurn(inHand, queue[i])
               /\ \A j \in i .. Len(queue) : InTurn(queue[i], queue[j])
    BY <1>7, <2>2 DEF VersionsInOrder, WaitingInOrder
  <2>4. ASSUME NEW i \in 1 .. Len(queue')
        PROVE  /\ NowOnItsWay(queue'[i]) /\ InTurn(pending, queue'[i]) /\ InTurn(inHand, queue'[i])
               /\ \A j \in i .. Len(queue') : InTurn(queue'[i], queue'[j])
    <3>1. CASE queue' = queue
      BY <2>3, <3>1
    <3>2. CASE queue' = Append(queue, cmd)
      <4>1. /\ Len(queue') = Len(queue) + 1
            /\ \A k \in 1 .. Len(queue) : queue'[k] = queue[k]
            /\ queue'[Len(queue) + 1] = cmd
        BY <3>2
      <4>2. CASE i = Len(queue) + 1
        <5>1. \A j \in i .. Len(queue') : j = Len(queue) + 1
          BY <2>2, <4>1, <4>2
        <5> QED
          BY <1>8, <2>1, <4>1, <4>2, <5>1
      <4>3. CASE i \in 1 .. Len(queue)
        <5>1. \A j \in i .. Len(queue') : j = Len(queue) + 1 \/ (j \in i .. Len(queue) /\ j \in 1 .. Len(queue))
          BY <2>2, <4>1, <4>3
        <5> QED
          BY <2>3, <4>1, <4>3, <5>1
      <4> QED
        BY <2>2, <4>1, <4>2, <4>3
    <3> QED
      BY <1>1, <3>1, <3>2 DEF Elsewhere, Send
  <2>5. pending' = pending /\ inHand' = inHand
    BY <1>2
  <2> HIDE DEF NowOnItsWay
  <2>6. \A c : NowOnItsWay(c) => OnItsWay(c)'
    BY DEF NowOnItsWay, OnItsWay, Form
  <2>7. \A c, d : InTurn(c, d) => InTurn(c, d)'
    BY DEF InTurn, Form
  <2> QED
    BY <2>1, <2>4, <2>5, <2>6, <2>7 DEF WaitingInOrder
<1> QED
  BY <1>3, <1>5, <1>6, <1>9 DEF VersionsInOrder

\* The update applied is no older than what RAM had, and what it brings is in
\* RAM before the flash task hears of it.
LEMMA CommittedInOrder ==
    ASSUME VersionsInOrder, StoreInv, Elsewhere(CommitSave), newest' = newest
    PROVE  VersionsInOrder'
<1>1. /\ settings \in [Sections -> Values] /\ storedSettings \in [Sections -> Values]
      /\ todo \in Seq(Sections) /\ queue \in Seq(Offered)
      /\ newest \in Nat
  BY DEF StoreInv, StoreTypeOK, CoreInv, TypeOK, VersionsInOrder
<1>2. inHand \in Offered /\ pending = Nothing
  BY DEF Elsewhere, CommitSave, StoreInv, CoreInv, SlotsConsistent, SavesWaitForIdle, VersionsInOrder,
     WaitingInOrder
<1>3. UNCHANGED <<queue, pending, storedSettings, todo, held>> /\ inHand' = Nothing
  BY DEF Elsewhere, CommitSave, stored, flashTask
<1>4. CASE ~Form(inHand)
  <2>1. settings' = settings /\ ~Form(sigFlash')
    <3>1. inHand \in SaveCommand
      BY <1>2 DEF Elsewhere, CommitSave, StoreInv, CoreInv, TypeOK, SlotsConsistent
    <3>2. inHand.kind \in ProfileSaves
      BY <1>4, <3>1, SaveIsSomething DEF Form, SaveKinds
    <3> QED
      BY <1>4, <3>2 DEF Elsewhere, CommitSave, FlashUpdate, Form, ProfileSaves, SettingsSaves
  <2>2. WaitingInOrder'
    <3>1. \A c : OnItsWay(c) => OnItsWay(c)'
      BY <2>1 DEF OnItsWay, Form
    <3>2. \A c, d : InTurn(c, d) => InTurn(c, d)'
      BY DEF InTurn, Form
    <3>3. \A c : OnItsWay(Nothing) /\ InTurn(Nothing, c)
      BY NothingIsNoForm DEF OnItsWay, InTurn
    <3> QED
      BY <1>2, <1>3, <3>1, <3>2, <3>3 DEF VersionsInOrder, WaitingInOrder
  <2>3. StoringInOrder'
    BY <1>3, <2>1 DEF VersionsInOrder, StoringInOrder, BetweenRAMAndFlash, Left, Form
  <2> QED
    BY <1>1, <1>3, <2>1, <2>2, <2>3 DEF VersionsInOrder
<1>5. CASE Form(inHand)
  <2> DEFINE v == VersionOf(inHand)
  <2>1. /\ v \in Nat /\ v <= newest /\ DOMAIN inHand.edit \subseteq Sections
        /\ \A s \in DOMAIN inHand.edit : inHand.edit[s] = v
        /\ \A s \in Sections : settings[s] <= v
    BY <1>2, <1>5, FormVersion DEF VersionsInOrder, WaitingInOrder, OnItsWay
  <2>2. sigFlash' = inHand /\ settings' = Edited(settings, inHand.edit)
    BY <1>5 DEF Elsewhere, CommitSave, FlashUpdate, Form, ProfileSaves, SettingsSaves
  <2>3. \A s \in Sections : settings'[s] = IF s \in DOMAIN inHand.edit THEN v ELSE settings[s]
    BY <1>1, <2>1, <2>2 DEF Edited
  <2> HIDE DEF v
  <2>4. \A s \in Sections : settings[s] \in Nat /\ storedSettings[s] \in Nat
    BY <1>1, VersionsAssumption
  <2>5. \A s \in Sections : /\ storedSettings[s] <= settings'[s] /\ settings[s] <= settings'[s]
                            /\ settings'[s] <= newest /\ settings'[s] <= v
    <3> TAKE s \in Sections
    <3>1. storedSettings[s] <= settings[s] /\ settings[s] <= newest
      BY DEF VersionsInOrder
    <3>2. CASE s \in DOMAIN inHand.edit
      BY <1>1, <2>1, <2>3, <2>4, <3>1, <3>2
    <3>3. CASE s \notin DOMAIN inHand.edit
      BY <1>1, <2>1, <2>3, <2>4, <3>1, <3>3
    <3> QED
      BY <3>2, <3>3
  <2>6. WaitingInOrder'
    <3>1. ASSUME NEW i \in 1 .. Len(queue), Form(queue[i])
          PROVE  /\ VersionOf(queue[i]) <= newest
                 /\ \A s \in Sections : settings'[s] <= VersionOf(queue[i])
      <4>1. queue[i] \in Offered
        BY <1>1
      <4>2. VersionOf(queue[i]) \in Nat
        BY <3>1, <4>1, FormVersion
      <4>3. v <= VersionOf(queue[i]) /\ VersionOf(queue[i]) <= newest
            /\ \A s \in Sections : settings[s] <= VersionOf(queue[i])
        BY <1>5, <3>1 DEF v, VersionsInOrder, WaitingInOrder, OnItsWay, InTurn
      <4> QED
        BY <2>3, <4>3
    <3>2. \A i \in 1 .. Len(queue) : OnItsWay(queue[i])'
      BY <1>3, <3>1 DEF OnItsWay, Form
    <3>3. \A c, d : InTurn(c, d) => InTurn(c, d)'
      BY DEF InTurn, Form
    <3>4. \A c : OnItsWay(Nothing)' /\ InTurn(Nothing, c)'
      BY NothingIsNoForm DEF OnItsWay, InTurn
    <3> QED
      BY <1>2, <1>3, <3>2, <3>3, <3>4 DEF VersionsInOrder, WaitingInOrder
  <2>7. StoringInOrder'
    <3>1. ASSUME NEW s \in DOMAIN inHand.edit
          PROVE  storedSettings[s] <= inHand.edit[s] /\ inHand.edit[s] <= settings'[s]
      BY <2>1, <2>3, <2>4, <2>5
    <3>2. ASSUME todo # << >>, NEW s \in Left
          PROVE  /\ held.edit[s] \in Nat
                 /\ storedSettings[s] <= held.edit[s] /\ held.edit[s] <= settings'[s]
                 /\ s \in DOMAIN inHand.edit => held.edit[s] <= inHand.edit[s]
      <4>1. s \in Sections
        BY <1>1, <3>2 DEF Left
      <4>2. held \in Offered /\ storedSettings[s] <= held.edit[s] /\ held.edit[s] <= settings[s]
        BY <3>2 DEF VersionsInOrder, StoringInOrder, BetweenRAMAndFlash
      <4>3. held.edit[s] \in Nat
        <5>1. held \in SettingsCommand /\ s \in DOMAIN held.edit
          BY <3>2 DEF StoreInv, TodoOfUpdate, Left
        <5> QED
          BY <5>1, FormEdit, VersionsAssumption
      <4>4. held.edit[s] <= settings'[s]
        BY <2>3, <2>1, <2>4, <2>5, <4>1, <4>2, <4>3
      <4>5. s \in DOMAIN inHand.edit => settings'[s] = inHand.edit[s]
        BY <2>1, <2>3, <4>1
      <4> QED
        BY <4>2, <4>3, <4>4, <4>5
    <3> QED
      BY <1>2, <1>3, <2>2, <3>1, <3>2 DEF VersionsInOrder, StoringInOrder, BetweenRAMAndFlash, Left, Form
  <2> QED
    BY <1>1, <1>3, <2>5, <2>6, <2>7 DEF VersionsInOrder
<1> QED
  BY <1>4, <1>5

\* The flash task leaves the coordinator's forms where they are.
LEMMA WaitingUntouched ==
    ASSUME WaitingInOrder, UNCHANGED <<queue, pending, inHand, settings, newest>>
    PROVE  WaitingInOrder'
<1>1. \A c : OnItsWay(c) => OnItsWay(c)'
  BY DEF OnItsWay, Form
<1>2. \A c, d : InTurn(c, d) => InTurn(c, d)'
  BY DEF InTurn, Form
<1> QED
  BY <1>1, <1>2 DEF WaitingInOrder

\* The signal is taken as it is.
LEMMA TakenInOrder ==
    ASSUME VersionsInOrder, StoreInv, TakeUpdate, newest' = newest
    PROVE  VersionsInOrder'
<1>1. WaitingInOrder'
  BY WaitingUntouched DEF VersionsInOrder, TakeUpdate, caches
<1>2. /\ held' = sigFlash /\ todo' = SectionsIn(sigFlash) /\ ~Form(sigFlash')
      /\ UNCHANGED <<settings, storedSettings>>
  BY NothingIsNoForm DEF TakeUpdate, caches, stored
<1>3. sigFlash \in Update
  BY DEF StoreInv, CoreInv, TypeOK, Update
<1>4. StoringInOrder'
  <2>1. CASE todo' = << >>
    BY <1>2, <2>1 DEF StoringInOrder
  <2>2. CASE todo' # << >>
    <3>1. sigFlash \in SettingsCommand /\ todo' \in Seq(DOMAIN sigFlash.edit)
      BY <1>2, <1>3, <2>2, SectionsOfUpdate
    <3>2. Form(sigFlash)
      BY <3>1, FormEdit DEF Form
    <3>3. Left' \subseteq DOMAIN sigFlash.edit
      BY <3>1 DEF Left
    <3>4. BetweenRAMAndFlash(sigFlash, DOMAIN sigFlash.edit)
      BY <3>2 DEF VersionsInOrder, StoringInOrder
    <3> QED
      BY <1>2, <3>3, <3>4 DEF StoringInOrder, BetweenRAMAndFlash
  <2> QED
    BY <2>1, <2>2
<1> QED
  BY <1>1, <1>2, <1>4 DEF VersionsInOrder

\* A key is overwritten with what the update in hand has for it, or left as it
\* was: with a version that is no older, and that RAM has.
LEMMA WrittenInOrder ==
    ASSUME VersionsInOrder, StoreInv, Write \/ WriteFails
    PROVE  /\ \A s \in Sections : /\ storedSettings[s] <= storedSettings'[s]
                                  /\ storedSettings'[s] <= settings[s]
                                  /\ storedSettings'[s] \in {storedSettings[s]}
                                        \cup {held.edit[t] : t \in Left \cap {s}}
           /\ Advance
<1>1. Advance
  BY DEF Write, WriteFails
<1>2. /\ settings \in [Sections -> Values] /\ storedSettings \in [Sections -> Values]
      /\ todo \in Seq(Sections)
  BY DEF StoreInv, StoreTypeOK, CoreInv, TypeOK
<1>3. \A s \in Sections : /\ storedSettings[s] \in Nat
                          /\ storedSettings[s] <= settings[s]
  BY <1>2, VersionsAssumption DEF VersionsInOrder
<1>4. CASE Write /\ StoreSection
  <2>1. /\ todo # << >> /\ Head(todo) \in Left /\ Head(todo) \in Sections
        /\ storedSettings' = [storedSettings EXCEPT ![Head(todo)] = held.edit[Head(todo)]]
    BY <1>2, <1>4 DEF StoreSection, Left
  <2>2. \A s \in Left : storedSettings[s] <= held.edit[s] /\ held.edit[s] <= settings[s]
    BY <2>1 DEF VersionsInOrder, StoringInOrder, BetweenRAMAndFlash
  <2>3. \A s \in Sections :
           storedSettings'[s] = IF s = Head(todo) THEN held.edit[s] ELSE storedSettings[s]
    BY <1>2, <2>1
  <2> QED
    BY <1>1, <1>3, <2>1, <2>2, <2>3
<1>5. CASE storedSettings' = storedSettings
  BY <1>1, <1>3, <1>5
<1> QED
  BY <1>4, <1>5 DEF Write, WriteFails, Access, StoreProfile, DropProfile, stored

LEMMA AdvancedInOrder ==
    ASSUME VersionsInOrder, StoreInv, Write \/ WriteFails, newest' = newest
    PROVE  VersionsInOrder'
<1>1. /\ \A s \in Sections : /\ storedSettings[s] <= storedSettings'[s]
                             /\ storedSettings'[s] <= settings[s]
                             /\ storedSettings'[s] \in {storedSettings[s]}
                                   \cup {held.edit[t] : t \in Left \cap {s}}
      /\ UNCHANGED <<settings, sigFlash, held, queue, pending, inHand>>
      /\ todo' = IF todo = << >> THEN << >> ELSE Tail(todo)
  BY WrittenInOrder DEF Advance, vars, caches, signals
<1>2. WaitingInOrder'
  BY <1>1, WaitingUntouched DEF VersionsInOrder
<1>3. todo \in Seq(Sections)
  BY DEF StoreInv, StoreTypeOK
<1>4. Left' \subseteq Left /\ Left \subseteq Sections /\ (todo' # << >> => todo # << >>)
  <2>1. CASE todo = << >>
    BY <1>1, <2>1 DEF Left
  <2>2. CASE todo # << >>
    <3>1. /\ Len(todo) \in Nat /\ Len(todo') = Len(todo) - 1
          /\ \A i \in 1 .. Len(todo') : todo'[i] = todo[i + 1] /\ i + 1 \in 1 .. Len(todo)
      BY <1>1, <1>3, <2>2
    <3> QED
      BY <1>3, <2>2, <3>1 DEF Left
  <2> QED
    BY <2>1, <2>2
<1>5. StoringInOrder'
  <2>1. ASSUME Form(sigFlash), NEW s \in DOMAIN sigFlash.edit
        PROVE  storedSettings'[s] <= sigFlash.edit[s] /\ sigFlash.edit[s] <= settings[s]
    <3>1. sigFlash \in Offered /\ storedSettings[s] <= sigFlash.edit[s] /\ sigFlash.edit[s] <= settings[s]
      BY <2>1 DEF VersionsInOrder, StoringInOrder, BetweenRAMAndFlash
    <3>2. s \in Sections
      BY <2>1, <3>1, FormVersion
    <3>3. \A t \in Left \cap {s} : held.edit[t] <= sigFlash.edit[s]
      BY <2>1 DEF VersionsInOrder, StoringInOrder
    <3> QED
      BY <1>1, <3>1, <3>2, <3>3
  <2>2. ASSUME todo # << >>, NEW s \in Left
        PROVE  storedSettings'[s] <= held.edit[s] /\ held.edit[s] <= settings[s]
    <3>1. storedSettings[s] <= held.edit[s] /\ held.edit[s] <= settings[s]
      BY <2>2 DEF VersionsInOrder, StoringInOrder, BetweenRAMAndFlash
    <3>2. held.edit[s] \in Nat /\ s \in Sections
      <4>1. held \in SettingsCommand /\ s \in DOMAIN held.edit
        BY <2>2 DEF StoreInv, TodoOfUpdate, Left
      <4> QED
        BY <4>1, FormEdit, VersionsAssumption
    <3>3. storedSettings'[s] = storedSettings[s] \/ storedSettings'[s] = held.edit[s]
      BY <1>1, <3>2
    <3> QED
      BY <3>1, <3>2, <3>3
  <2>3. todo' # << >> => held \in Offered
    BY <1>4 DEF VersionsInOrder, StoringInOrder, BetweenRAMAndFlash
  <2>4. Form(sigFlash) => sigFlash \in Offered
    BY DEF VersionsInOrder, StoringInOrder, BetweenRAMAndFlash
  <2>5. Form(sigFlash) => \A s \in Left' \cap DOMAIN sigFlash.edit : held.edit[s] <= sigFlash.edit[s]
    BY <1>4 DEF VersionsInOrder, StoringInOrder
  <2>6. sigFlash' = sigFlash /\ settings' = settings /\ held' = held
    BY <1>1
  <2> QED
    BY <1>4, <2>1, <2>2, <2>3, <2>4, <2>5, <2>6 DEF StoringInOrder, BetweenRAMAndFlash, Form
<1> QED
  BY <1>1, <1>2, <1>5 DEF VersionsInOrder

\* After a power cut nothing is on its way, and RAM holds what flash holds.
LEMMA RestartedInOrder ==
    ASSUME VersionsInOrder, StoreInv, PowerCycle, newest' = newest
    PROVE  VersionsInOrder'
<1>1. /\ settings' = storedSettings /\ storedSettings' = storedSettings
      /\ queue' = << >> /\ pending' = Nothing /\ inHand' = Nothing
      /\ sigFlash' = Nothing /\ todo' = << >>
  BY DEF PowerCycle, stored
<1>2. \A s \in Sections : /\ storedSettings[s] \in Nat /\ settings[s] \in Nat
                          /\ storedSettings[s] <= settings[s] /\ settings[s] <= newest
  BY VersionsAssumption DEF StoreInv, StoreTypeOK, CoreInv, TypeOK, VersionsInOrder
<1>3. \A s \in Sections : storedSettings'[s] <= settings'[s] /\ settings'[s] <= newest'
  <2> TAKE s \in Sections
  <2>1. newest \in Nat
    BY DEF VersionsInOrder
  <2> QED
    BY <1>1, <1>2, <2>1
<1>4. WaitingInOrder'
  BY <1>1, NothingIsNoForm DEF WaitingInOrder, OnItsWay, Form
<1>5. StoringInOrder'
  BY <1>1, NothingIsNoForm DEF StoringInOrder, Form
<1> QED
  BY <1>3, <1>4, <1>5 DEF VersionsInOrder

-----------------------------------------------------------------------------
(* The gains of one form *)

\* What a gains form still has to write once the first of it is written.
LEMMA PairTail == ASSUME NEW x, NEW y PROVE Tail(<<x, y>>) = <<y>> /\ Head(<<x, y>>) = x /\ Tail(<<x>>) = << >>
OBVIOUS

LEMMA TripleTail == ASSUME NEW x, NEW y, NEW z PROVE Tail(<<x, y, z>>) = <<y, z>>
OBVIOUS

LEMMA Tails ==
    /\ Tail(<<"machine">>) = << >> /\ Tail(<<"wifi">>) = << >> /\ Tail(<<"flow_pid">>) = << >>
    /\ Tail(<<"press_pid">>) = << >> /\ Tail(<<"press_pid", "flow_pid">>) = <<"flow_pid">>
    /\ Tail(<<"temp_pid", "press_pid">>) = <<"press_pid">>
    /\ Tail(<<"temp_pid", "press_pid", "flow_pid">>) = <<"press_pid", "flow_pid">>
    /\ Head(<<"press_pid", "flow_pid">>) = "press_pid" /\ Head(<<"press_pid">>) = "press_pid"
<1>1. Head(<<"press_pid">>) = "press_pid"
  OBVIOUS
<1> QED
  BY <1>1, PairTail, TripleTail

\* What a gains form writes, it writes in turn.
LEMMA SectionsInTurn ==
    ASSUME NEW u \in Update
    PROVE  SectionsIn(u) \in {<< >>, <<"machine">>, <<"wifi">>, <<"temp_pid", "press_pid">>,
                              <<"temp_pid", "press_pid", "flow_pid">>}
BY DEF SectionsIn

LEMMA GainsWritten ==
    ASSUME GainsInTurn, VersionsInOrder, StoreInv, Write
    PROVE  GainsInTurn'
<1>1. /\ Advance /\ failures' = failures /\ outages' = outages /\ held' = held
      /\ todo' = IF todo = << >> THEN << >> ELSE Tail(todo)
      /\ ftask' = IF todo' = << >> THEN "wait" ELSE "write"
  BY DEF Write, Advance
<1>2. storedSettings \in [Sections -> Values]
  BY DEF StoreInv, StoreTypeOK
<1>3. CASE todo = << >>
  <2>1. storedSettings' = storedSettings
    BY <1>3 DEF Write, Access, StoreSection, StoreProfile, DropProfile
  <2> QED
    BY <1>1, <1>3, <2>1 DEF GainsInTurn
<1>4. CASE todo # << >>
  <2> todo' = Tail(todo)
    BY <1>1, <1>4
  <2>1. held \in Offered /\ held \in SettingsCommand /\ todo \in Seq(DOMAIN held.edit)
    BY <1>4 DEF StoreInv, TodoOfUpdate, VersionsInOrder, StoringInOrder, BetweenRAMAndFlash
  <2>2. StoreSection
    BY <1>4, <2>1, FormEdit DEF Write, Access, StoreProfile, DropProfile, GainsInTurn, SettingsSaves
  <2>3. storedSettings' = [storedSettings EXCEPT ![Head(todo)] = held.edit[Head(todo)]]
    BY <2>2 DEF StoreSection
  <2>4. CASE Head(todo) = "temp_pid"
    <3>1. todo \in {<<"temp_pid", "press_pid">>, <<"temp_pid", "press_pid", "flow_pid">>}
      BY <1>4, <2>4 DEF GainsInTurn
    <3>2. todo' \in {<<"press_pid">>, <<"press_pid", "flow_pid">>}
      BY <3>1, Tails
    <3>3. "temp_pid" \in DOMAIN held.edit /\ "press_pid" \in DOMAIN held.edit
      <4>1. todo[1] = "temp_pid" /\ todo[2] = "press_pid" /\ Len(todo) >= 2
        BY <3>1
      <4> QED
        BY <2>1, <4>1
    <3>4. held.edit["temp_pid"] = held.edit["press_pid"]
      BY <2>1, <3>3, FormVersion, FormEdit DEF Form
    <3>5. storedSettings'["temp_pid"] = held.edit["press_pid"]
      BY <1>2, <2>3, <2>4, <3>4 DEF Sections
    <3>6. todo' # << >>
      BY <3>2
    <3>7. Head(todo') = "press_pid"
      BY <3>2, Tails
    <3> QED
      BY <1>1, <3>2, <3>5, <3>6, <3>7 DEF GainsInTurn
  <2>5. CASE Head(todo) = "press_pid"
    <3>1. todo \in {<<"press_pid">>, <<"press_pid", "flow_pid">>}
      BY <1>4, <2>5 DEF GainsInTurn
    <3>2. todo' \in {<< >>, <<"flow_pid">>}
      BY <3>1, Tails
    <3>3. /\ storedSettings'["press_pid"] = held.edit["press_pid"]
          /\ storedSettings'["temp_pid"] = storedSettings["temp_pid"]
      BY <1>2, <2>3, <2>5 DEF Sections
    <3> QED
      BY <1>1, <1>4, <2>5, <3>2, <3>3 DEF GainsInTurn
  <2>6. CASE Head(todo) \notin {"temp_pid", "press_pid"}
    <3>1. todo \in {<<"machine">>, <<"wifi">>, <<"flow_pid">>}
      BY <1>4, <2>6 DEF GainsInTurn
    <3>2. todo' = << >>
      BY <3>1, Tails
    <3>3. /\ storedSettings'["press_pid"] = storedSettings["press_pid"]
          /\ storedSettings'["temp_pid"] = storedSettings["temp_pid"]
      BY <1>2, <2>3, <2>6 DEF Sections
    <3> QED
      BY <1>1, <1>4, <2>6, <3>2, <3>3 DEF GainsInTurn
  <2> QED
    BY <2>4, <2>5, <2>6
<1> QED
  BY <1>3, <1>4

LEMMA GainsStep ==
    ASSUME VersionInv, FlashTask \/ PowerCycle
    PROVE  GainsInTurn'
<1>1. GainsInTurn /\ VersionsInOrder /\ StoreInv /\ failures \in Nat /\ outages \in Nat
  BY FlashAssumption DEF VersionInv, StoreInv, StoreTypeOK
<1>2. CASE TakeUpdate
  <2>1. /\ todo = << >> /\ todo' = SectionsIn(sigFlash) /\ ftask' \in {"hold", "write"}
        /\ UNCHANGED <<storedSettings, outages, failures>>
    BY <1>1, <1>2 DEF TakeUpdate, stored, faults, GainsInTurn
  <2>2. sigFlash \in Update
    BY <1>1 DEF StoreInv, CoreInv, TypeOK, Update
  <2>3. todo' \in {<< >>, <<"machine">>, <<"wifi">>, <<"temp_pid", "press_pid">>,
                   <<"temp_pid", "press_pid", "flow_pid">>}
    BY <2>1, <2>2, SectionsInTurn
  <2>4. todo' # << >> => Head(todo') # "press_pid"
    BY <2>3
  <2> QED
    BY <1>1, <2>1, <2>3, <2>4 DEF GainsInTurn
<1>3. CASE HoldOver
  BY <1>1, <1>3 DEF HoldOver, stored, faults, GainsInTurn
<1>4. CASE ReadProfile
  <2>1. todo = << >>
    BY <1>1, <1>4, FormEdit DEF ReadProfile, StoreInv, TodoOfUpdate, SettingsSaves
  <2> QED
    BY <1>1, <1>4, <2>1 DEF ReadProfile, stored, faults, GainsInTurn
<1>5. CASE Write
  BY <1>1, <1>5, GainsWritten
<1>6. CASE WriteFails
  <2>1. /\ failures' # 0
        /\ todo' = IF todo = << >> THEN << >> ELSE Tail(todo)
        /\ ftask' = IF todo' = << >> THEN "wait" ELSE "write"
    BY <1>1, <1>6 DEF WriteFails, Advance
  <2>2. CASE todo = << >>
    BY <2>1, <2>2 DEF GainsInTurn
  <2>3. CASE todo # << >>
    <3>1. todo' = Tail(todo)
      BY <2>1, <2>3
    <3>2. todo' \in {<< >>, <<"flow_pid">>, <<"press_pid">>, <<"press_pid", "flow_pid">>}
      BY <1>1, <2>3, <3>1, Tails DEF GainsInTurn
    <3> QED
      BY <2>1, <3>2 DEF GainsInTurn
  <2> QED
    BY <2>2, <2>3
<1>7. CASE PowerCycle
  BY <1>1, <1>7 DEF PowerCycle, GainsInTurn
<1> QED
  BY <1>2, <1>3, <1>4, <1>5, <1>6, <1>7 DEF FlashTask

-----------------------------------------------------------------------------
(* Theorems *)

LEMMA VersionStarts == VersionInit => VersionInv
<1> SUFFICES ASSUME VersionInit PROVE VersionInv
  OBVIOUS
<1>1. StoreInv
  BY StoreStarts DEF VersionInit
<1>2. Initial \in Nat /\ \A s \in Sections : settings[s] = Initial /\ storedSettings[s] = Initial
  BY ValuesAssumption, VersionsAssumption DEF VersionInit, StoreInit, Init
<1>3. WaitingInOrder /\ StoringInOrder
  BY NothingIsNoForm DEF VersionInit, StoreInit, Init, WaitingInOrder, StoringInOrder, OnItsWay
<1>4. GainsInTurn
  BY <1>2 DEF VersionInit, StoreInit, GainsInTurn, Sections
<1> QED
  BY <1>1, <1>2, <1>3, <1>4 DEF VersionInv, VersionsInOrder, VersionInit

\* Where the steps of FlashVersions fall among those of FlashStore.
LEMMA VersionStep == VersionInv /\ [VersionNext]_versionVars => VersionInv'
<1> SUFFICES ASSUME VersionInv, [VersionNext]_versionVars PROVE VersionInv'
  OBVIOUS
<1>1. /\ StoreInv /\ VersionsInOrder /\ GainsInTurn
      /\ queue \in Seq(Offered) /\ settings \in [Sections -> Values]
  BY DEF VersionInv, StoreInv, CoreInv, TypeOK
<1>2. CASE SendNewer
  <2>1. PICK cmd \in Offered : Elsewhere(Send(cmd))
    BY <1>2 DEF SendNewer
  <2>2. StoreNext /\ UNCHANGED <<flashTask, stored, faults>>
    BY <2>1 DEF StoreNext, Next, Elsewhere
  <2>3. StoreInv' /\ GainsInTurn'
    BY <1>1, <2>2, StoreStep DEF GainsInTurn, flashTask, stored, faults
  <2> QED
    BY <1>1, <1>2, <2>3, SentInOrder DEF VersionInv
<1>3. CASE FlashTask /\ newest' = newest
  <2>1. StoreInv' /\ GainsInTurn'
    BY <1>1, <1>3, StoreStep, GainsStep DEF StoreNext
  <2>2. CASE TakeUpdate \/ Write \/ WriteFails
    BY <1>1, <1>3, <2>1, <2>2, TakenInOrder, AdvancedInOrder DEF VersionInv
  <2>3. CASE HoldOver \/ ReadProfile
    <3>1. /\ UNCHANGED <<queue, pending, inHand, settings, sigFlash>>
          /\ UNCHANGED <<held, todo, storedSettings, newest>>
      BY <1>3, <2>3 DEF HoldOver, ReadProfile, stored, vars, caches, signals
    <3>2. WaitingInOrder'
      BY <1>1, <3>1, WaitingUntouched DEF VersionsInOrder
    <3>3. StoringInOrder'
      BY <1>1, <3>1 DEF VersionsInOrder, StoringInOrder, BetweenRAMAndFlash, Left, Form
    <3> QED
      BY <1>1, <2>1, <3>1, <3>2, <3>3 DEF VersionInv, VersionsInOrder
  <2> QED
    BY <1>3, <2>2, <2>3 DEF FlashTask
<1>4. CASE PowerCycle /\ newest' = newest
  BY <1>1, <1>4, StoreStep, GainsStep, RestartedInOrder DEF StoreNext, VersionInv
<1>5. CASE Elsewhere(Housekeeping \/ Coordinate \/ Operate) /\ newest' = newest
  <2>1. StoreNext /\ UNCHANGED <<flashTask, stored, faults>>
    BY <1>5 DEF StoreNext, Next, Elsewhere
  <2>2. StoreInv' /\ GainsInTurn'
    BY <1>1, <2>1, StoreStep DEF GainsInTurn, flashTask, stored, faults
  <2>3. CASE CommitSave
    BY <1>1, <1>5, <2>1, <2>2, <2>3, CommittedInOrder DEF Elsewhere, VersionInv
  <2>4. CASE \E popped \in BOOLEAN : Handed(popped)
    BY <1>1, <1>5, <2>1, <2>2, <2>4, HandedInOrder DEF VersionInv
  <2> QED
    BY <1>5, <2>3, <2>4, CoordinatorHands DEF Elsewhere
<1>6. CASE UNCHANGED versionVars
  <2>1. UNCHANGED storeVars /\ newest' = newest
    BY <1>6 DEF versionVars
  <2>2. StoreInv' /\ GainsInTurn'
    BY <1>1, <2>1, StoreStep DEF GainsInTurn, storeVars, flashTask, stored, faults
  <2>3. Handed(FALSE) /\ UNCHANGED <<flashTask, stored>>
    BY <2>1 DEF storeVars, vars, caches, signals, Handed
  <2> QED
    BY <1>1, <2>1, <2>2, <2>3, HandedInOrder DEF VersionInv
<1> QED
  BY <1>2, <1>3, <1>4, <1>5, <1>6 DEF VersionNext, Everything

\* Flash never knows more than RAM, through every power cut and failed write:
\* edit_settings comes before the signal, and each step hands on no version
\* older than the last (edit_settings, apply_ambient, flash_update_task).
THEOREM NeverAhead == VersionSpec => []FlashNeverAhead
<1>1. VersionInv => FlashNeverAhead
  BY DEF VersionInv, VersionsInOrder, FlashNeverAhead
<1> QED
  BY <1>1, VersionStarts, VersionStep, PTL DEF VersionSpec

\* No key in flash is overwritten with an older version: neither the queue, nor
\* the slot of the held save, nor the signal lets an older form past a newer
\* one (pending_update, SIG_FLASH_UPDATE).
THEOREM NeverStale == VersionSpec => NoStaleWrite
<1>1. VersionInv /\ [VersionNext]_versionVars
         => [\A s \in Sections : storedSettings'[s] >= storedSettings[s]]_versionVars
  <2> SUFFICES ASSUME VersionInv, VersionNext
               PROVE  \A s \in Sections : storedSettings'[s] >= storedSettings[s]
    OBVIOUS
  <2>1. \A s \in Sections : storedSettings[s] \in Nat
    BY VersionsAssumption DEF VersionInv, StoreInv, StoreTypeOK
  <2>2. CASE Write \/ WriteFails
    BY <2>1, <2>2, WrittenInOrder DEF VersionInv
  <2>3. CASE storedSettings' = storedSettings
    BY <2>1, <2>3
  <2> QED
    BY <2>2, <2>3 DEF VersionNext, SendNewer, Everything, FlashTask, TakeUpdate, HoldOver, ReadProfile,
       PowerCycle, Elsewhere, stored
<1> QED
  BY <1>1, VersionStarts, VersionStep, PTL DEF VersionSpec, NoStaleWrite

\* Between two updates flash holds both gains of a form or neither, as long as
\* the power stays on and no write fails (FlashUpdate::SavePids).
THEOREM GainsTogether == VersionSpec => []GainsStoredTogether
<1>1. VersionInv => GainsStoredTogether
  BY DEF VersionInv, GainsInTurn, GainsStoredTogether
<1> QED
  BY <1>1, VersionStarts, VersionStep, PTL DEF VersionSpec

-----------------------------------------------------------------------------
(* One form in use *)

\* What the flash task has in hand: nothing left to write while it waits, and a
\* profile of an existing slot while it stores one.
HandConsistent ==
    /\ ftask \in {"wait", "store"} => todo = << >>
    /\ ftask = "store" => held.kind = "SaveProfile" /\ held.slot \in Slots

\* All the saves there are, are of the form in use.
SavesOfForm   == {c \in form : c.kind \in SaveKinds}
UpdatesOfForm == {FlashUpdate(c) : c \in SavesOfForm}

AllOfForm ==
    /\ form \in Forms
    /\ queue \in Seq(form)
    /\ pending \in SavesOfForm \cup {Nothing} /\ inHand \in SavesOfForm \cup {Nothing}
    /\ sigFlash \in UpdatesOfForm \cup {Nothing} /\ held \in UpdatesOfForm \cup {Nothing}

\* The sections and the slots an update is about.
SectionsCarried(u) == IF u.kind \in SettingsSaves THEN DOMAIN u.edit ELSE {}
SlotCarried(u)     == IF u.kind \in ProfileSaves THEN {u.slot} ELSE {}

\* RAM holds what the update says; of a profile, whether there is one.
InRAM(u) ==
    /\ u.kind \in SettingsSaves => \A s \in DOMAIN u.edit : settings[s] = u.edit[s]
    /\ (u.kind \in ProfileSaves /\ u.slot \in Slots)
           => (profiles[u.slot] = NoProfile <=> u.kind = "DeleteProfile")

\* RAM and flash differ in these sections and slots at most.
DifferIn(S, N) ==
    /\ \A s \in Sections : settings[s] # storedSettings[s] => s \in S
    /\ \A n \in Slots : profiles[n] # storedProfiles[n] => n \in N

\* One update accounts for every difference of RAM and flash: the one in the
\* signal, or else the one in the flash task's hand, or else there is none.
Accounted ==
    /\ sigFlash # Nothing =>
          InRAM(sigFlash) /\ DifferIn(SectionsCarried(sigFlash), SlotCarried(sigFlash))
    /\ (sigFlash = Nothing /\ ftask # "wait") =>
          InRAM(held) /\ DifferIn(Left, SlotCarried(held))
    /\ (sigFlash = Nothing /\ ftask = "store") => image = profiles[held.slot]
    /\ (sigFlash = Nothing /\ ftask = "wait") => DifferIn({}, {})

OneFormInv == StoreInv /\ HandConsistent /\ AllOfForm /\ (failures = 0 => Accounted)

\* A save and its update are about the same thing, and no update is absent.
LEMMA UpdateOfSave ==
    ASSUME NEW c \in SaveCommand
    PROVE  /\ FlashUpdate(c) # Nothing
           /\ FlashUpdate(c).kind = c.kind
           /\ c.kind \in SettingsSaves => FlashUpdate(c) = c
           /\ c.kind \in ProfileSaves => FlashUpdate(c).slot = c.slot
<1>1. c # Nothing /\ c.kind \in SaveKinds
  BY SaveIsSomething
<1> QED
  BY <1>1 DEF FlashUpdate, SaveKinds, SettingsSaves, ProfileSaves, Nothing

LEMMA SavesAreSaves == AllOfForm => SavesOfForm \subseteq SaveCommand
<1> SUFFICES ASSUME AllOfForm, NEW c \in SavesOfForm PROVE c \in SaveCommand
  OBVIOUS
<1> QED
  BY FormsAssumption, OfferedAssumption, CommandByKind DEF AllOfForm, SavesOfForm

\* All the updates there can be are about the same sections or the same slot.
LEMMA OneTarget ==
    ASSUME AllOfForm, NEW u \in UpdatesOfForm, NEW w \in UpdatesOfForm
    PROVE  /\ u # Nothing
           /\ SectionsCarried(u) = SectionsCarried(w) /\ SlotCarried(u) = SlotCarried(w)
<1>1. PICK c \in SavesOfForm : u = FlashUpdate(c)
  BY DEF UpdatesOfForm
<1>2. PICK d \in SavesOfForm : w = FlashUpdate(d)
  BY DEF UpdatesOfForm
<1>3. SameForm(c, d)
  BY FormsAssumption DEF AllOfForm, SavesOfForm
<1>4. c \in SaveCommand /\ d \in SaveCommand
  BY SavesAreSaves
<1>5. CASE {c.kind, d.kind} \subseteq SettingsSaves /\ DOMAIN c.edit = DOMAIN d.edit
  BY <1>1, <1>2, <1>4, <1>5, UpdateOfSave
  DEF SectionsCarried, SlotCarried, SettingsSaves, ProfileSaves
<1>6. CASE {c.kind, d.kind} \subseteq ProfileSaves /\ c.slot = d.slot
  BY <1>1, <1>2, <1>4, <1>6, UpdateOfSave
  DEF SectionsCarried, SlotCarried, SettingsSaves, ProfileSaves
<1> QED
  BY <1>3, <1>5, <1>6 DEF SameForm

\* So RAM and flash differ at most in what any update is about.
LEMMA DifferInForm ==
    ASSUME StoreInv, HandConsistent, AllOfForm, Accounted, NEW u \in UpdatesOfForm
    PROVE  DifferIn(SectionsCarried(u), SlotCarried(u))
<1>1. CASE sigFlash # Nothing
  BY <1>1, OneTarget DEF Accounted, AllOfForm
<1>2. CASE sigFlash = Nothing /\ ftask # "wait"
  <2>1. InRAM(held) /\ DifferIn(Left, SlotCarried(held))
    BY <1>2 DEF Accounted
  <2>2. CASE held = Nothing
    <3>1. SlotCarried(held) = {}
      BY <2>2 DEF SlotCarried, Nothing, ProfileSaves
    <3>2. Left = {}
      BY <2>2, FormEdit DEF Left, StoreInv, TodoOfUpdate, Nothing, SettingsSaves
    <3> QED
      BY <2>1, <3>1, <3>2 DEF DifferIn
  <2>3. CASE held # Nothing
    <3>1. SectionsCarried(u) = SectionsCarried(held) /\ SlotCarried(u) = SlotCarried(held)
      BY <2>3, OneTarget DEF AllOfForm
    <3>2. Left \subseteq SectionsCarried(held)
      BY FormEdit DEF Left, StoreInv, TodoOfUpdate, SectionsCarried
    <3> QED
      BY <2>1, <3>1, <3>2 DEF DifferIn
  <2> QED
    BY <2>2, <2>3
<1>3. CASE sigFlash = Nothing /\ ftask = "wait"
  BY <1>3 DEF Accounted, DifferIn
<1> QED
  BY <1>1, <1>2, <1>3

LEMMA RangeOfTriple ==
    ASSUME NEW x, NEW y, NEW z
    PROVE  /\ {<<x>>[i] : i \in 1 .. Len(<<x>>)} = {x}
           /\ {<<x, y>>[i] : i \in 1 .. Len(<<x, y>>)} = {x, y}
           /\ {<<x, y, z>>[i] : i \in 1 .. Len(<<x, y, z>>)} = {x, y, z}
<1>1. 1 .. 1 = {1} /\ 1 .. 2 = {1, 2} /\ 1 .. 3 = {1, 2, 3}
  OBVIOUS
<1> QED
  BY <1>1

\* The task writes every section an update carries.
LEMMA AllSectionsWritten ==
    ASSUME NEW u \in Update
    PROVE  {SectionsIn(u)[i] : i \in 1 .. Len(SectionsIn(u))} = SectionsCarried(u)
<1>1. CASE u \in SettingsCommand
  <2>1. DOMAIN u.edit \in SectionsOf(u.kind) /\ u.kind \in SettingsSaves
    BY <1>1, FormEdit
  <2>2. SectionsCarried(u) = DOMAIN u.edit
    BY <2>1 DEF SectionsCarried
  <2>3. CASE u.kind = "SaveMachine"
    <3>1. SectionsIn(u) = <<"machine">> /\ DOMAIN u.edit = {"machine"}
      BY <2>1, <2>3 DEF SectionsIn, SectionsOf
    <3> QED
      BY <2>2, <3>1, RangeOfTriple
  <2>4. CASE u.kind = "SaveWifi"
    <3>1. SectionsIn(u) = <<"wifi">> /\ DOMAIN u.edit = {"wifi"}
      BY <2>1, <2>4 DEF SectionsIn, SectionsOf
    <3> QED
      BY <2>2, <3>1, RangeOfTriple
  <2>5. CASE u.kind = "SavePids" /\ "flow_pid" \in DOMAIN u.edit
    <3>1. /\ SectionsIn(u) = <<"temp_pid", "press_pid", "flow_pid">>
          /\ DOMAIN u.edit = {"temp_pid", "press_pid", "flow_pid"}
      BY <2>1, <2>5 DEF SectionsIn, SectionsOf
    <3> QED
      BY <2>2, <3>1, RangeOfTriple
  <2>6. CASE u.kind = "SavePids" /\ "flow_pid" \notin DOMAIN u.edit
    <3>1. SectionsIn(u) = <<"temp_pid", "press_pid">> /\ DOMAIN u.edit = {"temp_pid", "press_pid"}
      BY <2>1, <2>6 DEF SectionsIn, SectionsOf
    <3> QED
      BY <2>2, <3>1, RangeOfTriple
  <2> QED
    BY <2>1, <2>3, <2>4, <2>5, <2>6 DEF SettingsSaves
<1>2. CASE u \notin SettingsCommand
  <2>1. SectionsIn(u) = << >> /\ SectionsCarried(u) = {}
    BY <1>2 DEF Update, SectionsIn, SectionsCarried, ProfileSaves, SettingsSaves, Nothing
  <2> QED
    BY <2>1
<1> QED
  BY <1>1, <1>2

LEMMA OneFormStarts == FormInit => OneFormInv
<1> SUFFICES ASSUME FormInit PROVE OneFormInv
  OBVIOUS
<1>1. StoreInv
  BY StoreStarts DEF FormInit
<1>2. /\ queue = << >> /\ pending = Nothing /\ inHand = Nothing /\ sigFlash = Nothing
      /\ ftask = "wait" /\ held = Nothing /\ todo = << >>
      /\ storedSettings = settings /\ storedProfiles = profiles
  BY DEF FormInit, StoreInit, Init
<1> QED
  BY <1>1, <1>2 DEF FormInit, OneFormInv, HandConsistent, AllOfForm, Accounted, DifferIn

\* A power cut: RAM is what flash was, and nothing is on its way any more.
LEMMA OneFormRestarts ==
    ASSUME AllOfForm, PowerCycle, form' = form
    PROVE  HandConsistent' /\ AllOfForm' /\ Accounted'
<1>1. /\ queue' = << >> /\ pending' = Nothing /\ inHand' = Nothing /\ sigFlash' = Nothing
      /\ ftask' = "wait" /\ held' = Nothing /\ todo' = << >>
      /\ storedSettings' = settings' /\ storedProfiles' = profiles'
  BY DEF PowerCycle, stored
<1> QED
  BY <1>1 DEF HandConsistent, AllOfForm, SavesOfForm, UpdatesOfForm, Accounted, DifferIn

\* The signal is taken: the task has all that the update carries to write.
LEMMA OneFormTaken ==
    ASSUME StoreInv, AllOfForm, TakeUpdate, form' = form
    PROVE  HandConsistent' /\ AllOfForm' /\ (Accounted => Accounted')
<1>1. /\ sigFlash # Nothing /\ sigFlash' = Nothing /\ held' = sigFlash /\ todo' = SectionsIn(sigFlash)
      /\ ftask' \in {"hold", "write"}
      /\ UNCHANGED <<queue, pending, inHand, settings, profiles, storedSettings, storedProfiles>>
  BY DEF TakeUpdate, caches, stored
<1>2. HandConsistent' /\ AllOfForm'
  BY <1>1 DEF HandConsistent, AllOfForm, SavesOfForm, UpdatesOfForm
<1>3. sigFlash \in Update
  BY DEF StoreInv, CoreInv, TypeOK, Update
<1>4. Left' = SectionsCarried(held')
  BY <1>1, <1>3, AllSectionsWritten DEF Left
<1>5. ASSUME Accounted PROVE Accounted'
  <2>1. InRAM(sigFlash) /\ DifferIn(SectionsCarried(sigFlash), SlotCarried(sigFlash))
    BY <1>1, <1>5 DEF Accounted
  <2>2. InRAM(held)'
    BY <1>1, <2>1 DEF InRAM
  <2>3. DifferIn(Left, SlotCarried(held))'
    BY <1>1, <1>4, <2>1 DEF DifferIn, SlotCarried
  <2> QED
    BY <1>1, <2>2, <2>3 DEF Accounted
<1> QED
  BY <1>2, <1>5

\* The wait for the machine is over, or the profile is read.
LEMMA OneFormRead ==
    ASSUME StoreInv, HandConsistent, AllOfForm, HoldOver \/ ReadProfile, form' = form
    PROVE  HandConsistent' /\ AllOfForm' /\ (Accounted => Accounted')
<1>1. UNCHANGED <<vars, held, todo, stored>>
  BY DEF HoldOver, ReadProfile
<1>2. UNCHANGED <<queue, pending, inHand, settings, profiles, sigFlash, storedSettings, storedProfiles>>
  BY <1>1 DEF vars, caches, signals, stored
<1>3. AllOfForm' /\ Left' = Left
  BY <1>1, <1>2 DEF AllOfForm, SavesOfForm, UpdatesOfForm, Left
<1>4. Accounted => /\ sigFlash # Nothing => (InRAM(sigFlash) /\ DifferIn(SectionsCarried(sigFlash), SlotCarried(sigFlash)))'
                   /\ sigFlash = Nothing => /\ ftask = "hold" => ftask # "wait"
                                            /\ ftask # "wait" => InRAM(held)' /\ DifferIn(Left, SlotCarried(held))'
  BY <1>1, <1>2, <1>3 DEF Accounted, InRAM, DifferIn, SlotCarried, SectionsCarried
<1>5. CASE HoldOver
  <2>1. ftask = "hold" /\ ftask' = "write"
    BY <1>5 DEF HoldOver
  <2> QED
    BY <1>1, <1>2, <1>3, <1>4, <2>1 DEF Accounted, HandConsistent
<1>6. CASE ReadProfile
  <2>1. /\ ftask = "write" /\ held.kind = "SaveProfile"
        /\ image' = IF held.slot \in Slots THEN profiles[held.slot] ELSE NoProfile
        /\ ftask' = IF image' = NoProfile THEN "wait" ELSE "store"
    BY <1>6 DEF ReadProfile
  <2>2. todo = << >> /\ Left = {}
    BY <2>1, FormEdit DEF StoreInv, TodoOfUpdate, SettingsSaves, Left
  <2>3. HandConsistent'
    BY <1>1, <2>1, <2>2 DEF HandConsistent
  <2>4. ASSUME Accounted, sigFlash = Nothing PROVE Accounted'
    <3>1. InRAM(held) /\ DifferIn({}, {held.slot})
      BY <2>1, <2>2, <2>4 DEF Accounted, SlotCarried, ProfileSaves
    <3>2. CASE held.slot \in Slots
      <4>1. image' = profiles[held.slot] /\ image' # NoProfile /\ ftask' = "store"
        BY <2>1, <3>1, <3>2 DEF InRAM, ProfileSaves
      <4> QED
        BY <1>1, <1>2, <1>4, <2>1, <2>4, <4>1 DEF Accounted
    <3>3. CASE held.slot \notin Slots
      <4>1. ftask' = "wait" /\ DifferIn({}, {})'
        BY <1>2, <2>1, <3>1, <3>3 DEF DifferIn
      <4> QED
        BY <1>2, <2>4, <4>1 DEF Accounted
    <3> QED
      BY <3>2, <3>3
  <2>5. ASSUME Accounted, sigFlash # Nothing PROVE Accounted'
    BY <1>2, <1>4, <2>5 DEF Accounted
  <2> QED
    BY <1>3, <2>3, <2>4, <2>5
<1> QED
  BY <1>5, <1>6

\* After an access the hand is consistent, whether or not it succeeded.
LEMMA OneFormAdvances ==
    ASSUME HandConsistent, AllOfForm, Advance, form' = form
    PROVE  HandConsistent' /\ AllOfForm'
<1>1. UNCHANGED <<queue, pending, inHand, sigFlash, held>>
  BY DEF Advance, vars, signals
<1>2. ftask' \in {"wait", "write"} /\ (ftask' = "wait" => todo' = << >>)
  BY DEF Advance
<1> QED
  BY <1>1, <1>2 DEF HandConsistent, AllOfForm, SavesOfForm, UpdatesOfForm

LEMMA LeftAfter ==
    ASSUME todo \in Seq(Sections), todo # << >>, todo' = Tail(todo)
    PROVE  Left \subseteq Left' \cup {Head(todo)}
<1>1. SUFFICES ASSUME NEW i \in 1 .. Len(todo) PROVE todo[i] \in Left' \cup {Head(todo)}
  BY DEF Left
<1>2. CASE i = 1
  BY <1>2
<1>3. CASE i # 1
  <2>1. i - 1 \in 1 .. Len(todo') /\ todo'[i - 1] = todo[i]
    BY <1>1, <1>3
  <2> QED
    BY <2>1 DEF Left
<1> QED
  BY <1>2, <1>3

\* What an access writes is what RAM holds, unless a newer update waits; and
\* then what it writes is what that update is about.
LEMMA OneFormWritten ==
    ASSUME StoreInv, HandConsistent, AllOfForm, Accounted, Write, form' = form
    PROVE  Accounted'
<1>1. /\ UNCHANGED <<settings, profiles, sigFlash, held>>
      /\ todo' = IF todo = << >> THEN << >> ELSE Tail(todo)
      /\ ftask' = IF todo' = << >> THEN "wait" ELSE "write"
  BY DEF Write, Advance, vars, caches, signals
<1>2. /\ storedSettings \in [Sections -> Values]
      /\ storedProfiles \in [Slots -> Profiles \cup {NoProfile}]
      /\ todo \in Seq(Sections)
  BY DEF StoreInv, StoreTypeOK
<1>3. CASE StoreSection
  <2>1. /\ ftask = "write" /\ todo # << >>
        /\ storedSettings' = [storedSettings EXCEPT ![Head(todo)] = held.edit[Head(todo)]]
        /\ storedProfiles' = storedProfiles
    BY <1>3 DEF StoreSection
  <2>2. /\ held \in SettingsCommand /\ held.kind \in SettingsSaves
        /\ Head(todo) \in DOMAIN held.edit /\ SlotCarried(held) = {}
    BY <2>1, FormEdit DEF StoreInv, TodoOfUpdate, SlotCarried, SettingsSaves, ProfileSaves
  <2>3. held # Nothing
    BY <2>2 DEF Nothing, SettingsSaves
  <2>4. CASE sigFlash # Nothing
    <3>1. SectionsCarried(sigFlash) = DOMAIN held.edit
      BY <2>2, <2>3, <2>4, OneTarget DEF AllOfForm, SectionsCarried
    <3>2. DifferIn(SectionsCarried(sigFlash), SlotCarried(sigFlash))'
      BY <1>1, <1>2, <2>1, <2>2, <2>4, <3>1 DEF Accounted, DifferIn, SectionsCarried, SlotCarried
    <3>3. InRAM(sigFlash)'
      BY <1>1, <2>4 DEF Accounted, InRAM
    <3> QED
      BY <1>1, <2>4, <3>2, <3>3 DEF Accounted
  <2>5. CASE sigFlash = Nothing
    <3>1. InRAM(held) /\ DifferIn(Left, {})
      BY <2>1, <2>2, <2>5 DEF Accounted
    <3>2. held.edit[Head(todo)] = settings[Head(todo)]
      BY <2>2, <3>1 DEF InRAM
    <3>3. Left \subseteq Left' \cup {Head(todo)}
      BY <1>1, <1>2, <2>1, LeftAfter
    <3>4. \A s \in Sections : settings'[s] # storedSettings'[s] => s \in Left'
      BY <1>1, <1>2, <2>1, <3>1, <3>2, <3>3 DEF DifferIn
    <3>5. \A n \in Slots : profiles'[n] = storedProfiles'[n]
      BY <1>1, <2>1, <3>1 DEF DifferIn
    <3>6. todo' = << >> => Left' = {}
      BY DEF Left
    <3>7. InRAM(held)'
      BY <1>1, <3>1 DEF InRAM
    <3>8. DifferIn(Left, SlotCarried(held))' /\ (ftask' = "wait" => DifferIn({}, {})')
      BY <1>1, <3>4, <3>5, <3>6 DEF DifferIn
    <3> QED
      BY <1>1, <2>5, <3>7, <3>8 DEF Accounted
  <2> QED
    BY <2>4, <2>5
<1>4. CASE StoreProfile \/ DropProfile
  <2>1. /\ storedSettings' = storedSettings
        /\ held.kind \in ProfileSaves
        /\ ftask # "wait"
        /\ \A n \in Slots : n # held.slot => storedProfiles'[n] = storedProfiles[n]
    BY <1>2, <1>4 DEF StoreProfile, DropProfile, HandConsistent, ProfileSaves
  <2>2. todo = << >>
    BY <1>4, <2>1, FormEdit DEF StoreInv, TodoOfUpdate, SettingsSaves, ProfileSaves
  <2>3. todo' = << >> /\ ftask' = "wait"
    BY <1>1, <2>2
  <2>4. CASE sigFlash # Nothing
    <3>1. held # Nothing
      BY <2>1 DEF Nothing, ProfileSaves
    <3>2. SlotCarried(sigFlash) = {held.slot}
      BY <2>1, <2>4, <3>1, OneTarget DEF AllOfForm, SlotCarried
    <3>3. DifferIn(SectionsCarried(sigFlash), SlotCarried(sigFlash))'
      BY <1>1, <2>1, <2>4, <3>2 DEF Accounted, DifferIn, SectionsCarried, SlotCarried
    <3>4. InRAM(sigFlash)'
      BY <1>1, <2>4 DEF Accounted, InRAM
    <3> QED
      BY <1>1, <2>4, <3>3, <3>4 DEF Accounted
  <2>5. CASE sigFlash = Nothing
    <3>0. Left = {}
      BY <2>2 DEF Left
    <3>1. InRAM(held) /\ DifferIn({}, {held.slot})
      BY <2>1, <2>2, <2>5, <3>0 DEF Accounted, SlotCarried
    <3>2. held.slot \in Slots => storedProfiles'[held.slot] = profiles[held.slot]
      <4>1. CASE StoreProfile
        BY <1>2, <2>5, <4>1 DEF StoreProfile, Accounted
      <4>2. CASE DropProfile
        BY <1>2, <3>1, <4>2 DEF DropProfile, InRAM, ProfileSaves
      <4> QED
        BY <1>4, <4>1, <4>2
    <3>3. DifferIn({}, {})'
      BY <1>1, <2>1, <3>1, <3>2 DEF DifferIn
    <3> QED
      BY <1>1, <2>3, <2>5, <3>3 DEF Accounted
  <2> QED
    BY <2>4, <2>5
<1> QED
  BY <1>3, <1>4 DEF Write, Access

\* A save is applied: RAM has it as the flash task hears of it, and RAM and
\* flash differ nowhere but in what it is about.
LEMMA OneFormCommitted ==
    ASSUME StoreInv, HandConsistent, AllOfForm, Elsewhere(CommitSave), form' = form
    PROVE  HandConsistent' /\ AllOfForm' /\ (Accounted => Accounted')
<1>1. /\ inHand' = Nothing /\ sigFlash' = FlashUpdate(inHand)
      /\ UNCHANGED <<queue, pending, ftask, held, todo, image, storedSettings, storedProfiles>>
  BY DEF Elsewhere, CommitSave, stored, flashTask
<1>2. inHand \in SavesOfForm /\ inHand \in SaveCommand
  BY SavesAreSaves DEF Elsewhere, CommitSave, StoreInv, CoreInv, SlotsConsistent, AllOfForm
<1>3. HandConsistent' /\ AllOfForm'
  BY <1>1, <1>2 DEF HandConsistent, AllOfForm, SavesOfForm, UpdatesOfForm
<1> DEFINE u == FlashUpdate(inHand)
<1>4. /\ u \in UpdatesOfForm /\ u # Nothing /\ u.kind = inHand.kind
      /\ u.kind \in SettingsSaves => u = inHand
      /\ u.kind \in ProfileSaves => u.slot = inHand.slot
  BY <1>2, UpdateOfSave DEF UpdatesOfForm
<1>5. /\ settings \in [Sections -> Values]
      /\ profiles \in [Slots -> Profiles \cup {NoProfile}]
  BY DEF StoreInv, CoreInv, TypeOK
<1> HIDE DEF u
<1>6. \A s \in Sections :
         settings'[s] = IF u.kind \in SettingsSaves /\ s \in DOMAIN u.edit THEN u.edit[s] ELSE settings[s]
  BY <1>4, <1>5 DEF Elsewhere, CommitSave, Edited
<1>7. u.kind \in SettingsSaves => DOMAIN u.edit \subseteq Sections
  BY <1>2, <1>4, SettingsEdit
<1>8. /\ \A n \in Slots : ~(u.kind \in ProfileSaves /\ n = u.slot) => profiles'[n] = profiles[n]
      /\ (u.kind \in ProfileSaves /\ u.slot \in Slots)
            => (profiles'[u.slot] = NoProfile <=> u.kind = "DeleteProfile")
  <2>1. inHand.kind = "SaveProfile" => inHand.profile # NoProfile
    BY <1>2, ProfileSave, NoProfileAssumption DEF ProfileSaves
  <2>2. profiles' = IF u.kind \in ProfileSaves /\ u.slot \in Slots
                    THEN [profiles EXCEPT ![u.slot] =
                            IF u.kind = "SaveProfile" THEN inHand.profile ELSE NoProfile]
                    ELSE profiles
    BY <1>4 DEF Elsewhere, CommitSave
  <2> QED
    BY <1>4, <1>5, <2>1, <2>2 DEF ProfileSaves
<1>9. ASSUME Accounted PROVE Accounted'
  <2>1. DifferIn(SectionsCarried(u), SlotCarried(u))
    BY <1>4, <1>9, DifferInForm
  <2>2. \A s \in Sections : settings'[s] # storedSettings'[s] => s \in SectionsCarried(u)
    BY <1>1, <1>6, <2>1 DEF DifferIn, SectionsCarried
  <2>3. \A n \in Slots : profiles'[n] # storedProfiles'[n] => n \in SlotCarried(u)
    BY <1>1, <1>8, <2>1 DEF DifferIn, SlotCarried
  <2>4. sigFlash' = u
    BY <1>1 DEF u
  <2>5. DifferIn(SectionsCarried(sigFlash), SlotCarried(sigFlash))'
    BY <2>2, <2>3, <2>4 DEF DifferIn, SectionsCarried, SlotCarried
  <2>6. InRAM(sigFlash)'
    BY <1>6, <1>7, <1>8, <2>4 DEF InRAM
  <2> QED
    BY <1>4, <2>4, <2>5, <2>6 DEF Accounted
<1> QED
  BY <1>3, <1>9

\* The coordinator passes the saves it holds on; a form sent is of the kind in use.
LEMMA OneFormHanded ==
    ASSUME AllOfForm, TypeOK', UNCHANGED <<settings, profiles, sigFlash, flashTask, stored, form>>,
           queue' \in Seq(form),
           {pending', inHand'} \subseteq form \cup {Nothing} \cup {pending, inHand}
    PROVE  (HandConsistent => HandConsistent') /\ AllOfForm' /\ (Accounted => Accounted')
<1>1. UNCHANGED <<ftask, held, todo, image, storedSettings, storedProfiles>>
  BY DEF flashTask, stored
<1>2. pending' \in SavesOfForm \cup {Nothing} /\ inHand' \in SavesOfForm \cup {Nothing}
  BY SaveIsSomething DEF TypeOK, AllOfForm, SavesOfForm
<1> QED
  BY <1>1, <1>2 DEF HandConsistent, AllOfForm, SavesOfForm, UpdatesOfForm, Accounted, InRAM, DifferIn,
     Left, SectionsCarried, SlotCarried

LEMMA OneFormStep == OneFormInv /\ [FormNext]_formVars => OneFormInv'
<1> SUFFICES ASSUME OneFormInv, [FormNext]_formVars PROVE OneFormInv'
  OBVIOUS
<1>1. StoreInv /\ HandConsistent /\ AllOfForm /\ (failures = 0 => Accounted) /\ form' = form
  BY DEF OneFormInv, FormNext, formVars
<1>2. form \subseteq Offered /\ queue \in Seq(form)
  BY <1>1, FormsAssumption DEF AllOfForm
<1>3. [StoreNext]_storeVars
  BY <1>2 DEF FormNext, formVars, StoreNext, Elsewhere, Next
<1>4. StoreInv'
  BY <1>1, <1>3, StoreStep
<1>5. TypeOK' /\ failures \in Nat
  BY <1>1, <1>4 DEF StoreInv, CoreInv, StoreTypeOK
<1>6. CASE FlashTask
  <2>1. CASE TakeUpdate
    <3>1. failures' = failures
      BY <2>1 DEF TakeUpdate, faults
    <3> QED
      BY <1>1, <1>4, <2>1, <3>1, OneFormTaken DEF OneFormInv
  <2>2. CASE HoldOver \/ ReadProfile
    <3>1. failures' = failures
      BY <2>2 DEF HoldOver, ReadProfile, faults
    <3> QED
      BY <1>1, <1>4, <2>2, <3>1, OneFormRead DEF OneFormInv
  <2>3. CASE Write
    <3>1. failures' = failures /\ Advance
      BY <2>3 DEF Write
    <3> QED
      BY <1>1, <1>4, <2>3, <3>1, OneFormAdvances, OneFormWritten DEF OneFormInv
  <2>4. CASE WriteFails
    <3>1. failures' # 0 /\ Advance
      BY <1>5, <2>4 DEF WriteFails
    <3> QED
      BY <1>1, <1>4, <3>1, OneFormAdvances DEF OneFormInv
  <2> QED
    BY <1>6, <2>1, <2>2, <2>3, <2>4 DEF FlashTask
<1>7. CASE PowerCycle
  BY <1>1, <1>4, <1>7, OneFormRestarts DEF OneFormInv
<1>8. ASSUME UNCHANGED <<settings, profiles, sigFlash, flashTask, stored, faults>>,
             queue' \in Seq(form),
             {pending', inHand'} \subseteq form \cup {Nothing} \cup {pending, inHand}
      PROVE  OneFormInv'
  BY <1>1, <1>4, <1>5, <1>8, OneFormHanded DEF OneFormInv, faults
<1>9. CASE \E cmd \in form : Elsewhere(Send(cmd))
  <2>1. PICK cmd \in form : Elsewhere(Send(cmd))
    BY <1>9
  <2>2. queue' \in Seq(form)
    BY <1>2, <2>1 DEF Elsewhere, Send
  <2>3. UNCHANGED <<settings, profiles, sigFlash, flashTask, stored, faults, pending, inHand>>
    BY <2>1 DEF Elsewhere, Send, caches, signals
  <2> QED
    BY <1>8, <2>2, <2>3
<1>10. CASE Elsewhere(Housekeeping \/ Pour \/ Coordinate \/ Operate)
  <2>1. CASE CommitSave
    <3>1. Elsewhere(CommitSave) /\ failures' = failures
      BY <1>10, <2>1 DEF Elsewhere, faults
    <3> QED
      BY <1>1, <1>4, <3>1, OneFormCommitted DEF OneFormInv
  <2>2. CASE \E popped \in BOOLEAN : Handed(popped)
    <3>1. PICK popped \in BOOLEAN : Handed(popped)
      BY <2>2
    <3>2. queue' \in Seq(form) /\ (popped => Head(queue) \in form)
      BY <1>2, <3>1 DEF Handed
    <3> QED
      BY <1>8, <1>10, <3>1, <3>2 DEF Handed, Elsewhere
  <2> QED
    BY <1>10, <2>1, <2>2, CoordinatorHands DEF Elsewhere
<1>11. CASE UNCHANGED formVars
  BY <1>2, <1>8, <1>11 DEF formVars, storeVars, vars, caches, signals
<1> QED
  BY <1>6, <1>7, <1>9, <1>10, <1>11 DEF FormNext

\* With one form of the page in use, nothing saved is lost on its way through
\* the signal with its one slot: at rest, and with no write failed, flash holds
\* what RAM holds, whatever was saved when, through every power cut
\* (SIG_FLASH_UPDATE, flash_update_task).
THEOREM NothingIsLost == FormSpec => []FlashMatchesRAM
<1>1. OneFormInv => FlashMatchesRAM
  <2> SUFFICES ASSUME OneFormInv, Settled, failures = 0
               PROVE  settings = storedSettings /\ profiles = storedProfiles
    BY DEF FlashMatchesRAM
  <2>1. DifferIn({}, {})
    BY DEF OneFormInv, Accounted, Settled
  <2>2. /\ settings \in [Sections -> Values] /\ storedSettings \in [Sections -> Values]
        /\ profiles \in [Slots -> Profiles \cup {NoProfile}]
        /\ storedProfiles \in [Slots -> Profiles \cup {NoProfile}]
    BY DEF OneFormInv, StoreInv, StoreTypeOK, CoreInv, TypeOK
  <2> QED
    BY <2>1, <2>2 DEF DifferIn
<1> QED
  BY <1>1, OneFormStarts, OneFormStep, PTL DEF FormSpec
=============================================================================
