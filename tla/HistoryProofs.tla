--------------------------- MODULE HistoryProofs ---------------------------
(***************************************************************************)
(* The save received last is the one in effect, and sleep comes only after *)
(* a full quiet timeout, for every set of commands and profiles, every     *)
(* queue depth and every timeout.                                          *)
(***************************************************************************)
EXTENDS CoordinatorHistory, CoordinatorProofs

\* The save received last is on its way or in effect: held back, in hand (and
\* once published, in the control loop's copy), or in both copies.
LastSaveAccounted ==
    /\ inHand # Nothing => pc \in {"apply", "commit"}
    /\ lastSave \in SaveCommand \cup {Nothing}
    /\ CASE pending # Nothing -> lastSave = pending
         [] pending = Nothing /\ inHand # Nothing ->
                lastSave = inHand /\ (pc = "commit" => InControl(lastSave))
         [] OTHER -> lastSave # Nothing => InControl(lastSave) /\ InCaches(lastSave)

\* The clock of the code never runs ahead of the quiet, and only a full one
\* lets the machine go to sleep.
ClockBehindQuiet ==
    /\ quiet \in elapsed .. SleepTimeout
    /\ pc = "sleep" => elapsed = SleepTimeout

HistoryInv == CoreInv /\ LastSaveAccounted /\ ClockBehindQuiet

LEMMA HistoryStarts == HistoryInit => HistoryInv
<1> SUFFICES ASSUME HistoryInit PROVE HistoryInv
  OBVIOUS
<1>1. CoreInv
  BY InitCore DEF HistoryInit
<1>2. ClockBehindQuiet
  BY BoundsAssumption DEF HistoryInit, Init, ClockBehindQuiet
<1>3. LastSaveAccounted
  BY DEF HistoryInit, Init, LastSaveAccounted
<1> QED
  BY <1>1, <1>2, <1>3 DEF HistoryInv

\* The history variables only watch: without them, every step is a step of the
\* coordinator.
LEMMA HistoryIsWatched == [HistoryNext]_historyVars => [Next]_vars
BY DEF HistoryNext, historyVars, Wait, Next

-----------------------------------------------------------------------------
(* The save received last *)

\* What a step of an operation, a producer or the clock leaves of the saves.
LEMMA SavesUntouched ==
    ASSUME LastSaveAccounted,
           UNCHANGED <<pending, inHand, caches, lastSave>>,
           pc' = pc \/ inHand = Nothing
    PROVE  LastSaveAccounted'
BY DEF LastSaveAccounted, InControl, InCaches, caches

\* The top of the loop hands on the save that is held, and no other is in hand.
LEMMA LoopTopKeepsSave ==
    ASSUME LastSaveAccounted, LoopTop, inHand = Nothing, UNCHANGED <<caches, lastSave>>
    PROVE  LastSaveAccounted'
BY DEF LastSaveAccounted, LoopTop, InControl, InCaches, caches

\* Publishing a save puts it into the control loop's copy.
LEMMA PublishAccounted ==
    ASSUME HistoryInv, PublishControl, UNCHANGED lastSave
    PROVE  LastSaveAccounted'
<1>1. inHand # Nothing /\ pending = Nothing /\ lastSave = inHand /\ inHand \in SaveCommand
  BY DEF HistoryInv, PublishControl, CoreInv, SlotsConsistent, SavesWaitForIdle, LastSaveAccounted,
     TypeOK
<1>2. InControl(lastSave)'
  <2> SUFFICES ASSUME inHand.kind \in SettingsSaves,
                      NEW s \in DOMAIN inHand.edit \cap ControlSections
               PROVE  control'[s] = inHand.edit[s]
    BY <1>1 DEF InControl
  <2> QED
    BY DEF PublishControl, Edited, HistoryInv, CoreInv, TypeOK
<1> QED
  BY <1>1, <1>2 DEF PublishControl, LastSaveAccounted

\* Committing a save puts it into the cache it is for.
LEMMA CommitAccounted ==
    ASSUME HistoryInv, CommitSave, UNCHANGED lastSave
    PROVE  LastSaveAccounted'
<1>1. /\ inHand # Nothing /\ pending = Nothing /\ lastSave = inHand /\ inHand \in SaveCommand
      /\ InControl(lastSave)
  BY DEF HistoryInv, CommitSave, CoreInv, SlotsConsistent, SavesWaitForIdle, LastSaveAccounted,
     TypeOK
<1>2. InControl(lastSave)'
  BY <1>1 DEF InControl, CommitSave
<1>3. CASE inHand.kind \in SettingsSaves
  <2>1. DOMAIN inHand.edit \subseteq Sections
    BY <1>1, <1>3, SettingsEdit
  <2>2. \A s \in DOMAIN inHand.edit : settings'[s] = inHand.edit[s]
    BY <1>3, <2>1 DEF CommitSave, Edited, HistoryInv, CoreInv, TypeOK
  <2> QED
    BY <1>1, <1>2, <1>3, <2>2 DEF CommitSave, LastSaveAccounted, InCaches, SettingsSaves
<1>4. CASE inHand.kind \in ProfileSaves
  <2>1. inHand.slot \in Slots =>
          profiles'[inHand.slot] = IF inHand.kind = "SaveProfile" THEN inHand.profile ELSE NoProfile
    BY <1>4 DEF CommitSave, HistoryInv, CoreInv, TypeOK
  <2> QED
    BY <1>1, <1>2, <1>4, <2>1 DEF CommitSave, LastSaveAccounted, InCaches, SettingsSaves, ProfileSaves
<1> QED
  BY <1>1, <1>3, <1>4, SaveIsSomething DEF SaveKinds

\* A command of the queue is remembered if it is a save, and a save is held or
\* taken, whatever was held before.
LEMMA ServeAccounted ==
    ASSUME HistoryInv, NEW cmd \in Offered, Serve(cmd), Remember
    PROVE  LastSaveAccounted'
<1>1. Receive(cmd)
  BY DEF Serve, HoldSave, TakeSave, SetSessionTemp, WakeUp, PowerOff, LookUpProfile,
         StartFromIdle, StartFromSteaming, StopWhileIdle, StopWhileBusy
<1>2. pc = "select" /\ inHand = Nothing
  BY <1>1 DEF Receive, HistoryInv, LastSaveAccounted
<1>3. Received /\ cmd = Head(queue)
  BY <1>1 DEF Receive, Received, HistoryInv, CoreInv, TypeOK
<1>4. cmd.kind \in SaveKinds => cmd \in SaveCommand /\ cmd # Nothing
  BY OfferedAssumption, CommandByKind, SaveIsSomething
<1>5. lastSave' = IF cmd.kind \in SaveKinds THEN cmd ELSE lastSave
  BY <1>3 DEF Remember
<1>6. CASE HoldSave(cmd)
  BY <1>2, <1>4, <1>5, <1>6 DEF HoldSave, LastSaveAccounted
<1>7. CASE TakeSave(cmd)
  <2>1. pending = Nothing
    BY <1>7 DEF TakeSave, HistoryInv, CoreInv, SavesWaitForIdle
  <2> QED
    BY <1>4, <1>5, <1>7, <2>1 DEF TakeSave, LastSaveAccounted
<1>8. CASE StopWhileBusy(cmd)
  <2>1. lastSave' = lastSave
    BY <1>5, <1>8 DEF StopWhileBusy, ActionKinds, SaveKinds, SettingsSaves, ProfileSaves
  <2> QED
    BY <1>2, <1>8, <2>1, LoopTopKeepsSave DEF StopWhileBusy, EndOperation, HistoryInv
<1>9. ASSUME \/ SetSessionTemp(cmd) \/ WakeUp(cmd) \/ PowerOff(cmd) \/ LookUpProfile(cmd)
             \/ StartFromIdle(cmd) \/ StartFromSteaming(cmd) \/ StopWhileIdle(cmd)
      PROVE  LastSaveAccounted'
  <2>1. UNCHANGED <<pending, inHand, caches>>
    BY <1>9 DEF SetSessionTemp, WakeUp, PowerOff, LookUpProfile, StartFromIdle, StartFromSteaming,
       StopWhileIdle, Start
  <2>2. cmd.kind \notin SaveKinds
    BY <1>9 DEF SetSessionTemp, WakeUp, PowerOff, LookUpProfile, StartFromIdle, StartFromSteaming,
       StopWhileIdle, ActionKinds, SaveKinds, SettingsSaves, ProfileSaves
  <2> QED
    BY <1>2, <1>5, <2>1, <2>2, SavesUntouched DEF HistoryInv
<1> QED
  BY <1>6, <1>7, <1>8, <1>9 DEF Serve

\* Taking nothing from the queue is remembered as nothing received.
LEMMA NothingReceived == ASSUME UNCHANGED queue, Remember PROVE UNCHANGED lastSave
<1>1. ~Received
  BY DEF Received
<1> QED
  BY <1>1 DEF Remember

LEMMA StepAccounted ==
    ASSUME HistoryInv, [HistoryNext]_historyVars
    PROVE  LastSaveAccounted'
<1>1. LastSaveAccounted
  BY DEF HistoryInv
<1>2. CASE Wait
  <2>1. inHand = Nothing
    BY <1>1, <1>2 DEF Wait, Housekeeping, LastSaveAccounted
  <2> QED
    BY <1>1, <1>2, <2>1, SavesUntouched DEF Wait, Housekeeping
<1>3. CASE \/ (\E cmd \in Offered : Send(cmd)) /\ UNCHANGED history
           \/ Pour /\ UNCHANGED history
           \/ UNCHANGED historyVars
  BY <1>1, <1>3, SavesUntouched DEF Send, Pour, historyVars, vars, history
<1>4. CASE Coordinate /\ Remember
  <2>1. CASE Boot
    <3>1. inHand = Nothing
      BY <1>1, <2>1 DEF Boot, LastSaveAccounted
    <3> QED
      BY <1>1, <1>4, <2>1, <3>1, NothingReceived, LoopTopKeepsSave DEF Boot
  <2>2. ASSUME NEW cmd \in Offered, Serve(cmd) PROVE LastSaveAccounted'
    BY <1>4, <2>2, ServeAccounted
  <2>3. CASE PublishControl
    BY <1>4, <2>3, NothingReceived, PublishAccounted DEF PublishControl
  <2>4. CASE CommitSave
    BY <1>4, <2>4, NothingReceived, CommitAccounted DEF CommitSave
  <2>5. CASE StartDefaultProfile \/ GoToSleep
    <3>1. inHand = Nothing
      BY <1>1, <2>5 DEF StartDefaultProfile, GoToSleep, LastSaveAccounted
    <3>2. UNCHANGED <<pending, inHand, caches, queue>>
      BY <2>5 DEF StartDefaultProfile, GoToSleep, Start
    <3> QED
      BY <1>1, <1>4, <3>1, <3>2, NothingReceived, SavesUntouched
  <2>6. CASE FinishOperation
    <3>1. inHand = Nothing
      BY <1>1, <2>6 DEF FinishOperation, LastSaveAccounted
    <3> QED
      BY <1>1, <1>4, <2>6, <3>1, NothingReceived, LoopTopKeepsSave DEF FinishOperation, EndOperation
  <2> QED
    BY <1>4, <2>1, <2>2, <2>3, <2>4, <2>5, <2>6 DEF Coordinate
<1>5. CASE Operate /\ Remember
  BY <1>1, <1>5, NothingReceived, SavesUntouched
  DEF Operate, EngageCooldown, NextStep, OperationDue
<1> QED
  BY <1>2, <1>3, <1>4, <1>5 DEF HistoryNext

-----------------------------------------------------------------------------
(* The quiet before sleep *)

\* One more period is counted by both clocks, and by neither beyond the timeout.
LEMMA ClocksAdvance ==
    ASSUME NEW t \in Nat, NEW e \in 0 .. t, NEW q \in e .. t
    PROVE  (IF q < t THEN q + 1 ELSE q) \in (IF e < t THEN e + 1 ELSE e) .. t
OBVIOUS

\* Leaving the busy states, like taking a command, resets the clock of the code.
LEMMA ClockReset ==
    ASSUME HistoryInv, Coordinate \/ Operate
    PROVE  \/ elapsed' = 0
           \/ elapsed' = elapsed /\ UNCHANGED queue /\ (Busy => state' = state)
<1>1. ASSUME NEW cmd \in Offered, Serve(cmd) PROVE elapsed' = 0
  BY <1>1 DEF Serve, HoldSave, TakeSave, SetSessionTemp, WakeUp, PowerOff, LookUpProfile,
     StartFromIdle, StartFromSteaming, StopWhileIdle, StopWhileBusy, Receive
<1>2. CASE Boot \/ StartDefaultProfile \/ FinishOperation
  BY <1>2 DEF Boot, StartDefaultProfile, FinishOperation, EndOperation, LoopTop
<1>3. CASE GoToSleep
  BY <1>3 DEF GoToSleep, HistoryInv, CoreInv, SlotsConsistent, Busy, BusyStates
<1>4. CASE PublishControl \/ CommitSave \/ Operate
  BY <1>4 DEF PublishControl, CommitSave, Operate, EngageCooldown, NextStep, OperationDue, machine
<1> QED
  BY <1>1, <1>2, <1>3, <1>4 DEF Coordinate

\* None of these steps leads to the point where sleep is decided on.
LEMMA OnlyWaitingLeadsToSleep ==
    ASSUME HistoryInv, Coordinate \/ Operate
    PROVE  pc' # "sleep"
<1>1. ASSUME NEW cmd \in Offered, Serve(cmd) PROVE pc' # "sleep"
  BY <1>1 DEF Serve, HoldSave, TakeSave, SetSessionTemp, WakeUp, PowerOff, LookUpProfile,
     StartFromIdle, StartFromSteaming, StopWhileIdle, StopWhileBusy, Receive, Start, EndOperation,
     LoopTop
<1> QED
  BY <1>1 DEF Coordinate, Boot, StartDefaultProfile, FinishOperation, EndOperation, LoopTop, Start,
     GoToSleep, PublishControl, CommitSave, Operate, EngageCooldown, NextStep, OperationDue

LEMMA StepClock ==
    ASSUME HistoryInv, [HistoryNext]_historyVars
    PROVE  ClockBehindQuiet'
<1>1. elapsed \in 0 .. SleepTimeout /\ quiet \in elapsed .. SleepTimeout
  BY DEF HistoryInv, CoreInv, TypeOK, ClockBehindQuiet
<1>2. CASE Wait
  <2>1. /\ elapsed' = IF elapsed < SleepTimeout THEN elapsed + 1 ELSE elapsed
        /\ quiet' = IF quiet < SleepTimeout THEN quiet + 1 ELSE quiet
        /\ pc' = "sleep" => elapsed' >= SleepTimeout
    BY <1>2 DEF Wait, Housekeeping
  <2>2. quiet' \in elapsed' .. SleepTimeout
    BY <1>1, <2>1, ClocksAdvance, BoundsAssumption
  <2>3. pc' = "sleep" => elapsed' = SleepTimeout
    BY <1>1, <2>1, BoundsAssumption
  <2> QED
    BY <2>2, <2>3 DEF ClockBehindQuiet
<1>3. CASE \/ (\E cmd \in Offered : Send(cmd)) /\ UNCHANGED history
           \/ Pour /\ UNCHANGED history
           \/ UNCHANGED historyVars
  BY <1>3 DEF Send, Pour, historyVars, vars, history, HistoryInv, ClockBehindQuiet
<1>4. CASE (Coordinate \/ Operate) /\ Remember
  <2>1. pc' # "sleep"
    BY <1>4, OnlyWaitingLeadsToSleep
  <2>2. CASE elapsed' = 0
    <3>1. quiet' \in {0, quiet}
      BY <1>4 DEF Remember
    <3> QED
      BY <1>1, <2>1, <2>2, <3>1, BoundsAssumption DEF ClockBehindQuiet
  <2>3. CASE elapsed' = elapsed /\ UNCHANGED queue /\ (Busy => state' = state)
    <3>1. quiet' = quiet
      BY <1>4, <2>3 DEF Remember, Received, Busy
    <3> QED
      BY <2>1, <2>3, <3>1 DEF HistoryInv, ClockBehindQuiet
  <2> QED
    BY <1>4, <2>2, <2>3, ClockReset
<1> QED
  BY <1>2, <1>3, <1>4 DEF HistoryNext

-----------------------------------------------------------------------------
(* The theorems *)

LEMMA HistoryStep == HistoryInv /\ [HistoryNext]_historyVars => HistoryInv'
<1> SUFFICES ASSUME HistoryInv, [HistoryNext]_historyVars PROVE HistoryInv'
  OBVIOUS
<1>1. CoreInv'
  BY HistoryIsWatched, StepCore DEF HistoryInv
<1> QED
  BY <1>1, StepAccounted, StepClock DEF HistoryInv

\* In a machine at rest the last save received is in effect, in both copies of
\* the settings or in its profile slot, whatever was held back, replaced or in
\* hand before (serve, coordinator_task).
THEOREM LastSaveWins == HistorySpec => []LatestSaveInEffect
<1>1. HistoryInv => LatestSaveInEffect
  BY DEF HistoryInv, CoreInv, SavesWaitForIdle, LastSaveAccounted, LatestSaveInEffect
<1> QED
  BY <1>1, HistoryStarts, HistoryStep, PTL DEF HistorySpec

\* Nothing but a command or a full quiet timeout puts the machine to sleep.
THEOREM SleepIsEarned == HistorySpec => SleepsOnlyWhenQuiet
<1>1. ASSUME HistoryInv, HistoryNext, state = "Idle", state' = "Sleeping", ~Received
      PROVE  quiet >= SleepTimeout
  <2>1. GoToSleep
    <3>1. ASSUME NEW cmd \in Offered, Serve(cmd) PROVE Received
      BY <1>1, <3>1 DEF Serve, HoldSave, TakeSave, SetSessionTemp, WakeUp, PowerOff, LookUpProfile,
         StartFromIdle, StartFromSteaming, StopWhileIdle, StopWhileBusy, Receive, Received,
         HistoryInv, CoreInv, TypeOK
    <3>2. ~(Boot \/ StartDefaultProfile \/ FinishOperation)
      BY <1>1 DEF Boot, StartDefaultProfile, Start, Enter, StateOf, FinishOperation, EndOperation
    <3>3. ~(PublishControl \/ CommitSave \/ Operate \/ Wait \/ Pour \/ \E cmd \in Offered : Send(cmd))
      BY <1>1 DEF PublishControl, CommitSave, Operate, EngageCooldown, NextStep, OperationDue,
         Wait, Housekeeping, Pour, Send, machine
    <3> QED
      BY <1>1, <3>1, <3>2, <3>3 DEF HistoryNext, Coordinate
  <2>2. pc = "sleep"
    BY <2>1 DEF GoToSleep
  <2> QED
    BY <1>1, <2>2, BoundsAssumption DEF HistoryInv, CoreInv, TypeOK, ClockBehindQuiet
<1>2. HistoryInv /\ [HistoryNext]_historyVars =>
        [(state = "Idle" /\ state' = "Sleeping" /\ ~Received) => quiet >= SleepTimeout]_historyVars
  BY <1>1
<1> QED
  BY <1>2, HistoryStarts, HistoryStep, PTL DEF HistorySpec, SleepsOnlyWhenQuiet
=============================================================================
