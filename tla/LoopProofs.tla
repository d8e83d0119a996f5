----------------------------- MODULE LoopProofs -----------------------------
(***************************************************************************)
(* ControlLoop acts for the state the machine is in and keeps the contract *)
(* of Machine, whatever becomes of the signals between the coordinator and *)
(* the loop, for every value of the constants; and a queued stop comes     *)
(* nearer with every turn of the coordinator.                              *)
(***************************************************************************)
EXTENDS ControlLoop, CoordinatorProofs

\* The contract the loop is held to is the one the coordinator is held to.
LEMMA SameContract ==
    /\ \A s : LoopContract!PumpModesOf(s) = Contract!PumpModesOf(s)
    /\ \A s : LoopContract!ValveFor(s) = Contract!ValveFor(s)
    /\ \A s : LoopContract!TargetFor(s) = TargetFor(s)
    /\ LoopContract!MachineState = MachineState
    /\ LoopContract!Transitions = Contract!Transitions
<1>1. LoopContract!BusyStates = Contract!BusyStates
  BY DEF LoopContract!BusyStates, Contract!BusyStates
<1>2. LoopContract!PumpMode = Contract!PumpMode
  BY DEF LoopContract!PumpMode, LoopContract!StepModes, Contract!PumpMode, Contract!StepModes
<1> QED
  BY <1>1, <1>2 DEF LoopContract!PumpModesOf, Contract!PumpModesOf, LoopContract!ValveFor,
     Contract!ValveFor, LoopContract!TargetFor, TargetFor, LoopContract!MachineState,
     MachineState, LoopContract!Transitions, Contract!Transitions

\* What the loop would act on if it looked now suits the state the machine is
\* in: the newest signal where one is waiting, what it took last where none is.
LoopView ==
    /\ NextMode \in Contract!PumpModesOf(state)
    /\ NextBrew = (op.kind = "Profile")
    /\ IF pc = "boot" THEN NextTarget.mode = "Brew"
                      ELSE NextTarget = Target(TargetFor(state), session)

LInv == CoreInv /\ LoopTypeOK /\ LoopView

LEMMA LoopStarts == LoopInit => LInv
<1> SUFFICES ASSUME LoopInit PROVE LInv
  OBVIOUS
<1>1. CoreInv
  BY InitCore DEF LoopInit
<1>2. LoopTypeOK
  BY TempsAssumption DEF LoopInit, LoopTypeOK, PumpMode, Target, TargetTempMode, Integral
<1>3. LoopView
  BY PumpModesByState DEF LoopInit, Init, LoopView, NextMode, NextBrew, NextTarget, NoOp, NoTarget,
     Target
<1> QED
  BY <1>1, <1>2, <1>3 DEF LInv

\* What a tick puts in force has the types of what is in force.
LEMMA NextTypes ==
    ASSUME TypeOK, LoopTypeOK
    PROVE  /\ NextMode \in PumpMode
           /\ NextTarget \in [mode: TargetTempMode, temp: Temps \cup {NoTemp}]
           /\ NextBrew \in BOOLEAN
<1>1. NextTarget \in [mode: TargetTempMode, temp: Temps \cup {NoTemp}]
  BY DEF TypeOK, LoopTypeOK, NextTarget
<1> QED
  BY <1>1 DEF TypeOK, LoopTypeOK, NextMode, NextBrew

\* Taking the signals changes neither what they say nor anything the
\* coordinator keeps.
LEMMA TickSafe == ASSUME LInv, Tick PROVE LInv'
<1>1. TypeOK /\ LoopTypeOK
  BY DEF LInv, CoreInv
<1>2. CoreInv'
  <2>1. TypeOK'
    BY <1>1 DEF Tick, TypeOK, NoTarget, machine, caches
  <2>2. /\ OperationServesState' /\ ValveServesOperation'
        /\ SavesWaitForIdle' /\ SlotsConsistent'
    BY DEF Tick, machine, LInv, CoreInv, OperationServesState, ValveServesOperation,
       SavesWaitForIdle, SlotsConsistent, Busy
  <2> QED
    BY <2>1, <2>2 DEF CoreInv
<1>3. LoopTypeOK'
  <2>1. pressI' \in Integral /\ flowI' \in Integral
    BY <1>1 DEF Tick, LoopTypeOK, Integrated, Integral
  <2>2. drive' \in {"off", "direct", "press", "flow"}
    BY DEF Tick, DriveOf
  <2> QED
    BY <1>1, <2>1, <2>2, NextTypes DEF Tick, LoopTypeOK
<1>4. NextMode' = NextMode /\ NextTarget' = NextTarget /\ NextBrew' = NextBrew
  BY DEF Tick, NextMode, NextTarget, NextBrew, NoTarget
<1>5. LoopView'
  BY <1>4 DEF LInv, LoopView, Tick, machine
<1> QED
  BY <1>2, <1>3, <1>5 DEF LInv

\* Between two ticks the loop's own variables stand still, and what the
\* coordinator says, or leaves said, suits the state it moves to.
LEMMA OthersSafe ==
    ASSUME LInv, [Next]_vars, UNCHANGED <<mode, target, brewActive, drive>>,
           pressI' \in Integral, flowI' \in Integral
    PROVE  LInv'
<1>1. CoreInv' /\ PumpSaid /\ BrewSaid /\ SetpointSaid
  BY StepCore DEF LInv
<1>2. LoopTypeOK'
  BY DEF LInv, LoopTypeOK
<1>3. NextMode' \in Contract!PumpModesOf(state')
  <2>1. CASE UNCHANGED sigPump /\ Contract!PumpModesOf(state') = Contract!PumpModesOf(state)
    BY <2>1 DEF LInv, LoopView, NextMode
  <2>2. CASE sigPump' \in Contract!PumpModesOf(state')
    <3>1. "None" \notin Contract!PumpModesOf(state')
      <4>1. state' \in MachineState
        BY <1>1 DEF CoreInv, TypeOK
      <4> QED
        BY <4>1, PumpModesByState DEF MachineState, PumpMode, StepModes
    <3> QED
      BY <2>2, <3>1 DEF NextMode
  <2> QED
    BY <1>1, <2>1, <2>2 DEF PumpSaid
<1>4. NextBrew' = (op'.kind = "Profile")
  BY <1>1 DEF BrewSaid, LInv, LoopView, NextBrew
<1>5. IF pc' = "boot" THEN NextTarget'.mode = "Brew"
                      ELSE NextTarget' = Target(TargetFor(state'), session')
  <2>1. CASE sigTemp' = Target(TargetFor(state'), session')
    <3>1. sigTemp'.mode # "None"
      BY <2>1 DEF Target, TargetFor
    <3>2. pc' # "boot"
      BY <1>1, <3>1 DEF CoreInv, SlotsConsistent, NoTarget
    <3> QED
      BY <2>1, <3>1, <3>2 DEF NextTarget
  <2>2. CASE /\ UNCHANGED sigTemp
             /\ Target(TargetFor(state'), session') = Target(TargetFor(state), session)
             /\ (pc' = "boot") = (pc = "boot")
    <3>1. NextTarget' = NextTarget
      BY <2>2 DEF NextTarget
    <3> QED
      BY <2>2, <3>1 DEF LInv, LoopView
  <2> QED
    BY <1>1, <2>1, <2>2 DEF SetpointSaid
<1> QED
  BY <1>1, <1>2, <1>3, <1>4, <1>5 DEF LInv, LoopView

LEMMA LoopStep == LInv /\ [LoopNext]_allVars => LInv'
<1> SUFFICES ASSUME LInv, [LoopNext]_allVars PROVE LInv'
  OBVIOUS
<1>1. pressI \in Integral /\ flowI \in Integral
  BY DEF LInv, LoopTypeOK
<1>2. CASE Tick
  BY <1>2, TickSafe
<1>3. CASE Others
  <2>1. pressI' \in Integral /\ flowI' \in Integral
    BY <1>1, <1>3 DEF Others, Aged, Integral
  <2> QED
    BY <1>3, <2>1, OthersSafe DEF Others
<1>4. CASE UNCHANGED allVars
  BY <1>1, <1>4, OthersSafe DEF allVars, loopVars
<1> QED
  BY <1>2, <1>3, <1>4 DEF LoopNext

\* The loop keeps its types, whatever is signalled and whenever it ticks.
THEOREM LoopTypeCorrect == LoopSpec => []LoopTypeOK
<1>1. LInv => LoopTypeOK
  BY DEF LInv
<1> QED
  BY <1>1, LoopStarts, LoopStep, PTL DEF LoopSpec

\* Every tick acts for the state the machine is in, never for an earlier one
\* (try_take of the three single-slot signals).
THEOREM LoopFollowsState == LoopSpec => LoopActsForState
<1>1. ASSUME LInv, Tick
      PROVE  /\ target'.mode = TargetFor(state)
             /\ target'.mode = "Brew" /\ pc # "boot" => target'.temp = session
             /\ brewActive' = (state = "Brewing")
             /\ drive' \in DrivesOf(state)
  <2>1. /\ target' = NextTarget /\ brewActive' = NextBrew /\ drive' = DriveOf(NextMode)
    BY <1>1 DEF Tick
  <2>2. pc = "boot" => state = "Idle"
    BY <1>1 DEF LInv, CoreInv, SlotsConsistent
  <2>3. target'.mode = TargetFor(state)
    <3>1. CASE pc = "boot"
      BY <1>1, <2>1, <2>2, <3>1 DEF LInv, LoopView, TargetFor
    <3>2. CASE pc # "boot"
      BY <1>1, <2>1, <3>2 DEF LInv, LoopView, Target
    <3> QED
      BY <3>1, <3>2
  <2>4. target'.mode = "Brew" /\ pc # "boot" => target'.temp = session
    BY <1>1, <2>1 DEF LInv, LoopView, Target
  <2>5. (op.kind = "Profile") <=> (state = "Brewing")
    BY <1>1 DEF LInv, CoreInv, TypeOK, OperationServesState, Busy, BusyStates, StateOf, Operation
  <2>6. brewActive' = (state = "Brewing")
    BY <1>1, <2>1, <2>5 DEF LInv, LoopView
  <2>7. drive' \in DrivesOf(state)
    BY <1>1, <2>1, SameContract DEF LInv, LoopView, DrivesOf
  <2> QED
    BY <2>3, <2>4, <2>6, <2>7
<1> QED
  BY <1>1, LoopStarts, LoopStep, PTL DEF LoopSpec, LoopActsForState

\* The pump and the heater as the contract sees them through the loop.
LoopOutputs ==
    /\ valve = Contract!ValveFor(state)
    /\ NextTarget.mode = TargetFor(state)
    /\ NextMode \in Contract!PumpModesOf(state)

LEMMA OutputsOfLoop == LInv => LoopOutputs
<1> SUFFICES ASSUME LInv PROVE LoopOutputs
  OBVIOUS
<1>1. CASE pc = "boot"
  <2>1. state = "Idle"
    BY <1>1 DEF LInv, CoreInv, SlotsConsistent
  <2> QED
    BY <1>1, <2>1, ValveOfState DEF LInv, LoopView, LoopOutputs, TargetFor
<1>2. CASE pc # "boot"
  BY <1>2, ValveOfState DEF LInv, LoopView, LoopOutputs, Target
<1> QED
  BY <1>1, <1>2

\* The machine as the loop drives it makes only the moves of the contract, and
\* a tick is none of them: however the signals are overwritten or left behind.
THEOREM LoopImplementsContract == LoopSpec => LoopKeepsContract
<1>1. LoopInit => LoopContract!MachineInit
  BY DEF LoopInit, Init, LoopContract!MachineInit, NextMode, NextTarget, NoTarget, Target
<1>2. LInv /\ LInv' /\ [LoopNext]_allVars => [LoopContract!MachineNext]_LoopContract!mvars
  <2> SUFFICES ASSUME LInv, LInv', [LoopNext]_allVars
               PROVE  [LoopContract!MachineNext]_LoopContract!mvars
    OBVIOUS
  <2>1. LoopOutputs
    BY OutputsOfLoop
  <2>2. LoopOutputs'
    BY OutputsOfLoop, PTL
  <2>3. state' = state \/ <<state, state'>> \in LoopContract!Transitions
    <3>1. CASE Tick
      BY <3>1 DEF Tick, machine
    <3>2. CASE Others \/ UNCHANGED allVars
      BY <3>2, ModeTransitions, SameContract DEF Others, allVars, LInv
    <3> QED
      BY <3>1, <3>2 DEF LoopNext
  <2>4. state' \in LoopContract!MachineState
    BY SameContract DEF LInv, CoreInv, TypeOK
  <2>5. CASE state' = state
    <3>1. LoopContract!DrivePump
      BY <2>1, <2>2, <2>5, SameContract DEF LoopOutputs, LoopContract!DrivePump
    <3> QED
      BY <3>1 DEF LoopContract!MachineNext
  <2>6. CASE <<state, state'>> \in LoopContract!Transitions
    <3>1. LoopContract!Move(state')
      BY <2>2, <2>6, SameContract DEF LoopOutputs, LoopContract!Move
    <3> QED
      BY <2>4, <3>1 DEF LoopContract!MachineNext
  <2> QED
    BY <2>3, <2>5, <2>6
<1> QED
  BY <1>1, <1>2, LoopStarts, LoopStep, PTL DEF LoopSpec, LoopKeepsContract, LoopContract!MachineSafety
-----------------------------------------------------------------------------
(* What a stop waits for *)

\* One of the first n commands in the queue is a stop.
StopAmongFirst(n) == \E i \in 1 .. Len(queue) : i <= n /\ queue[i].kind = "Stop"

\* While the machine is busy, each command the coordinator takes, and each
\* operation that ends, brings a queued stop one place nearer or stops the
\* machine, and nothing that anybody else does puts it back: a stop waits for as
\* many turns of the coordinator as there are commands before it, whether the
\* operation goes on or hangs (next_command, the busy arm of handle_command).
StopComesNearer ==
    [][\A n \in Nat : Busy /\ StopAmongFirst(n + 1) =>
         \/ ~Busy'
         \/ StopAmongFirst(n)'
         \/ ~Coordinate /\ StopAmongFirst(n + 1)']_allVars

\* A stop that is taken while the machine is busy is never held back or passed on.
LEMMA StopTaken ==
    ASSUME CoreInv, Busy, NEW cmd \in Offered, cmd.kind = "Stop", Serve(cmd)
    PROVE  ~Busy'
<1>1. ~(\/ HoldSave(cmd) \/ TakeSave(cmd) \/ SetSessionTemp(cmd) \/ LookUpProfile(cmd)
        \/ PowerOff(cmd) \/ StartFromIdle(cmd) \/ StartFromSteaming(cmd))
  BY DEF HoldSave, TakeSave, SetSessionTemp, LookUpProfile, PowerOff, StartFromIdle,
         StartFromSteaming, SaveKinds, SettingsSaves, ProfileSaves
<1>2. ~(WakeUp(cmd) \/ StopWhileIdle(cmd))
  BY DEF WakeUp, StopWhileIdle, Busy, BusyStates
<1>3. StopWhileBusy(cmd)
  BY <1>1, <1>2 DEF Serve
<1>4. state' = "Idle"
  BY <1>3 DEF StopWhileBusy, EndOperation, Enter
<1> QED
  BY <1>4 DEF Busy, BusyStates

\* A turn of the coordinator takes the command at the head of the queue.
LEMMA StopAdvances ==
    ASSUME CoreInv, Busy, Coordinate, NEW n \in Nat, StopAmongFirst(n + 1)
    PROVE  ~Busy' \/ StopAmongFirst(n)'
<1>1. pc \notin {"boot", "lookup", "sleep", "apply", "commit"}
  BY DEF CoreInv, SlotsConsistent, OperationServesState, Busy, BusyStates
<1>2. ~(Boot \/ PublishControl \/ CommitSave \/ StartDefaultProfile \/ GoToSleep)
  BY <1>1 DEF Boot, PublishControl, CommitSave, StartDefaultProfile, GoToSleep
<1>3. CASE FinishOperation
  <2>1. state' = "Idle"
    BY <1>3 DEF FinishOperation, EndOperation, Enter
  <2> QED
    BY <2>1 DEF Busy, BusyStates
<1>4. ASSUME NEW cmd \in Offered, Serve(cmd) PROVE ~Busy' \/ StopAmongFirst(n)'
  <2>1. queue # << >> /\ cmd = Head(queue) /\ queue' = Tail(queue)
    BY <1>4 DEF Serve, HoldSave, TakeSave, SetSessionTemp, LookUpProfile, PowerOff, StartFromIdle,
                StartFromSteaming, WakeUp, StopWhileIdle, StopWhileBusy, Receive
  <2>2. queue \in Seq(Offered)
    BY DEF CoreInv, TypeOK
  <2>3. PICK i \in 1 .. Len(queue) : i <= n + 1 /\ queue[i].kind = "Stop"
    BY DEF StopAmongFirst
  <2>4. CASE i = 1
    <3>1. cmd.kind = "Stop"
      BY <2>1, <2>2, <2>3, <2>4
    <3> QED
      BY <1>4, <3>1, StopTaken
  <2>5. CASE i # 1
    <3>1. Len(queue') = Len(queue) - 1 /\ i - 1 \in 1 .. Len(queue') /\ i - 1 <= n
      BY <2>1, <2>2, <2>3, <2>5
    <3>2. queue'[i - 1] = queue[i]
      BY <2>1, <2>2, <2>3, <2>5, <3>1
    <3> QED
      BY <2>3, <3>1, <3>2 DEF StopAmongFirst
  <2> QED
    BY <2>4, <2>5
<1> QED
  BY <1>2, <1>3, <1>4 DEF Coordinate

\* Nobody else takes from the queue or puts a command before another.
LEMMA StopKeepsPlace ==
    ASSUME CoreInv, [LoopNext]_allVars, ~Coordinate, NEW n \in Nat, StopAmongFirst(n)
    PROVE  StopAmongFirst(n)'
<1>1. queue \in Seq(Offered)
  BY DEF CoreInv, TypeOK
<1>2. queue' = queue \/ \E cmd \in Offered : queue' = Append(queue, cmd)
  <2>1. CASE Tick
    BY <2>1 DEF Tick
  <2>2. CASE UNCHANGED allVars
    BY <2>2 DEF allVars, vars
  <2>3. CASE Others
    BY <2>3 DEF Others, Next, Send, Pour, Housekeeping, Operate, EngageCooldown, NextStep, OperationDue
  <2> QED
    BY <2>1, <2>2, <2>3 DEF LoopNext
<1>3. PICK i \in 1 .. Len(queue) : i <= n /\ queue[i].kind = "Stop"
  BY DEF StopAmongFirst
<1>4. i \in 1 .. Len(queue') /\ queue'[i] = queue[i]
  BY <1>1, <1>2, <1>3
<1> QED
  BY <1>3, <1>4 DEF StopAmongFirst

\* A queued stop is served after the commands before it, and loses no place:
\* what StopIsServed asks, but for the fairness of the coordinator.
THEOREM StopsInTurn == LoopSpec => StopComesNearer
<1>1. ASSUME LInv, [LoopNext]_allVars, NEW n \in Nat, Busy, StopAmongFirst(n + 1)
      PROVE  \/ ~Busy'
             \/ StopAmongFirst(n)'
             \/ ~Coordinate /\ StopAmongFirst(n + 1)'
  <2>1. CASE Coordinate
    BY <1>1, <2>1, StopAdvances DEF LInv
  <2>2. CASE ~Coordinate
    BY <1>1, <2>2, StopKeepsPlace DEF LInv
  <2> QED
    BY <2>1, <2>2
<1>2. LInv /\ [LoopNext]_allVars =>
        [\A n \in Nat : Busy /\ StopAmongFirst(n + 1) =>
           \/ ~Busy'
           \/ StopAmongFirst(n)'
           \/ ~Coordinate /\ StopAmongFirst(n + 1)']_allVars
  BY <1>1
<1> QED
  BY <1>2, LoopStarts, LoopStep, PTL DEF LoopSpec, StopComesNearer
=============================================================================
