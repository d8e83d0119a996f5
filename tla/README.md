# A TLA+ model of the oximite firmware

oximite turns an espresso machine into a web-connected one: a Raspberry Pi Pico 2
running embassy tasks on two cores. This directory holds TLA+ modules of the
parts whose behaviour depends on the order in which things happen, the TLC
instances that check them, and TLAPS proofs of what matters most.

Paths below are relative to the firmware's `src/` directory.

## 1. The system

| Part | State it keeps | What it does | Talks to |
|---|---|---|---|
| coordinator (`coordinator.rs`, `state.rs`) | machine state, the one running operation, the valve pin, the held save, the sleep clock, session temperature | takes commands from a queue of 4, runs the transition table, polls the running operation, applies saves to RAM, sends the machine to sleep | control loop (three signals), flash task (one signal), settings and profile caches (mutexes shared with core1) |
| operations (`operations.rs`) | position in the profile, guards held | brew profile, steam, cooldown flush, direct pump, hot water; each is a future dropped to cancel it | pump and brew signals, valve, flow meter, telemetry |
| control loop (`control.rs`, `pid.rs`) | pump mode, setpoint, brew flag, three PIDs, delta-sigma accumulator | one turn per mains cycle, or 25 ms without mains: takes the signals, computes pump phase and heater duty, feeds the PIO FIFOs | signals, sensors, telemetry |
| settings and profiles (`settings.rs`, `profiles.rs`) | settings twice in RAM (for everybody, for the control loop), ten profile slots, their copies in flash | `flash_update_task` takes one update at a time and writes it key by key when the machine is not busy; boot loads flash into RAM | update signal, watch on the machine state |
| buttons (`buttons.rs`) | four debouncers | samples every 10 ms, sends a command per press | command queue |
| web server (`web_api.rs`) | per-connection buffers | HTTP API, telemetry stream; every command goes through the queue | command queue, caches |
| flow meter (`flow_meter.rs`) | shot volume, rate window, the PIO's FIFO of half-periods | counts half-periods, averages the last of them into a rate, reports no flow after 200 ms; an operation zeroes the volume as it starts | operations, control loop |
| power stage (`control.rs`, its PIO programs) | zero-cross FIFO, heater and triac FIFOs, delta-sigma accumulator | paces the loop by the mains, turns heater duty and pump phase into words the PIO acts on | control loop |
| the rest | - | Wi-Fi bring-up, DHCP answers, ADC filtering, LEDs, pin set-up | - |

What makes it hard:

* *cancellation anywhere*: an operation is dropped at whatever await it has
  reached, and has to leave valve, pump and brew flag as if it had never run;
* *signals with one slot*: what is signalled between two looks collapses into
  its last word (pump mode, brew flag, setpoint, flash update);
* *saves and shots*: saves arrive on the same queue as commands, must not
  disturb a shot, and must neither be lost nor applied over newer ones;
* *check, then act*: the flash task looks at the state and then awaits;
  auto-sleep reads its timeout under a lock and then sleeps;
* *power cuts and write errors* between the sections of one save;
* *FIFOs between two clocks*: PIO programs run on when core0 is late, halted or
  without mains, and what has piled up acts, or is counted, later;
* *timers that are polled late*: an expired timeout is noticed when the task
  gets its turn, and may then lose the race to what it guards against.

## 2. Modules

| Module | Models | Extends / uses |
|---|---|---|
| `MachineTypes` | the shared vocabulary: states, targets, pump modes, operations, classification of commands | |
| `Machine` | the abstract contract: which mode follows which, and what valve, pump and heater may do in each | `MachineTypes` |
| `Coordinator` | `coordinator_task`, `serve`, `handle_command`, `apply_ambient` and the operations it polls | `MachineTypes` |
| `CoordinatorProperties` | its invariants, the refinement to `Machine`, its liveness | `Coordinator`, instance of `Machine` |
| `CoordinatorProofs` | proofs for every value of the constants | `CoordinatorProperties`, TLAPS |
| `CoordinatorHistory`, `HistoryProofs` | the coordinator with two history variables, the last save received and the quiet time; proofs of what needs them | `CoordinatorProperties`; `CoordinatorProofs` for the proofs |
| `ControlLoop`, `LoopProofs` | the signals of `ac_sync_control_task`, its controllers and their integrals, composed with the coordinator; proofs about what a tick acts on | `Coordinator`, instance of `Machine`; `CoordinatorProofs` for the proofs |
| `PowerStage`, `PowerProofs` | the zero-cross wait and the output half of `ac_sync_control_task`, the trigger, heater and triac programs, mains that fails | `Saturating`; TLAPS for the proofs |
| `Operations`, `OperationsProofs` | `operations.rs` with its clocks: limits, skipped steps, looks at sensors, late polls, return and drop | `Saturating`; TLAPS for the proofs |
| `FlowMeter` | `run_flow_task`, its PIO program and `reset_volume` | `Saturating` |
| `FlashStore` | `flash_update_task`, flash, write errors and power cuts, composed with the coordinator | `Coordinator` |
| `FlashOneForm` | `FlashStore` used by people who fill in one form of the page | `FlashStore` |
| `FlashVersions` | `FlashStore` used by people who send ever newer versions, so that old and new can be compared | `FlashStore` |
| `FlashProofs` | proofs that flash never goes back, never runs ahead and, with one form in use, loses nothing; that the coordinator is as safe beside it, through power cuts, as alone | `FlashOneForm`, `FlashVersions`, `CoordinatorProofs` |
| `Buttons` | `run_button_task` and its debouncers | `Saturating` |
| `InputProofs` | proofs that bounces never repeat a command, and about rate and volume | `Buttons`, `FlowMeter`, TLAPS |
| `Saturating` | a counter that stops at its bound | |
| `ApiCommands` | `handle_api_command` and the queue as the network tasks see them | |
| `HttpServer` | `wifi_server_task`: a pool that reads, serves and answers HTTP requests | `ApiCommands` |
| `DiagLink` | `tcp_telemetry_task`: frames out, command lines in | `ApiCommands` |
| `Network` | the tasks `wifi_init_task` spawns, on one queue | `HttpServer`, `DiagLink` |
| `WebProofs` | proofs about answers, frames and lines, of each task and of all together | `Network`, TLAPS |
| `MC*` | instances for TLC: command sets, users, forms; `MCBench` puts the four parts side by side that have only inputs | |

### How the model reads the code

*A step* is what a task does between two points where it can really yield. All
firmware tasks but the web server share core0's cooperative executor, so a run
of code without a contended await is one action. The coordinator can be
suspended at its `select3` (`pc = "select"`), on the profile cache before a
default brew (`"lookup"`), on the settings mutex before a save reaches the
second copy (`"apply"`, `"commit"`) and before it sleeps (`"sleep"`), because
core1 may hold those locks. `Serve(cmd)` has one action per outcome of `serve`
and `handle_command`; `Receive` is what they all begin with.

*Operations* are futures inside the coordinator. `op` holds the operation's
kind, the profile steps left, and whether its guards are taken; `Start` is
`start` plus the first poll of the new future, `Release` the drop of the old
one. Whether a step ends by time, volume or its safety limit is one
nondeterministic event, `NextStep`; the last one is `OperationDue`. `Operations`
has the same futures one at a time, with the timers that race in them.

*Signals* keep what was last signalled. In `Coordinator` alone nobody takes
them, so `sigPump`, `sigTemp`, `sigBrew` are the last words said; in
`ControlLoop`, `Tick` takes them, and in `FlashStore` the flash task takes
`sigFlash`.

*Time* is counted in housekeeping periods in the coordinator (`elapsed`, up to
`SleepTimeout`), where everything else that takes time is an action that may
happen. `FlowMeter` and `Operations` have a clock each (`Elapse`, `Pass`), and
let a task that has become runnable wait up to `Latency` or `Delay` for its
poll: it shares core0 with the others, and with flash being written. In
`PowerStage` the clock is the mains, a `Rise` and a `Fall` per cycle.

*PIO programs* are modelled by what they push and pull, and by where they block:
`push noblock` on a full FIFO loses the new word, `pull noblock` on an empty one
takes zero, a blocking `pull` waits. The control loop's `push` does not look at
the FIFO either.

*Data*: a settings section is one value, a profile the sequence of its steps'
pump modes, a pump mode its kind and which of its two numbers are non-zero, a
setpoint its mode and the session temperature. PID arithmetic, sensor values
and texts are left out.

*Flash* (crate `sequential-storage`) is taken at its word: a key is written or
it is not. `WriteFails` is an error the firmware ignores; `PowerCycle` restarts
every task with RAM loaded from flash.

Operators that begin with "Mutant of" in their comment are deliberate errors in
the definition they precede; no specification uses them. Each property is shown
to notice one of them.

## 3. What is checked

| Run | Module and bounds | Shows |
|---|---|---|
| `machine` | `MCCoordinatorHistory`; queue of 2, timeout of 2 periods, one profile slot, 2 session temperatures. Each behaviour has users that send every machine command, or users that send every kind of save while brewing | types; state and operation agree; valve, pump and brew flag follow the operation; the setpoint follows the state and the session; saves wait for an idle machine; the last save received wins in both RAM copies; every step is one of `Machine`; auto-sleep only after a quiet timeout |
| `ends` | `MCCoordinator`; queue of 1 | the coordinator implements `Machine` with its fairness: every operation ends; a held save is applied or replaced |
| `loop` | `MCControlLoop`; *no* fairness for the operations. A hasty user with shots, steam, saves and stops on a queue of 2, or a thorough one with every operation and profiles that mix pressure, flow, rest and direct steps, one command queued at a time | what the loop has taken, or is about to take, keeps the contract; every tick acts for the present state; a queued stop is served even if the operation hangs; out of its busy states the machine's pump stops |
| `windup` | violation | a stop and a start between two ticks hide the Idle in between: the new shot runs on the old integral |
| `flash_one_form` | `MCFlashOneForm`; one power cut; either one settings form or one profile slot in use | at rest flash equals RAM; what stays in RAM is eventually in flash |
| `flash_versions` | `MCFlashVersions`; versions 1 to 3 of two forms, one write error, one power cut | flash never goes back to an older version, never holds one RAM has not had; the gains of a form are stored together while power and writes hold |
| `flash_forms` | violation | of two forms saved in a row only the second reaches flash |
| `flash_busy` | violation | flash is written during a shot |
| `bench` | `MCBench`; the initial state chooses a part: two buttons, window of 3 samples, queue of 2; a flow meter with a window and a FIFO of 2, timeout 2, delay 1, 5 half-periods; a power stage with FIFOs of 2, a duty of 0 to 2 out of 2, a new duty every second tick; every operation and all profiles of up to three steps with a time, a volume, both or none | commands of a button are two windows apart, a lasting press or release is seen; no rate from a gap, the window averages the last samples, every half-period counts once; stale words run out, heat follows duty, a dead loop ends with both outputs off; operations end on time and doses are kept |
| `pump_lag` | violation | words pushed while mains was away stay queued: each later pulse uses an earlier decision |
| `web` | `MCWeb`; two HTTP clients or one and a diagnostic client; a buffer of 4 bytes, words of 8 values, 19 kinds of request (commands only beside the diagnostic client), queue of 1, three streams of lines, 2 telemetry records | an answer depends on the request alone, however it is cut up; only a request answered 200 has sent a command, and one at most; every server task gets back to accepting unless a client never takes its answer; the link carries out exactly the commands its lines spell; each record goes out once, after the header |
| `web_answered` | violation; one well-formed command | a command that finds the queue full is answered 200 OK |

Why the bounds are enough: a queue of two holds a command behind another, fills
up and drops; nothing in the code depends on the depth. One profile slot and
one slot past the end are the two cases of the slot check. Two temperatures and
two values tell old from new; three versions are needed to have one in flash,
one on its way and one newer. One power cut and one error reach every point of
a write; a second begins from a state the first can leave. The timeout of two
periods distinguishes "reset" from "kept running". The debouncer,
the flow meter, the power stage, the operations and the versions are proved for
every bound; in `bench` each FIFO and each window just fills and overflows, a
tick counter wraps and a step's time lies on either side of the ceiling. The
parts of `bench` share no variable: what one does to another is an input of its
module (a duty, a reset, water, a drop), so running one at a time leaves no
interleaving out. The volume a shot may reach is bounded by `MaxEdges`, in
`Operations` by the limits themselves. In `web`, heads and bodies of three to five bytes just
fit, or just do not fit, a buffer of four, and lengths of six and seven wrap a
word of eight to one byte of the head or to none; a read of the diagnostic client may
bring three bytes to a line buffer of two, so lines are cut, joined and
overrun; two records make one that waits behind another.

### Fairness

`WF(Coordinate)`: embassy polls every woken task, and the coordinator's locks
are only held for a copy. `WF(Operate)`: every step of every operation is
bounded by a timer (`STEP_SAFETY_S`, `MAX_PUMP_RUN_S`, `MAX_HOT_WATER_S`, the
steam limit). `WF(Tick)`: the loop turns every 25 ms without mains. `WF` of the
flash task: weak only, because it may find the machine busy again each time it
looks; hence `Persists` asks for a machine that stays out of its busy states.
`WF(PollAny)`: a 10 ms timer. `WF(Rise)`, `WF(Fall)`, `WF(Fire)`: mains that is
there alternates, and the PIO counts its delay to the end; nothing obliges
mains to stay or the loop to live. Producers, water and housekeeping have none.
In `loop`, operations have none either.

Of the HTTP pool only what a timer bounds is fair: `WF(GiveUp)`, the 5 s socket
timeout and the 10 s `with_timeout` around a request, and `WF(Close)`, the 50 ms
drain. `Flushed` is not: `graceful_close` awaits `flush` outside both, and the
socket's own timeout only sees a client that no longer answers at all.
`ServersReturn` therefore excepts a task that is at its flush for ever. Clients
may fall silent at any byte. `DiagLink` has no liveness: its
`select` looks at telemetry first and its socket has no timeout, so a client
that does not read may hold its own commands back for ever.

### Disagreements found

1. `NoInheritedWindup` (`pid.rs:29`): "so a fresh engagement doesn't inherit
   stale wind-up". The reset compares against the last mode the loop *took*;
   stop and brew between two ticks look like no change.
2. `Persists` with two forms (`tests/test_web_api.py:330`, "`save_machine`
   command should persist"). `SIG_FLASH_UPDATE` has one slot; an update that is
   not taken before the next is signalled is lost, until that form is saved
   again.
3. `NoWriteWhileBusy` (`coordinator.rs:347`, `state.rs:58`). The flash task
   checks `is_busy` once; a shot may start before or between its accesses.
4. `AnsweredMeansQueued` (`web_api.rs:174`): "so a command that never reached
   the coordinator is visible as an error instead of being reported as success".
   `send_command` drops what does not fit, `handle_api_command` returns nothing,
   and `serve` answers 200.

5. `DecisionReachesWater` (`README.md:115`): "A decision takes one full cycle to
   reach the water". The loop pushes a triac word on every tick with output,
   also on 25 ms ticks without mains, when nobody pulls; the program pulls one
   per cycle. What has piled up delays every later decision by as many cycles,
   until the pump's output becomes zero.

Some texts disagree with the code in ways no run is needed for. `README.md:84`
says the loop "drains the FIFO and keeps only the newest word, so a late tick
cannot act on a stale period"; the trigger's `push noblock` loses the newest
period once four are waiting, and the last word drained is then an earlier one.
The comment on `target_bar` (`state.rs:192`), "0 whenever the pump is under flow
control", does not hold for a step with a pressure and a flow limit, where
`control.rs:401` publishes the profile's pressure whichever controller drives.
The comment on the 10 s timeout (`web_api.rs:533`), "it cannot stop a client
trickling bytes forever. This bounds the whole exchange", stops short of the
`flush` (`web_api.rs:282`): a client that acknowledges and never reads its answer
keeps the task, and two of them the pool. `HttpError::TooLarge`
(`web_api.rs:180`), "The request, or the body it declared, is larger than the
read buffer", is not what a client is told whose `Content-Length` is within
`head` of 2^32: the sum (`web_api.rs:232`) wraps, as `cargo run --release` builds
it, and what is left of the head is served. `Deserved` says what may be answered
then; a command is always refused. And the comment in `run_flow_task`
(`flow_meter.rs:172`), "any pause longer than the 200 ms timeout [...] Drop its
*rate*", holds up to two delays of the task's poll: the select prefers an edge to
the timer, so a half-period that enters the rate may be that much longer
(`Fresh`).

Also visible in the model (`FlowReactivated`), against `control.rs:327` ("Only
the start of a shot clears the integral"): a step without a flow followed, in
the same shot, by one with a flow clears it too.

No text contradicts one more thing the model shows: after a power cut or an
ignored write error, the temperature and pressure gains in flash may come from
two different forms. `GainsStoredTogether` is therefore stated for behaviours
without either. Nor does any text contradict these: what waits in the FIFO when
a shot resets the volume is counted into that shot, up to the FIFO's depth; and a
full FIFO loses pulses.

## 4. What is proved

Each theorem is stated of the specification a run checks or of one whose
behaviours include those of the run: an MC module narrows `HistorySpec`,
`NetSpec` and the specifications of the parts in `bench` to a choice of users,
ports or part. Each holds for every value of the constants that meets their
named assumptions, which TLC evaluates in the runs. `PROJECT.json` lists them
with the property each one proves.

**Coordinator** (`CoordinatorProofs`): `TypeCorrect`, `ServesState`,
`ActuatorsSafe`, `SetpointCorrect`, `SavesWait`, and `ImplementsContract`, the
refinement of `Machine`. None of these invariants is inductive alone. A started
operation is typed only if the suspended command is there; a cancelled one
releases what it holds only if what it holds is known. `CoreInv` joins what does
not depend on who takes the signals: types, state and operation, valve, saves,
and `SlotsConsistent` (outside the select there is no operation; what is
suspended is suspended in Idle with a save in hand; steps left, a completed
future and taken guards belong to the operation in the slot). `StepCore` shows
that a step keeps it, and what the step *says* on the three signals: `PumpSaid`,
`BrewSaid` and `SetpointSaid` are each either a word that suits the new state or
silence when the old word still suits. In `Coordinator` alone nobody takes a
signal, and the invariants follow (`IInv`). The refinement follows from
`OutputsOfState` (valve, heater and pump are functions of the state, or within
its pump modes) and `ModeTransitions` (which pairs of states a step can relate).

**Coordinator, over time** (`HistoryProofs`): `LastSaveWins`, `SleepIsEarned`.
`LastSaveAccounted` says where the save received last can be: in effect, held
back while an operation runs, or in hand at one of the two awaits of an apply,
with the control loop's copy already written at the second; whatever a newer
save replaces is no longer the last. `ClockBehindQuiet` says that the sleep
clock never runs ahead of the quiet time, and that only a full one gets the
coordinator to the point where it goes to sleep.

**Control loop** (`LoopProofs`): `LoopTypeCorrect`, `LoopFollowsState`,
`LoopImplementsContract`, `StopsInTurn`. `LoopView` says of the words not taken
yet, or else of those taken before, what suits the present state; what the
coordinator says in a step keeps it by `StepCore`, and a tick only moves words
from one side to the other. `StopsInTurn` needs only `CoreInv`: a busy
coordinator is at its select, and there a stop it takes is never held back.

**Flash** (`FlashProofs`): `StoreTypeCorrect`, and for versions `NeverAhead`,
`NeverStale`, `GainsTogether`. `VersionsInOrder` follows a form through every
place it can be in. Before RAM (queue, held save, save in hand) no form is older
than what RAM has, and of two the one to be applied first is not the newer;
between RAM and flash (signal, hand of the flash task) a form lies between the
two, section by section, and the one in the hand is not newer than the one in
the signal. `Handed` is what all steps of the coordinator but `CommitSave` do to
the forms: they hand them on. `GainsInTurn` says that a form's pressure gains
are what is left to write right after its temperature gains.

`NothingIsLost` (`FlashMatchesRAM`) is of `FlashOneForm`. `Accounted` says, while
no write has failed, which sections or slot RAM and flash may differ in: those
the signal's update will carry, or those left to the flash task, and what it has
in hand is what RAM holds unless a newer update waits in the signal. That needs
`AllOfForm`, every save on its way is of the form in use; of two forms the one in
the signal may vanish, which is what `flash_forms` shows.

`SafeThroughCuts` and `ContractThroughCuts` carry the coordinator's invariants
and its refinement over to `StoreSpec`, where the flash task empties a signal
and power may go at any step.

**Flow meter** (`InputProofs`): `FlowTypeCorrect`, `FreshRate`, `LatestAveraged`,
`CountedOnce`. `FlowInv` bounds the age of the last edge by where the task
stands (`EdgeAge`), from which every half-period in the FIFO but a skipped first
one is short enough (`QueuedFresh`).

**Power stage** (`PowerProofs`): `PowerTypeCorrect`, `StaleRunsOut`,
`SpendsDuty`. The account, duty asked for less cycles heated, accumulator and
words waiting, is changed only by a word lost to a full FIFO. `InBalance` keeps
it within one FIFO and one chunk below zero; `InStep` says why no more than the
words of one blackout are lost: with mains there is room for the next word.

**Operations** (`OperationsProofs`): `EndsInTime`, `DosesRight`. `WithinLimit`
bounds the step that runs, `WithinShares` all before it, and `Looked` relates
the volume to the last look, so long ago.

**Buttons** (`InputProofs`): `NoChatter`, `HeardInTime`, `ButtonsTypeCorrect`.
`SwingTakesTime` bounds the counter's distance from either end by the polls since
the last command, and a counter at an end has been acted on (`EndsDecided`). What a turn of the loop sends is a recursive function over the array
(`SentBy`); `SentFits` proves its type and the depth of the queue by induction,
from the least-element principle (`Least`, `Upwards`).

**Web server** (`WebProofs`): `HttpTypeCorrect`, `HttpSafety`,
`NoEffectOfErrors`; `LaterFrames` and `LinesTogether` of the diagnostic link;
`NetworkSafe` of the tasks together, which only share the queue and the cache. An
answer is given in the step in which a request turns out whole or wrong, so its
fitness depends on what reading has established by then. `HttpInv` adds that as
`Progress`: while a task serves, nothing was said or done for its client, and a
task that still waits has found nothing wrong in what it has read. The length of
a request is a sum in words of `WordSize` values: `WrapsOnce` and `WhereItEnds`
say that it ends where it declares to or, where the sum wraps, within its head,
and `WholeDeserves` treats the two cases. `FramesInv`
relates what a connection has been sent to what the receiver, which outlives
connections, has taken. `LinesInv` says that what has been looked at since the
last newline is what `line_buf` spells, as far as it fits; a line spells one text
only (`OneSpelling`). `LinesReassembled` numbers positions by their rank among
the newlines that end a command, so that a unit more changes at most the last
number (`RankOfLatest`, `LineGrows`, `EndsGrow`).

Every invariant and action property of the passing runs is proved. Only
model-checked is liveness (`KeepsWholeContract`, `HeldSaveApplied`,
`StopIsServed`, `PumpStops`, `Persists`, `HeldIsHeard`, `HeaterFailsSafe`,
`ServersReturn`): the prover knows nothing of fairness or of when an action is
enabled. How far the steps get is proved for some of it: `StopsInTurn`, every
turn of the coordinator brings a queued stop one place nearer; `HeardInTime`,
every poll of a steady contact moves its counter one step to where it is seen;
`LoopFollowsState`, the first tick outside the busy states turns the pump off;
`StaleRunsOut`, no more than a FIFO of words heats or fires after the last;
`EndsInTime`, operations end by their own clocks.

## 5. Not modelled

* What is computed rather than decided: PID arithmetic, the phase table, the
  period filter and its EMA, ADC filtering, the conversion of half-periods to ml.
  A duty and whether the pump is driven are inputs of `PowerStage`.
* The value of a setpoint beyond its mode and the session temperature: that a
  saved offset is not signalled at once cannot be seen.
* The locks `Operations` would wait for: steam and the cooldown flush find the
  settings free; in `Coordinator` a cooldown flush may wait for them.
* The trigger program's counter, which wraps after about 71 minutes without an
  edge: what it then measures goes through the period filter.
* What the web server's answers say (JSON, pages, telemetry frames), and answers
  lost after they were written: a client that repeats a command because its
  answer was lost has it carried out twice, as `ErrorsHaveNoEffect` only speaks of
  errors and of what was not written. A builder that turns overflow checks on
  would make the wrapped sum a panic.
* A step whose declared time overflows the conversion to a `Duration` (some
  1.8e16 s).
* The DHCP server: one answer per packet, computed from that packet alone.
  Wi-Fi bring-up: calls into a driver. LEDs: a colour per state. Neither keeps
  state that a later step depends on.

## 6. Plan

1. Setpoint values: temperature offset and steam temperature, and when a save
   of them takes effect.
2. How many steps a held save, or a save on its way to flash, is from its end,
   as `StopsInTurn` counts for a stop.
