----------------------------- MODULE PowerStage -----------------------------
(***************************************************************************)
(* The power stage: the zero-cross wait and the output half of             *)
(* ac_sync_control_task, and the three PIO programs it works with.  The    *)
(* trigger program paces the loop, the heater program takes one word per   *)
(* mains cycle, the triac program one per pulse.                           *)
(*                                                                         *)
(* The controllers' outputs are inputs here: a duty between 0 and Full for *)
(* the heater, and whether the pump is to be driven.  A mains cycle is a   *)
(* Rise and a Fall of the zero-cross pin.                                  *)
(***************************************************************************)
EXTENDS Saturating

CONSTANTS
    Full,      \* the accumulator's threshold, 100
    Every,     \* ticks between two updates of the duty, 10
    TickWrap,  \* where the tick counter wraps, 2^32
    Depth      \* depth of each PIO FIFO, 4

ASSUME PowerAssumption ==
    /\ Full \in Nat \ {0}
    /\ Every \in Nat \ {0}
    /\ TickWrap \in Nat \ {0}
    /\ Depth \in Nat \ {0, 1}

VARIABLES
    mains,       \* there is mains
    locked,      \* a period has been measured since mains came back
    waited,      \* the timeout has expired since mains came back and the pin last rose
    high,        \* the zero-cross pin
    counting,    \* the trigger program has seen the pin fall
    crossings,   \* periods in the trigger's receive FIFO
    running,     \* the loop has not died
    tick,
    duty,        \* heater_duty
    acc,         \* heater_accumulator
    pumpOn,      \* p_output > 0 on the last tick
    heaterWords, \* words in the heater's transmit FIFO
    heaterOn,    \* the heater pin
    triacWords,  \* words in the triac's transmit FIFO
    triac,       \* where the triac program stands
    chunks,      \* history: heater cycles begun since the duty became zero
    shots,       \* history: triac pulses since the pump's output became zero
    owed         \* history: duty asked for, less cycles heated, while locked

loopSide  == <<running, tick, duty, acc, pumpOn>>
pinSide   == <<mains, locked, high, counting>>
powerVars == <<pinSide, waited, crossings, loopSide, heaterWords, heaterOn,
               triacWords, triac, chunks, shots, owed>>

\* "empty": blocked on its pull; else it holds a word, and waits for the pin to
\* rise, for it to fall, or for the delay.
TriacState == {"empty", "rise", "fall", "delay"}

\* Words that still act: those in the FIFO and the one in hand.
TriacPending == triacWords + IF triac = "empty" THEN 0 ELSE 1

-----------------------------------------------------------------------------
(* ac_sync_control_task *)

\* The triac takes a word that comes while it is blocked; its wait for a high
\* pin is over at once if the pin is high.  A full FIFO loses the word.
PushTriac ==
    IF triac = "empty"
      THEN triac' = (IF high THEN "fall" ELSE "rise") /\ triacWords' = triacWords
      ELSE triac' = triac /\ triacWords' = AtMost(triacWords + 1, Depth)

\* Mutants of Modulated: a full accumulator does not fire; the chunk that fires
\* is not taken from the accumulator.
ModulatedLate(sum) == [fires |-> sum > Full, rest |-> IF sum > Full THEN sum - Full ELSE sum]

ModulatedFreely(sum) == [fires |-> sum >= Full, rest |-> IF sum >= Full THEN Full ELSE sum]

\* The delta-sigma decision over the accumulated duty.
Modulated(sum) == [fires |-> sum >= Full, rest |-> IF sum >= Full THEN sum - Full ELSE sum]

\* The turn of the loop after its wait, however that ended.
Act(on, d) ==
    /\ duty' = IF tick % Every = 0 THEN d ELSE duty
    /\ pumpOn' = on
    /\ IF on THEN PushTriac ELSE UNCHANGED <<triac, triacWords>>
    /\ LET m == Modulated(acc + duty')
       IN  /\ acc' = m.rest
           /\ heaterWords' = IF m.fires THEN AtMost(heaterWords + 1, Depth) ELSE heaterWords
    /\ tick' = (tick + 1) % TickWrap
    /\ chunks' = IF duty' = 0 THEN chunks ELSE 0
    /\ shots' = IF on THEN 0 ELSE shots
    /\ owed' = IF locked THEN owed + duty' ELSE owed
    /\ UNCHANGED <<pinSide, running, heaterOn>>

\* wait_pull finds a period; all that have piled up are drained.
TickOnCrossing ==
    /\ running
    /\ crossings > 0
    /\ crossings' = 0
    /\ \E on \in BOOLEAN, d \in 0 .. Full : Act(on, d)
    /\ UNCHANGED waited

\* Mutant of TickWithoutMains: the timeout is shorter than a mains cycle.
TickTooEarly ==
    /\ running
    /\ crossings = 0
    /\ \E on \in BOOLEAN, d \in 0 .. Full : Act(on, d)
    /\ waited' = mains
    /\ UNCHANGED crossings

\* 25 ms have passed without a period: mains has failed, or has not completed a
\* cycle yet, which leaves time for one such turn before the pin rises.
TickWithoutMains ==
    /\ running
    /\ crossings = 0
    /\ ~locked /\ ~waited
    /\ \E on \in BOOLEAN, d \in 0 .. Full : Act(on, d)
    /\ waited' = mains
    /\ UNCHANGED crossings

\* Core 0 halts: panic-probe, which leaves the PIO running.
LoopDies ==
    /\ running
    /\ running' = FALSE
    /\ UNCHANGED <<pinSide, waited, crossings, tick, duty, acc, pumpOn, heaterWords, heaterOn,
                   triacWords, triac, chunks, shots, owed>>

-----------------------------------------------------------------------------
(* The mains and the PIO programs *)

\* The trigger pushes the low window it measured, lost if its FIFO is full; at
\* boot it may have begun too late to measure one.
Rise ==
    /\ mains
    /\ ~high
    /\ high' = TRUE
    /\ locked' = counting
    /\ waited' = FALSE
    /\ crossings' = IF counting THEN AtMost(crossings + 1, Depth) ELSE crossings
    /\ triac' = IF triac = "rise" THEN "fall" ELSE triac
    /\ UNCHANGED <<mains, counting, loopSide, heaterWords, heaterOn, triacWords, chunks, shots, owed>>

\* pull noblock: the word that is there, or off.
HeaterLatches ==
    /\ heaterWords' = IF heaterWords > 0 THEN heaterWords - 1 ELSE 0
    /\ heaterOn' = (heaterWords > 0)

Fall ==
    /\ mains
    /\ high
    /\ high' = FALSE
    /\ counting' = TRUE
    /\ HeaterLatches
    /\ chunks' = IF heaterOn' /\ duty = 0 THEN AtMost(chunks + 1, Depth + 1) ELSE chunks
    /\ owed' = IF locked /\ heaterOn' THEN owed - Full ELSE owed
    /\ triac' = IF triac = "fall" THEN "delay" ELSE triac
    /\ UNCHANGED <<mains, locked, waited, crossings, loopSide, triacWords, shots>>

\* Mutant of Fire: a pull that does not block, and repeats the last word.
FireRepeats ==
    /\ triac = "delay"
    /\ shots' = IF pumpOn THEN shots ELSE AtMost(shots + 1, Depth + 2)
    /\ triac' = (IF high THEN "fall" ELSE "rise")
    /\ triacWords' = IF triacWords > 0 THEN triacWords - 1 ELSE 0
    /\ UNCHANGED <<pinSide, waited, crossings, loopSide, heaterWords, heaterOn, chunks, owed>>

\* The delay is over: a pulse, and the next word is pulled if there is one.
Fire ==
    /\ triac = "delay"
    /\ shots' = IF pumpOn THEN shots ELSE AtMost(shots + 1, Depth + 2)
    /\ IF triacWords > 0
         THEN triac' = (IF high THEN "fall" ELSE "rise") /\ triacWords' = triacWords - 1
         ELSE triac' = "empty" /\ UNCHANGED triacWords
    /\ UNCHANGED <<pinSide, waited, crossings, loopSide, heaterWords, heaterOn, chunks, owed>>

\* Mains fails and comes back; in between the pin rests where it was.
MainsFails ==
    /\ mains
    /\ mains' = FALSE
    /\ locked' = FALSE
    /\ waited' = FALSE
    /\ owed' = 0
    /\ UNCHANGED <<high, counting, crossings, loopSide, heaterWords, heaterOn, triacWords, triac,
                   chunks, shots>>

MainsReturns ==
    /\ ~mains
    /\ mains' = TRUE
    /\ UNCHANGED <<locked, waited, high, counting, crossings, loopSide, heaterWords, heaterOn,
                   triacWords, triac, chunks, shots, owed>>

PowerInit ==
    /\ mains \in BOOLEAN
    /\ high \in BOOLEAN
    /\ locked = FALSE
    /\ waited = FALSE
    /\ counting = FALSE
    /\ crossings = 0
    /\ running = TRUE
    /\ tick = 0
    /\ duty = 0
    /\ acc = 0
    /\ pumpOn = FALSE
    /\ heaterWords = 0
    /\ heaterOn = FALSE
    /\ triacWords = 0
    /\ triac = "empty"
    /\ chunks = 0
    /\ shots = 0
    /\ owed = 0

PowerNext ==
    \/ TickOnCrossing \/ TickWithoutMains \/ LoopDies
    \/ Rise \/ Fall \/ Fire
    \/ MainsFails \/ MainsReturns

\* Mains that is there alternates, and the PIO counts its delay to the end.
PowerFairness == WF_powerVars(Rise) /\ WF_powerVars(Fall) /\ WF_powerVars(Fire)

PowerSpec == PowerInit /\ [][PowerNext]_powerVars /\ PowerFairness

-----------------------------------------------------------------------------
(* Properties *)

PowerTypeOK ==
    /\ mains \in BOOLEAN /\ locked \in BOOLEAN /\ waited \in BOOLEAN
    /\ high \in BOOLEAN /\ counting \in BOOLEAN
    /\ crossings \in 0 .. Depth
    /\ running \in BOOLEAN
    /\ tick \in 0 .. TickWrap - 1
    /\ duty \in 0 .. Full
    /\ acc \in 0 .. Full - 1
    /\ pumpOn \in BOOLEAN
    /\ heaterWords \in 0 .. Depth
    /\ heaterOn \in BOOLEAN
    /\ triacWords \in 0 .. Depth
    /\ triac \in TriacState
    /\ chunks \in 0 .. Depth + 1
    /\ shots \in 0 .. Depth + 2
    /\ owed \in Int

\* What has piled up while nobody pulled acts only for so long: once the duty
\* is zero at most a FIFO of heated cycles follows, once the pump's output is
\* zero at most a FIFO of pulses and the one in hand (push without a look at
\* the FIFO, 25 ms ticks without mains).
StaleWordsRunOut ==
    /\ duty = 0 => heaterWords + chunks <= Depth
    /\ ~pumpOn => TriacPending + shots <= Depth + 1

\* As long as mains lasts, the heat delivered is the duty asked for, but for
\* what was waiting when it came back or is waiting now: however late its ticks
\* come, the loop does not lose word after word to a full FIFO (the
\* accumulator, and one tick for all the periods that have piled up).
HeaterSpendsDuty == -Full * (Depth + 1) < owed /\ owed < Full * (Depth + 1)

\* "if the control task ever stops feeding it, the heater fails safe in
\* hardware" (README), and so does the pump: with mains both end up off.
HeaterFailsSafe == <>[](~running /\ mains) => <>[](~heaterOn /\ triac = "empty")

\* "A decision takes one full cycle to reach the water" (README): the falling
\* edge starts the delay of the last word pushed, not of one before it.
DecisionReachesWater == [][Fall /\ triac = "fall" => triacWords = 0]_powerVars
=============================================================================
