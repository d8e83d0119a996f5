----------------------------- MODULE FlowMeter -----------------------------
(***************************************************************************)
(* run_flow_task, the PIO program that feeds it, and reset_volume.         *)
(*                                                                         *)
(* Time is discrete.  A half-period is measured in the same units, rounded *)
(* down and cut off at Cap, which is longer than any the rate may use.     *)
(* The task is polled at most Latency after it has become runnable:        *)
(* another task of the executor, or flash being written, holds the core.   *)
(***************************************************************************)
EXTENDS Saturating, Sequences

CONSTANTS
    RateEdges,   \* RATE_EDGES
    FifoDepth,   \* depth of the receive FIFO
    Timeout,     \* the 200 ms of with_timeout
    Latency,     \* the longest a runnable task waits for its turn
    MaxEdges     \* bound: half-periods that one shot counts

ASSUME FlowAssumption ==
    /\ RateEdges \in Nat \ {0}
    /\ FifoDepth \in Nat \ {0}
    /\ Timeout \in Nat \ {0}
    /\ Latency \in Nat
    /\ MaxEdges \in Nat

VARIABLES
    fifo,        \* half-periods in the receive FIFO
    gap,         \* time since the last edge of the sensor, up to Cap
    pc,          \* "waiting" on the select, "polling" it again, "draining" the FIFO
    idle,        \* time since the select was armed, up to Timeout
    late,        \* time the task has been runnable
    resetSignal, \* SIG_RESET_VOLUME
    skip,        \* skip_stale_rate
    window,      \* the RateWindow: its samples, head and len
    pulses,      \* pulses of the burst being drained
    volume,      \* VOLUME_ML, in half-periods
    due,         \* history: what the volume must come to, once the FIFO is drained
    recent       \* history: the samples used since the window was last stopped

flowVars == <<fifo, gap, pc, idle, late, resetSignal, skip, window, pulses, volume, due, recent>>

\* The longest half-period that may enter the rate.
Fresh == Timeout + 2 * Latency
Cap   == Fresh + 1
HalfPeriod == 0 .. Cap

-----------------------------------------------------------------------------
(* RateWindow *)

Slot == 0 .. RateEdges - 1

\* Mutant of Stopped: the next sample goes where the last one would have gone.
StoppedInPlace(w) == [w EXCEPT !.len = 0]

\* stop, which also publishes a rate of zero
Stopped(w) == [w EXCEPT !.head = 0, !.len = 0]

\* Mutant of Pushed: the length does not stop at the size of the window.
PushedOpenly(w, d) ==
    [ticks |-> [w.ticks EXCEPT ![w.head] = d], head |-> (w.head + 1) % RateEdges, len |-> w.len + 1]

\* push
Pushed(w, d) ==
    [ticks |-> [w.ticks EXCEPT ![w.head] = d],
     head  |-> (w.head + 1) % RateEdges,
     len   |-> AtMost(w.len + 1, RateEdges)]

\* rate averages the first len slots; the published rate is zero without any.
Averaged(w) == {w.ticks[i] : i \in 0 .. w.len - 1}

-----------------------------------------------------------------------------
(* The sensor and its PIO program *)

\* Something the select of the task waits for has happened.
Runnable == fifo # << >> \/ resetSignal \/ idle = Timeout

\* Time passes while the task is suspended.
Elapse ==
    /\ pc = "waiting"
    /\ Runnable => late < Latency
    /\ late' = IF Runnable THEN late + 1 ELSE 0
    /\ idle' = AtMost(idle + 1, Timeout)
    /\ gap' = AtMost(gap + 1, Cap)
    /\ UNCHANGED <<fifo, pc, resetSignal, skip, window, pulses, volume, due, recent>>

\* An edge ends a half-period: push noblock, lost if the FIFO is full.
Edge ==
    /\ due < MaxEdges
    /\ gap' = 0
    /\ IF Len(fifo) < FifoDepth
         THEN fifo' = Append(fifo, gap) /\ due' = due + 1
         ELSE UNCHANGED <<fifo, due>>
    /\ UNCHANGED <<pc, idle, late, resetSignal, skip, window, pulses, volume, recent>>

\* reset_volume, called by the coordinator on the same executor, so while this
\* task is suspended.  Half-periods in the FIFO stay there.
ResetVolume ==
    /\ pc = "waiting"
    /\ volume' = 0
    /\ resetSignal' = TRUE
    /\ due' = Len(fifo)
    /\ UNCHANGED <<fifo, gap, pc, idle, late, skip, window, pulses, recent>>

-----------------------------------------------------------------------------
(* run_flow_task *)

\* The select looks at the FIFO first, then at the signal, then at the clock.
Polled == pc \in {"waiting", "polling"}

Latest(s, d) ==
    LET all == Append(s, d)
    IN  IF Len(all) > RateEdges THEN Tail(all) ELSE all

\* A half-period is taken from the FIFO and enters the rate, or does not.
Take(used) ==
    /\ fifo # << >>
    /\ fifo' = Tail(fifo)
    /\ IF used
         THEN window' = Pushed(window, Head(fifo)) /\ recent' = Latest(recent, Head(fifo))
         ELSE UNCHANGED <<window, recent>>

\* Mutant of FirstSample: a skipped half-period is not counted as a pulse.
FirstSampleUncounted ==
    /\ Polled
    /\ Take(~skip)
    /\ skip' = FALSE
    /\ pulses' = IF skip THEN 0 ELSE 1
    /\ pc' = "draining"
    /\ UNCHANGED <<gap, idle, late, resetSignal, volume, due>>

\* The first of a burst does not enter the rate after an idle gap.
FirstSample ==
    /\ Polled
    /\ Take(~skip)
    /\ skip' = FALSE
    /\ pulses' = 1
    /\ pc' = "draining"
    /\ UNCHANGED <<gap, idle, late, resetSignal, volume, due>>

\* try_pull finds another; the PIO may have pushed it in the meantime.
NextSample ==
    /\ pc = "draining"
    /\ Take(TRUE)
    /\ pulses' = pulses + 1
    /\ UNCHANGED <<gap, pc, idle, late, resetSignal, skip, volume, due>>

\* try_pull finds nothing: the burst is added to the volume.
Drained ==
    /\ pc = "draining"
    /\ fifo = << >>
    /\ volume' = volume + pulses
    /\ pulses' = 0
    /\ pc' = "polling"
    /\ UNCHANGED <<fifo, gap, idle, late, resetSignal, skip, window, due, recent>>

\* Mutant of StopRate: the half-period that spans the gap is not marked.
StopRateUnmarked == skip' = skip /\ window' = Stopped(window) /\ recent' = << >>

\* Zero flow is reported, and the half-period that spans the gap will be dropped.
StopRate == skip' = TRUE /\ window' = Stopped(window) /\ recent' = << >>

HandleReset ==
    /\ Polled
    /\ fifo = << >>
    /\ resetSignal
    /\ resetSignal' = FALSE
    /\ StopRate
    /\ pc' = "polling"
    /\ UNCHANGED <<fifo, gap, idle, late, pulses, volume, due>>

\* The timeout has fired and the select has nothing else to offer.
TimedOut ==
    /\ pc = "waiting"
    /\ fifo = << >>
    /\ ~resetSignal
    /\ idle = Timeout
    /\ StopRate
    /\ pc' = "polling"
    /\ UNCHANGED <<fifo, gap, idle, late, resetSignal, pulses, volume, due>>

\* Nothing is ready: the next select is armed.
Suspend ==
    /\ pc = "polling"
    /\ fifo = << >>
    /\ ~resetSignal
    /\ pc' = "waiting"
    /\ idle' = 0
    /\ late' = 0
    /\ UNCHANGED <<fifo, gap, resetSignal, skip, window, pulses, volume, due, recent>>

\* The state machine is enabled right before the task is spawned.
FlowInit ==
    /\ fifo = << >>
    /\ gap = 0
    /\ pc = "waiting"
    /\ idle = 0
    /\ late = 0
    /\ resetSignal = FALSE
    /\ skip = FALSE
    /\ window = [ticks |-> [i \in Slot |-> 0], head |-> 0, len |-> 0]
    /\ pulses = 0
    /\ volume = 0
    /\ due = 0
    /\ recent = << >>

FlowNext ==
    \/ Elapse \/ Edge \/ ResetVolume
    \/ FirstSample \/ NextSample \/ Drained
    \/ HandleReset \/ TimedOut \/ Suspend

FlowSpec == FlowInit /\ [][FlowNext]_flowVars

-----------------------------------------------------------------------------
(* Properties *)

FlowTypeOK ==
    /\ fifo \in Seq(HalfPeriod) /\ Len(fifo) <= FifoDepth
    /\ gap \in HalfPeriod
    /\ pc \in {"waiting", "polling", "draining"}
    /\ idle \in 0 .. Timeout
    /\ late \in 0 .. Latency
    /\ resetSignal \in BOOLEAN
    /\ skip \in BOOLEAN
    /\ window \in [ticks: [Slot -> HalfPeriod], head: Slot, len: 0 .. RateEdges]
    /\ pulses \in Nat
    /\ volume \in Nat
    /\ due \in Nat
    /\ recent \in Seq(HalfPeriod) /\ Len(recent) <= RateEdges

\* No half-period that spans an idle gap enters the rate, whatever other tasks
\* delay: none is longer than the timeout and two such delays (the comment on
\* skip_stale_rate).  And while a rate is reported, the last edge is no older:
\* a pump that has stopped is not reported to be pumping.
RateFromFreshFlow ==
    /\ \A d \in Averaged(window) : d <= Fresh
    /\ window.len > 0 => gap <= Fresh

\* The slots that are averaged hold exactly the last samples used since the
\* rate was last stopped, up to RateEdges of them: "a partial window always
\* occupies ticks[..len]" (RateWindow).
WindowHoldsLatest ==
    /\ window.len = Len(recent)
    /\ IF window.len < RateEdges
         THEN /\ window.head = window.len
              /\ \A i \in 1 .. window.len : window.ticks[i - 1] = recent[i]
         ELSE \A i \in 1 .. RateEdges : window.ticks[(window.head + i - 1) % RateEdges] = recent[i]

\* Every half-period the FIFO took since the reset is added to the volume
\* exactly once, whether or not it enters the rate, and so is what was waiting
\* in the FIFO at the reset: at most FifoDepth half-periods of an earlier shot.
VolumeCountsEdges == volume + pulses + Len(fifo) = due
=============================================================================
