---------------------------- MODULE InputProofs ----------------------------
(***************************************************************************)
(* Proofs about the two tasks that sample the world.  The buttons: for     *)
(* every number of them, every debounce window and every queue depth.  The *)
(* flow meter: for every size of window and FIFO, every timeout and every  *)
(* delay of the task.                                                      *)
(*                                                                         *)
(* How old the last edge can be depends on where the flow task stands:     *)
(* FlowInv follows it from one arming of the select to the next.           *)
(***************************************************************************)
EXTENDS Buttons, FlowMeter, WellFoundedInduction, TLAPS

-----------------------------------------------------------------------------
(* The buttons: commands of one are a full swing of its counter apart *)


\* The counters, flags and clocks have their types, and a counter needs time
\* to get from one end to the other.
Swinging ==
    /\ pressed \in [Button -> BOOLEAN]
    /\ integrator \in [Button -> 0 .. DebounceSamples]
    /\ since \in [Button -> 0 .. Window]
    /\ SwingTakesTime

\* Buttons start at one end or the other of their swing.
LEMMA InitSwinging == ButtonsInit => Swinging
<1> SUFFICES ASSUME ButtonsInit PROVE Swinging
  OBVIOUS
<1>1. /\ pressed \in [Button -> BOOLEAN]
      /\ integrator \in [Button -> 0 .. DebounceSamples]
      /\ since \in [Button -> 0 .. Window]
  BY ButtonsAssumption DEF ButtonsInit, Window
<1>2. ASSUME NEW b \in Button
      PROVE  IF pressed[b] THEN integrator[b] + since[b] >= DebounceSamples
                           ELSE integrator[b] + DebounceSamples <= since[b]
  <2>1. CASE b \in low
    <3>1. pressed[b]
      BY <2>1, Zenon DEF ButtonsInit
    <3>2. integrator[b] + since[b] >= DebounceSamples
      BY <2>1, ButtonsAssumption DEF ButtonsInit
    <3> QED
      BY <3>1, <3>2, Zenon
  <2>2. CASE b \notin low
    <3>1. ~pressed[b]
      BY <2>2, Zenon DEF ButtonsInit
    <3>2. integrator[b] + DebounceSamples <= since[b]
      BY <2>2, ButtonsAssumption DEF ButtonsInit
    <3> QED
      BY <3>1, <3>2, Zenon
  <2> QED
    BY <2>1, <2>2
<1> QED
  BY <1>1, <1>2 DEF Swinging, SwingTakesTime

\* One sample moves a counter by one and keeps it between its ends.
LEMMA OneStep ==
    ASSUME Swinging, NEW b \in Button, NEW lows \in SUBSET Button
    PROVE  /\ Integrated(b, lows) \in 0 .. DebounceSamples
           /\ Integrated(b, lows) <= integrator[b] + 1
           /\ integrator[b] <= Integrated(b, lows) + 1
BY ButtonsAssumption DEF Swinging, Integrated, AtMost

\* A poll keeps the counters apart from their ends for as long as it takes.
LEMMA PollSwinging ==
    ASSUME Swinging, NEW lows \in SUBSET Button, Poll(lows)
    PROVE  Swinging'
<1>1. integrator' \in [Button -> 0 .. DebounceSamples]
  BY OneStep DEF Poll
<1>2. pressed' \in [Button -> BOOLEAN]
  BY DEF Poll, Swinging, Releases
<1>3. since' \in [Button -> 0 .. Window]
  BY ButtonsAssumption DEF Poll, Swinging, AtMost, Window
<1>4. ASSUME NEW b \in Button
      PROVE  IF pressed'[b] THEN integrator'[b] + since'[b] >= DebounceSamples
                            ELSE integrator'[b] + DebounceSamples <= since'[b]
  <2>1. /\ integrator[b] \in 0 .. DebounceSamples
        /\ since[b] \in 0 .. Window
        /\ pressed[b] \in BOOLEAN
        /\ IF pressed[b] THEN integrator[b] + since[b] >= DebounceSamples
                         ELSE integrator[b] + DebounceSamples <= since[b]
    BY DEF Swinging, SwingTakesTime
  <2>2. /\ integrator'[b] \in 0 .. DebounceSamples
        /\ integrator'[b] <= integrator[b] + 1
        /\ integrator[b] <= integrator'[b] + 1
    BY OneStep DEF Poll
  <2>3. b \in fired' <=> ~pressed[b] /\ integrator'[b] = DebounceSamples
    BY DEF Poll, Fires
  <2>4. pressed'[b] = ((pressed[b] \/ b \in fired') /\ ~(pressed[b] /\ integrator'[b] = 0))
    BY DEF Poll, Releases
  <2>5. since'[b] = IF b \in fired' THEN 0 ELSE IF since[b] + 1 < Window THEN since[b] + 1 ELSE Window
    BY DEF Poll, AtMost
  <2>6. CASE b \in fired'
    <3>1. integrator'[b] # 0
      BY <2>3, <2>6, ButtonsAssumption
    <3>2. pressed'[b]
      BY <2>4, <2>6, <3>1, Zenon
    <3>3. integrator'[b] + since'[b] >= DebounceSamples
      BY <2>3, <2>5, <2>6, ButtonsAssumption
    <3> QED
      BY <3>2, <3>3, Zenon
  <2>7. CASE b \notin fired' /\ pressed[b]
    <3>1. since'[b] >= DebounceSamples \/ since'[b] = since[b] + 1
      BY <2>5, <2>7, ButtonsAssumption DEF Window
    <3>2. since'[b] \in Nat
      BY <1>3 DEF Window
    <3>3. integrator[b] + since[b] >= DebounceSamples
      BY <2>1, <2>7, Zenon
    <3>4. CASE integrator'[b] = 0
      <4>1. ~pressed'[b]
        BY <2>4, <3>4, <2>7, Zenon
      <4>2. integrator'[b] + DebounceSamples <= since'[b]
        BY <2>1, <2>2, <3>1, <3>2, <3>3, <3>4, ButtonsAssumption
      <4> QED
        BY <4>1, <4>2, Zenon
    <3>5. CASE integrator'[b] # 0
      <4>1. pressed'[b]
        BY <2>4, <2>7, <3>5, Zenon
      <4>2. integrator'[b] + since'[b] >= DebounceSamples
        BY <2>1, <2>2, <3>1, <3>2, <3>3, ButtonsAssumption
      <4> QED
        BY <4>1, <4>2, Zenon
    <3> QED
      BY <3>4, <3>5
  <2>8. CASE b \notin fired' /\ ~pressed[b]
    <3>1. ~pressed'[b]
      BY <2>4, <2>8, Zenon
    <3>2. integrator[b] + DebounceSamples <= since[b]
      BY <2>1, <2>8, Zenon
    <3>3. integrator'[b] # DebounceSamples
      BY <2>3, <2>8, Zenon
    <3>4. integrator'[b] + DebounceSamples <= since'[b]
      BY <2>1, <2>2, <2>5, <2>8, <3>2, <3>3, ButtonsAssumption DEF Window
    <3> QED
      BY <3>1, <3>4, Zenon
  <2> QED
    BY <2>6, <2>7, <2>8
<1> QED
  BY <1>1, <1>2, <1>3, <1>4 DEF Swinging, SwingTakesTime

\* Nothing but a poll touches what the swing is about.
LEMMA StepSwinging == Swinging /\ [ButtonsNext]_buttonVars => Swinging'
<1> SUFFICES ASSUME Swinging, [ButtonsNext]_buttonVars PROVE Swinging'
  OBVIOUS
<1>1. CASE PollAny
  BY <1>1, PollSwinging DEF PollAny
<1>2. CASE TakeCommand
  BY <1>2 DEF TakeCommand, Swinging, SwingTakesTime
<1>3. CASE UNCHANGED buttonVars
  BY <1>3 DEF buttonVars, Swinging, SwingTakesTime
<1> QED
  BY <1>1, <1>2, <1>3 DEF ButtonsNext

\* Two commands of one button are at least twice the debounce window apart,
\* whatever the contact does in between (Debouncer::poll).
THEOREM NoChatter == ButtonsSpec => CommandsApart
<1>1. ASSUME Swinging, NEW b \in Button, b \in fired', PollAny
      PROVE  since[b] + 1 >= Window
  <2>1. PICK lows \in SUBSET Button : Poll(lows)
    BY <1>1 DEF PollAny
  <2>2. ~pressed[b] /\ integrator'[b] = DebounceSamples
    BY <1>1, <2>1 DEF Poll, Fires
  <2>3. integrator'[b] <= integrator[b] + 1
    BY <1>1, <2>1, OneStep DEF Poll
  <2>4. integrator[b] + DebounceSamples <= since[b]
    BY <1>1, <2>2 DEF Swinging, SwingTakesTime
  <2> QED
    BY <1>1, <2>2, <2>3, <2>4, ButtonsAssumption DEF Swinging, Window
<1>2. Swinging => [\A b \in Button : b \in fired' /\ PollAny => since[b] + 1 >= Window]_buttonVars
  BY <1>1
<1> QED
  BY <1>2, InitSwinging, StepSwinging, PTL DEF ButtonsSpec, CommandsApart

\* A poll that finds a button low sees it pressed or counts one up; one that
\* finds it high sees it released or counts one down.  So a press, or a release,
\* that lasts for the window is seen after as many polls, whatever the contact
\* did before (Debouncer::poll).
WindowDecides ==
    [][PollAny =>
         \A b \in Button :
            /\ b \in low' => pressed'[b] \/ integrator'[b] = integrator[b] + 1
            /\ b \notin low' => ~pressed'[b] \/ integrator'[b] = integrator[b] - 1]_buttonVars

\* A counter at one of its ends has been acted on.
EndsDecided ==
    \A b \in Button : /\ integrator[b] = DebounceSamples => pressed[b]
                      /\ integrator[b] = 0 => ~pressed[b]

LEMMA PollDecides ==
    ASSUME Swinging, EndsDecided, NEW lows \in SUBSET Button, Poll(lows), NEW b \in Button
    PROVE  /\ integrator'[b] = DebounceSamples => pressed'[b]
           /\ integrator'[b] = 0 => ~pressed'[b]
           /\ b \in low' => pressed'[b] \/ integrator'[b] = integrator[b] + 1
           /\ b \notin low' => ~pressed'[b] \/ integrator'[b] = integrator[b] - 1
<1>1. DebounceSamples \in Nat \ {0} /\ integrator[b] \in 0 .. DebounceSamples
  BY ButtonsAssumption DEF Swinging
<1>2. integrator'[b] = Integrated(b, low')
  BY DEF Poll
<1>3. b \in fired' <=> ~pressed[b] /\ integrator'[b] = DebounceSamples
  BY DEF Poll, Fires
<1>4. pressed'[b] <=> (pressed[b] \/ b \in fired') /\ ~(pressed[b] /\ integrator'[b] = 0)
  BY DEF Poll, Releases
<1>5. b \in low' => integrator'[b] = integrator[b] + 1 \/ integrator'[b] = DebounceSamples
  BY <1>1, <1>2 DEF Integrated, AtMost
<1>6. b \notin low' => integrator'[b] = integrator[b] - 1 \/ integrator'[b] = 0
  BY <1>1, <1>2 DEF Integrated
<1>7. integrator'[b] = DebounceSamples => integrator'[b] # 0
  BY <1>1
<1>8. integrator'[b] = DebounceSamples => pressed'[b]
  BY <1>3, <1>4, <1>7, Zenon
<1>9. integrator'[b] = 0 => ~pressed'[b]
  BY <1>3, <1>4, <1>7, Zenon
<1> QED
  BY <1>5, <1>6, <1>8, <1>9, Zenon

\* A press or a release is seen within the window: what HeldIsHeard asks, but
\* for the timer that makes the task poll.
THEOREM HeardInTime == ButtonsSpec => WindowDecides
<1>1. ButtonsInit => EndsDecided
  <2> SUFFICES ASSUME ButtonsInit, NEW b \in Button
               PROVE  /\ integrator[b] = DebounceSamples => pressed[b]
                      /\ integrator[b] = 0 => ~pressed[b]
    BY DEF EndsDecided
  <2>1. DebounceSamples # 0
    BY ButtonsAssumption
  <2>2. pressed[b] <=> b \in low
    BY Zenon DEF ButtonsInit
  <2>3. integrator[b] = IF b \in low THEN DebounceSamples ELSE 0
    BY Zenon DEF ButtonsInit
  <2> QED
    BY <2>1, <2>2, <2>3, Zenon
<1>2. Swinging /\ EndsDecided /\ [ButtonsNext]_buttonVars => EndsDecided'
  <2> SUFFICES ASSUME Swinging, EndsDecided, [ButtonsNext]_buttonVars PROVE EndsDecided'
    OBVIOUS
  <2>1. CASE PollAny
    BY <2>1, PollDecides DEF PollAny, EndsDecided
  <2>2. CASE UNCHANGED <<integrator, pressed>>
    BY <2>2 DEF EndsDecided
  <2> QED
    BY <2>1, <2>2 DEF ButtonsNext, TakeCommand, buttonVars
<1>3. Swinging /\ EndsDecided =>
        [PollAny =>
           \A b \in Button :
              /\ b \in low' => pressed'[b] \/ integrator'[b] = integrator[b] + 1
              /\ b \notin low' => ~pressed'[b] \/ integrator'[b] = integrator[b] - 1]_buttonVars
  BY PollDecides DEF PollAny
<1> QED
  BY <1>1, <1>2, <1>3, InitSwinging, StepSwinging, PTL DEF ButtonsSpec, WindowDecides

-----------------------------------------------------------------------------
(* The buttons: what they send *)

\* A set of numbers has a least one, so one that holds 0 and every successor
\* holds them all.
LEMMA Least ==
    ASSUME NEW T, T \subseteq Nat, T # {}
    PROVE  \E x \in T : \A y \in T : ~(y < x)
<1> DEFINE R == {ss \in Nat \X Nat : ss[1] < ss[2]}
<1>1. OpToRel(<, Nat) = R
  BY DEF OpToRel
<1>2. IsWellFoundedOn(R, Nat)
  BY <1>1, NatLessThanWellFounded
<1> HIDE DEF R
<1>3. \E x \in T : \A y \in T : <<y, x>> \notin R
  BY <1>2, WFMin
<1> QED
  BY <1>3 DEF R

LEMMA Upwards ==
    ASSUME NEW T, 0 \in T, \A n \in Nat : n \in T => n + 1 \in T
    PROVE  Nat \subseteq T
<1> SUFFICES ASSUME ~(Nat \subseteq T) PROVE FALSE
  OBVIOUS
<1>1. PICK x \in Nat \ T : \A y \in Nat \ T : ~(y < x)
  BY Least
<1>2. x - 1 \in Nat /\ x - 1 < x
  BY <1>1
<1> QED
  BY <1>1, <1>2

\* What one button makes of the queue that the one before it left.
Turn(firing, i, q) == IF i \in firing THEN Sent(q, Commands[i]) ELSE q

\* The queue after each of the first n buttons.
IsHistory(h, n, firing, q) ==
    h = [i \in 0 .. n |-> IF i = 0 THEN q ELSE Turn(firing, i, h[i - 1])]

LEMMA HistoryLonger ==
    ASSUME NEW n \in Nat, NEW firing, NEW q, NEW h, IsHistory(h, n, firing, q)
    PROVE  \E g : IsHistory(g, n + 1, firing, q)
<1> DEFINE g == [i \in 0 .. n + 1 |-> IF i = n + 1 THEN Turn(firing, n + 1, h[n]) ELSE h[i]]
<1>1. \A i \in 0 .. n + 1 : i \in 0 .. n \/ i = n + 1
  OBVIOUS
<1>2. g[n + 1] = Turn(firing, n + 1, h[n]) /\ \A i \in 0 .. n : g[i] = h[i]
  OBVIOUS
<1>3. \A i \in 0 .. n : h[i] = IF i = 0 THEN q ELSE Turn(firing, i, h[i - 1])
  BY DEF IsHistory
<1>4. DOMAIN g = 0 .. n + 1 /\ g = [i \in 0 .. n + 1 |-> g[i]]
  OBVIOUS
<1> HIDE DEF g
<1>5. ASSUME NEW i \in 0 .. n + 1
      PROVE  g[i] = IF i = 0 THEN q ELSE Turn(firing, i, g[i - 1])
  <2>1. CASE i = n + 1
    <3>1. n \in 0 .. n /\ (n + 1) - 1 = n /\ n + 1 # 0
      OBVIOUS
    <3>2. g[n] = h[n]
      BY <1>2, <3>1
    <3> QED
      BY <1>2, <2>1, <3>1, <3>2
  <2>2. CASE i = 0
    <3>1. 0 \in 0 .. n
      OBVIOUS
    <3> QED
      BY <1>2, <1>3, <2>2, <3>1
  <2>3. CASE i \in 0 .. n /\ i # 0
    <3>1. i - 1 \in 0 .. n
      BY <2>3
    <3>2. g[i] = h[i] /\ g[i - 1] = h[i - 1]
      BY <1>2, <2>3, <3>1
    <3> QED
      BY <1>3, <2>3, <3>2
  <2> QED
    BY <1>1, <2>1, <2>2, <2>3
<1>6. g = [i \in 0 .. n + 1 |-> IF i = 0 THEN q ELSE Turn(firing, i, g[i - 1])]
  BY <1>4, <1>5
<1> QED
  BY <1>6 DEF IsHistory

LEMMA HistoryExists ==
    ASSUME NEW n \in Nat, NEW firing, NEW q
    PROVE  \E h : IsHistory(h, n, firing, q)
<1> DEFINE T == {m \in Nat : \E h : IsHistory(h, m, firing, q)}
<1>1. 0 \in T
  <2> DEFINE h == [i \in 0 .. 0 |-> q]
  <2>1. \A i \in 0 .. 0 : i = 0
    OBVIOUS
  <2>2. h = [i \in 0 .. 0 |-> IF i = 0 THEN q ELSE Turn(firing, i, h[i - 1])]
    BY <2>1
  <2>3. IsHistory(h, 0, firing, q)
    BY <2>2 DEF IsHistory
  <2> QED
    BY <2>3
<1>2. \A m \in Nat : m \in T => m + 1 \in T
  BY HistoryLonger
<1> HIDE DEF T
<1>3. Nat \subseteq T
  BY <1>1, <1>2, Upwards
<1> QED
  BY <1>3 DEF T

\* One command more keeps the queue within its depth.
LEMMA OneSent ==
    ASSUME NEW X, NEW s \in Seq(X), Len(s) <= QueueDepth, NEW command \in X
    PROVE  Sent(s, command) \in Seq(X) /\ Len(Sent(s, command)) <= QueueDepth
BY ButtonsAssumption DEF Sent

\* The buttons' commands keep the queue's type and depth, however many fire.
LEMMA SentFits ==
    ASSUME queue \in Seq(STRING), Len(queue) <= QueueDepth, NEW firing
    PROVE  SentBy(firing, queue) \in Seq(STRING) /\ Len(SentBy(firing, queue)) <= QueueDepth
<1> DEFINE N == Len(Commands)
           Fits(s) == s \in Seq(STRING) /\ Len(s) <= QueueDepth
           h == CHOOSE g : IsHistory(g, N, firing, queue)
<1>1. N \in Nat /\ Commands \in Seq(STRING) /\ QueueDepth \in Nat
  BY ButtonsAssumption
<1>2. SentBy(firing, queue) = h[N]
  BY Zenon DEF SentBy, IsHistory, Turn
<1>3. IsHistory(h, N, firing, queue)
  <2>1. \E g : IsHistory(g, N, firing, queue)
    BY <1>1, HistoryExists
  <2> QED
    BY <2>1, Zenon
<1> HIDE DEF h
<1>4. \A i \in 0 .. N : h[i] = IF i = 0 THEN queue ELSE Turn(firing, i, h[i - 1])
  BY <1>3 DEF IsHistory
<1>5. ASSUME NEW i \in 1 .. N, NEW s, Fits(s) PROVE Fits(Turn(firing, i, s))
  <2>1. Commands[i] \in STRING
    BY <1>1
  <2> QED
    BY <1>5, <2>1, OneSent DEF Turn
<1> DEFINE T == {n \in Nat : n <= N => Fits(h[n])}
<1>6. 0 \in T
  BY <1>1, <1>4
<1>7. ASSUME NEW n \in T PROVE n + 1 \in T
  <2>1. n \in Nat /\ (n <= N => Fits(h[n]))
    OBVIOUS
  <2>2. CASE n + 1 <= N
    <3>1. n + 1 \in 0 .. N /\ n + 1 \in 1 .. N /\ (n + 1) - 1 = n /\ n <= N /\ n + 1 # 0
      BY <1>1, <2>1, <2>2
    <3>2. h[n + 1] = Turn(firing, n + 1, h[n])
      BY <1>4, <3>1
    <3>3. Fits(h[n])
      BY <2>1, <3>1
    <3>4. Fits(h[n + 1])
      BY <1>5, <3>1, <3>2, <3>3
    <3> QED
      BY <2>1, <3>4
  <2> QED
    BY <2>1, <2>2
<1> HIDE DEF T
<1>8. Nat \subseteq T
  BY <1>6, <1>7, Upwards
<1>9. N \in T
  BY <1>1, <1>8
<1> QED
  BY <1>1, <1>2, <1>9 DEF T

\* The types of the counters come with their swing, the queue's with what is sent.
ButtonsInv == Swinging /\ ButtonsTypeOK

LEMMA ButtonsStart == ButtonsInit => ButtonsInv
<1> SUFFICES ASSUME ButtonsInit PROVE ButtonsInv
  OBVIOUS
<1>1. Swinging
  BY InitSwinging
<1>2. /\ low \subseteq Button /\ fired \subseteq Button
      /\ queue \in Seq(STRING) /\ Len(queue) <= QueueDepth
  BY ButtonsAssumption DEF ButtonsInit
<1> QED
  BY <1>1, <1>2 DEF ButtonsInv, ButtonsTypeOK, Swinging

LEMMA ButtonsStep == ButtonsInv /\ [ButtonsNext]_buttonVars => ButtonsInv'
<1> SUFFICES ASSUME ButtonsInv, [ButtonsNext]_buttonVars PROVE ButtonsInv'
  OBVIOUS
<1>1. Swinging'
  BY StepSwinging DEF ButtonsInv
<1>2. CASE PollAny
  <2>1. PICK lows \in SUBSET Button : Poll(lows)
    BY <1>2 DEF PollAny
  <2>2. low' \subseteq Button /\ fired' \subseteq Button
    BY <2>1 DEF Poll
  <2>3. queue' = SentBy(fired', queue)
    BY <2>1 DEF Poll
  <2>4. queue' \in Seq(STRING) /\ Len(queue') <= QueueDepth
    BY <2>3, SentFits DEF ButtonsInv, ButtonsTypeOK
  <2> QED
    BY <1>1, <2>2, <2>4 DEF ButtonsInv, ButtonsTypeOK, Swinging
<1>3. CASE TakeCommand
  <2>1. queue # << >> /\ queue' = Tail(queue) /\ UNCHANGED <<low, fired>>
    BY <1>3 DEF TakeCommand
  <2>2. queue' \in Seq(STRING) /\ Len(queue') <= QueueDepth
    BY <2>1, ButtonsAssumption DEF ButtonsInv, ButtonsTypeOK
  <2> QED
    BY <1>1, <2>1, <2>2 DEF ButtonsInv, ButtonsTypeOK, Swinging
<1>4. CASE UNCHANGED buttonVars
  BY <1>1, <1>4 DEF buttonVars, ButtonsInv, ButtonsTypeOK, Swinging
<1> QED
  BY <1>2, <1>3, <1>4 DEF ButtonsNext

\* The debouncers keep their ranges, and the queue its depth, however many
\* buttons fire in one turn of the loop (Debouncer::poll, send_command).
THEOREM ButtonsTypeCorrect == ButtonsSpec => []ButtonsTypeOK
<1>1. ButtonsInv => ButtonsTypeOK BY DEF ButtonsInv
<1>. QED BY <1>1, ButtonsStart, ButtonsStep, PTL DEF ButtonsSpec

-----------------------------------------------------------------------------
(* The flow meter *)


\* A burst under way has had its first sample; at no other time are there pulses.
BurstCounted == IF pc = "draining" THEN ~skip ELSE pulses = 0

\* A task that waits for nothing any more is runnable; one that is not has not
\* been late.
NotLate == pc = "waiting" /\ ~Runnable => late = 0

\* The age of the last edge, from where the task stands.
EdgeAge ==
    /\ fifo # << >> \/ pc = "draining" => gap <= late
    /\ pc = "polling" /\ ~skip => gap <= late
    /\ pc = "waiting" /\ fifo = << >> /\ ~skip => gap <= Latency + idle + late

\* Only the first sample of a burst can span an idle gap, and then it is skipped.
QueuedFresh ==
    \A i \in 1 .. Len(fifo) : i > 1 \/ ~skip => fifo[i] <= Fresh

WindowFresh ==
    /\ window.len < RateEdges => window.head = window.len
    /\ \A i \in Slot : i < window.len => window.ticks[i] <= Fresh
    /\ window.len > 0 => ~skip

FlowInv ==
    /\ FlowTypeOK
    /\ BurstCounted
    /\ VolumeCountsEdges
    /\ NotLate
    /\ EdgeAge
    /\ QueuedFresh
    /\ WindowFresh

-----------------------------------------------------------------------------
(* The ring *)

\* The index of the ring turns over at the end.
LEMMA RingIndex ==
    ASSUME NEW h \in Slot
    PROVE  /\ (h + 1) % RateEdges = IF h + 1 = RateEdges THEN 0 ELSE h + 1
           /\ (h + 1) % RateEdges \in Slot
  BY FlowAssumption DEF Slot

WindowType == [ticks: [Slot -> HalfPeriod], head: Slot, len: 0 .. RateEdges]

\* push keeps the window well formed.
LEMMA PushedType ==
    ASSUME NEW w \in WindowType, NEW d \in HalfPeriod
    PROVE  Pushed(w, d) \in WindowType
  BY RingIndex, FlowAssumption DEF WindowType, Pushed, Slot, AtMost

\* A window of fresh samples stays one when a fresh sample is pushed.
LEMMA PushedFresh ==
    ASSUME NEW w \in WindowType, NEW d \in HalfPeriod, d <= Fresh,
           w.len < RateEdges => w.head = w.len,
           \A i \in Slot : i < w.len => w.ticks[i] <= Fresh
    PROVE  LET p == Pushed(w, d)
           IN  /\ p.len < RateEdges => p.head = p.len
               /\ \A i \in Slot : i < p.len => p.ticks[i] <= Fresh
<1>1. /\ Pushed(w, d).ticks = [w.ticks EXCEPT ![w.head] = d]
      /\ Pushed(w, d).head = (w.head + 1) % RateEdges
      /\ Pushed(w, d).len = AtMost(w.len + 1, RateEdges)
  BY DEF Pushed
<1>2. w.head \in Slot /\ w.len \in 0 .. RateEdges /\ w.ticks \in [Slot -> HalfPeriod]
  BY DEF WindowType
<1>3. Pushed(w, d).len < RateEdges => Pushed(w, d).head = Pushed(w, d).len
  <2>1. CASE w.len + 1 < RateEdges
    BY <2>1, <1>1, <1>2, RingIndex, FlowAssumption DEF AtMost, Slot
  <2>2. CASE ~(w.len + 1 < RateEdges)
    BY <2>2, <1>1, <1>2, FlowAssumption DEF AtMost
  <2> QED BY <2>1, <2>2
<1>4. ASSUME NEW i \in Slot, i < Pushed(w, d).len
      PROVE  Pushed(w, d).ticks[i] <= Fresh
  <2>1. CASE i = w.head
    BY <1>1, <1>2, <2>1
  <2>2. CASE i # w.head
    <3>1. Pushed(w, d).ticks[i] = w.ticks[i]
      BY <1>1, <1>2, <2>2
    <3>2. i < w.len
      BY <1>1, <1>2, <1>4, <2>2, FlowAssumption DEF AtMost, Slot
    <3> QED BY <3>1, <3>2
  <2> QED BY <2>1, <2>2
<1> QED BY <1>3, <1>4

-----------------------------------------------------------------------------
(* What a half-period taken from the FIFO does to the window *)

LEMMA TakeSafe ==
    ASSUME FlowInv, NEW used \in BOOLEAN, Take(used), used => Head(fifo) <= Fresh
    PROVE  /\ fifo # << >> /\ fifo' = Tail(fifo)
           /\ fifo' \in Seq(HalfPeriod) /\ Len(fifo') = Len(fifo) - 1
           /\ \A i \in 1 .. Len(fifo') : fifo'[i] = fifo[i + 1]
           /\ window' \in WindowType
           /\ window'.len < RateEdges => window'.head = window'.len
           /\ \A i \in Slot : i < window'.len => window'.ticks[i] <= Fresh
           /\ recent' \in Seq(HalfPeriod) /\ Len(recent') <= RateEdges
           /\ ~used => window' = window
<1>1. fifo # << >> /\ fifo' = Tail(fifo) /\ fifo \in Seq(HalfPeriod)
  BY DEF Take, FlowInv, FlowTypeOK
<1>2. Head(fifo) \in HalfPeriod
  BY <1>1
<1>3. fifo' \in Seq(HalfPeriod) /\ Len(fifo') = Len(fifo) - 1
      /\ \A i \in 1 .. Len(fifo') : fifo'[i] = fifo[i + 1]
  BY <1>1
<1>4. window \in WindowType
  BY DEF FlowInv, FlowTypeOK, WindowType
<1>5. /\ window' \in WindowType
      /\ window'.len < RateEdges => window'.head = window'.len
      /\ \A i \in Slot : i < window'.len => window'.ticks[i] <= Fresh
  <2>1. CASE used
    <3>1. window' = Pushed(window, Head(fifo)) /\ Head(fifo) <= Fresh
      BY <2>1 DEF Take
    <3>2. /\ window.len < RateEdges => window.head = window.len
          /\ \A i \in Slot : i < window.len => window.ticks[i] <= Fresh
      BY DEF FlowInv, WindowFresh
    <3>3. window' \in WindowType
      BY <3>1, <1>2, <1>4, PushedType
    <3> QED BY <3>1, <3>2, <3>3, <1>2, <1>4, PushedFresh
  <2>2. CASE ~used
    BY <2>2, <1>4 DEF Take, FlowInv, WindowFresh
  <2> QED BY <2>1, <2>2
<1>6. recent' \in Seq(HalfPeriod) /\ Len(recent') <= RateEdges
  <2>1. CASE used
    <3>1. recent' = Latest(recent, Head(fifo))  BY <2>1 DEF Take
    <3>2. recent \in Seq(HalfPeriod) /\ Len(recent) <= RateEdges  BY DEF FlowInv, FlowTypeOK
    <3>3. /\ Append(recent, Head(fifo)) \in Seq(HalfPeriod)
          /\ Len(Append(recent, Head(fifo))) = Len(recent) + 1
      BY <3>2, <1>2
    <3>4. CASE Len(recent) + 1 > RateEdges
      BY <3>1, <3>2, <3>3, <3>4, FlowAssumption DEF Latest
    <3>5. CASE ~(Len(recent) + 1 > RateEdges)
      BY <3>1, <3>2, <3>3, <3>5, FlowAssumption DEF Latest
    <3> QED BY <3>4, <3>5
  <2>2. CASE ~used
    BY <2>2 DEF Take, FlowInv, FlowTypeOK
  <2> QED BY <2>1, <2>2
<1> QED BY <1>1, <1>3, <1>5, <1>6 DEF Take

-----------------------------------------------------------------------------
(* The steps *)

\* The bounds that the constants give.
LEMMA Bounds ==
    /\ Timeout \in Nat /\ Latency \in Nat
    /\ RateEdges \in Nat \ {0} /\ FifoDepth \in Nat \ {0}
    /\ Fresh \in Nat /\ Fresh = Timeout + 2 * Latency
    /\ Cap \in Nat /\ Cap = Fresh + 1
  BY FlowAssumption DEF Cap, Fresh

\* The parts of the invariant.
LEMMA Parts ==
    ASSUME FlowInv
    PROVE  /\ FlowTypeOK /\ BurstCounted /\ VolumeCountsEdges
           /\ NotLate /\ EdgeAge /\ QueuedFresh /\ WindowFresh
           /\ fifo \in Seq(HalfPeriod) /\ Len(fifo) \in Nat
           /\ gap \in HalfPeriod /\ gap \in Nat /\ idle \in Nat /\ late \in Nat
           /\ gap <= Cap /\ idle <= Timeout /\ late <= Latency
           /\ pulses \in Nat /\ volume \in Nat /\ due \in Nat
<1>1. FlowTypeOK  BY DEF FlowInv
<1>2. fifo \in Seq(HalfPeriod) /\ Len(fifo) \in Nat  BY <1>1 DEF FlowTypeOK
<1>3. /\ gap \in HalfPeriod /\ gap \in Nat /\ idle \in Nat /\ late \in Nat
      /\ gap <= Cap /\ idle <= Timeout /\ late <= Latency
      /\ pulses \in Nat /\ volume \in Nat /\ due \in Nat
  BY <1>1, Bounds DEF FlowTypeOK, HalfPeriod
<1> QED BY <1>1, <1>2, <1>3 DEF FlowInv

\* A unit of time later, the age of the last edge is still within its bound.
LEMMA AgeWithin ==
    ASSUME NEW g \in Nat, NEW h \in Nat, NEW i \in Nat, NEW j \in Nat, NEW l \in Nat, NEW m \in Nat,
           NEW k \in Nat, g <= k + i + l, h <= g + 1, i + l + 1 <= j + m
    PROVE  h <= k + j + m
OBVIOUS

LEMMA ElapseSafe == FlowInv /\ Elapse => FlowInv'
<1> SUFFICES ASSUME FlowInv, Elapse PROVE FlowInv'
  OBVIOUS
<1>0. /\ pc = "waiting" /\ pc' = pc /\ fifo' = fifo /\ skip' = skip /\ resetSignal' = resetSignal
      /\ Runnable => late < Latency
      /\ late' = IF Runnable THEN late + 1 ELSE 0
      /\ idle' = IF idle + 1 < Timeout THEN idle + 1 ELSE Timeout
      /\ gap' = IF gap + 1 < Cap THEN gap + 1 ELSE Cap
  BY DEF Elapse, AtMost
<1>1. FlowTypeOK'
  <2>1. gap' \in HalfPeriod /\ idle' \in 0 .. Timeout /\ late' \in 0 .. Latency
    BY <1>0, Parts, Bounds DEF HalfPeriod
  <2> QED BY <2>1, Parts DEF Elapse, FlowTypeOK
<1>2. NotLate'
  BY Parts, Bounds DEF Elapse, NotLate, Runnable, AtMost
<1>3. EdgeAge'
  <2>1. CASE fifo # << >>
    <3>1. Runnable /\ gap <= late  BY <2>1, Parts DEF EdgeAge, Runnable
    <3>2. gap' <= late'  BY <3>1, <1>0, Parts, Bounds
    <3> QED BY <3>2, <2>1, <1>0 DEF EdgeAge
  <2>2. CASE fifo = << >>
    <3>1. ASSUME ~skip PROVE gap' <= Latency + idle' + late'
      <4>1. gap <= Latency + idle + late  BY <3>1, <2>2, <1>0, Parts DEF EdgeAge
      <4>2. gap' \in Nat /\ gap' <= gap + 1 /\ idle' \in Nat /\ late' \in Nat
        BY <1>0, Parts, Bounds
      <4>3. idle + late + 1 <= idle' + late'
        <5>1. CASE Runnable
          <6>1. idle' = idle \/ idle' = idle + 1  BY <1>0, Parts, Bounds
          <6> QED BY <5>1, <6>1, <1>0, Parts
        <5>2. CASE ~Runnable
          <6>1. late = 0 /\ idle # Timeout  BY <5>2, <1>0, Parts DEF NotLate, Runnable
          <6>2. late' = 0 /\ idle' = idle + 1  BY <6>1, <5>2, <1>0, Parts, Bounds
          <6> QED BY <6>1, <6>2, Parts
        <5> QED BY <5>1, <5>2
      <4> HIDE <1>0
      <4> QED BY <4>1, <4>2, <4>3, Parts, Bounds, AgeWithin
    <3> QED BY <3>1, <2>2, <1>0 DEF EdgeAge
  <2> QED BY <2>1, <2>2
<1>4. BurstCounted' /\ VolumeCountsEdges' /\ QueuedFresh' /\ WindowFresh'
  BY Parts DEF Elapse, BurstCounted, VolumeCountsEdges, QueuedFresh, WindowFresh
<1> QED BY <1>1, <1>2, <1>3, <1>4 DEF FlowInv

\* An edge that arrives while the task has work is young; one that arrives on
\* an armed select is as old as EdgeAge says, or will be skipped.
LEMMA EdgeSafe == FlowInv /\ Edge => FlowInv'
<1> SUFFICES ASSUME FlowInv, Edge PROVE FlowInv'
  OBVIOUS
<1>1. CASE Len(fifo) < FifoDepth
  <2>0. /\ fifo' = Append(fifo, gap) /\ due' = due + 1 /\ gap' = 0
        /\ UNCHANGED <<pc, idle, late, resetSignal, skip, window, pulses, volume, recent>>
    BY <1>1 DEF Edge
  <2>1. /\ fifo' \in Seq(HalfPeriod) /\ Len(fifo') = Len(fifo) + 1
        /\ \A i \in 1 .. Len(fifo) : fifo'[i] = fifo[i]
        /\ fifo'[Len(fifo) + 1] = gap
        /\ fifo' # << >>
    BY Parts, <2>0
  <2>2. FlowTypeOK'
    <3>1. Len(fifo') <= FifoDepth  BY <1>1, <2>1, Parts, Bounds
    <3>2. gap' \in HalfPeriod  BY <2>0, Bounds DEF HalfPeriod
    <3>3. due' \in Nat  BY <2>0, Parts
    <3> QED BY <3>1, <3>2, <3>3, <2>0, <2>1, Parts DEF FlowTypeOK
  <2>3. BurstCounted' /\ NotLate'
    BY Parts, <2>0, <2>1 DEF BurstCounted, NotLate, Runnable
  <2>7. VolumeCountsEdges'
    BY Parts, <2>0, <2>1 DEF VolumeCountsEdges
  <2>4. EdgeAge'
    BY Parts, Bounds, <2>1 DEF Edge, EdgeAge
  <2>5. QueuedFresh'
    <3> SUFFICES ASSUME NEW i \in 1 .. Len(fifo) + 1, i > 1 \/ ~skip
                 PROVE  fifo'[i] <= Fresh
      BY Parts, Bounds, <2>1 DEF QueuedFresh, Edge
    <3>1. CASE i <= Len(fifo)
      BY Parts, Bounds, <3>1, <2>1 DEF QueuedFresh
    <3>2. CASE i = Len(fifo) + 1
      <4>1. fifo # << >> \/ ~skip
        BY Parts, Bounds, <3>2
      <4>2. gap <= Fresh
        BY Parts, Bounds, <4>1 DEF EdgeAge, FlowTypeOK
      <4> QED BY <3>2, <2>1, <4>2
    <3> QED BY <3>1, <3>2
  <2>6. WindowFresh'
    BY Parts, Bounds DEF Edge, WindowFresh
  <2> QED BY <2>2, <2>3, <2>4, <2>5, <2>6, <2>7 DEF FlowInv
<1>2. CASE ~(Len(fifo) < FifoDepth)
  <2>1. UNCHANGED <<fifo, due, pc, idle, late, resetSignal, skip, window, pulses, volume, recent>> /\ gap' = 0
    BY Parts, Bounds, <1>2 DEF Edge
  <2>2. FlowTypeOK'
    BY Parts, Bounds, <2>1 DEF FlowTypeOK, HalfPeriod
  <2>4. BurstCounted' /\ VolumeCountsEdges' /\ NotLate'
    BY Parts, <2>1 DEF BurstCounted, VolumeCountsEdges, NotLate, Runnable
  <2>3. EdgeAge' /\ QueuedFresh' /\ WindowFresh'
    BY Parts, Bounds, <2>1 DEF EdgeAge, QueuedFresh, WindowFresh
  <2> QED BY <2>2, <2>3, <2>4 DEF FlowInv
<1> QED BY <1>1, <1>2

LEMMA ResetVolumeSafe == FlowInv /\ ResetVolume => FlowInv'
<1> SUFFICES ASSUME FlowInv, ResetVolume PROVE FlowInv'
  OBVIOUS
<1>1. FlowTypeOK' /\ BurstCounted' /\ VolumeCountsEdges' /\ NotLate'
  BY Parts, Bounds DEF ResetVolume, FlowTypeOK, BurstCounted, VolumeCountsEdges, NotLate, Runnable
<1>2. EdgeAge' /\ QueuedFresh' /\ WindowFresh'
  BY Parts, Bounds DEF ResetVolume, EdgeAge, QueuedFresh, WindowFresh
<1> QED BY <1>1, <1>2 DEF FlowInv

LEMMA FirstSampleSafe == FlowInv /\ FirstSample => FlowInv'
<1> SUFFICES ASSUME FlowInv, FirstSample PROVE FlowInv'
  OBVIOUS
<1>1. (~skip) \in BOOLEAN /\ Take(~skip) /\ fifo # << >>
  BY Parts, Bounds DEF FirstSample, Take
<1>2. ~skip => Head(fifo) <= Fresh
  BY Parts, Bounds, <1>1 DEF QueuedFresh
<1>3. /\ fifo' \in Seq(HalfPeriod) /\ Len(fifo') = Len(fifo) - 1
      /\ \A i \in 1 .. Len(fifo') : fifo'[i] = fifo[i + 1]
      /\ window' \in WindowType
      /\ window'.len < RateEdges => window'.head = window'.len
      /\ \A i \in Slot : i < window'.len => window'.ticks[i] <= Fresh
      /\ recent' \in Seq(HalfPeriod) /\ Len(recent') <= RateEdges
      /\ skip => window' = window
  BY Parts, Bounds, <1>1, <1>2, TakeSafe
<1>4. pulses = 0
  BY Parts, Bounds DEF FirstSample, Polled, BurstCounted
<1>5. FlowTypeOK'
  <2>1. Len(fifo') <= FifoDepth  BY <1>3, Parts, Bounds DEF FlowTypeOK
  <2> QED BY <2>1, <1>3, Parts DEF FirstSample, FlowTypeOK, WindowType
<1>6. BurstCounted' /\ VolumeCountsEdges' /\ NotLate' /\ EdgeAge'
  BY Parts, Bounds, <1>1, <1>3, <1>4 DEF FirstSample, BurstCounted, VolumeCountsEdges, NotLate, EdgeAge
<1>7. QueuedFresh'
  <2> SUFFICES ASSUME NEW i \in 1 .. Len(fifo') PROVE fifo'[i] <= Fresh
    BY DEF QueuedFresh
  <2>1. i + 1 \in 1 .. Len(fifo) /\ i + 1 > 1  BY <1>3, Parts
  <2> QED BY <2>1, <1>3, Parts DEF QueuedFresh
<1>8. WindowFresh'
  BY Parts, Bounds, <1>3 DEF FirstSample, WindowFresh
<1> QED BY <1>5, <1>6, <1>7, <1>8 DEF FlowInv

LEMMA NextSampleSafe == FlowInv /\ NextSample => FlowInv'
<1> SUFFICES ASSUME FlowInv, NextSample PROVE FlowInv'
  OBVIOUS
<1>1. Take(TRUE) /\ fifo # << >> /\ pc = "draining"
  BY Parts, Bounds DEF NextSample, Take
<1>2. Head(fifo) <= Fresh
  <2>1. 1 \in 1 .. Len(fifo) /\ Head(fifo) = fifo[1]  BY <1>1, Parts
  <2> QED BY <2>1, <1>1, Parts DEF QueuedFresh, BurstCounted
<1>3. /\ fifo' \in Seq(HalfPeriod) /\ Len(fifo') = Len(fifo) - 1
      /\ \A i \in 1 .. Len(fifo') : fifo'[i] = fifo[i + 1]
      /\ window' \in WindowType
      /\ window'.len < RateEdges => window'.head = window'.len
      /\ \A i \in Slot : i < window'.len => window'.ticks[i] <= Fresh
      /\ recent' \in Seq(HalfPeriod) /\ Len(recent') <= RateEdges
  BY Parts, Bounds, <1>1, <1>2, TakeSafe
<1>5. FlowTypeOK'
  <2>1. Len(fifo') <= FifoDepth  BY <1>3, Parts, Bounds DEF FlowTypeOK
  <2> QED BY <2>1, <1>3, Parts DEF NextSample, FlowTypeOK, WindowType
<1>6. BurstCounted' /\ VolumeCountsEdges' /\ NotLate' /\ EdgeAge'
  BY Parts, Bounds, <1>1, <1>3 DEF NextSample, BurstCounted, VolumeCountsEdges, NotLate, EdgeAge
<1>7. QueuedFresh'
  <2> SUFFICES ASSUME NEW i \in 1 .. Len(fifo') PROVE fifo'[i] <= Fresh
    BY DEF QueuedFresh
  <2>1. i + 1 \in 1 .. Len(fifo) /\ i + 1 > 1  BY <1>3, Parts
  <2> QED BY <2>1, <1>3, Parts DEF QueuedFresh
<1>8. WindowFresh'
  BY Parts, <1>1, <1>3 DEF NextSample, WindowFresh, BurstCounted
<1> QED BY <1>5, <1>6, <1>7, <1>8 DEF FlowInv

LEMMA DrainedSafe == FlowInv /\ Drained => FlowInv'
<1> SUFFICES ASSUME FlowInv, Drained PROVE FlowInv'
  OBVIOUS
<1>1. FlowTypeOK'
  BY Parts, Bounds DEF Drained, FlowTypeOK
<1>2. BurstCounted' /\ VolumeCountsEdges' /\ NotLate' /\ EdgeAge'
  BY Parts DEF Drained, BurstCounted, VolumeCountsEdges, NotLate, EdgeAge
<1>3. QueuedFresh' /\ WindowFresh'
  BY Parts DEF Drained, QueuedFresh, WindowFresh
<1> QED BY <1>1, <1>2, <1>3 DEF FlowInv

\* A stopped window is empty, and the next half-period will be skipped.
LEMMA StopRateSafe ==
    ASSUME FlowInv, StopRate
    PROVE  window' \in WindowType /\ window'.len = 0 /\ window'.head = 0 /\ skip' = TRUE /\ recent' = << >>
<1>1. window \in WindowType  BY Parts DEF FlowTypeOK, WindowType
<1>2. 0 \in Slot /\ 0 \in 0 .. RateEdges  BY Bounds DEF Slot
<1>3. window' = [window EXCEPT !.head = 0, !.len = 0]  BY DEF StopRate, Stopped
<1>4. window' \in WindowType /\ window'.len = 0 /\ window'.head = 0
  BY <1>1, <1>2, <1>3 DEF WindowType
<1> QED BY <1>4 DEF StopRate

LEMMA StopSafe == FlowInv /\ (HandleReset \/ TimedOut) => FlowInv'
<1> SUFFICES ASSUME FlowInv, HandleReset \/ TimedOut PROVE FlowInv'
  OBVIOUS
<1>1. StopRate /\ fifo = << >> /\ pc' = "polling" /\ resetSignal' \in BOOLEAN
      /\ pc # "draining" /\ UNCHANGED <<fifo, gap, idle, late, pulses, volume, due>>
  BY Parts DEF HandleReset, TimedOut, Polled, FlowTypeOK
<1>2. /\ window' \in WindowType /\ window'.len = 0 /\ window'.head = 0
      /\ skip' = TRUE /\ recent' = << >>
  BY <1>1, StopRateSafe
<1>3. FlowTypeOK'
  BY <1>1, <1>2, Parts, Bounds DEF FlowTypeOK, WindowType
<1>4. BurstCounted' /\ VolumeCountsEdges' /\ NotLate' /\ EdgeAge'
  BY <1>1, <1>2, Parts DEF BurstCounted, VolumeCountsEdges, NotLate, EdgeAge
<1>5. QueuedFresh'
  BY <1>1 DEF QueuedFresh
<1>6. WindowFresh'
  BY <1>2, Bounds DEF WindowFresh, Slot
<1> QED BY <1>3, <1>4, <1>5, <1>6 DEF FlowInv

LEMMA SuspendSafe == FlowInv /\ Suspend => FlowInv'
<1> SUFFICES ASSUME FlowInv, Suspend PROVE FlowInv'
  OBVIOUS
<1>1. FlowTypeOK'
  BY Parts, Bounds DEF Suspend, FlowTypeOK
<1>2. BurstCounted' /\ VolumeCountsEdges' /\ NotLate' /\ QueuedFresh' /\ WindowFresh'
  BY Parts DEF Suspend, BurstCounted, VolumeCountsEdges, NotLate, QueuedFresh, WindowFresh
<1>3. EdgeAge'
  BY Parts, Bounds DEF Suspend, EdgeAge
<1> QED BY <1>1, <1>2, <1>3 DEF FlowInv

LEMMA FlowInitSafe == FlowInit => FlowInv
<1> SUFFICES ASSUME FlowInit PROVE FlowInv
  OBVIOUS
<1>1. FlowTypeOK
  BY Bounds DEF FlowInit, FlowTypeOK, Slot, HalfPeriod
<1>2. BurstCounted /\ VolumeCountsEdges /\ NotLate /\ EdgeAge /\ QueuedFresh
  BY Bounds DEF FlowInit, BurstCounted, VolumeCountsEdges, NotLate, EdgeAge, QueuedFresh
<1>3. WindowFresh
  BY Bounds DEF FlowInit, WindowFresh, Slot
<1> QED BY <1>1, <1>2, <1>3 DEF FlowInv

LEMMA FlowInductive == FlowSpec => []FlowInv
<1>1. FlowInv /\ UNCHANGED flowVars => FlowInv'
  BY DEF flowVars, FlowInv, FlowTypeOK, BurstCounted, VolumeCountsEdges, NotLate, Runnable,
         EdgeAge, QueuedFresh, WindowFresh
<1>2. FlowInv /\ [FlowNext]_flowVars => FlowInv'
  BY <1>1, ElapseSafe, EdgeSafe, ResetVolumeSafe, FirstSampleSafe, NextSampleSafe, DrainedSafe,
     StopSafe, SuspendSafe DEF FlowNext
<1> QED BY <1>2, FlowInitSafe, PTL DEF FlowSpec

-----------------------------------------------------------------------------
(* The ring holds the latest samples *)

\* A walk of at most one round from a slot.
LEMMA RingWalk ==
    ASSUME NEW h \in Slot, NEW n \in 0 .. RateEdges
    PROVE  (h + n) % RateEdges = IF h + n < RateEdges THEN h + n ELSE h + n - RateEdges
  BY FlowAssumption DEF Slot

\* WindowHoldsLatest of any window and sequence.
Holds(w, r) ==
    /\ w.len = Len(r)
    /\ IF w.len < RateEdges
         THEN w.head = w.len /\ \A i \in 1 .. w.len : w.ticks[i - 1] = r[i]
         ELSE \A i \in 1 .. RateEdges : w.ticks[(w.head + i - 1) % RateEdges] = r[i]

\* push forgets the oldest sample of a full window, and none of a partial one.
LEMMA PushedHolds ==
    ASSUME NEW w \in WindowType, NEW d \in HalfPeriod, NEW r \in Seq(HalfPeriod), Holds(w, r)
    PROVE  Holds(Pushed(w, d), Latest(r, d))
<1> DEFINE p == Pushed(w, d)
           q == Latest(r, d)
           N == RateEdges
<1>1. /\ p.ticks = [w.ticks EXCEPT ![w.head] = d]
      /\ p.head = (w.head + 1) % N
      /\ p.len = AtMost(w.len + 1, N)
  BY DEF Pushed
<1>2. w.head \in Slot /\ w.len \in 0 .. N /\ w.ticks \in [Slot -> HalfPeriod] /\ N \in Nat \ {0}
  BY FlowAssumption DEF WindowType
<1>3. /\ Append(r, d) \in Seq(HalfPeriod) /\ Len(Append(r, d)) = Len(r) + 1
      /\ \A i \in 1 .. Len(r) : Append(r, d)[i] = r[i]
      /\ Append(r, d)[Len(r) + 1] = d
      /\ Len(r) = w.len
  BY DEF Holds
<1>4. CASE w.len < N
  <2>1. q = Append(r, d) /\ p.len = w.len + 1 /\ w.head = w.len
    BY <1>1, <1>2, <1>3, <1>4 DEF Latest, AtMost, Holds
  <2>2. \A i \in 1 .. w.len : w.ticks[i - 1] = r[i]
    BY <1>4 DEF Holds
  <2>3. \A i \in 1 .. w.len + 1 : p.ticks[i - 1] = q[i]
    <3> SUFFICES ASSUME NEW i \in 1 .. w.len + 1 PROVE p.ticks[i - 1] = q[i]
      OBVIOUS
    <3>1. CASE i = w.len + 1
      BY <3>1, <2>1, <1>1, <1>2, <1>3
    <3>2. CASE i \in 1 .. w.len
      <4>1. p.ticks[i - 1] = w.ticks[i - 1]  BY <3>2, <2>1, <1>1, <1>2, <1>4 DEF Slot
      <4> QED BY <4>1, <3>2, <2>1, <2>2, <1>3
    <3> QED BY <3>1, <3>2, <1>2
  <2>4. CASE w.len + 1 < N
    <3>1. p.head = w.len + 1  BY <2>1, <2>4, <1>1, <1>2, RingIndex
    <3> QED BY <3>1, <2>1, <2>3, <2>4, <1>3 DEF Holds
  <2>5. CASE w.len + 1 = N
    <3>1. p.head = 0  BY <2>1, <2>5, <1>1, <1>2, RingIndex
    <3>2. \A i \in 1 .. N : (p.head + i - 1) % N = i - 1
      <4> SUFFICES ASSUME NEW i \in 1 .. N PROVE (p.head + i - 1) % N = i - 1
        OBVIOUS
      <4>1. p.head + i - 1 = p.head + (i - 1) /\ p.head \in Slot /\ i - 1 \in 0 .. N
        BY <3>1, <1>2 DEF Slot
      <4>2. (p.head + (i - 1)) % N = IF p.head + (i - 1) < N THEN p.head + (i - 1)
                                                             ELSE p.head + (i - 1) - N
        BY <4>1, RingWalk
      <4> QED BY <4>1, <4>2, <3>1, <1>2
    <3> QED BY <3>2, <2>1, <2>3, <2>5, <1>2, <1>3 DEF Holds
  <2> QED BY <2>4, <2>5, <1>2, <1>4
<1>5. CASE w.len = N
  <2>1. q = Tail(Append(r, d)) /\ p.len = N
    BY <1>1, <1>2, <1>3, <1>5 DEF Latest, AtMost
  <2>2. Len(q) = N /\ \A i \in 1 .. N : q[i] = Append(r, d)[i + 1]
    BY <2>1, <1>2, <1>3, <1>5
  <2>3. \A i \in 1 .. N : w.ticks[(w.head + i - 1) % N] = r[i]
    BY <1>2, <1>5 DEF Holds
  <2>4. \A i \in 1 .. N : p.ticks[(p.head + i - 1) % N] = q[i]
    <3> SUFFICES ASSUME NEW i \in 1 .. N PROVE p.ticks[(p.head + i - 1) % N] = q[i]
      OBVIOUS
    <3> DEFINE h == w.head
               g == p.head
               slot == IF h + i < N THEN h + i ELSE h + i - N
    <3>1. (h + i) % N = slot
      BY <1>2, RingWalk
    <3>2. g \in Slot /\ g = IF h + 1 = N THEN 0 ELSE h + 1
      BY <1>1, <1>2, RingIndex
    <3>3. (g + (i - 1)) % N = IF g + (i - 1) < N THEN g + (i - 1) ELSE g + (i - 1) - N
      BY <3>2, <1>2, RingWalk
    <3>4. (g + i - 1) % N = slot
      <4>1. h \in Slot  BY <1>2
      <4> HIDE DEF h, g
      <4>2. g + i - 1 = g + (i - 1)  BY <3>2, <1>2 DEF Slot
      <4>3. CASE h + 1 = N
        <5>1. g + (i - 1) = i - 1 /\ i - 1 < N  BY <4>3, <3>2, <1>2
        <5>2. slot = i - 1  BY <4>1, <4>3, <1>2 DEF Slot
        <5> QED BY <5>1, <5>2, <4>2, <3>3
      <4>4. CASE h + 1 # N
        <5>1. g + (i - 1) = h + i  BY <4>1, <4>4, <3>2, <1>2 DEF Slot
        <5> QED BY <5>1, <4>2, <3>1
      <4> QED BY <4>3, <4>4
    <3>5. CASE i = N
      <4>1. slot = w.head  BY <3>5, <1>2 DEF Slot
      <4> QED BY <4>1, <3>4, <3>5, <2>2, <1>1, <1>2, <1>3, <1>5
    <3>6. CASE i < N
      <4>1. slot \in Slot /\ slot # w.head  BY <3>6, <1>2 DEF Slot
      <4>2. p.ticks[slot] = w.ticks[slot]  BY <4>1, <1>1, <1>2
      <4>3. i + 1 \in 1 .. N /\ w.head + (i + 1) - 1 = w.head + i  BY <3>6, <1>2 DEF Slot
      <4>4. w.ticks[slot] = r[i + 1]  BY <4>3, <3>1, <2>3
      <4> QED BY <4>2, <4>3, <4>4, <3>4, <2>2, <1>3, <1>5
    <3> QED BY <3>5, <3>6, <1>2
  <2> QED BY <2>1, <2>2, <2>4, <1>2 DEF Holds
<1> QED BY <1>4, <1>5, <1>2

LEMMA HoldsSafe == FlowInv /\ WindowHoldsLatest /\ [FlowNext]_flowVars => WindowHoldsLatest'
<1> SUFFICES ASSUME FlowInv, WindowHoldsLatest, [FlowNext]_flowVars PROVE Holds(window, recent)'
  BY DEF Holds, WindowHoldsLatest
<1>0. Holds(window, recent)
  BY DEF Holds, WindowHoldsLatest
<1>1. CASE UNCHANGED <<window, recent>>
  BY <1>0, <1>1 DEF Holds
<1>2. CASE FirstSample \/ NextSample
  <2>1. PICK used \in BOOLEAN : Take(used)
    BY <1>2 DEF FirstSample, NextSample
  <2>2. CASE ~used
    BY <2>1, <2>2, <1>1 DEF Take
  <2>3. CASE used
    <3>1. window' = Pushed(window, Head(fifo)) /\ recent' = Latest(recent, Head(fifo))
      BY <2>1, <2>3 DEF Take
    <3>2. Head(fifo) \in HalfPeriod
      BY <2>1, Parts DEF Take
    <3>3. window \in WindowType /\ recent \in Seq(HalfPeriod)
      BY Parts DEF FlowTypeOK, WindowType
    <3>4. Holds(Pushed(window, Head(fifo)), Latest(recent, Head(fifo)))
      BY <3>2, <3>3, <1>0, PushedHolds
    <3> QED BY <3>1, <3>4 DEF Holds
  <2> QED BY <2>2, <2>3
<1>3. CASE StopRate
  <2>1. window'.len = 0 /\ window'.head = 0 /\ recent' = << >>
    BY <1>3, StopRateSafe
  <2> QED BY <2>1, Bounds DEF Holds
<1>4. CASE Elapse \/ Edge \/ ResetVolume \/ Drained \/ Suspend \/ UNCHANGED flowVars
  BY <1>1, <1>4 DEF Elapse, Edge, ResetVolume, Drained, Suspend, flowVars
<1> QED BY <1>2, <1>3, <1>4 DEF FlowNext, HandleReset, TimedOut

-----------------------------------------------------------------------------
(* Theorems *)

\* The meter keeps its types: the FIFO, the window and the clocks stay within
\* their bounds.
THEOREM FlowTypeCorrect == FlowSpec => []FlowTypeOK
<1>1. FlowInv => FlowTypeOK  BY DEF FlowInv
<1> QED BY <1>1, FlowInductive, PTL

\* No half-period that spans an idle gap enters the rate, and no rate is
\* reported once the last edge is older than the timeout and two delays.
THEOREM FreshRate == FlowSpec => []RateFromFreshFlow
<1>1. ASSUME FlowInv PROVE RateFromFreshFlow
  <2>1. \A d \in Averaged(window) : d <= Fresh
    <3> SUFFICES ASSUME NEW i \in 0 .. window.len - 1 PROVE window.ticks[i] <= Fresh
      BY DEF Averaged
    <3>1. window.len \in 0 .. RateEdges  BY <1>1, Parts DEF FlowTypeOK
    <3>2. i \in Slot /\ i < window.len  BY <3>1, Bounds DEF Slot
    <3> QED BY <3>2, <1>1, Parts DEF WindowFresh
  <2>2. window.len > 0 => gap <= Fresh
    <3> SUFFICES ASSUME ~skip PROVE gap <= Fresh
      BY <1>1, Parts DEF WindowFresh
    <3>1. pc \in {"waiting", "polling", "draining"}
      BY <1>1, Parts DEF FlowTypeOK
    <3>2. gap <= late \/ gap <= Latency + idle + late
      BY <3>1, <1>1, Parts DEF EdgeAge
    <3> QED BY <3>2, <1>1, Parts, Bounds
  <2> QED BY <2>1, <2>2 DEF RateFromFreshFlow
<1> QED BY <1>1, FlowInductive, PTL

\* Every half-period the FIFO took since the reset, and what waited in it then,
\* is added to the volume exactly once.
THEOREM CountedOnce == FlowSpec => []VolumeCountsEdges
<1>1. FlowInv => VolumeCountsEdges  BY DEF FlowInv
<1> QED BY <1>1, FlowInductive, PTL

\* However often it is stopped and goes round, the window averages exactly the
\* last samples used.
THEOREM LatestAveraged == FlowSpec => []WindowHoldsLatest
<1>1. FlowInit => WindowHoldsLatest
  BY Bounds DEF FlowInit, WindowHoldsLatest
<1>2. FlowInv /\ WindowHoldsLatest /\ [FlowNext]_flowVars => WindowHoldsLatest'
  BY HoldsSafe
<1> QED BY <1>1, <1>2, FlowInductive, PTL DEF FlowSpec
=============================================================================
