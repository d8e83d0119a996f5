------------------------------ MODULE Buttons ------------------------------
(***************************************************************************)
(* run_button_task: every 10 ms it samples the four buttons, integrates    *)
(* each contact in a saturating counter, and sends a button's command when *)
(* its counter reaches the top.  The queue's consumer is the coordinator,  *)
(* of which only next_command is kept.                                     *)
(***************************************************************************)
EXTENDS Saturating, Sequences

CONSTANTS
    Commands,         \* the command of each debouncer, in the order of the array
    DebounceSamples,  \* DEBOUNCE_SAMPLES
    QueueDepth        \* depth of COMMAND_QUEUE

ASSUME ButtonsAssumption ==
    /\ Commands \in Seq(STRING)
    /\ DebounceSamples \in Nat \ {0}
    /\ QueueDepth \in Nat \ {0}

VARIABLES
    low,         \* the buttons the last poll found low
    pressed,
    integrator,
    queue,       \* COMMAND_QUEUE
    fired,       \* history: the buttons whose command the last poll sent
    since        \* history: polls since a button's last command, up to twice the window

buttonVars == <<low, pressed, integrator, queue, fired, since>>

Button == DOMAIN Commands
Window == 2 * DebounceSamples

-----------------------------------------------------------------------------
(* Debouncer *)

\* Mutants of Integrated: the count does not saturate; it never empties.
IntegratedOpenly(b, lows) ==
    IF b \in lows THEN integrator[b] + 1
    ELSE IF integrator[b] = 0 THEN 0 ELSE integrator[b] - 1

IntegratedNeverEmpty(b, lows) ==
    IF b \in lows THEN AtMost(integrator[b] + 1, DebounceSamples)
    ELSE IF integrator[b] <= 1 THEN integrator[b] ELSE integrator[b] - 1

\* The counter after a sample: one up while low, one down while high.
Integrated(b, lows) ==
    IF b \in lows THEN AtMost(integrator[b] + 1, DebounceSamples)
    ELSE IF integrator[b] = 0 THEN 0 ELSE integrator[b] - 1

\* Mutant of Fires: the button need not have been released.
FiresAtTop(b, count) == count = DebounceSamples

\* Debouncer::poll on a button whose counter has become `count`.
Fires(b, count)    == ~pressed[b] /\ count = DebounceSamples
Releases(b, count) == pressed[b] /\ count = 0

-----------------------------------------------------------------------------
(* run_button_task *)

\* send_command: what does not fit is dropped.
Sent(q, command) == IF Len(q) < QueueDepth THEN Append(q, command) ELSE q

\* The queue when every button that fires has sent its command, in the order of
\* the array.
SentBy(firing, q) ==
    LET after[i \in 0 .. Len(Commands)] ==
          IF i = 0 THEN q
          ELSE IF i \in firing THEN Sent(after[i - 1], Commands[i]) ELSE after[i - 1]
    IN  after[Len(Commands)]

\* One turn of the loop over all the debouncers; it holds no await.
Poll(lows) ==
    /\ low' = lows
    /\ integrator' = [b \in Button |-> Integrated(b, lows)]
    /\ fired' = {b \in Button : Fires(b, integrator'[b])}
    /\ pressed' = [b \in Button |->
                     (pressed[b] \/ b \in fired') /\ ~Releases(b, integrator'[b])]
    /\ queue' = SentBy(fired', queue)
    /\ since' = [b \in Button |-> IF b \in fired' THEN 0 ELSE AtMost(since[b] + 1, Window)]

\* next_command
TakeCommand ==
    /\ queue # << >>
    /\ queue' = Tail(queue)
    /\ UNCHANGED <<low, pressed, integrator, fired, since>>

\* Debouncer::new: a button held at boot counts as pressed already.
ButtonsInit ==
    /\ low \in SUBSET Button
    /\ pressed = [b \in Button |-> b \in low]
    /\ integrator = [b \in Button |-> IF b \in low THEN DebounceSamples ELSE 0]
    /\ queue = << >>
    /\ fired = {}
    /\ since = [b \in Button |-> IF b \in low THEN 0 ELSE DebounceSamples]

PollAny == \E lows \in SUBSET Button : Poll(lows)

ButtonsNext == PollAny \/ TakeCommand

\* The timer of the task elapses; nothing obliges the coordinator here.
ButtonsSpec == ButtonsInit /\ [][ButtonsNext]_buttonVars /\ WF_buttonVars(PollAny)

-----------------------------------------------------------------------------
(* Properties *)

ButtonsTypeOK ==
    /\ low \subseteq Button
    /\ pressed \in [Button -> BOOLEAN]
    /\ integrator \in [Button -> 0 .. DebounceSamples]
    /\ fired \subseteq Button
    /\ since \in [Button -> 0 .. Window]
    /\ queue \in Seq(STRING)
    /\ Len(queue) <= QueueDepth

\* However the contact bounces, a button sends at most one command per twice
\* the debounce window: a full swing of its counter down and up again.  After
\* boot one window must pass, two for a button that was held (Debouncer).
CommandsApart ==
    [][\A b \in Button : b \in fired' /\ PollAny => since[b] + 1 >= Window]_buttonVars

\* The counter's distance from both ends, in polls: what makes it hold.
SwingTakesTime ==
    \A b \in Button :
        IF pressed[b] THEN integrator[b] + since[b] >= DebounceSamples
                      ELSE integrator[b] + DebounceSamples <= since[b]

\* A button that is held down is seen as pressed, and its command has been sent
\* if it was not pressed before; one that is let go is ready again.
HeldIsHeard ==
    \A b \in Button : /\ <>[](b \in low) => <>[]pressed[b]
                      /\ <>[](b \notin low) => <>[]~pressed[b]
=============================================================================
