---------------------------- MODULE ApiCommands ----------------------------
(***************************************************************************)
(* What both network tasks do with a command once it has been parsed       *)
(* (handle_api_command), and the rest of the firmware as they see it: the  *)
(* command queue and one slot of the profile cache.                        *)
(***************************************************************************)
EXTENDS Naturals, Sequences

CONSTANT QueueDepth  \* depth of COMMAND_QUEUE

ASSUME QueueAssumption == QueueDepth \in Nat \ {0}

VARIABLES
    queue,  \* COMMAND_QUEUE
    slot    \* does the profile slot that clients name hold a profile?

shared == <<queue, slot>>

\* A command that is forwarded as it came, one that needs a profile from the
\* cache first, and one that is unknown or lacks the field it needs.
ApiCommand == {"plain", "run_slot", "bare"}

\* Mutant of Sent: the depth is not looked at.
SentAlways(q, cmd) == Append(q, cmd)

\* send_command: what does not fit is dropped.
Sent(q, cmd) == IF Len(q) < QueueDepth THEN Append(q, cmd) ELSE q

Forwarded(cmd) == cmd = "plain" \/ (cmd = "run_slot" /\ slot)

\* handle_api_command from its lookup on; it tells its caller nothing.
HandleCommand(cmd) ==
    /\ queue' = IF Forwarded(cmd) THEN Sent(queue, cmd) ELSE queue
    /\ UNCHANGED slot

\* The coordinator takes a command; a button sends one; a save fills or empties
\* the slot.
Firmware ==
    \/ queue # << >> /\ queue' = Tail(queue) /\ UNCHANGED slot
    \/ queue' = Sent(queue, "button") /\ UNCHANGED slot
    \/ slot' = ~slot /\ UNCHANGED queue

SharedInit == queue = << >> /\ slot \in BOOLEAN
=============================================================================
