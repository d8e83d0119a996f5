----------------------- MODULE CoordinatorProperties -----------------------
(***************************************************************************)
(* What Coordinator is for: safety invariants, the contract it implements, *)
(* and what it must eventually do.                                         *)
(***************************************************************************)
EXTENDS Coordinator

-----------------------------------------------------------------------------
(* The contract, in terms of what was last signalled: nothing yet means the  *)
(* control loop's initial values, an idle pump and the brew temperature.     *)

Pump       == IF sigPump = "None" THEN "Idle" ELSE sigPump
Heater     == IF sigTemp.mode = "None" THEN "Brew" ELSE sigTemp.mode
BrewActive == sigBrew = "on"

Contract == INSTANCE Machine WITH mode <- state, pump <- Pump, heater <- Heater

-----------------------------------------------------------------------------
(* Safety *)

\* The machine shows a busy state exactly while the operation that serves that
\* state is in the coordinator's slot, across natural ends, cancellations, the
\* two replacements out of Steaming and a sleeping or waking machine
\* (handle_command, coordinator_task).
OperationServesState ==
    IF op.kind = "None" THEN ~Busy ELSE state = StateOf(op.kind)

\* What an operation that is abandoned at any point leaves behind: the valve
\* is open, the pump told to run and the brew boost armed only on behalf of
\* the operation that asked for them (SolenoidGuard, PumpGuard,
\* BrewActiveGuard).
ActuatorsFollowOperation ==
    /\ valve = (op.kind # "None" /\ OpensValve(op.kind))
    /\ Pump \in Contract!PumpModesOf(state)
    /\ Pump # "Idle" => op.engaged
    /\ BrewActive = (op.kind = "Profile")

\* The setpoint last signalled is the one the state implies, and a brew
\* setpoint follows the session temperature, through every transition and
\* through session changes made while steaming or asleep (enter, target_for,
\* apply_ambient).
SetpointFollowsState ==
    pc # "boot" => sigTemp = Target(TargetFor(state), session)

\* A save is never applied while an operation runs: not when it arrives, not
\* when the held one is released, not when the next operation follows at once;
\* and none is held longer than that (serve, coordinator_task).
SavesWaitForIdle ==
    /\ pc \in {"apply", "commit"} => ~Busy
    /\ pending # Nothing => Busy

\* How the coordinator's suspension points, its one operation slot and its
\* save slots hang together: what the invariants above need to be inductive.
\* Only the select lets an operation live; a completed future, the steps left
\* and the guards taken belong to the operation that is in the slot.
SlotsConsistent ==
    /\ pc # "select" => op.kind = "None"
    /\ pc \in {"boot", "lookup", "sleep"} => state = "Idle"
    /\ pc = "boot" => pending = Nothing /\ sigTemp = NoTarget
    /\ pc \in {"apply", "commit"} => inHand # Nothing
    /\ due => op.engaged
    /\ op.steps # << >> => op.kind = "Profile"
    /\ IF op.engaged THEN op.kind # "None" ELSE op.kind \in {"None", "CooldownFlush"}

-----------------------------------------------------------------------------
(* Keeping the contract *)

\* The coordinator, its operations and its guards together never take the
\* machine through a mode change, or drive an actuator in a mode, that the
\* contract does not allow (coordinator_task against Machine).
KeepsContract == Contract!MachineSafety

\* And every operation ends: no sequence of commands keeps the machine in busy
\* states for ever (the safety ceilings of operations.rs).
KeepsWholeContract == Contract!MachineSpec

-----------------------------------------------------------------------------
(* Liveness *)

\* A stop that reached the queue stops the machine, whatever is queued before
\* it, and even if the running operation would never end by itself
\* (next_command, the busy arm of handle_command).
StopQueued == \E i \in 1 .. Len(queue) : queue[i].kind = "Stop"
StopIsServed == StopQueued ~> ~Busy

\* A save held back during an operation reaches RAM and the flash task, unless
\* a newer one takes its place (the pending slot of coordinator_task).
HeldSaveApplied == \A c \in Offered : pending = c ~> (inHand = c \/ pending \notin {c, Nothing})
=============================================================================
