------------------------- MODULE CoordinatorHistory -------------------------
(***************************************************************************)
(* Coordinator with two history variables, for the properties that need to *)
(* remember something the code does not: the last save received, and how   *)
(* long nothing has happened.                                              *)
(***************************************************************************)
EXTENDS CoordinatorProperties

VARIABLES
    lastSave,  \* the most recent save the coordinator took from the queue
    quiet      \* housekeeping periods since a command or the end of an operation

history     == <<lastSave, quiet>>
historyVars == <<vars, history>>

Received == Len(queue') < Len(queue)

Remember ==
    /\ lastSave' = IF Received /\ Head(queue).kind \in SaveKinds THEN Head(queue) ELSE lastSave
    /\ quiet' = IF Received \/ (Busy /\ state' \notin BusyStates) THEN 0 ELSE quiet

\* A housekeeping tick is the passing of time.
Wait ==
    /\ Housekeeping
    /\ quiet' = IF quiet < SleepTimeout THEN quiet + 1 ELSE quiet
    /\ UNCHANGED lastSave

HistoryInit == Init /\ lastSave = Nothing /\ quiet = 0

HistoryNext ==
    \/ Wait
    \/ (\E cmd \in Offered : Send(cmd)) /\ UNCHANGED history
    \/ Pour /\ UNCHANGED history
    \/ Coordinate /\ Remember
    \/ Operate /\ Remember

HistorySpec == HistoryInit /\ [][HistoryNext]_historyVars

-----------------------------------------------------------------------------
(* Properties *)

\* The save is what both copies of the settings, or the profile slot, hold.
InControl(save) ==
    save.kind \in SettingsSaves =>
        \A s \in DOMAIN save.edit \cap ControlSections : control[s] = save.edit[s]

InCaches(save) ==
    CASE save.kind \in SettingsSaves -> \A s \in DOMAIN save.edit : settings[s] = save.edit[s]
      [] save.kind = "SaveProfile"   -> save.slot \in Slots => profiles[save.slot] = save.profile
      [] save.kind = "DeleteProfile" -> save.slot \in Slots => profiles[save.slot] = NoProfile

\* Whenever the machine is not busy and no save is in progress, the save
\* received last is in effect, in both copies of the settings, whatever was
\* held back or replaced while an operation ran: a held save is never applied
\* over a newer one (serve's pending slot, coordinator_task's outer loop).
LatestSaveInEffect ==
    (pc = "select" /\ ~Busy /\ lastSave # Nothing) => InControl(lastSave) /\ InCaches(lastSave)

\* The machine never falls asleep by itself before a full timeout has passed
\* since the last command and since the end of the last operation: a long
\* steam session is not followed by sleep straight away (the comment at the
\* top of coordinator_task's outer loop).
SleepsOnlyWhenQuiet ==
    [][(state = "Idle" /\ state' = "Sleeping" /\ ~Received) => quiet >= SleepTimeout]_historyVars
=============================================================================
