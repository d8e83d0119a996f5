--------------------------- MODULE MCControlLoop ---------------------------
(***************************************************************************)
(* Small instances of ControlLoop: one commander, profiles that ramp from  *)
(* pressure to flow and back, and no settings forms.                       *)
(***************************************************************************)
EXTENDS ControlLoop, CoordinatorProperties

CONSTANTS v0, empty

MCProfiles == {<<"Pressure">>, <<"Flow", "Soak", "FlowPressure">>, <<"Flow", "DirectPump">>}
MCStandard == <<"Pressure">>
MCStored   == [s \in {0} |-> empty]

Plain(k) == [kind |-> k]

\* Shots, steam and hot water, a save that is held back, and stops.
StopCommands ==
    {Plain(k) : k \in {"Brew", "Steam", "Stop"}} \cup {[kind |-> "DeleteProfile", slot |-> 0]}

\* Every operation, every way out of it, and a session temperature.
LoopCommands ==
    {Plain(k) : k \in {"Brew", "Stop", "Steam", "Flush", "TogglePower"}}
        \cup {[kind |-> "RunProfile", profile |-> p] : p \in MCProfiles \ {MCStandard}}
        \cup {[kind |-> "SetSessionTemp", temp |-> 2]}

AllCommands == StopCommands \cup LoopCommands

\* Who is at the machine: somebody whose stop may have to get past what is
\* queued before it; or somebody who uses everything, one command at a time,
\* of which as many as one likes are sent and served between two ticks.
VARIABLE user

crewVars == <<user, allVars>>

Within ==
    /\ UNCHANGED user
    /\ \A i \in DOMAIN queue' : queue'[i] \in IF user = "hasty" THEN StopCommands ELSE LoopCommands
    /\ user = "thorough" => Len(queue') <= 1

CrewInit == LoopInit /\ user \in {"hasty", "thorough"}

CrewNext == LoopNext /\ Within

\* The coordinator and the loop keep running; operations may get nowhere.
CrewSpec ==
    /\ CrewInit
    /\ [][CrewNext]_crewVars
    /\ WF_allVars(Tick)
    /\ WF_allVars(Coordinate /\ Others)
=============================================================================
