----------------------------- MODULE FlashStore -----------------------------
(***************************************************************************)
(* flash_update_task composed with the coordinator: settings and profiles  *)
(* reach flash through a signal with one slot, one key at a time, and what *)
(* flash holds is what the machine knows after its power has been cut.     *)
(*                                                                         *)
(* The map in flash (crate sequential-storage) is taken at its word: a key *)
(* is written or it is not.  A step ends where the task can yield: at its  *)
(* signal, at the watch on MachineState, and inside each access to flash.  *)
(***************************************************************************)
EXTENDS Coordinator

CONSTANTS
    MaxFailures,  \* bound on the writes that return an error
    MaxOutages    \* bound on the times the power is cut

ASSUME FlashAssumption == MaxFailures \in Nat /\ MaxOutages \in Nat

VARIABLES
    ftask,           \* where flash_update_task is suspended
    held,            \* `event`: the update taken from the signal
    todo,            \* the sections of it still to be written
    image,           \* the profile read back from RAM, to be stored
    storedSettings,  \* the sections in flash
    storedProfiles,  \* the profiles in flash
    failures,
    outages

flashTask == <<ftask, held, todo, image>>
stored    == <<storedSettings, storedProfiles>>
faults    == <<failures, outages>>
storeVars == <<vars, flashTask, stored, faults>>

-----------------------------------------------------------------------------
(* flash_update_task *)

\* Mutant of SectionsIn: the pressure gains are left out.
SectionsButPress(u) ==
    CASE u.kind = "SaveMachine" -> <<"machine">>
      [] u.kind = "SaveWifi"    -> <<"wifi">>
      [] u.kind = "SavePids"    ->
            IF "flow_pid" \in DOMAIN u.edit THEN <<"temp_pid", "flow_pid">> ELSE <<"temp_pid">>
      [] OTHER                  -> << >>

\* The sections an update writes, in their order.
SectionsIn(u) ==
    CASE u.kind = "SaveMachine" -> <<"machine">>
      [] u.kind = "SaveWifi"    -> <<"wifi">>
      [] u.kind = "SavePids"    ->
            IF "flow_pid" \in DOMAIN u.edit THEN <<"temp_pid", "press_pid", "flow_pid">>
                                            ELSE <<"temp_pid", "press_pid">>
      [] OTHER                  -> << >>

\* Mutant of TakeUpdate: an update that finds the machine busy is dropped.
TakeUpdateUnlessBusy ==
    /\ ftask = "wait"
    /\ sigFlash # Nothing
    /\ held' = sigFlash
    /\ todo' = IF Busy THEN << >> ELSE SectionsIn(sigFlash)
    /\ ftask' = IF Busy THEN "wait" ELSE "write"
    /\ sigFlash' = Nothing
    /\ UNCHANGED <<queue, pc, machine, pending, inHand, elapsed, session, volume, caches,
                   sigPump, sigBrew, sigTemp, image, stored, faults>>

\* The wait for the signal is over; the machine is looked at once.
TakeUpdate ==
    /\ ftask = "wait"
    /\ sigFlash # Nothing
    /\ held' = sigFlash
    /\ todo' = SectionsIn(sigFlash)
    /\ ftask' = IF Busy THEN "hold" ELSE "write"
    /\ sigFlash' = Nothing
    /\ UNCHANGED <<queue, pc, machine, pending, inHand, elapsed, session, volume, caches,
                   sigPump, sigBrew, sigTemp, image, stored, faults>>

\* The watch has fired and the machine is not busy when the task looks again.
HoldOver ==
    /\ ftask = "hold"
    /\ ~Busy
    /\ ftask' = "write"
    /\ UNCHANGED <<vars, held, todo, image, stored, faults>>

\* Mutant of StoreSection: the section takes the place of the whole store.
StoreSectionAlone ==
    /\ ftask = "write"
    /\ todo # << >>
    /\ storedSettings' = held.edit
    /\ UNCHANGED storedProfiles

\* save_section: one section of a settings save.
StoreSection ==
    /\ ftask = "write"
    /\ todo # << >>
    /\ storedSettings' = [storedSettings EXCEPT ![Head(todo)] = held.edit[Head(todo)]]
    /\ UNCHANGED storedProfiles

\* SaveProfile: the slot as RAM has it by now; nothing to do for an empty one.
ReadProfile ==
    /\ ftask = "write"
    /\ held.kind = "SaveProfile"
    /\ image' = IF held.slot \in Slots THEN profiles[held.slot] ELSE NoProfile
    /\ ftask' = IF image' = NoProfile THEN "wait" ELSE "store"
    /\ UNCHANGED <<vars, held, todo, stored, faults>>

StoreProfile ==
    /\ ftask = "store"
    /\ storedProfiles' = [storedProfiles EXCEPT ![held.slot] = image]
    /\ UNCHANGED storedSettings

\* Mutant of DropProfile: the slot after the one named.
DropNextProfile ==
    /\ ftask = "write"
    /\ held.kind = "DeleteProfile"
    /\ storedProfiles' = [s \in Slots |-> IF s = held.slot + 1 THEN NoProfile ELSE storedProfiles[s]]
    /\ UNCHANGED storedSettings

\* delete_profile_from_flash.
DropProfile ==
    /\ ftask = "write"
    /\ held.kind = "DeleteProfile"
    /\ storedProfiles' = [s \in Slots |-> IF s = held.slot THEN NoProfile ELSE storedProfiles[s]]
    /\ UNCHANGED storedSettings

Access == StoreSection \/ StoreProfile \/ DropProfile

\* One access to flash, and on to the next section or back to the signal.
Advance ==
    /\ todo' = IF todo = << >> THEN << >> ELSE Tail(todo)
    /\ ftask' = IF todo' = << >> THEN "wait" ELSE "write"
    /\ UNCHANGED <<vars, held, image, outages>>

Write == Access /\ Advance /\ UNCHANGED failures

\* The result of an access is discarded: an error leaves the key as it was.
WriteFails ==
    /\ failures < MaxFailures
    /\ failures' = failures + 1
    /\ \/ ftask = "write" /\ held.kind # "SaveProfile"
       \/ ftask = "store"
    /\ Advance
    /\ UNCHANGED stored

-----------------------------------------------------------------------------
(* Power *)

\* The power comes back: every task starts afresh, and main has loaded what
\* flash holds into RAM before it spawns them.
PowerCycle ==
    /\ outages < MaxOutages
    /\ outages' = outages + 1
    /\ settings' = storedSettings
    /\ control' = [s \in ControlSections |-> storedSettings[s]]
    /\ profiles' = storedProfiles
    /\ queue' = << >>
    /\ pc' = "boot"
    /\ state' = "Idle"
    /\ op' = NoOp
    /\ due' = FALSE
    /\ valve' = FALSE
    /\ pending' = Nothing
    /\ inHand' = Nothing
    /\ elapsed' = 0
    /\ session' = NoTemp
    /\ volume' = 0
    /\ sigPump' = "None"
    /\ sigBrew' = "None"
    /\ sigTemp' = NoTarget
    /\ sigFlash' = Nothing
    /\ ftask' = "wait"
    /\ held' = Nothing
    /\ todo' = << >>
    /\ image' = NoProfile
    /\ UNCHANGED <<stored, failures>>

-----------------------------------------------------------------------------
(* Specification *)

StoreInit ==
    /\ Init
    /\ ftask = "wait"
    /\ held = Nothing
    /\ todo = << >>
    /\ image = NoProfile
    /\ storedSettings = settings
    /\ storedProfiles = profiles
    /\ failures = 0
    /\ outages = 0

FlashTask == TakeUpdate \/ HoldOver \/ ReadProfile \/ Write \/ WriteFails

\* The other tasks' steps.
Elsewhere(A) == A /\ UNCHANGED <<flashTask, stored, faults>>

StoreNext == FlashTask \/ PowerCycle \/ Elsewhere(Next)

StoreFairness ==
    /\ WF_storeVars(FlashTask)
    /\ WF_storeVars(Elsewhere(Coordinate))
    /\ WF_storeVars(Elsewhere(Operate))

StoreSpec == StoreInit /\ [][StoreNext]_storeVars /\ StoreFairness

-----------------------------------------------------------------------------
(* Properties *)

StoreTypeOK ==
    /\ ftask \in {"wait", "hold", "write", "store"}
    /\ held \in SettingsCommand \cup [kind: ProfileSaves, slot: Nat] \cup {Nothing}
    /\ todo \in Seq(Sections)
    /\ image \in Profiles \cup {NoProfile}
    /\ storedSettings \in [Sections -> Values]
    /\ storedProfiles \in [Slots -> Profiles \cup {NoProfile}]
    /\ failures \in 0 .. MaxFailures
    /\ outages \in 0 .. MaxOutages

\* A gains form is stored whole: whenever the flash task is not in the middle
\* of writing one, the temperature and pressure gains in flash come from the
\* same form, as long as the power stays on and no write fails
\* (FlashUpdate::SavePids).
GainsStoredTogether ==
    (outages = 0 /\ failures = 0 /\ todo = << >>)
        => storedSettings["temp_pid"] = storedSettings["press_pid"]

\* coordinator.rs: "a mid-shot settings save is held until the shot ends rather
\* than stalling core0 on a flash erase".  Flash is not written while busy.
NoWriteWhileBusy == [][Write => ~Busy]_storeVars

\* test_web_api.py: "`save_machine` command should persist".  What a form put
\* into RAM, or a newer one in its place, reaches flash once the machine stays
\* out of its busy states (SIG_FLASH_UPDATE, flash_update_task).
Persists ==
    <>[]~Busy =>
        /\ \A s \in Sections, v \in Values :
               settings[s] = v ~> (storedSettings[s] = v \/ settings[s] # v)
        /\ \A s \in Slots, p \in Profiles \cup {NoProfile} :
               profiles[s] = p ~> (storedProfiles[s] = p \/ profiles[s] # p)
=============================================================================
