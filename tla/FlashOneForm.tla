---------------------------- MODULE FlashOneForm ----------------------------
(***************************************************************************)
(* FlashStore with one form of the page in use, chosen at the start, while *)
(* anything else is pressed: the case in which no update can be replaced   *)
(* in the signal by one of another kind.                                   *)
(***************************************************************************)
EXTENDS FlashStore

CONSTANT Forms  \* the sets of commands of which one is in use in a behaviour

\* Two saves of one form: of the same sections, or of the same profile slot.
SameForm(c, d) ==
    \/ {c.kind, d.kind} \subseteq SettingsSaves /\ DOMAIN c.edit = DOMAIN d.edit
    \/ {c.kind, d.kind} \subseteq ProfileSaves /\ c.slot = d.slot

ASSUME FormsAssumption ==
    \A commands \in Forms :
        /\ commands \subseteq Offered
        /\ \A c, d \in commands : {c.kind, d.kind} \subseteq SaveKinds => SameForm(c, d)

VARIABLE form

formVars == <<storeVars, form>>

FormInit == StoreInit /\ form \in Forms

FormNext ==
    /\ \/ \E cmd \in form : Elsewhere(Send(cmd))
       \/ FlashTask \/ PowerCycle \/ Elsewhere(Housekeeping \/ Pour \/ Coordinate \/ Operate)
    /\ UNCHANGED form

FormSpec == FormInit /\ [][FormNext]_formVars /\ StoreFairness

-----------------------------------------------------------------------------
(* Properties *)

\* The flash task has nothing left to do, and nothing is on its way to it.
Settled == ftask = "wait" /\ sigFlash = Nothing /\ pc = "select" /\ pending = Nothing

\* When everything is at rest and no write has failed, what flash would bring
\* back after a power cut is what RAM holds (flash_update_task).
FlashMatchesRAM ==
    (Settled /\ failures = 0) => settings = storedSettings /\ profiles = storedProfiles
=============================================================================
