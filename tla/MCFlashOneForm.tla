--------------------------- MODULE MCFlashOneForm ---------------------------
(***************************************************************************)
(* Instances of FlashOneForm: the machine settings, or one profile slot.   *)
(***************************************************************************)
EXTENDS MCFlashStore, FlashOneForm

MCForms == {MachineForm, ProfileForm}
=============================================================================
