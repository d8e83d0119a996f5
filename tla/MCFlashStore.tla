---------------------------- MODULE MCFlashStore ----------------------------
(***************************************************************************)
(* Small instances of FlashStore: which forms of the page are in use, while *)
(* somebody brews.  Section contents are versions, so that old and new can *)
(* be told apart.                                                          *)
(***************************************************************************)
EXTENDS FlashStore, TLC

CONSTANT empty

Shot       == <<"Pressure">>
MCProfiles == {Shot}
MCStored   == [s \in {0} |-> empty]

Plain(k)   == [kind |-> k]
Brewing    == {Plain("Brew"), Plain("Stop")}

SaveMachine(v) == [kind |-> "SaveMachine", edit |-> ("machine" :> v)]
SaveWifi(v)    == [kind |-> "SaveWifi", edit |-> ("wifi" :> v)]
SaveAllPids(v) == [kind |-> "SavePids", edit |-> [s \in {"temp_pid", "press_pid", "flow_pid"} |-> v]]

\* One settings form, changed back and forth.
MachineForm == {SaveMachine(v) : v \in Values} \cup Brewing

\* One profile slot, stored and emptied.
ProfileForm ==
    {[kind |-> "SaveProfile", slot |-> 0, profile |-> Shot], [kind |-> "DeleteProfile", slot |-> 0]}
        \cup Brewing

\* Either, but not in the same behaviour.
OneForm == MachineForm \cup ProfileForm

\* Two forms saved one after the other.
TwoForms == {SaveMachine(1), SaveWifi(1)}

\* Every version of two forms.
Versions == {SaveMachine(v) : v \in Values} \cup {SaveAllPids(v) : v \in Values} \cup Brewing
=============================================================================
