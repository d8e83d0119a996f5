---------------------------- MODULE FlashVersions ----------------------------
(***************************************************************************)
(* FlashStore with settings forms that carry ever newer versions, so that  *)
(* old and new can be told apart wherever they are: in the queue, held     *)
(* back, in RAM, in the signal, in the flash task's hand or in flash.      *)
(***************************************************************************)
EXTENDS FlashStore

VersionOf(cmd) == CHOOSE v \in Values : \E s \in DOMAIN cmd.edit : cmd.edit[s] = v

ASSUME VersionsAssumption ==
    /\ Values \subseteq Nat
    /\ \A c \in Offered : c.kind \in SettingsSaves => \A s \in DOMAIN c.edit : c.edit[s] = VersionOf(c)

VARIABLE newest  \* history: the newest version sent

versionVars == <<storeVars, newest>>

\* A form is only ever sent with the next version.
SendNewer ==
    \E cmd \in Offered :
        /\ cmd.kind \in SettingsSaves => VersionOf(cmd) = newest + 1
        /\ newest' = IF cmd.kind \in SettingsSaves THEN newest + 1 ELSE newest
        /\ Elsewhere(Send(cmd))

Everything == FlashTask \/ PowerCycle \/ Elsewhere(Housekeeping \/ Coordinate \/ Operate)

VersionInit == StoreInit /\ newest = Initial

VersionNext == SendNewer \/ (Everything /\ UNCHANGED newest)

VersionSpec == VersionInit /\ [][VersionNext]_versionVars

-----------------------------------------------------------------------------
(* Properties *)

\* However updates are held, overwritten in the signal, lost to an error or to
\* a power cut, a key in flash is never overwritten with an older version
\* (flash_update_task writes the copy it took, not the one in RAM).
NoStaleWrite == [][\A s \in Sections : storedSettings'[s] >= storedSettings[s]]_versionVars

\* Flash never knows more than RAM: no power cut brings back a setting that the
\* machine has not been running with (edit_settings before the signal).
FlashNeverAhead == \A s \in Sections : storedSettings[s] <= settings[s]
=============================================================================
