--------------------------- MODULE MCFlashVersions ---------------------------
(***************************************************************************)
(* FlashVersions with two forms, while somebody brews.                     *)
(***************************************************************************)
EXTENDS MCFlashStore, FlashVersions
=============================================================================
