----------------------------- MODULE Saturating -----------------------------
(***************************************************************************)
(* Counters that stop at a limit: a full queue, a saturating sum, a bound. *)
(***************************************************************************)
EXTENDS Integers

AtMost(n, limit) == IF n < limit THEN n ELSE limit
=============================================================================
