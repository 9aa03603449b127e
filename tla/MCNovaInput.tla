---------------------------- MODULE MCNovaInput -----------------------------
(* NovaInput with bounds for TLC: a device may come and go once, and three   *)
(* events may be under way.                                                  *)
EXTENDS NovaInput
=============================================================================
