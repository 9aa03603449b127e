----------------------------- MODULE MCNovaHost -----------------------------
(* Values of NovaHost's constant for TLC.                                   *)
EXTENDS NovaHost
AllRenderers == {"none", "canvas", "gl"}
=============================================================================
