----------------------------- MODULE MCNovaIpc -----------------------------
(* Values of NovaIpc's constants for TLC.                                   *)
EXTENDS NovaIpc, TLC
\* The handlers of nova-daemon return 0 or -1.
DaemonRcs == {0, -1}
FailOnly == {-1}
Symmetry == Permutations(Conns)
=============================================================================
