--------------------------- MODULE MCNovaLauncher ---------------------------
(* Values of NovaLauncher's constants for TLC.                              *)
EXTENDS NovaLauncher
CONSTANTS a1, a2, a3, a4
Four == {a1, a2, a3, a4}
App(c, f, wild) == [canvas |-> c, finishing |-> f, throws |-> wild, direct |-> wild]
\* An application whose first activity alone is drawn on a Canvas, and one of
\* Canvas activities, of which the first calls finish, and all may throw and start
\* each other while no guard is up.
TwoApps == {App({a1}, {}, FALSE), App(Four, {a1}, TRUE)}
CanvasApp == {App(Four, {}, FALSE)}
=============================================================================
