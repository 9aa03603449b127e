--------------------------- MODULE MCNovaNatives ----------------------------
(* NovaNatives with bounds for TLC.  Bytes have four values and lengths two  *)
(* bytes, so that lengths wrap at 16; canvases have two places for levels,    *)
(* the property table two rows.                                           *)
EXTENDS NovaNatives

MCContents == {<<>>, <<2, 3, 1>>}
MCSeed == <<<<"a", "1">>>>
=============================================================================
