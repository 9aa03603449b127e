----------------------------- MODULE NovaCanvas -----------------------------
(***************************************************************************)
(* Translation, clip and save levels of a software canvas: softgfx.c as       *)
(* Canvas.java calls it.                                                    *)
(*                                                                          *)
(* One axis: the code treats x and y alike.  Coordinates are whole numbers,  *)
(* so clamp_floor and clamp_ceil are the clamping they do.                   *)
(***************************************************************************)
EXTENDS Integers, Sequences, SequencesExt

CONSTANTS
  Levels,    \* save levels that are stored: 32 in the code
  MaxDepth,  \* bound on save_depth
  Coords,    \* edges of clip rectangles
  Shifts,    \* translations
  MaxShift,  \* bound on their sum
  Widths     \* widths of bitmaps; 0 stands for no bitmap

VARIABLES
  width,  \* of the bitmap, 0 without one
  state,  \* translation and clip
  depth,  \* save_depth
  saved,  \* the stored levels
  ideal,  \* what each level a caller has open was saved with, while not skewed
  skewed  \* restoreToCount was asked for more than one level, and gave one

vars == <<width, state, depth, saved, ideal, skewed>>

Whole(w) == [shift |-> 0, left |-> 0, right |-> w]
\* nova_canvas_create clears the canvas.
Init ==
  /\ width \in Widths /\ state = Whole(width) /\ depth = 1
  /\ saved = [i \in 1..Levels |-> Whole(0)] /\ ideal = <<>> /\ skewed = FALSE

Clamp(v, lo, hi) == IF v < lo THEN lo ELSE IF v > hi THEN hi ELSE v

\* setBitmap: the clip is the whole bitmap, saved levels stay.
SetBitmap(w) ==
  /\ width' = w /\ state' = [state EXCEPT !.left = 0, !.right = w]
  /\ UNCHANGED <<depth, saved, ideal, skewed>>

\* Mutant: every level has one place more than there are.
MutantSave ==
  /\ depth < MaxDepth /\ depth' = depth + 1
  /\ saved' = [saved EXCEPT ![IF depth <= Levels THEN depth ELSE Levels] = state]
  /\ ideal' = (IF skewed THEN <<>> ELSE Append(ideal, state)) /\ UNCHANGED <<width, state, skewed>>

\* save and the saveLayer methods, which give no layer; a level without a place
\* is counted only.
Save ==
  /\ depth < MaxDepth /\ depth' = depth + 1
  /\ saved' = IF depth <= Levels THEN [saved EXCEPT ![depth] = state] ELSE saved
  /\ ideal' = (IF skewed THEN <<>> ELSE Append(ideal, state)) /\ UNCHANGED <<width, state, skewed>>

\* nova_canvas_restore; the first level is never left.
NativeRestore ==
  /\ depth > 1 /\ depth' = depth - 1
  /\ state' = IF depth' <= Levels THEN saved[depth'] ELSE state
  /\ ideal' = (IF skewed' THEN <<>> ELSE Front(ideal)) /\ UNCHANGED <<width, saved>>

Restore == UNCHANGED skewed /\ NativeRestore

\* restoreToCount of a count that a save has returned: one restore, whatever
\* the count.
RestoreToCount(count) == skewed' = (skewed \/ count # depth) /\ NativeRestore

Translate(d) ==
  /\ state.shift + d \in (-MaxShift)..MaxShift /\ state' = [state EXCEPT !.shift = @ + d]
  /\ UNCHANGED <<width, depth, saved, ideal, skewed>>

\* clipRect: the rectangle, turned around if need be, moved and cut to the
\* bitmap, then cut with the clip; an empty clip is put at its right end.
ClipRect(a, b) ==
  LET lo == Clamp((IF b < a THEN b ELSE a) + state.shift, 0, width)
      hi == Clamp((IF b < a THEN a ELSE b) + state.shift, 0, width)
      left == IF lo > state.left THEN lo ELSE state.left
      right == IF hi < state.right THEN hi ELSE state.right
  IN
  /\ width # 0
  /\ state' = [state EXCEPT !.left = IF left > right THEN right ELSE left, !.right = right]
  /\ UNCHANGED <<width, depth, saved, ideal, skewed>>

Next ==
  \/ \E w \in Widths : SetBitmap(w)
  \/ Save \/ Restore \/ \E count \in 2..depth : RestoreToCount(count)
  \/ \E d \in Shifts : Translate(d)
  \/ \E a, b \in Coords : ClipRect(a, b)

Spec == Init /\ [][Next]_vars

-----------------------------------------------------------------------------
(* Properties.                                                              *)

\* A restore to a level that has a place brings back the state that level was
\* saved with, also after deeper levels that have none were opened and closed,
\* as long as restoreToCount closes one level at a time, as View.draw does with
\* an onDraw that closes what it opens.
RestoreBringsBack ==
  [][depth' < depth /\ depth' <= Levels /\ ~skewed' => state' = ideal[depth']]_vars
=============================================================================
