------------------------------ MODULE MCDrawState ------------------------------
(* DrawState on a few graphics contexts and drawables.                     *)
EXTENDS DrawState, TLC

AnyId == Drawables \cup {NoDrawable}
NoId == {NoDrawable}

Symmetry == Permutations(GCs) \cup Permutations(Drawables)
=============================================================================
