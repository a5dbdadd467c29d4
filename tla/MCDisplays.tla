----------------------------- MODULE MCDisplays -----------------------------
(* Displays with two displays, a window and an extension of each.          *)
EXTENDS Displays

CONSTANTS d1, d2, a, b, x, y

MCDisplayOf == [w \in {a, b} |-> IF w = a THEN d1 ELSE d2]
MCExtensionOf == [e \in {x, y} |-> IF e = x THEN d1 ELSE d2]
=============================================================================
