------------------------------ MODULE MCHooks ------------------------------
(* Hooks on a few windows, keys and claimants.                             *)
EXTENDS Hooks

CONSTANTS u, v, x,      \* the windows of selections
          a, b, c, d1, d2    \* the windows of input, and their displays

(* A letter and its control character, a key of the table, two bytes of a  *)
(* character of UTF-8, and a zero, alone and in a text.                    *)
MCBytes == {<<97>>, <<1>>, <<27>>, <<195, 169>>, <<0>>, <<226, 0, 130, 172>>, <<127>>}

(* A window with text, one with none, one with text in pieces.             *)
MCOffers == [w \in {u, v, x} |->
               CASE w = u -> "text" [] w = v -> "none" [] w = x -> "INCR"]

(* Two BWindows of two displays, one of them with a child.                 *)
MCWindows == {a, b, c}
MCTop == [w \in MCWindows |-> IF w = c THEN a ELSE w]
MCDisplayOf == [w \in MCWindows |-> IF w = b THEN d2 ELSE d1]
MCMasks == {{}, {"LeaveWindow"}}
=============================================================================
