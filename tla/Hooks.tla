------------------------------- MODULE Hooks -------------------------------
(***************************************************************************)
(* What windows are told by their hooks, what their BWindows are told by   *)
(* the client, and what the clipboard is.  These parts share no state: one *)
(* of them is used in each behaviour.                                      *)
(***************************************************************************)
EXTENDS Geometry, Hints, Keyboard, Selection, Input

VARIABLE part           \* the part that is used

Init ==
  /\ part \in {"geometry", "hints", "buttons", "keys", "selection", "input"}
  /\ GeometryInit /\ HintsInit /\ KeyboardInit /\ SelectionInit /\ InputInit
  /\ part # "geometry" => ~top /\ base = CHOOSE size \in Sizes : TRUE
  /\ part # "buttons" => selects = {}

Next ==
  /\ UNCHANGED part
  /\ \/ /\ part = "geometry" /\ GeometryNext
        /\ UNCHANGED <<hintVars, buttonVars, selectionVars, inputVars>>
     \/ /\ part = "hints" /\ HintsNext
        /\ UNCHANGED <<geometryVars, buttonVars, selectionVars, inputVars>>
     \/ /\ part = "buttons" /\ KeyboardNext
        /\ UNCHANGED <<geometryVars, hintVars, selectionVars, inputVars>>
     \/ /\ part = "selection" /\ SelectionNext
        /\ UNCHANGED <<geometryVars, hintVars, buttonVars, inputVars>>
     \/ /\ part = "input" /\ InputNext
        /\ UNCHANGED <<geometryVars, hintVars, buttonVars, selectionVars>>

Spec == Init /\ [][Next]_<<part, geometryVars, hintVars, buttonVars, selectionVars, inputVars>>

-----------------------------------------------------------------------------
(* The values of the parts' variables: that limits are in order is for the *)
(* sake of the BWindow, which does not look.                               *)
TypeOK ==
  GeometryTypeOK /\ HintsTypeOK /\ KeyboardTypeOK /\ SelectionTypeOK /\ InputTypeOK

(* Keys are the same to those that ask for codes, symbols, modifiers or    *)
(* text.                                                                   *)
KeysAreKept == part = "keys" => KeysAgree /\ TextIsTyped /\ ReleasesFollow
=============================================================================
