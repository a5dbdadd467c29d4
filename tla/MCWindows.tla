------------------------------ MODULE MCWindows ------------------------------
(* Windows on a few windows.                                               *)
EXTENDS Windows

(* A window asks for all or for nothing: enough to tell the receivers of   *)
(* a notification apart.                                                   *)
AllOrNone == {{}, Selectable}
NoMasks == {{}}
=============================================================================
