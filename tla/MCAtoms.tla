------------------------------- MODULE MCAtoms -------------------------------
(* Atoms with two predefined names and two that callers intern.            *)
EXTENDS Atoms, TLC

CONSTANTS no_atom, primary, a, b

MCNames == {no_atom, primary, a, b}
MCPredefined == (no_atom :> 0) @@ (primary :> 1) @@ (a :> Absent) @@ (b :> Absent)
=============================================================================
