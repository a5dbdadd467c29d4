---------------------------- MODULE MCEventQueue ----------------------------
(* EventQueue on small sets of threads and event types.                    *)
EXTENDS EventQueue, TLC

CONSTANTS expose, key

MCTypes == {expose, key}

(* query is asked for one type or for the other; a want of all types       *)
(* behaves like the first and the second in turn.                          *)
MCWants == {{expose}, {key}}

(* Threads of a kind and event types are treated alike.                    *)
Symmetry == Permutations(Clients) \cup Permutations(Loopers) \cup Permutations(MCTypes)
=============================================================================
