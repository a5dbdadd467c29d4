-------------------------------- MODULE Stores --------------------------------
(***************************************************************************)
(* What callers store with the library and find again: pointers in a table *)
(* of contexts, and the resource database of a display.                    *)
(***************************************************************************)
EXTENDS Contexts, Defaults

(* What one caller stored stays its own: the values of a context table are *)
(* found through its growth, and a database that the program gave away is  *)
(* not destroyed with the one of the defaults.                             *)
OwnEntriesStay == FindsWhatWasSaved /\ OwnDatabasesStay
=============================================================================
