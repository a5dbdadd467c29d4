------------------------------ MODULE Defaults ------------------------------
(***************************************************************************)
(* The resource database of a display (xlib/xorg/GetDflt.c, Xrm.c): made   *)
(* by XGetDefault from the user's files, or set by the program.            *)
(***************************************************************************)
EXTENDS Naturals

CONSTANTS Own,          \* databases the program may make
          NoDatabase

ASSUME OwnAssumption == "implicit" \notin Own \cup {NoDatabase} /\ NoDatabase \notin Own

VARIABLES rmdb,         \* display->db: NoDatabase, "implicit" or one of Own
          dfltRMDB,     \* XlibDisplayDfltRMDB of display->flags
          made,         \* the databases that exist
          missed,       \* history: XGetDefault found no files
          lost          \* history: what of Own the library destroyed

defaultsVars == <<rmdb, dfltRMDB, made, missed, lost>>

(* InitDefaults: there is a database if the user has any such file.  The   *)
(* flag is set in both cases.                                              *)
XGetDefault(found) ==
  /\ rmdb = NoDatabase
  /\ rmdb' = IF found THEN "implicit" ELSE NoDatabase
  /\ made' = IF found THEN made \cup {"implicit"} ELSE made
  /\ dfltRMDB' = TRUE
  /\ missed' = (missed \/ ~found)
  /\ UNCHANGED lost

(* Mutant: what was set before is destroyed in any case.                   *)
XrmSetDatabaseAnew(d) ==
  /\ d \in (made \cap Own) \cup {NoDatabase}
  /\ IF rmdb # NoDatabase
     THEN made' = made \ {rmdb} /\ dfltRMDB' = FALSE /\ lost' = lost \cup ({rmdb} \cap Own)
     ELSE UNCHANGED <<made, dfltRMDB, lost>>
  /\ rmdb' = d
  /\ UNCHANGED missed

XrmSetDatabase(d) ==
  /\ d \in (made \cap Own) \cup {NoDatabase}
  /\ IF rmdb # NoDatabase /\ dfltRMDB
     THEN made' = made \ {rmdb} /\ dfltRMDB' = FALSE /\ lost' = lost \cup ({rmdb} \cap Own)
     ELSE UNCHANGED <<made, dfltRMDB, lost>>
  /\ rmdb' = d
  /\ UNCHANGED missed

(* The program makes and destroys databases of its own, which it does not  *)
(* destroy while the display has them.                                     *)
Make(d) ==
  /\ d \in Own \ (made \cup lost)
  /\ made' = made \cup {d}
  /\ UNCHANGED <<rmdb, dfltRMDB, missed, lost>>
Destroy(d) ==
  /\ d \in (made \cap Own) \ {rmdb}
  /\ made' = made \ {d}
  /\ UNCHANGED <<rmdb, dfltRMDB, missed, lost>>

DefaultsInit ==
  rmdb = NoDatabase /\ dfltRMDB = FALSE /\ made = {} /\ missed = FALSE /\ lost = {}

DefaultsNext ==
  \/ \E found \in BOOLEAN : XGetDefault(found)
  \/ \E d \in Own \cup {NoDatabase} : XrmSetDatabase(d)
  \/ \E d \in Own : Make(d) \/ Destroy(d)

DefaultsSpec == DefaultsInit /\ [][DefaultsNext]_defaultsVars

-----------------------------------------------------------------------------
(* XrmSetDatabase destroys a database "if set up implicitly by              *)
(* XGetDefault()" (Xrm.c:351) and no other: what the program made stays     *)
(* until the program destroys it, and the implicit one does not stay        *)
(* without the display.  But after XGetDefault has found no files the next  *)
(* database is taken for an implicit one, whose it is (GetDflt.c:216).      *)
OwnDatabasesStay == ~missed => /\ lost = {}
                               /\ ("implicit" \in made) <=> (rmdb = "implicit")
=============================================================================
