-------------------------------- MODULE Atoms --------------------------------
(***************************************************************************)
(* The atom table (xlib/Atom.cpp): one per process, shared by every        *)
(* display and thread, guarded by a readers-writer lock.  XInternAtom      *)
(* looks a name up under the read lock, lets go of it, and inserts under   *)
(* the write lock, so other threads run between the two.                   *)
(*                                                                         *)
(* The lock is kept explicitly, because XInternAtom calls itself while it  *)
(* holds the write lock.                                                   *)
(***************************************************************************)
EXTENDS Integers

CONSTANTS
  Threads,       \* threads of the application
  Names,         \* atom names
  Predefined,    \* the names _x_init_atoms inserts, with their ids
  NoAtom,        \* xa_names[0], by which _x_init_atoms knows it already ran
  FirstAtomID    \* the initial value of sNextAtomID

Absent == -1     \* the id of an AtomEntry that is in no table
None == 0

(* ROUNDUP(_predefined_atom_count + 1, 1000) lies above every predefined   *)
(* id, and the first of them is NO_ATOM with id 0.                         *)
ASSUME PredefinedAssumption ==
  /\ FirstAtomID \in Nat \ {0}
  /\ Predefined \in [Names -> {Absent} \cup 0..(FirstAtomID - 1)]
  /\ \A m, n \in Names : Predefined[m] = Predefined[n] /\ Predefined[m] # Absent => m = n
  /\ NoAtom \in Names /\ Predefined[NoAtom] = None
ASSUME NamesAssumption == None \notin Names

VARIABLES
  atoms,         \* sAtoms: the id of each name, or Absent
  nextAtomID,    \* sNextAtomID
  readers,       \* threads holding sAtomsLock for reading
  writers,       \* the thread holding it for writing, if any
  pc,            \* what each thread is about to do
  call,          \* the call each thread is in
  answer,        \* what each thread's last call returned
  told           \* history: the atoms and names callers have been told go together

vars == <<atoms, nextAtomID, readers, writers, pc, call, answer, told>>
table == <<atoms, nextAtomID>>

-----------------------------------------------------------------------------
Interns == [op : {"intern"}, name : Names, create : BOOLEAN]
Lookups == [op : {"lookup"}, id : Nat]
Setups == [op : {"setup"}]
Idle == [op |-> "idle"]

Told == [name : Names, id : Nat]

TypeOK ==
  /\ atoms \in [Names -> Nat \cup {Absent}]
  /\ nextAtomID \in Nat
  /\ readers \subseteq Threads
  /\ writers \subseteq Threads
  /\ pc \in [Threads -> {"idle", "rdlock", "find", "wrlock", "recheck"}]
  /\ call \in [Threads -> Interns \cup Lookups \cup Setups \cup {Idle}]
  /\ answer \in [Threads -> Nat \cup Names]
  /\ told \subseteq Told

Init ==
  /\ atoms = [n \in Names |-> Absent]
  /\ nextAtomID = FirstAtomID
  /\ readers = {}
  /\ writers = {}
  /\ pc = [t \in Threads |-> "idle"]
  /\ call = [t \in Threads |-> Idle]
  /\ answer = [t \in Threads |-> None]
  /\ told = {}

-----------------------------------------------------------------------------
(* A call starts by asking for the lock.  There is a display, and so the   *)
(* predefined atoms, before anything but XOpenDisplay is called.           *)
Start(t, request, lock) ==
  /\ pc[t] = "idle"
  /\ pc' = [pc EXCEPT ![t] = lock]
  /\ call' = [call EXCEPT ![t] = request]
  /\ UNCHANGED <<table, readers, writers, answer, told>>

XInternAtom(t) ==
  /\ atoms[NoAtom] # Absent
  /\ \E name \in Names, onlyIfExists \in BOOLEAN :
       Start(t, [op |-> "intern", name |-> name, create |-> ~onlyIfExists], "rdlock")

(* The id is one a caller can have: it was told it, or it is None.         *)
XGetAtomName(t) ==
  /\ atoms[NoAtom] # Absent
  /\ \E id \in {None} \cup {a.id : a \in told} : Start(t, [op |-> "lookup", id |-> id], "rdlock")

XOpenDisplay(t) == Start(t, [op |-> "setup"], "wrlock")

(* Return a value to the caller and let go of the lock, whichever way it   *)
(* was held.                                                               *)
Return(t, value) ==
  /\ answer' = [answer EXCEPT ![t] = value]
  /\ pc' = [pc EXCEPT ![t] = "idle"]
  /\ call' = [call EXCEPT ![t] = Idle]
  /\ readers' = readers \ {t}
  /\ writers' = writers \ {t}

Tell(name, id) == told' = told \cup {[name |-> name, id |-> id]}

-----------------------------------------------------------------------------
ReadLock(t) ==
  /\ pc[t] = "rdlock"
  /\ writers = {}
  /\ readers' = readers \cup {t}
  /\ pc' = [pc EXCEPT ![t] = "find"]
  /\ UNCHANGED <<table, writers, call, answer, told>>

WriteLock(t) ==
  /\ pc[t] = "wrlock"
  /\ writers = {} /\ readers = {}
  /\ writers' = {t}
  /\ pc' = [pc EXCEPT ![t] = "recheck"]
  /\ UNCHANGED <<table, readers, call, answer, told>>

(* XInternAtom under the read lock: the name is there...                   *)
Find(t) ==
  /\ pc[t] = "find" /\ call[t] \in Interns
  /\ atoms[call[t].name] # Absent
  /\ Return(t, atoms[call[t].name])
  /\ Tell(call[t].name, atoms[call[t].name])
  /\ UNCHANGED table

(* Mutant: the early return keeps the read lock.                           *)
FindNoneLocked(t) ==
  /\ pc[t] = "find" /\ call[t] \in Interns
  /\ atoms[call[t].name] = Absent /\ ~call[t].create
  /\ answer' = [answer EXCEPT ![t] = None]
  /\ pc' = [pc EXCEPT ![t] = "idle"]
  /\ call' = [call EXCEPT ![t] = Idle]
  /\ UNCHANGED <<table, readers, writers, told>>

(* ...or it is not, and the caller does not want it created...             *)
FindNone(t) ==
  /\ pc[t] = "find" /\ call[t] \in Interns
  /\ atoms[call[t].name] = Absent /\ ~call[t].create
  /\ Return(t, None)
  /\ UNCHANGED <<table, told>>

(* ...or does: the read lock is released before the write lock is taken.   *)
Upgrade(t) ==
  /\ pc[t] = "find" /\ call[t] \in Interns
  /\ atoms[call[t].name] = Absent /\ call[t].create
  /\ readers' = readers \ {t}
  /\ pc' = [pc EXCEPT ![t] = "wrlock"]
  /\ UNCHANGED <<table, writers, call, answer, told>>

(* Somebody inserted the name meanwhile: XInternAtom calls itself.  Its    *)
(* rdlock fails with EDEADLK, this thread being the writer, so the inner   *)
(* call finds the name under the write lock of the outer one.              *)
Recheck(t) ==
  /\ pc[t] = "recheck" /\ call[t] \in Interns
  /\ atoms[call[t].name] # Absent
  /\ Return(t, atoms[call[t].name])
  /\ Tell(call[t].name, atoms[call[t].name])
  /\ UNCHANGED table

(* Mutant: the counter is not advanced.                                    *)
InsertSameId(t) ==
  /\ pc[t] = "recheck" /\ call[t] \in Interns
  /\ atoms[call[t].name] = Absent
  /\ atoms' = [atoms EXCEPT ![call[t].name] = nextAtomID]
  /\ UNCHANGED nextAtomID
  /\ Return(t, nextAtomID)
  /\ Tell(call[t].name, nextAtomID)

Insert(t) ==
  /\ pc[t] = "recheck" /\ call[t] \in Interns
  /\ atoms[call[t].name] = Absent
  /\ atoms' = [atoms EXCEPT ![call[t].name] = nextAtomID]
  /\ nextAtomID' = nextAtomID + 1
  /\ Return(t, nextAtomID)
  /\ Tell(call[t].name, nextAtomID)

(* _x_init_atoms, once for the process however many displays are opened.   *)
InitAtoms(t) ==
  /\ pc[t] = "recheck" /\ call[t] \in Setups
  /\ atoms' = IF atoms[NoAtom] # Absent THEN atoms ELSE Predefined
  /\ Return(t, None)
  /\ UNCHANGED <<nextAtomID, told>>

(* XGetAtomName.  A predefined id is looked up in sPredefinedAtoms, any    *)
(* other by a search of sAtoms; no id lies between the two kinds.          *)
NameOf(id) ==
  {n \in Names : IF id < FirstAtomID THEN Predefined[n] = id ELSE atoms[n] = id}

GetName(t) ==
  /\ pc[t] = "find" /\ call[t] \in Lookups
  /\ \/ \E n \in NameOf(call[t].id) : Return(t, n) /\ Tell(n, call[t].id)
     \/ NameOf(call[t].id) = {} /\ Return(t, None) /\ UNCHANGED told
  /\ UNCHANGED table

-----------------------------------------------------------------------------
Step(t) ==
  \/ ReadLock(t) \/ WriteLock(t)
  \/ Find(t) \/ FindNone(t) \/ Upgrade(t) \/ Recheck(t) \/ Insert(t)
  \/ InitAtoms(t) \/ GetName(t)

Next == \E t \in Threads : XOpenDisplay(t) \/ XInternAtom(t) \/ XGetAtomName(t) \/ Step(t)

Spec == Init /\ [][Next]_vars

(* Threads are scheduled.  Nothing is assumed of the order in which the    *)
(* lock serves those that wait for it.                                     *)
Fairness == \A t \in Threads : WF_vars(Step(t))

FairSpec == Spec /\ Fairness
-----------------------------------------------------------------------------
(* Any two answers given by XInternAtom and XGetAtomName, to any threads   *)
(* at any times, agree: one atom for a name and one name for an atom.  Two *)
(* threads that miss the same name may not both insert it.                 *)
AnswersAgree ==
  \A a, b \in told : a.name = b.name <=> a.id = b.id

(* Seen by its callers the table is an Interner: each call looks up, or    *)
(* looks up and inserts, in one step, in spite of the two locks it takes.  *)
Interner == INSTANCE Interner WITH table <- atoms, asked <- call

IsAnInterner == Interner!Spec

(* No path through a call keeps the lock: every early return lets go of    *)
(* it, and a thread that calls itself while it is the writer gets through. *)
LockIsLetGo == \A t \in Threads : []<>(t \notin readers \cup writers)
=============================================================================
