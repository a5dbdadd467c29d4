----------------------------- MODULE AtomsProofs -----------------------------
(***************************************************************************)
(* The atom table, for any number of threads and names: its answers agree, *)
(* and it implements an Interner.                                          *)
(***************************************************************************)
EXTENDS Atoms, TLAPS

(* The predefined atoms are inserted all together and first, and every     *)
(* later atom has an id from the counter, which has moved past it.  Callers*)
(* have been told what the table says.                                     *)
TableInv ==
  /\ nextAtomID >= FirstAtomID
  /\ \/ \A n \in Names : atoms[n] = Absent
     \/ \A n \in Names : \/ Predefined[n] # Absent /\ atoms[n] = Predefined[n]
                         \/ Predefined[n] = Absent /\ atoms[n] = Absent
                         \/ Predefined[n] = Absent /\ atoms[n] \in FirstAtomID..(nextAtomID - 1)
  /\ \A m, n \in Names : atoms[m] = atoms[n] /\ atoms[m] # Absent => m = n
  /\ \A a \in told : atoms[a.name] = a.id

(* A thread in a call has a display, and is after the write lock only to   *)
(* insert something.                                                       *)
CallInv ==
  \A t \in Threads :
    /\ pc[t] = "idle" => call[t] = Idle
    /\ call[t] \in Interns \cup Lookups => atoms[NoAtom] # Absent
    /\ pc[t] \in {"wrlock", "recheck"} /\ call[t] \in Interns => call[t].create

Inv == TypeOK /\ TableInv /\ CallInv

(* The predefined ids, the counter's ids and Absent do not meet.           *)
LEMMA Ids ==
  /\ Absent \notin Nat /\ FirstAtomID \in Nat \ {0}
  /\ \A n \in Names : Predefined[n] # Absent => Predefined[n] \in 0..(FirstAtomID - 1)
  /\ NoAtom \in Names /\ Predefined[NoAtom] # Absent /\ Predefined[NoAtom] = None
BY PredefinedAssumption DEF Absent, None

LEMMA InvInit == Init => Inv
<1> SUFFICES ASSUME Init PROVE Inv
  OBVIOUS
<1>1. TypeOK
  BY Ids DEF Init, TypeOK, None
<1>2. TableInv
  BY Ids DEF Init, TableInv
<1>3. CallInv
  BY DEF Init, CallInv, Idle, Interns, Lookups
<1> QED  BY <1>1, <1>2, <1>3 DEF Inv

(* A call to the table starts: only calls made with a display at hand look *)
(* at it.                                                                  *)
LEMMA StartKeepsInv ==
  ASSUME Inv, NEW t \in Threads, NEW lock \in {"rdlock", "wrlock"},
         NEW request \in Interns \cup Lookups \cup Setups,
         request \in Interns \cup Lookups => atoms[NoAtom] # Absent /\ lock = "rdlock",
         Start(t, request, lock)
  PROVE  Inv'
<1>1. TypeOK'
  BY DEF Inv, TypeOK, Start, table
<1>2. TableInv'
  BY DEF Inv, TableInv, Start, table
<1>3. CallInv'
  BY DEF Inv, TypeOK, CallInv, Start, table
<1> QED  BY <1>1, <1>2, <1>3 DEF Inv

(* A thread that returns is idle; the others are where they were.          *)
LEMMA ReturnKeepsCalls ==
  ASSUME TypeOK, CallInv, NEW t \in Threads, NEW value, Return(t, value),
         atoms[NoAtom] # Absent => atoms'[NoAtom] # Absent
  PROVE  CallInv'
<1>1. /\ pc'[t] = "idle" /\ call'[t] = Idle
      /\ \A s \in Threads : s # t => pc'[s] = pc[s] /\ call'[s] = call[s]
  BY DEF Return, TypeOK
<1>2. Idle \notin Interns \cup Lookups
  BY DEF Idle, Interns, Lookups
<1> QED  BY <1>1, <1>2 DEF CallInv

(* A step that leaves the table as it is and returns what the table says.  *)
LEMMA AnswerKeepsInv ==
  ASSUME Inv, NEW t \in Threads, NEW value \in Nat \cup Names, Return(t, value),
         UNCHANGED table,
         \/ UNCHANGED told
         \/ \E n \in Names : atoms[n] # Absent /\ Tell(n, atoms[n])
  PROVE  Inv'
<1>1. TypeOK'
  <2>1. \A n \in Names : atoms[n] # Absent => atoms[n] \in Nat  BY DEF Inv, TypeOK
  <2>2. told' \subseteq Told  BY <2>1 DEF Inv, TypeOK, Tell, Told
  <2> QED  BY <2>2 DEF Inv, TypeOK, Return, table
<1>2. \A a \in told' : atoms'[a.name] = a.id
  BY DEF Inv, TableInv, Tell, table
<1>3. CallInv'
  BY ReturnKeepsCalls DEF Inv, table
<1>4. TableInv'
  BY <1>2 DEF Inv, TableInv, table
<1> QED  BY <1>1, <1>3, <1>4 DEF Inv

(* Ids below the counter's first are those of the predefined names.        *)
LEMMA NameOfIs ==
  ASSUME Inv, atoms[NoAtom] # Absent, NEW id \in Nat
  PROVE  NameOf(id) = {n \in Names : atoms[n] = id}
<1>1. \A n \in Names : \/ Predefined[n] # Absent /\ atoms[n] = Predefined[n]
                       \/ Predefined[n] = Absent /\ atoms[n] = Absent
                       \/ Predefined[n] = Absent /\ atoms[n] \in FirstAtomID..(nextAtomID - 1)
  BY Ids DEF Inv, TableInv
<1>2. id < FirstAtomID => \A n \in Names : Predefined[n] = id <=> atoms[n] = id
  BY <1>1, Ids
<1> QED  BY <1>2 DEF NameOf

LEMMA InsertKeepsInv ==
  ASSUME Inv, NEW t \in Threads, Insert(t)
  PROVE  Inv'
<1> DEFINE name == call[t].name
<1>1. name \in Names /\ atoms[name] = Absent /\ nextAtomID \in Nat
  BY DEF Insert, Inv, TypeOK, Interns
<1>2. /\ atoms' = [atoms EXCEPT ![name] = nextAtomID] /\ nextAtomID' = nextAtomID + 1
      /\ Return(t, nextAtomID) /\ Tell(name, nextAtomID)
  BY DEF Insert
<1>3. atoms[NoAtom] # Absent
  BY DEF Insert, Inv, CallInv
<1> HIDE DEF name
<1>4. TypeOK'
  <2>1. atoms' \in [Names -> Nat \cup {Absent}]  BY <1>1, <1>2 DEF Inv, TypeOK
  <2>2. told' \subseteq Told  BY <1>1, <1>2 DEF Inv, TypeOK, Tell, Told
  <2> QED  BY <1>1, <1>2, <2>1, <2>2 DEF Inv, TypeOK, Return
<1>5. \A n \in Names : \/ Predefined[n] # Absent /\ atoms[n] = Predefined[n]
                       \/ Predefined[n] = Absent /\ atoms[n] = Absent
                       \/ Predefined[n] = Absent /\ atoms[n] \in FirstAtomID..(nextAtomID - 1)
  BY <1>3, Ids DEF Inv, TableInv
<1>6. nextAtomID >= FirstAtomID
  BY DEF Inv, TableInv
<1>7. \A n \in Names : atoms[n] # nextAtomID
  BY <1>1, <1>5, <1>6, Ids
<1>8. atoms' \in [Names -> Nat \cup {Absent}] /\ atoms'[name] = nextAtomID
      /\ \A n \in Names : n # name => atoms'[n] = atoms[n]
  BY <1>1, <1>2, <1>4 DEF TypeOK, Inv
<1>9. \A n \in Names : \/ Predefined[n] # Absent /\ atoms'[n] = Predefined[n]
                       \/ Predefined[n] = Absent /\ atoms'[n] = Absent
                       \/ Predefined[n] = Absent /\ atoms'[n] \in FirstAtomID..(nextAtomID' - 1)
  BY <1>1, <1>2, <1>5, <1>6, <1>8, Ids
<1>10. \A m, n \in Names : atoms'[m] = atoms'[n] /\ atoms'[m] # Absent => m = n
  BY <1>7, <1>8 DEF Inv, TableInv
<1>11. \A a \in told' : atoms'[a.name] = a.id
  <2>1. \A a \in told : a.name \in Names /\ a.name # name
    BY <1>1, Ids DEF Inv, TypeOK, TableInv, Told
  <2> QED  BY <1>2, <1>8, <2>1 DEF Inv, TableInv, Tell
<1>12. CallInv'
  BY <1>1, <1>2, <1>3, <1>8, Ids, ReturnKeepsCalls DEF Inv
<1>13. nextAtomID' >= FirstAtomID
  BY <1>1, <1>2, <1>6, Ids
<1> QED  BY <1>4, <1>9, <1>10, <1>11, <1>12, <1>13 DEF Inv, TableInv

LEMMA InitAtomsKeepsInv ==
  ASSUME Inv, NEW t \in Threads, InitAtoms(t)
  PROVE  Inv'
<1>1. Return(t, None) /\ UNCHANGED <<nextAtomID, told>>
  BY DEF InitAtoms
<1>2. CASE atoms[NoAtom] # Absent
  BY <1>1, <1>2, AnswerKeepsInv DEF InitAtoms, table, None
<1>3. CASE atoms[NoAtom] = Absent
  <2>1. atoms' = Predefined  BY <1>3 DEF InitAtoms
  <2>2. \A n \in Names : atoms[n] = Absent  BY <1>3, Ids DEF Inv, TableInv
  <2>3. told = {}
    <3>1. \A a \in told : a.name \in Names /\ a.id \in Nat  BY DEF Inv, TypeOK, Told
    <3> QED  BY <2>2, <3>1, Ids DEF Inv, TableInv
  <2>4. Predefined \in [Names -> Nat \cup {Absent}]
    BY PredefinedAssumption
  <2>5. TypeOK'  BY <1>1, <2>1, <2>4 DEF Inv, TypeOK, Return, None
  <2>6. /\ \A n \in Names : \/ Predefined[n] # Absent /\ atoms'[n] = Predefined[n]
                            \/ Predefined[n] = Absent /\ atoms'[n] = Absent
        /\ \A m, n \in Names : atoms'[m] = atoms'[n] /\ atoms'[m] # Absent => m = n
        /\ atoms'[NoAtom] # Absent
    BY <2>1, PredefinedAssumption, Ids
  <2>7. CallInv'  BY <1>1, <2>6, ReturnKeepsCalls DEF Inv
  <2>8. TableInv'  BY <1>1, <2>3, <2>6 DEF Inv, TableInv
  <2> QED  BY <2>5, <2>7, <2>8 DEF Inv
<1> QED  BY <1>2, <1>3

LEMMA InvStep == Inv /\ [Next]_vars => Inv'
<1> SUFFICES ASSUME Inv, [Next]_vars PROVE Inv'
  OBVIOUS
<1>1. ASSUME NEW t \in Threads, XOpenDisplay(t) PROVE Inv'
  <2>1. [op |-> "setup"] \in Setups /\ [op |-> "setup"] \notin Interns \cup Lookups
    BY DEF Setups, Interns, Lookups
  <2> QED  BY <1>1, <2>1, StartKeepsInv DEF XOpenDisplay
<1>2. ASSUME NEW t \in Threads, XInternAtom(t) PROVE Inv'
  BY <1>2, StartKeepsInv DEF XInternAtom, Interns
<1>3. ASSUME NEW t \in Threads, XGetAtomName(t) PROVE Inv'
  <2>1. \A a \in told : a.id \in Nat  BY DEF Inv, TypeOK, Told
  <2>2. \A id \in {None} \cup {a.id : a \in told} : [op |-> "lookup", id |-> id] \in Lookups
    BY <2>1 DEF None, Lookups
  <2> QED  BY <1>3, <2>2, StartKeepsInv DEF XGetAtomName
<1>4. ASSUME NEW t \in Threads, ReadLock(t) \/ WriteLock(t) \/ Upgrade(t) PROVE Inv'
  <2>1. TypeOK'  BY <1>4 DEF ReadLock, WriteLock, Upgrade, Inv, TypeOK, table
  <2>2. TableInv'  BY <1>4 DEF ReadLock, WriteLock, Upgrade, Inv, TableInv, table
  <2>3. CallInv'  BY <1>4 DEF ReadLock, WriteLock, Upgrade, Inv, TypeOK, CallInv, table
  <2> QED  BY <2>1, <2>2, <2>3 DEF Inv
<1>5. ASSUME NEW t \in Threads, Find(t) \/ Recheck(t) PROVE Inv'
  <2>1. call[t].name \in Names /\ atoms[call[t].name] # Absent
    BY <1>5 DEF Find, Recheck, Interns
  <2>2. atoms[call[t].name] \in Nat  BY <2>1 DEF Inv, TypeOK
  <2> QED  BY <1>5, <2>1, <2>2, AnswerKeepsInv DEF Find, Recheck
<1>6. ASSUME NEW t \in Threads, FindNone(t) PROVE Inv'
  BY <1>6, AnswerKeepsInv DEF FindNone, None, table
<1>7. ASSUME NEW t \in Threads, GetName(t) PROVE Inv'
  <2>1. call[t].id \in Nat /\ atoms[NoAtom] # Absent
    BY <1>7 DEF GetName, Lookups, Inv, CallInv
  <2>2. NameOf(call[t].id) = {n \in Names : atoms[n] = call[t].id}
    BY <2>1, NameOfIs
  <2>3. CASE \E n \in NameOf(call[t].id) : Return(t, n) /\ Tell(n, call[t].id)
    <3>1. PICK n \in Names : atoms[n] = call[t].id /\ Return(t, n) /\ Tell(n, atoms[n])
      BY <2>2, <2>3
    <3> QED  BY <1>7, <2>1, <3>1, Ids, AnswerKeepsInv DEF GetName
  <2>4. CASE Return(t, None) /\ UNCHANGED told
    BY <1>7, <2>4, AnswerKeepsInv DEF GetName, None
  <2> QED  BY <1>7, <2>3, <2>4 DEF GetName
<1>8. CASE UNCHANGED vars
  BY <1>8 DEF vars, table, Inv, TypeOK, TableInv, CallInv
<1> QED
  BY <1>1, <1>2, <1>3, <1>4, <1>5, <1>6, <1>7, <1>8, InsertKeepsInv, InitAtomsKeepsInv
     DEF Next, Step

LEMMA Invariant == Spec => []Inv
BY InvInit, InvStep, PTL DEF Spec

(* The table and the answers keep their types.                             *)
THEOREM TypeCorrect == Spec => []TypeOK
BY Invariant, PTL DEF Inv

(* Whatever threads miss the same name at the same time, one atom stands   *)
(* for it, and XGetAtomName gives the name back (XInternAtom looks again   *)
(* under the write lock).                                                  *)
THEOREM AtomsAgree == Spec => []AnswersAgree
<1>1. Inv => AnswersAgree
  <2> SUFFICES ASSUME Inv, NEW a \in told, NEW b \in told PROVE a.name = b.name <=> a.id = b.id
    BY DEF AnswersAgree
  <2>1. /\ a.name \in Names /\ a.id \in Nat /\ atoms[a.name] = a.id
        /\ b.name \in Names /\ b.id \in Nat /\ atoms[b.name] = b.id
    BY DEF Inv, TypeOK, TableInv, Told
  <2> QED  BY <2>1, Ids DEF Inv, TableInv
<1> QED  BY <1>1, Invariant, PTL

-----------------------------------------------------------------------------
(* The refinement.  Taking a lock and letting go of the read lock change   *)
(* nothing a caller sees; every other step of the code is one of the       *)
(* Interner's.                                                             *)

LEMMA SameReady == Inv => (Interner!Ready <=> atoms[NoAtom] # Absent)
BY Ids DEF Inv, TableInv, Interner!Ready

LEMMA InitImplements == Init => Interner!Init
BY DEF Init, Interner!Init, Idle, Interner!Idle

LEMMA StartImplements ==
  ASSUME Inv, NEW t \in Threads, NEW lock,
         NEW request \in Interns \cup Lookups \cup Setups,
         request \in Interns \cup Lookups => atoms[NoAtom] # Absent,
         Start(t, request, lock)
  PROVE  Interner!Ask(t)
<1>1. UNCHANGED <<atoms, answer>> /\ call' = [call EXCEPT ![t] = request] /\ call'[t] = request
  BY DEF Start, table, Inv, TypeOK
<1>2. call[t] = Idle
  BY DEF Start, Inv, CallInv
<1>3. Interner!Ready \/ request \in Setups
  BY SameReady
<1> QED
  BY <1>1, <1>2, <1>3
     DEF Interner!Ask, Idle, Interns, Lookups, Setups,
         Interner!Interns, Interner!Lookups, Interner!Setups, Interner!Idle

(* How a step that returns looks from outside.                             *)
LEMMA ReturnImplements ==
  ASSUME Inv, NEW t \in Threads, NEW value, Return(t, value)
  PROVE  Interner!Return(t, value) /\ answer'[t] = value
BY DEF Return, Interner!Return, Idle, Interner!Idle, Inv, TypeOK

LEMMA StepImplements == Inv /\ [Next]_vars => [Interner!Next]_(Interner!vars)
<1> SUFFICES ASSUME Inv, [Next]_vars PROVE Interner!Next \/ UNCHANGED Interner!vars
  OBVIOUS
<1> USE DEF Interner!Interns, Interner!Lookups, Interner!Setups, Interns, Lookups, Setups
<1>1. ASSUME NEW t \in Threads, XOpenDisplay(t) PROVE Interner!Next
  BY <1>1, StartImplements DEF XOpenDisplay, Interner!Next
<1>2. ASSUME NEW t \in Threads, XInternAtom(t) PROVE Interner!Next
  BY <1>2, StartImplements DEF XInternAtom, Interner!Next
<1>3. ASSUME NEW t \in Threads, XGetAtomName(t) PROVE Interner!Next
  <2>1. \A a \in told : a.id \in Nat  BY DEF Inv, TypeOK, Told
  <2>2. \A id \in {None} \cup {a.id : a \in told} : [op |-> "lookup", id |-> id] \in Lookups
    BY <2>1 DEF None
  <2> QED  BY <1>3, <2>2, StartImplements DEF XGetAtomName, Interner!Next
<1>4. ASSUME NEW t \in Threads, ReadLock(t) \/ WriteLock(t) \/ Upgrade(t)
      PROVE  UNCHANGED Interner!vars
  BY <1>4 DEF ReadLock, WriteLock, Upgrade, table, Interner!vars
<1>5. ASSUME NEW t \in Threads, Find(t) \/ Recheck(t) PROVE Interner!Found(t)
  BY <1>5, ReturnImplements DEF Find, Recheck, table, Interner!Found
<1>6. ASSUME NEW t \in Threads, FindNone(t) PROVE Interner!NotFound(t)
  BY <1>6, ReturnImplements DEF FindNone, table, Interner!NotFound
<1>7. ASSUME NEW t \in Threads, Insert(t) PROVE Interner!Create(t)
  <2>1. /\ call[t] \in Interns /\ atoms[call[t].name] = Absent
        /\ atoms' = [atoms EXCEPT ![call[t].name] = nextAtomID]
        /\ Interner!Return(t, nextAtomID) /\ answer'[t] = nextAtomID
    BY <1>7, ReturnImplements DEF Insert
  <2>2. call[t].create
    BY <1>7 DEF Insert, Inv, CallInv
  <2>3. nextAtomID \in Nat \ ({None} \cup {atoms[n] : n \in Names})
    <3>1. nextAtomID \in Nat /\ nextAtomID >= FirstAtomID /\ nextAtomID # None
      BY Ids DEF Inv, TypeOK, TableInv, None
    <3>2. atoms[NoAtom] # Absent  BY <2>1 DEF Inv, CallInv
    <3>3. \A n \in Names : atoms[n] # nextAtomID  BY <3>1, <3>2, Ids DEF Inv, TableInv
    <3> QED  BY <3>1, <3>3
  <2> QED  BY <2>1, <2>2, <2>3 DEF Interner!Create
<1>8. ASSUME NEW t \in Threads, InitAtoms(t) PROVE Interner!Setup(t)
  BY <1>8, ReturnImplements, SameReady DEF InitAtoms, Interner!Setup
<1>9. ASSUME NEW t \in Threads, GetName(t) PROVE Interner!NameOf(t)
  <2>1. call[t] \in Lookups /\ call[t].id \in Nat /\ atoms[NoAtom] # Absent /\ atoms' = atoms
    BY <1>9 DEF GetName, Inv, CallInv, table
  <2>2. NameOf(call[t].id) = {n \in Names : atoms[n] = call[t].id}
    BY <2>1, NameOfIs
  <2>3. CASE \E n \in NameOf(call[t].id) : Return(t, n) /\ Tell(n, call[t].id)
    BY <2>1, <2>2, <2>3, ReturnImplements DEF Interner!NameOf
  <2>4. CASE NameOf(call[t].id) = {} /\ Return(t, None) /\ UNCHANGED told
    BY <2>1, <2>2, <2>4, ReturnImplements DEF Interner!NameOf
  <2> QED  BY <1>9, <2>3, <2>4 DEF GetName
<1>10. CASE UNCHANGED vars
  BY <1>10 DEF vars, table, Interner!vars
<1> QED
  BY <1>1, <1>2, <1>3, <1>4, <1>5, <1>6, <1>7, <1>8, <1>9, <1>10 DEF Next, Step, Interner!Next

(* The atom table implements an Interner: to its callers each call is one  *)
(* atomic lookup, or lookup and insertion, although XInternAtom gives up   *)
(* the lock half way.                                                      *)
THEOREM AtomsImplementInterner == Spec => IsAnInterner
BY Invariant, InitImplements, StepImplements, PTL DEF Spec, IsAnInterner, Interner!Spec
=============================================================================
