------------------------------- MODULE Interner -------------------------------
(***************************************************************************)
(* What a table that interns names promises its callers: every call takes  *)
(* effect at one instant between its start and its return, on one table    *)
(* that only grows and gives each name one identifier of its own.          *)
(***************************************************************************)
EXTENDS Integers

CONSTANTS
  Threads,
  Names,
  Absent,        \* in place of an identifier: the name is not in the table
  None,          \* the answer to a lookup that finds nothing
  Predefined     \* the table that setting up leaves behind

VARIABLES
  table,         \* the identifier of each name, or Absent
  asked,         \* the call each thread is in, or Idle
  answer         \* what each thread's last call returned

vars == <<table, asked, answer>>

Idle == [op |-> "idle"]
Setups == [op : {"setup"}]
Interns == [op : {"intern"}, name : Names, create : BOOLEAN]
Lookups == [op : {"lookup"}, id : Nat]

Ready == \E n \in Names : table[n] # Absent

Init ==
  /\ table = [n \in Names |-> Absent]
  /\ asked = [t \in Threads |-> Idle]
  /\ answer = [t \in Threads |-> None]

Ask(t) ==
  /\ asked[t] = Idle
  /\ asked'[t] \in Setups \cup IF Ready THEN Interns \cup Lookups ELSE {}
  /\ asked' = [asked EXCEPT ![t] = asked'[t]]
  /\ UNCHANGED <<table, answer>>

Return(t, value) ==
  /\ asked' = [asked EXCEPT ![t] = Idle]
  /\ answer' = [answer EXCEPT ![t] = value]

Setup(t) ==
  /\ asked[t] \in Setups
  /\ table' = IF Ready THEN table ELSE Predefined
  /\ Return(t, None)

Found(t) ==
  /\ asked[t] \in Interns
  /\ table[asked[t].name] # Absent
  /\ Return(t, table[asked[t].name])
  /\ UNCHANGED table

NotFound(t) ==
  /\ asked[t] \in Interns /\ ~asked[t].create
  /\ table[asked[t].name] = Absent
  /\ Return(t, None)
  /\ UNCHANGED table

(* The identifier of a new name is not None and nobody else's.             *)
Create(t) ==
  /\ asked[t] \in Interns /\ asked[t].create
  /\ table[asked[t].name] = Absent
  /\ answer'[t] \in Nat \ ({None} \cup {table[n] : n \in Names})
  /\ Return(t, answer'[t])
  /\ table' = [table EXCEPT ![asked[t].name] = answer'[t]]

NameOf(t) ==
  /\ asked[t] \in Lookups
  /\ \/ \E n \in Names : table[n] = asked[t].id /\ Return(t, n)
     \/ (\A n \in Names : table[n] # asked[t].id) /\ Return(t, None)
  /\ UNCHANGED table

Next == \E t \in Threads : Ask(t) \/ Setup(t) \/ Found(t) \/ NotFound(t) \/ Create(t) \/ NameOf(t)

Spec == Init /\ [][Next]_vars
=============================================================================
