------------------------------- MODULE Mailbox -------------------------------
(***************************************************************************)
(* What an input queue promises those that read it: every call takes       *)
(* effect at one instant, on one list of events.  A call is handed the     *)
(* first event that it asked for; one that does not wait comes back with   *)
(* nothing only if there is no such event at that instant; and nothing but *)
(* being asked for takes an event off the list.                            *)
(***************************************************************************)
EXTENDS Integers, SequencesExt

CONSTANTS Readers, Types

VARIABLES
  events,      \* the events there are, the next to be read first
  next,        \* the serial of the next event
  asked        \* what each reader has asked for, or Idle

vars == <<events, next, asked>>

Idle == [kind |-> "idle"]

(* One event, or with "all" one after another until there is none.         *)
Requests == [kind : {"one", "all"}, want : SUBSET Types, wait : BOOLEAN, dequeue : BOOLEAN]

AskedFor(c) == {i \in DOMAIN events : events[i].type \in asked[c].want}

Init ==
  /\ events = <<>>
  /\ next = 1
  /\ asked = [c \in Readers |-> Idle]

Put(type) ==
  /\ events' = Append(events, [serial |-> next, type |-> type, front |-> FALSE])
  /\ next' = next + 1
  /\ UNCHANGED asked

PutBack(type) ==
  /\ events' = <<[serial |-> next, type |-> type, front |-> TRUE]>> \o events
  /\ next' = next + 1
  /\ UNCHANGED asked

Ask(c) ==
  /\ asked[c] = Idle
  /\ asked'[c] \in Requests
  /\ asked' = [asked EXCEPT ![c] = asked'[c]]
  /\ UNCHANGED <<events, next>>

Return(c) == asked' = [asked EXCEPT ![c] = Idle]

HandOut(c) ==
  /\ asked[c] # Idle
  /\ \E i \in AskedFor(c) :
       /\ \A j \in AskedFor(c) : i <= j
       /\ events' = IF asked[c].dequeue THEN RemoveAt(events, i) ELSE events
  /\ IF asked[c].kind = "one" THEN Return(c) ELSE UNCHANGED asked
  /\ UNCHANGED next

NothingThere(c) ==
  /\ asked[c] # Idle
  /\ ~asked[c].wait
  /\ AskedFor(c) = {}
  /\ Return(c)
  /\ UNCHANGED <<events, next>>

Next ==
  \/ \E type \in Types : Put(type) \/ PutBack(type)
  \/ \E c \in Readers : Ask(c) \/ HandOut(c) \/ NothingThere(c)

Spec == Init /\ [][Next]_vars
=============================================================================
