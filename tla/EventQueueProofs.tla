--------------------------- MODULE EventQueueProofs ---------------------------
(***************************************************************************)
(* What EventQueue's runs check on a few threads, proved for any number of *)
(* clients and loopers, any types, any pipe and chunk size.                *)
(***************************************************************************)
EXTENDS EventQueue, SequenceLemmas, SequenceTheorems, TLAPS

(* What XFlush reads at a time is at least one byte and at most all.       *)
LEMMA ReadIs ==
  ASSUME NEW n \in Nat, NEW p \in Nat, NEW k \in Nat, n # 0, p # 0, k # 0
  PROVE  Min({n, k, p}) \in Nat /\ Min({n, k, p}) <= n /\ Min({n, k, p}) <= p
                                /\ Min({n, k, p}) >= 1
<1>1. \E x \in {n, k, p} : \A y \in {n, k, p} : x <= y
  OBVIOUS
<1>2. Min({n, k, p}) \in {n, k, p} /\ \A y \in {n, k, p} : Min({n, k, p}) <= y
  BY <1>1 DEF Min
<1> QED  BY <1>2

-----------------------------------------------------------------------------
(* The types of the values, and the count that goes with the list.         *)
TypeInv == TypeOK /\ qlen = Len(list)

LEMMA CallsAreCalls == Calls \subseteq Call /\ XEventsQueued \in Call /\ NoCall \in Call
<1>1. NoCall \in Call
  BY DEF NoCall, Call, Continuations
<1>2. \A want \in SUBSET Types, w, d \in BOOLEAN :
        /\ WaitForNext(d) \in Call
        /\ Query(want, w, d) \in Call
  BY DEF WaitForNext, Query, NoCall, Call, Continuations
<1>3. XFlush \in Call /\ XSyncDiscard \in Call /\ XEventsQueued \in Call
  BY DEF XFlush, XSyncDiscard, XEventsQueued, NoCall, Call, Continuations
<1>4. ASSUME NEW w \in Wants
      PROVE  {XMaskEvent(w), XPeekIfEvent(w), XCheckMaskEvent(w)} \subseteq Call
  <2>1. w \in SUBSET Types  BY WantsAssumption
  <2> QED  BY <1>2, <2>1 DEF XMaskEvent, XPeekIfEvent, XCheckMaskEvent
<1>5. UNION {{XMaskEvent(w), XPeekIfEvent(w), XCheckMaskEvent(w)} : w \in Wants} \subseteq Call
  BY <1>4
<1>6. XNextEvent \in Call /\ XPeekEvent \in Call
  BY <1>2 DEF XNextEvent, XPeekEvent
<1> QED  BY <1>1, <1>3, <1>5, <1>6 DEF Calls

LEMMA TypeInit == Init => TypeInv
<1> SUFFICES ASSUME Init PROVE TypeInv
  OBVIOUS
<1>1. list \in Seq(Event) /\ Len(list) = 0
  BY DEF Init
<1>2. pc \in [Threads -> PCs] /\ call \in [Clients -> Call]
  BY CallsAreCalls DEF Init, PCs, Continuations
<1>3. nbytes \in [Clients -> 0..PipeCap] /\ pipe \in 0..PipeCap
  BY BoundsAssumption DEF Init
<1>4. \A t \in Loopers : pc[t] = "idle"
  BY DEF Init, Threads
<1>5. qlen = 0 /\ request \in Nat /\ lastRead \in Nat /\ taken \subseteq Nat /\ ub \in BOOLEAN
  BY DEF Init
<1> QED  BY <1>1, <1>2, <1>3, <1>4, <1>5 DEF TypeInv, TypeOK

LEMMA DequeueType ==
  ASSUME TypeInv, NEW i \in DOMAIN list, Dequeue(i)
  PROVE  /\ list' \in Seq(Event) /\ qlen' = Len(list') /\ qlen' \in Nat
         /\ taken' \subseteq Nat
<1>1. list[i] \in Event  BY DEF TypeInv, TypeOK
<1>2. list \in Seq(Event) /\ Len(list) \in Nat /\ Len(list) >= 1  BY DEF TypeInv, TypeOK
<1>3. list' \in Seq(Event) /\ Len(list') = Len(list) - 1
  BY <1>2, RemoveAtIs DEF Dequeue
<1>4. list[i].serial \in Nat  BY <1>1 DEF Event
<1>5. qlen' = qlen - 1 /\ taken' = taken \cup {list[i].serial}  BY DEF Dequeue
<1>6. qlen = Len(list) /\ taken \subseteq Nat  BY DEF TypeInv, TypeOK
<1>7. taken' \subseteq Nat  BY <1>4, <1>5, <1>6
<1>8. qlen' = Len(list') /\ qlen' \in Nat  BY <1>2, <1>3, <1>5, <1>6
<1> QED  BY <1>3, <1>7, <1>8

LEMMA TypeStep == TypeInv /\ [Next]_vars => TypeInv'
<1> SUFFICES ASSUME TypeInv, [Next]_vars PROVE TypeInv'
  OBVIOUS
<1> USE ThreadsAssumption, BoundsAssumption
<1>1. ASSUME NEW t \in Threads, NEW type \in Types, NEW front \in BOOLEAN, Add(t, type, front)
      PROVE  TypeInv'
  <2> DEFINE e == [serial |-> request, type |-> type, front |-> front]
  <2>1. e \in Event  BY DEF TypeInv, TypeOK, Event
  <2>2. list' \in Seq(Event) /\ Len(list') = Len(list) + 1
    <3> HIDE DEF e
    <3>1. list' = IF front THEN <<e>> \o list ELSE Append(list, e)  BY <1>1 DEF Add, e
    <3> QED  BY <2>1, <3>1, PrependIs DEF TypeInv, TypeOK
  <2> QED  BY <1>1, <2>2 DEF Add, Goto, At, TypeInv, TypeOK, PCs, Threads
<1>2. ASSUME NEW t \in Threads, WriteByte(t) PROVE TypeInv'
  BY <1>2 DEF WriteByte, Goto, At, TypeInv, TypeOK, PCs, Continuations, Threads, queue
<1>3. ASSUME NEW c \in Clients, Begin(c) PROVE TypeInv'
  BY <1>3, CallsAreCalls DEF Begin, Goto, At, TypeInv, TypeOK, PCs, Threads, queue
<1>4. ASSUME NEW c \in Clients, BeginEventsQueued(c) PROVE TypeInv'
  BY <1>4, CallsAreCalls DEF BeginEventsQueued, Goto, At, TypeInv, TypeOK, PCs, Threads, queue
<1>5. ASSUME NEW c \in Clients, FlushStart(c) PROVE TypeInv'
  BY <1>5 DEF FlushStart, Goto, At, TypeInv, TypeOK, PCs, Threads, queue
<1>6. ASSUME NEW c \in Clients, Drain(c) PROVE TypeInv'
  <2>1. nbytes[c] \in Nat /\ pipe \in Nat  BY DEF TypeInv, TypeOK
  <2>2. PICK rd \in Nat : /\ rd <= nbytes[c] /\ rd <= pipe
                          /\ pipe' = pipe - rd /\ nbytes' = [nbytes EXCEPT ![c] = @ - rd]
    BY <1>6, <2>1, ReadIs DEF Drain
  <2>3. pipe' \in 0..PipeCap /\ nbytes' \in [Clients -> 0..PipeCap]
    BY <2>1, <2>2 DEF TypeInv, TypeOK
  <2> QED  BY <1>6, <2>3 DEF Drain, TypeInv, TypeOK, queue
<1>7. ASSUME NEW c \in Clients, FlushEnd(c) PROVE TypeInv'
  BY <1>7 DEF FlushEnd, Goto, At, TypeInv, TypeOK, PCs, Continuations, Call, Threads, queue
<1>8. ASSUME NEW c \in Clients, CheckQlen(c) PROVE TypeInv'
  BY <1>8 DEF CheckQlen, Goto, At, TypeInv, TypeOK, PCs, Threads, queue
<1>9. ASSUME NEW c \in Clients, WaitForMore(c) PROVE TypeInv'
  BY <1>9 DEF WaitForMore, Goto, TypeInv, TypeOK, PCs, Continuations, Threads, queue
<1>10. ASSUME NEW c \in Clients, TakeFront(c) PROVE TypeInv'
  <2>1. 1 \in DOMAIN list  BY <1>10 DEF TakeFront, TypeInv, TypeOK
  <2>2. /\ list' \in Seq(Event) /\ qlen' = Len(list') /\ qlen' \in Nat /\ taken' \subseteq Nat
        /\ UNCHANGED <<request, lastRead>>
    BY <1>10, <2>1, DequeueType DEF TakeFront, queue, TypeInv, TypeOK, Dequeue
  <2> QED  BY <1>10, <2>2 DEF TakeFront, Goto, At, TypeInv, TypeOK, PCs, Continuations, Call, Threads
<1>11. ASSUME NEW c \in Clients, FrontOfEmpty(c) PROVE TypeInv'
  BY <1>11 DEF FrontOfEmpty, TypeInv, TypeOK, queue
<1>12. ASSUME NEW c \in Clients, ScanHit(c) PROVE TypeInv'
  <2>1. PICK i \in DOMAIN list : IF call[c].dequeue THEN Dequeue(i) ELSE UNCHANGED queue
    BY <1>12 DEF ScanHit, Matching
  <2>2. /\ list' \in Seq(Event) /\ qlen' = Len(list') /\ qlen' \in Nat /\ taken' \subseteq Nat
        /\ UNCHANGED <<request, lastRead>>
    BY <2>1, DequeueType DEF queue, TypeInv, TypeOK, Dequeue
  <2> QED  BY <1>12, <2>2 DEF ScanHit, Goto, At, TypeInv, TypeOK, PCs, Continuations, Threads
<1>13. ASSUME NEW c \in Clients, ScanMiss(c) PROVE TypeInv'
  BY <1>13 DEF ScanMiss, Goto, At, TypeInv, TypeOK, PCs, Continuations, Threads, queue
<1>14. ASSUME NEW c \in Clients, Discard(c) PROVE TypeInv'
  <2>1. [XNextEvent EXCEPT !.back = "discard"] \in Call
    BY DEF XNextEvent, WaitForNext, NoCall, Call, Continuations
  <2> QED  BY <1>14, <2>1 DEF Discard, Goto, At, TypeInv, TypeOK, PCs, Continuations, Threads, queue
<1>15. ASSUME NEW c \in Clients, EventsQueuedReturn(c) PROVE TypeInv'
  BY <1>15 DEF EventsQueuedReturn, Goto, At, TypeInv, TypeOK, PCs, Continuations, Threads, queue
<1>16. ASSUME NEW c \in Clients, PollReturns(c) PROVE TypeInv'
  BY <1>16 DEF PollReturns, Goto, At, TypeInv, TypeOK, PCs, Continuations, Threads, queue
<1>17. CASE UNCHANGED vars
  BY <1>17 DEF vars, TypeInv, TypeOK
<1> QED
  BY <1>1, <1>2, <1>3, <1>4, <1>5, <1>6, <1>7, <1>8, <1>9, <1>10, <1>11, <1>12, <1>13,
     <1>14, <1>15, <1>16, <1>17
     DEF Next, ClientStep, PutEvent, XPutBackEvent, Threads

LEMMA TypeInvariant == Spec => []TypeInv
BY TypeInit, TypeStep, PTL DEF Spec

(* Every value the queue keeps stays of its type, for any number of        *)
(* threads; qlen never goes below zero while the code's behaviour is       *)
(* defined.                                                                *)
THEOREM TypeCorrect == Spec => []TypeOK
BY TypeInvariant, PTL DEF TypeInv

-----------------------------------------------------------------------------
(* Only these two lemmas look at the elements of the list: what adding an  *)
(* event and removing one do to the serials and to their order.            *)

QueueInv == ExactlyOnce /\ DeliveryOrder /\ request # 0

LEMMA AddKeepsOrder ==
  ASSUME TypeInv, QueueInv,
         NEW t \in Threads, NEW type \in Types, NEW front \in BOOLEAN, Add(t, type, front)
  PROVE  QueueInv'
<1> DEFINE e == [serial |-> request, type |-> type, front |-> front]
           n == Len(list)
<1>1. /\ e \in Event /\ e.serial = request /\ e.front = front
      /\ list \in Seq(Event) /\ n \in Nat /\ DOMAIN list = 1..n
      /\ request \in Nat /\ request # 0
  BY DEF TypeInv, TypeOK, Event, QueueInv
<1>2. /\ list' = IF front THEN <<e>> \o list ELSE Append(list, e)
      /\ request' = request + 1 /\ taken' = taken
  BY DEF Add
<1>3. /\ \A i, j \in 1..n : list[i].serial = list[j].serial => i = j
      /\ \A i \in 1..n : list[i].serial \notin taken
      /\ taken \cup {list[i].serial : i \in 1..n} = 1..(request - 1)
  BY <1>1 DEF QueueInv, ExactlyOnce
<1>4. /\ \A i \in 1..n : list[i] \in Event /\ list[i].serial \in Nat /\ list[i].serial < request
      /\ request \notin taken
  <2>1. \A i \in 1..n : list[i].serial \in 1..(request - 1)  BY <1>3
  <2>2. request \notin 1..(request - 1)  BY <1>1
  <2>3. \A i \in 1..n : list[i] \in Event  BY <1>1
  <2> QED  BY <1>1, <1>3, <2>1, <2>2, <2>3
<1>5. \A i, j \in 1..n : i < j =>
        IF list[j].front THEN list[i].front /\ list[i].serial > list[j].serial
                         ELSE list[i].front \/ list[i].serial < list[j].serial
  BY <1>1 DEF QueueInv, DeliveryOrder
<1> HIDE DEF e, n
<1>6. CASE front
  <2>1. /\ DOMAIN list' = 1..(n + 1)
        /\ \A k \in 1..(n + 1) : list'[k] = IF k = 1 THEN e ELSE list[k - 1]
    BY <1>1, <1>2, <1>6, PrependIs DEF n
  <2>2. \A k \in 1..(n + 1) : k # 1 => k - 1 \in 1..n
    BY <1>1
  <2>3. \A i \in 1..n : i + 1 \in 1..(n + 1) /\ list'[i + 1] = list[i]
    BY <1>1, <2>1
  <2>4. \A i, j \in DOMAIN list' : list'[i].serial = list'[j].serial => i = j
    BY <1>1, <1>3, <1>4, <2>1, <2>2
  <2>5. \A i \in DOMAIN list' : list'[i].serial \notin taken'
    BY <1>1, <1>2, <1>3, <1>4, <2>1, <2>2
  <2>6. {list'[i].serial : i \in DOMAIN list'} = {request} \cup {list[i].serial : i \in 1..n}
    <3>1. 1 \in 1..(n + 1) /\ list'[1].serial = request  BY <1>1, <2>1
    <3>2. \A k \in DOMAIN list' :
            list'[k].serial = request \/ \E i \in 1..n : list'[k].serial = list[i].serial
      BY <1>1, <2>1, <2>2
    <3>3. \A i \in 1..n : \E k \in DOMAIN list' : list'[k].serial = list[i].serial
      BY <2>1, <2>3
    <3> QED  BY <2>1, <3>1, <3>2, <3>3
  <2>7. taken' \cup {list'[i].serial : i \in DOMAIN list'} = 1..(request' - 1)
    <3>1. 1..(request' - 1) = 1..(request - 1) \cup {request}  BY <1>1, <1>2
    <3> QED  BY <1>2, <1>3, <2>6, <3>1
  <2>8. DeliveryOrder'
    <3> SUFFICES ASSUME NEW i \in DOMAIN list', NEW j \in DOMAIN list', i < j
                 PROVE  IF list'[j].front THEN list'[i].front /\ list'[i].serial > list'[j].serial
                                          ELSE list'[i].front \/ list'[i].serial < list'[j].serial
      BY DEF DeliveryOrder
    <3>1. j # 1 /\ j - 1 \in 1..n /\ list'[j] = list[j - 1]
      BY <1>1, <2>1, <2>2
    <3>2. CASE i = 1
      <4>1. list'[i].front /\ list'[i].serial = request  BY <1>1, <1>6, <2>1, <3>2
      <4>2. list'[j].serial < request /\ list'[j].serial \in Nat  BY <1>4, <3>1 DEF Event
      <4> QED  BY <1>1, <4>1, <4>2
    <3>3. CASE i # 1
      <4>1. i - 1 \in 1..n /\ list'[i] = list[i - 1] /\ i - 1 < j - 1
        BY <1>1, <2>1, <2>2, <3>3
      <4> QED  BY <1>5, <3>1, <4>1
    <3> QED  BY <3>2, <3>3
  <2>9. ExactlyOnce'  BY <2>4, <2>5, <2>7 DEF ExactlyOnce
  <2>10. request' # 0  BY <1>1, <1>2
  <2> QED  BY <2>8, <2>9, <2>10 DEF QueueInv
<1>7. CASE ~front
  <2>1. /\ DOMAIN list' = 1..(n + 1)
        /\ \A k \in 1..(n + 1) : list'[k] = IF k = n + 1 THEN e ELSE list[k]
    BY <1>1, <1>2, <1>7 DEF n
  <2>2. \A k \in 1..(n + 1) : k # n + 1 => k \in 1..n
    BY <1>1
  <2>3. n + 1 \in 1..(n + 1) /\ \A i \in 1..n : i \in 1..(n + 1) /\ list'[i] = list[i]
    BY <1>1, <2>1
  <2>4. \A i, j \in DOMAIN list' : list'[i].serial = list'[j].serial => i = j
    BY <1>1, <1>3, <1>4, <2>1, <2>2
  <2>5. \A i \in DOMAIN list' : list'[i].serial \notin taken'
    BY <1>1, <1>2, <1>3, <1>4, <2>1, <2>2
  <2>6. {list'[i].serial : i \in DOMAIN list'} = {request} \cup {list[i].serial : i \in 1..n}
    BY <1>1, <2>1, <2>2, <2>3
  <2>7. taken' \cup {list'[i].serial : i \in DOMAIN list'} = 1..(request' - 1)
    <3>1. 1..(request' - 1) = 1..(request - 1) \cup {request}  BY <1>1, <1>2
    <3> QED  BY <1>2, <1>3, <2>6, <3>1
  <2>8. DeliveryOrder'
    <3> SUFFICES ASSUME NEW i \in DOMAIN list', NEW j \in DOMAIN list', i < j
                 PROVE  IF list'[j].front THEN list'[i].front /\ list'[i].serial > list'[j].serial
                                          ELSE list'[i].front \/ list'[i].serial < list'[j].serial
      BY DEF DeliveryOrder
    <3>1. i \in 1..n /\ list'[i] = list[i]
      BY <1>1, <2>1
    <3>2. CASE j = n + 1
      <4>1. ~list'[j].front /\ list'[j].serial = request  BY <1>1, <1>7, <2>1, <3>2
      <4> QED  BY <1>4, <3>1, <4>1
    <3>3. CASE j # n + 1
      <4>1. j \in 1..n /\ list'[j] = list[j]  BY <1>1, <2>1, <3>3
      <4> QED  BY <1>5, <3>1, <4>1
    <3> QED  BY <3>2, <3>3
  <2>9. ExactlyOnce'  BY <2>4, <2>5, <2>7 DEF ExactlyOnce
  <2>10. request' # 0  BY <1>1, <1>2
  <2> QED  BY <2>8, <2>9, <2>10 DEF QueueInv
<1> QED  BY <1>6, <1>7

LEMMA DequeueKeepsOrder ==
  ASSUME TypeInv, QueueInv, NEW i \in DOMAIN list, Dequeue(i)
  PROVE  QueueInv'
<1> DEFINE n == Len(list)
           at(k) == IF k < i THEN k ELSE k + 1
<1>1. list \in Seq(Event) /\ n \in Nat /\ DOMAIN list = 1..n /\ i \in 1..n
  BY DEF TypeInv, TypeOK
<1>2. /\ DOMAIN list' = 1..(n - 1)
      /\ \A k \in 1..(n - 1) : list'[k] = list[at(k)]
      /\ taken' = taken \cup {list[i].serial} /\ request' = request
  BY <1>1, RemoveAtIs DEF Dequeue
<1>3. /\ \A k \in 1..(n - 1) : at(k) \in 1..n /\ at(k) # i
      /\ \A k, m \in 1..(n - 1) : at(k) = at(m) => k = m
      /\ \A k, m \in 1..(n - 1) : k < m => at(k) < at(m)
      /\ \A j \in 1..n : j # i => \E k \in 1..(n - 1) : at(k) = j
  <2>1. \A j \in 1..n : j # i => \E k \in 1..(n - 1) : at(k) = j
    <3> SUFFICES ASSUME NEW j \in 1..n, j # i PROVE \E k \in 1..(n - 1) : at(k) = j
      OBVIOUS
    <3>1. CASE j < i
      <4>1. j \in 1..(n - 1) /\ at(j) = j  BY <1>1, <3>1
      <4> QED  BY <4>1
    <3>2. CASE ~(j < i)
      <4>1. j - 1 \in 1..(n - 1) /\ at(j - 1) = j  BY <1>1, <3>2
      <4> QED  BY <4>1
    <3> QED  BY <3>1, <3>2
  <2> QED  BY <1>1, <2>1
<1> HIDE DEF n, at
<1>4. /\ \A k, j \in 1..n : list[k].serial = list[j].serial => k = j
      /\ \A k \in 1..n : list[k].serial \notin taken
      /\ taken \cup {list[k].serial : k \in 1..n} = 1..(request - 1)
      /\ request # 0
  BY <1>1 DEF QueueInv, ExactlyOnce
<1>5. \A k, j \in DOMAIN list' : list'[k].serial = list'[j].serial => k = j
  BY <1>2, <1>3, <1>4
<1>6. \A k \in DOMAIN list' : list'[k].serial \notin taken'
  BY <1>1, <1>2, <1>3, <1>4
<1>7. taken' \cup {list'[k].serial : k \in DOMAIN list'} = taken \cup {list[k].serial : k \in 1..n}
  <2>1. \A k \in DOMAIN list' : \E j \in 1..n : list'[k].serial = list[j].serial
    BY <1>2, <1>3
  <2>2. \A j \in 1..n : j = i \/ \E k \in DOMAIN list' : list'[k].serial = list[j].serial
    BY <1>2, <1>3
  <2> QED  BY <1>1, <1>2, <2>1, <2>2
<1>8. DeliveryOrder'
  BY <1>1, <1>2, <1>3 DEF QueueInv, DeliveryOrder
<1> QED  BY <1>2, <1>4, <1>5, <1>6, <1>7, <1>8 DEF QueueInv, ExactlyOnce

LEMMA QueueStep == TypeInv /\ QueueInv /\ [Next]_vars => QueueInv'
<1> SUFFICES ASSUME TypeInv, QueueInv, [Next]_vars PROVE QueueInv'
  OBVIOUS
<1>1. CASE UNCHANGED queue
  BY <1>1 DEF queue, QueueInv, ExactlyOnce, DeliveryOrder
<1>2. ASSUME NEW t \in Threads, PutEvent(t) PROVE QueueInv'
  BY <1>2, AddKeepsOrder DEF PutEvent
<1>3. ASSUME NEW c \in Clients, XPutBackEvent(c) PROVE QueueInv'
  BY <1>3, AddKeepsOrder DEF XPutBackEvent, Threads
<1>4. ASSUME NEW c \in Clients, TakeFront(c) PROVE QueueInv'
  <2>1. 1 \in DOMAIN list  BY <1>4 DEF TakeFront, TypeInv, TypeOK
  <2> QED  BY <1>1, <1>4, <2>1, DequeueKeepsOrder DEF TakeFront
<1>5. ASSUME NEW c \in Clients, ScanHit(c) PROVE QueueInv'
  BY <1>1, <1>5, DequeueKeepsOrder DEF ScanHit, Matching
<1> QED
  BY <1>1, <1>2, <1>3, <1>4, <1>5
     DEF Next, ClientStep, vars, queue, WriteByte, Begin, BeginEventsQueued, FlushStart, Drain,
         FlushEnd, CheckQlen, WaitForMore, FrontOfEmpty, ScanMiss, Discard, EventsQueuedReturn,
         PollReturns

LEMMA QueueInvariant == Spec => []QueueInv
<1>1. Init => QueueInv
  BY DEF Init, QueueInv, ExactlyOnce, DeliveryOrder
<1> QED  BY <1>1, QueueStep, TypeInvariant, PTL DEF Spec

(* Whatever the threads interleave, and however many there are, an event   *)
(* is in the list or was handed out, once (Events::add, wait_for_next,     *)
(* query).                                                                 *)
THEOREM EveryEventOnce == Spec => []ExactlyOnce
BY QueueInvariant, PTL DEF QueueInv

(* Put-back events first, newest first, then the others oldest first.      *)
THEOREM QueueIsInOrder == Spec => []DeliveryOrder
BY QueueInvariant, PTL DEF QueueInv

-----------------------------------------------------------------------------
(* One client.  XNextEvent and the calls like it take no lock on the       *)
(* display, and with a second reader of the pipe the two theorems below    *)
(* are false: it may read the byte the first one counted on.               *)

OneClient == \A c, d \in Clients : c = d

WakeInv == NoLostWakeup /\ FlushNeverBlocks

LEMMA WakeStep == OneClient /\ TypeInv /\ WakeInv /\ [Next]_vars => WakeInv'
<1> SUFFICES ASSUME OneClient, TypeInv, WakeInv, [Next]_vars PROVE WakeInv'
  OBVIOUS
<1> USE DEF At, Goto, Awaited
<1>0. /\ list \in Seq(Event) /\ qlen = Len(list) /\ pipe \in Nat /\ nbytes \in [Clients -> Nat]
      /\ pc \in [Threads -> PCs] /\ call \in [Clients -> Call]
  BY BoundsAssumption DEF TypeInv, TypeOK
<1>1. ASSUME NEW t \in Threads, NEW type \in Types, NEW front \in BOOLEAN, Add(t, type, front)
      PROVE  WakeInv'
  <2>1. CASE t \in Loopers
    BY <1>0, <1>1, <2>1, ThreadsAssumption DEF Add, WakeInv, NoLostWakeup, FlushNeverBlocks, Threads
  <2>2. CASE t \in Clients
    <3>1. \A c \in Clients : pc'[c] = "write"
      BY <1>0, <1>1, <2>2 DEF Add, OneClient, Threads
    <3> QED  BY <3>1 DEF WakeInv, NoLostWakeup, FlushNeverBlocks
  <2> QED  BY <2>1, <2>2 DEF Threads
<1>2. ASSUME NEW t \in Threads, WriteByte(t) PROVE WakeInv'
  <2>1. pipe' = pipe + 1 /\ nbytes' = nbytes  BY <1>2 DEF WriteByte
  <2>2. \A c \in Clients : pc'[c] = "drain" => pc[c] = "drain"
    BY <1>0, <1>2 DEF WriteByte, Threads
  <2>3. NoLostWakeup'  BY <1>0, <2>1 DEF NoLostWakeup
  <2>4. FlushNeverBlocks'  BY <1>0, <2>1, <2>2 DEF WakeInv, FlushNeverBlocks
  <2> QED  BY <2>3, <2>4 DEF WakeInv
<1>3. ASSUME NEW c \in Clients, FlushStart(c) PROVE WakeInv'
  <2>1. \A d \in Clients : d = c  BY DEF OneClient
  <2>2. pc'[c] = "drain" /\ nbytes'[c] = pipe /\ pipe' = pipe
    BY <1>0, <1>3 DEF FlushStart, Threads
  <2> QED  BY <1>0, <2>1, <2>2 DEF WakeInv, NoLostWakeup, FlushNeverBlocks
<1>4. ASSUME NEW c \in Clients, Drain(c) PROVE WakeInv'
  <2>1. \A d \in Clients : d = c  BY DEF OneClient
  <2>2. nbytes[c] <= pipe /\ pc'[c] = "drain"
    BY <1>4 DEF Drain, WakeInv, FlushNeverBlocks
  <2>3. PICK rd \in Nat : rd <= pipe /\ rd <= nbytes[c]
                          /\ pipe' = pipe - rd /\ nbytes'[c] = nbytes[c] - rd
    BY <1>0, <1>4, BoundsAssumption, ReadIs DEF Drain
  <2>4. nbytes'[c] <= pipe'  BY <1>0, <2>2, <2>3
  <2> QED  BY <1>0, <2>1, <2>2, <2>3, <2>4 DEF WakeInv, NoLostWakeup, FlushNeverBlocks
<1>5. ASSUME NEW c \in Clients, CheckQlen(c) PROVE WakeInv'
  <2>1. \A d \in Clients : d = c  BY DEF OneClient
  <2>2. pc'[c] = "front" \/ (pc'[c] = "wait" /\ list' = <<>>)
    BY <1>0, <1>5 DEF CheckQlen, Threads, queue
  <2> QED  BY <2>1, <2>2 DEF WakeInv, NoLostWakeup, FlushNeverBlocks
<1>6. ASSUME NEW c \in Clients, ScanMiss(c) PROVE WakeInv'
  <2>1. \A d \in Clients : d = c  BY DEF OneClient
  <2>2. pc'[c] \in {"qwait", "idle"} /\ Matching(call[c].want)' = {} /\ call' = call
    BY <1>0, <1>6 DEF ScanMiss, Threads, queue, Matching
  <2> QED  BY <2>1, <2>2 DEF WakeInv, NoLostWakeup, FlushNeverBlocks
<1>7. ASSUME NEW c \in Clients, EventsQueuedReturn(c) PROVE WakeInv'
  <2>1. \A d \in Clients : d = c  BY DEF OneClient
  <2>2. pc'[c] = "idle" \/ (pc'[c] = "poll" /\ list' = <<>>)
    BY <1>0, <1>7 DEF EventsQueuedReturn, Threads, queue
  <2> QED  BY <2>1, <2>2 DEF WakeInv, NoLostWakeup, FlushNeverBlocks
<1>8. ASSUME NEW c \in Clients,
             Begin(c) \/ BeginEventsQueued(c) \/ WaitForMore(c) \/ TakeFront(c) \/ ScanHit(c)
             \/ Discard(c) \/ PollReturns(c)
      PROVE  WakeInv'
  <2>1. \A d \in Clients : d = c  BY DEF OneClient
  <2>2. pc'[c] \notin {"wait", "qwait", "poll", "drain"}
    BY <1>0, <1>8 DEF Begin, BeginEventsQueued, WaitForMore, TakeFront, ScanHit, Discard,
       PollReturns, Threads, Call
  <2> QED  BY <2>1, <2>2 DEF WakeInv, NoLostWakeup, FlushNeverBlocks
<1>9. ASSUME NEW c \in Clients, FlushEnd(c) PROVE WakeInv'
  <2>1. \A d \in Clients : d = c  BY DEF OneClient
  <2>2. pc'[c] \notin {"wait", "qwait", "poll", "drain"}
    BY <1>0, <1>9 DEF FlushEnd, Threads, Call, Continuations
  <2> QED  BY <2>1, <2>2 DEF WakeInv, NoLostWakeup, FlushNeverBlocks
<1>10. ASSUME NEW c \in Clients, FrontOfEmpty(c) PROVE WakeInv'
  BY <1>10 DEF FrontOfEmpty, queue, WakeInv, NoLostWakeup, FlushNeverBlocks, Matching
<1>11. CASE UNCHANGED vars
  BY <1>11 DEF vars, WakeInv, NoLostWakeup, FlushNeverBlocks, Matching
<1> QED
  BY <1>1, <1>2, <1>3, <1>4, <1>5, <1>6, <1>7, <1>8, <1>9, <1>10, <1>11
     DEF Next, ClientStep, PutEvent, XPutBackEvent, Threads

LEMMA WakeInvariant ==
  ASSUME OneClient
  PROVE  Spec => []WakeInv
<1>1. Init => WakeInv
  BY DEF Init, WakeInv, NoLostWakeup, FlushNeverBlocks, Awaited, Threads
<1>2. TypeInv /\ WakeInv /\ [Next]_vars => WakeInv'
  BY WakeStep
<1> QED  BY <1>1, <1>2, TypeInvariant, PTL DEF Spec

(* With one client, and any number of loopers preempted anywhere, a client *)
(* blocked in read() or poll() has a byte coming for the event it awaits.  *)
THEOREM OneClientWakes ==
  ASSUME OneClient
  PROVE  Spec => []NoLostWakeup
BY WakeInvariant, PTL DEF WakeInv

(* With one client, XFlush never reads more than FIONREAD promised it.     *)
THEOREM OneClientFlushes ==
  ASSUME OneClient
  PROVE  Spec => []FlushNeverBlocks
BY WakeInvariant, PTL DEF WakeInv

-----------------------------------------------------------------------------
(* One client and no looper.  XFlush leaves the pipe empty and nothing     *)
(* fills it again during the call, so wait_for_next never gets past a wait *)
(* to the front of an empty list.  A single looper breaks it: the byte it  *)
(* has yet to write survives the flush of the call after the one that      *)
(* took its event.                                                         *)

AloneInv ==
  \A c \in Clients :
    /\ pc[c] = "drain" => nbytes[c] = pipe
    /\ pc[c] \in {"check", "wait"} => pipe = 0
    /\ pc[c] = "front" => list # <<>>

LEMMA AloneStep ==
  OneClient /\ Loopers = {} /\ TypeInv /\ AloneInv /\ ~ub /\ [Next]_vars => AloneInv' /\ ~ub'
<1> SUFFICES ASSUME OneClient, Loopers = {}, TypeInv, AloneInv, ~ub, [Next]_vars
             PROVE  AloneInv' /\ ~ub'
  OBVIOUS
<1> USE DEF At, Goto, AloneInv
<1>0. /\ list \in Seq(Event) /\ qlen = Len(list) /\ pipe \in Nat /\ nbytes \in [Clients -> Nat]
      /\ pc \in [Threads -> PCs] /\ call \in [Clients -> Call] /\ Threads = Clients
      /\ \A c, d \in Clients : c = d
  BY BoundsAssumption DEF TypeInv, TypeOK, Threads, OneClient
<1>1. ASSUME NEW c \in Clients, NEW type \in Types, NEW front \in BOOLEAN, Add(c, type, front)
      PROVE  AloneInv' /\ ~ub'
  <2>1. pc'[c] = "write" /\ ub' = ub  BY <1>0, <1>1 DEF Add
  <2> QED  BY <1>0, <2>1
<1>2. ASSUME NEW c \in Clients, FlushStart(c) PROVE AloneInv' /\ ~ub'
  <2>1. pc'[c] = "drain" /\ nbytes'[c] = pipe /\ pipe' = pipe /\ ub' = ub
    BY <1>0, <1>2 DEF FlushStart
  <2> QED  BY <1>0, <2>1
<1>3. ASSUME NEW c \in Clients, Drain(c) PROVE AloneInv' /\ ~ub'
  <2>1. pc'[c] = "drain" /\ nbytes'[c] = pipe' /\ ub' = ub
    <3>1. pc[c] = "drain" /\ pc' = pc /\ nbytes[c] = pipe /\ ub' = ub  BY <1>0, <1>3 DEF Drain
    <3>2. PICK rd : pipe' = pipe - rd /\ nbytes' = [nbytes EXCEPT ![c] = @ - rd]
      BY <1>3 DEF Drain
    <3> QED  BY <1>0, <3>1, <3>2
  <2> QED  BY <1>0, <2>1
<1>4. ASSUME NEW c \in Clients, FlushEnd(c) PROVE AloneInv' /\ ~ub'
  <2>1. pipe' = 0 /\ ub' = ub /\ pc'[c] \in Continuations
    BY <1>0, <1>4 DEF FlushEnd, Call
  <2> QED  BY <1>0, <2>1 DEF Continuations
<1>5. ASSUME NEW c \in Clients, CheckQlen(c) PROVE AloneInv' /\ ~ub'
  <2>1. /\ ub' = ub /\ pipe' = 0
        /\ pc'[c] = "wait" \/ (pc'[c] = "front" /\ list' # <<>>)
    BY <1>0, <1>5 DEF CheckQlen, queue
  <2> QED  BY <1>0, <2>1
<1>6. ASSUME NEW c \in Clients, WaitForMore(c) PROVE AloneInv' /\ ~ub'
  <2>1. pc'[c] = "scan" /\ ub' = ub  BY <1>0, <1>6 DEF WaitForMore
  <2> QED  BY <1>0, <2>1
<1>7. ASSUME NEW c \in Clients, FrontOfEmpty(c) PROVE FALSE
  BY <1>7 DEF FrontOfEmpty
<1>8. ASSUME NEW c \in Clients,
             \/ WriteByte(c) \/ Begin(c) \/ BeginEventsQueued(c) \/ TakeFront(c) \/ ScanHit(c)
             \/ ScanMiss(c) \/ Discard(c) \/ EventsQueuedReturn(c) \/ PollReturns(c)
      PROVE  AloneInv' /\ ~ub'
  <2>1. pc'[c] \notin {"drain", "check", "wait", "front"} /\ ub' = ub
    BY <1>0, <1>8 DEF WriteByte, Begin, BeginEventsQueued, TakeFront, ScanHit, ScanMiss, Discard,
       EventsQueuedReturn, PollReturns, Call
  <2> QED  BY <1>0, <2>1
<1>9. CASE UNCHANGED vars
  BY <1>9 DEF vars
<1> QED
  BY <1>0, <1>1, <1>2, <1>3, <1>4, <1>5, <1>6, <1>7, <1>8, <1>9
     DEF Next, ClientStep, PutEvent, XPutBackEvent

(* Without loopers the front that wait_for_next takes is always an event.  *)
THEOREM AloneFrontIsAnEvent ==
  ASSUME OneClient, Loopers = {}
  PROVE  Spec => []FrontIsAnEvent
<1>1. Init => AloneInv /\ ~ub
  BY DEF Init, AloneInv, Threads
<1>2. FrontIsAnEvent <=> ~ub
  BY DEF FrontIsAnEvent
<1>3. TypeInv /\ (AloneInv /\ ~ub) /\ [Next]_vars => (AloneInv /\ ~ub)'
  BY AloneStep
<1> QED  BY <1>1, <1>2, <1>3, TypeInvariant, PTL DEF Spec
-----------------------------------------------------------------------------
(* The refinement.  Of the pipe, of a flush and of waiting for more a      *)
(* caller sees nothing; what it sees is one of the Mailbox's steps.  What  *)
(* a client does at each stage is told by the call it is in.               *)

CallInv ==
  \A c \in Clients :
    /\ call[c].after = "check" => call[c].want = Types /\ call[c].wait
    /\ call[c].back = "discard" => call[c].after = "check" /\ call[c].dequeue
    /\ pc[c] \in {"check", "wait", "front"} => call[c].after = "check"
    /\ pc[c] \in {"scan", "qwait"} => call[c].after = "scan"
    /\ pc[c] = "discard" => "discard" \in {call[c].after, call[c].back}
    /\ pc[c] \in {"queued", "poll"} => call[c].after = "queued"

(* The calls that begin one of the Mailbox's requests, or none.            *)
LEMMA CallsBegin ==
  ASSUME NEW k \in Calls
  PROVE  /\ k \in Call /\ k.back = "idle"
         /\ k.after = "check" => k.want = Types /\ k.wait
<1>1. k \in Call
  BY CallsAreCalls
<1>2. CASE k \in {XFlush, XSyncDiscard}
  BY <1>1, <1>2 DEF XFlush, XSyncDiscard, NoCall
<1>4. CASE k \in {XNextEvent, XPeekEvent}
  BY <1>1, <1>4 DEF XNextEvent, XPeekEvent, WaitForNext, NoCall
<1>3. CASE \E w \in Wants : k \in {XMaskEvent(w), XPeekIfEvent(w), XCheckMaskEvent(w)}
  BY <1>1, <1>3 DEF XMaskEvent, XPeekIfEvent, XCheckMaskEvent, Query, NoCall
<1> QED
  BY <1>2, <1>3, <1>4 DEF Calls

LEMMA CallInit == Init => CallInv
BY DEF Init, CallInv, NoCall, Threads

LEMMA CallStep == TypeInv /\ CallInv /\ [Next]_vars => CallInv'
<1> SUFFICES ASSUME TypeInv, CallInv, [Next]_vars PROVE CallInv'
  OBVIOUS
<1>0. /\ pc \in [Threads -> PCs] /\ call \in [Clients -> Call]
      /\ \A c \in Clients : c \in Threads /\ c \notin Loopers
      /\ \A t \in Loopers : pc[t] \in {"idle", "write"}
  BY ThreadsAssumption DEF TypeInv, TypeOK, Threads
<1>1. ASSUME NEW t \in Threads, PutEvent(t) PROVE CallInv'
  BY <1>0, <1>1 DEF PutEvent, Add, Goto, CallInv
<1>2. ASSUME NEW t \in Threads, WriteByte(t) PROVE CallInv'
  BY <1>0, <1>2 DEF WriteByte, Goto, CallInv
<1>3. ASSUME NEW c \in Clients, XPutBackEvent(c) PROVE CallInv'
  BY <1>0, <1>3 DEF XPutBackEvent, Add, Goto, CallInv
<1>4. ASSUME NEW c \in Clients, Begin(c) PROVE CallInv'
  <2>1. PICK k \in Calls : call' = [call EXCEPT ![c] = k] /\ pc' = [pc EXCEPT ![c] = "flush"]
    BY <1>4 DEF Begin, Goto
  <2> QED
    BY <1>0, <2>1, CallsBegin DEF CallInv
<1>5. ASSUME NEW c \in Clients, BeginEventsQueued(c) PROVE CallInv'
  BY <1>0, <1>5 DEF BeginEventsQueued, Goto, CallInv, XEventsQueued, NoCall
<1>6. ASSUME NEW c \in Clients, FlushStart(c) PROVE CallInv'
  BY <1>0, <1>6 DEF FlushStart, Goto, CallInv
<1>7. ASSUME NEW c \in Clients, Drain(c) PROVE CallInv'
  BY <1>0, <1>7 DEF Drain, CallInv
<1>8. ASSUME NEW c \in Clients, FlushEnd(c) PROVE CallInv'
  <2>1. call[c].after \in Continuations
    BY <1>0 DEF Call
  <2> QED
    BY <1>0, <1>8, <2>1 DEF FlushEnd, Goto, CallInv, Continuations
<1>9. ASSUME NEW c \in Clients, CheckQlen(c) PROVE CallInv'
  BY <1>0, <1>9 DEF CheckQlen, At, Goto, CallInv
<1>10. ASSUME NEW c \in Clients, WaitForMore(c) PROVE CallInv'
  BY <1>0, <1>10 DEF WaitForMore, Goto, CallInv
<1>11. ASSUME NEW c \in Clients, TakeFront(c) PROVE CallInv'
  <2>1. call[c].back \in {"idle", "discard"}
    BY <1>0 DEF Call
  <2> QED
    BY <1>0, <1>11, <2>1 DEF TakeFront, Goto, CallInv
<1>12. ASSUME NEW c \in Clients, FrontOfEmpty(c) PROVE CallInv'
  BY <1>0, <1>12 DEF FrontOfEmpty, CallInv
<1>13. ASSUME NEW c \in Clients, ScanHit(c) PROVE CallInv'
  BY <1>0, <1>13 DEF ScanHit, Goto, CallInv
<1>14. ASSUME NEW c \in Clients, ScanMiss(c) PROVE CallInv'
  BY <1>0, <1>14 DEF ScanMiss, At, Goto, CallInv
<1>15. ASSUME NEW c \in Clients, Discard(c) PROVE CallInv'
  <2>1. CASE pc' = [pc EXCEPT ![c] = "idle"] /\ UNCHANGED call
    BY <1>0, <2>1 DEF CallInv
  <2>2. CASE pc' = [pc EXCEPT ![c] = "flush"]
             /\ call' = [call EXCEPT ![c] = [XNextEvent EXCEPT !.back = "discard"]]
    BY <1>0, <2>2 DEF CallInv, XNextEvent, WaitForNext, NoCall
  <2> QED
    BY <1>15, <2>1, <2>2 DEF Discard, Goto
<1>16. ASSUME NEW c \in Clients, EventsQueuedReturn(c) PROVE CallInv'
  <2>1. pc[c] = "queued" /\ \E l \in {"idle", "poll"} : pc' = [pc EXCEPT ![c] = l]
    BY <1>16 DEF EventsQueuedReturn, At, Goto
  <2> QED
    BY <1>0, <1>16, <2>1 DEF EventsQueuedReturn, CallInv
<1>17. ASSUME NEW c \in Clients, PollReturns(c) PROVE CallInv'
  BY <1>0, <1>17 DEF PollReturns, Goto, CallInv
<1>18. CASE UNCHANGED vars
  BY <1>18 DEF vars, CallInv
<1> QED
  BY <1>1, <1>2, <1>3, <1>4, <1>5, <1>6, <1>7, <1>8, <1>9, <1>10, <1>11, <1>12, <1>13,
     <1>14, <1>15, <1>16, <1>17, <1>18
     DEF Next, ClientStep

(* What one client's step does to what all have asked.                     *)
LEMMA AskedIs ==
  ASSUME NEW c \in Clients, NEW r, Asked(c)' = r,
         \A d \in Clients : d # c => Asked(d)' = Asked(d)
  PROVE  [d \in Clients |-> Asked(d)]' = [[d \in Clients |-> Asked(d)] EXCEPT ![c] = r]
OBVIOUS

LEMMA AskedStays ==
  ASSUME \A d \in Clients : Asked(d)' = Asked(d)
  PROVE  [d \in Clients |-> Asked(d)]' = [d \in Clients |-> Asked(d)]
OBVIOUS

LEMMA InitMaps == Init => Mailbox!Init
<1> SUFFICES ASSUME Init PROVE Mailbox!Init
  OBVIOUS
<1>1. \A c \in Clients : Asked(c) = Mailbox!Idle
  BY DEF Init, Asked, Threads, Mailbox!Idle
<1> QED
  BY <1>1 DEF Init, Mailbox!Init

(* The events that a client may be handed.                                 *)
LEMMA MatchingIs ==
  ASSUME NEW c \in Clients, Asked(c) # Mailbox!Idle
  PROVE  Mailbox!AskedFor(c) = {i \in DOMAIN list : list[i].type \in Asked(c).want}
BY DEF Mailbox!AskedFor

LEMMA HandOutIs ==
  ASSUME NEW c \in Clients, Asked(c) # Mailbox!Idle, request' = request,
         NEW i \in Mailbox!AskedFor(c), \A j \in Mailbox!AskedFor(c) : i <= j,
         list' = IF Asked(c).dequeue THEN RemoveAt(list, i) ELSE list,
         IF Asked(c).kind = "one" THEN Mailbox!Return(c)
         ELSE [d \in Clients |-> Asked(d)]' = [d \in Clients |-> Asked(d)]
  PROVE  Mailbox!HandOut(c)
<1>1. [d \in Clients |-> Asked(d)][c] = Asked(c)
  OBVIOUS
<1> QED
  BY <1>1 DEF Mailbox!HandOut, Mailbox!RemoveAt, RemoveAt

LEMMA StepMaps ==
  TypeInv /\ CallInv /\ [Next]_vars => [Mailbox!Next]_(Mailbox!vars)
<1> SUFFICES ASSUME TypeInv, CallInv, [Next]_vars
             PROVE  Mailbox!Next \/ UNCHANGED Mailbox!vars
  OBVIOUS
<1>0. /\ pc \in [Threads -> PCs] /\ call \in [Clients -> Call]
      /\ \A c \in Clients : c \in Threads /\ c \notin Loopers
      /\ \A t \in Loopers : pc[t] \in {"idle", "write"}
      /\ list \in Seq(Event) /\ qlen = Len(list)
  BY ThreadsAssumption DEF TypeInv, TypeOK, Threads
(* A step after which all have asked what they had.                        *)
<1>1. ASSUME \A d \in Clients : Asked(d)' = Asked(d), UNCHANGED <<list, request>>
      PROVE  UNCHANGED Mailbox!vars
  BY <1>1, AskedStays DEF Mailbox!vars
<1>2. ASSUME NEW t \in Threads, NEW type \in Types, NEW front \in BOOLEAN, Add(t, type, front)
      PROVE  Mailbox!Next
  <2>1. \A d \in Clients : Asked(d)' = Asked(d)
    BY <1>0, <1>2 DEF Add, At, Goto, Asked
  <2>2. [d \in Clients |-> Asked(d)]' = [d \in Clients |-> Asked(d)]
    BY <2>1, AskedStays
  <2>3. Mailbox!Put(type) \/ Mailbox!PutBack(type)
    BY <1>2, <2>2 DEF Add, Mailbox!Put, Mailbox!PutBack
  <2> QED
    BY <2>3 DEF Mailbox!Next
<1>3. ASSUME NEW t \in Threads, WriteByte(t) PROVE UNCHANGED Mailbox!vars
  <2>1. \A d \in Clients : Asked(d)' = Asked(d)
    BY <1>0, <1>3 DEF WriteByte, At, Goto, Asked
  <2> QED
    BY <1>1, <1>3, <2>1 DEF WriteByte, queue
<1>4. ASSUME NEW c \in Clients, Begin(c)
      PROVE  Mailbox!Next \/ UNCHANGED Mailbox!vars
  <2>1. PICK k \in Calls : call' = [call EXCEPT ![c] = k] /\ pc' = [pc EXCEPT ![c] = "flush"]
    BY <1>4 DEF Begin, Goto
  <2>2. \A d \in Clients : d # c => Asked(d)' = Asked(d)
    BY <1>0, <2>1 DEF Asked
  <2>3. Asked(c) = Mailbox!Idle /\ UNCHANGED <<list, request>>
    BY <1>4 DEF Begin, At, Asked, queue, Mailbox!Idle
  <2>4. pc'[c] = "flush" /\ call'[c] = k /\ k \in Call
    BY <1>0, <2>1, CallsBegin
  <2>5. CASE k.after \in {"idle", "queued"}
    <3>1. Asked(c)' = Mailbox!Idle
      BY <2>4, <2>5 DEF Asked, Mailbox!Idle
    <3> QED
      BY <1>1, <2>2, <2>3, <3>1
  <2>6. CASE k.after \notin {"idle", "queued"}
    <3>1. PICK r : r = Asked(c)'
      OBVIOUS
    <3>2. r \in Mailbox!Requests
      <4>1. k.want \in SUBSET Types /\ k.wait \in BOOLEAN /\ k.dequeue \in BOOLEAN
        BY <2>4 DEF Call
      <4> QED
        BY <2>4, <2>6, <3>1, <4>1 DEF Asked, Mailbox!Requests
    <3>3. [d \in Clients |-> Asked(d)]' = [[d \in Clients |-> Asked(d)] EXCEPT ![c] = r]
      BY <2>2, <3>1, AskedIs
    <3>4. Mailbox!Ask(c)
      BY <2>3, <3>2, <3>3 DEF Mailbox!Ask
    <3> QED
      BY <3>4 DEF Mailbox!Next
  <2> QED
    BY <2>5, <2>6
<1>5. ASSUME NEW c \in Clients, BeginEventsQueued(c) PROVE UNCHANGED Mailbox!vars
  <2>1. \A d \in Clients : Asked(d)' = Asked(d)
    BY <1>0, <1>5 DEF BeginEventsQueued, At, Goto, Asked, XEventsQueued, NoCall
  <2> QED
    BY <1>1, <1>5, <2>1 DEF BeginEventsQueued, queue
<1>6. ASSUME NEW c \in Clients,
             \/ FlushStart(c) \/ Drain(c) \/ CheckQlen(c) \/ WaitForMore(c) \/ FrontOfEmpty(c)
             \/ EventsQueuedReturn(c) \/ PollReturns(c)
      PROVE  UNCHANGED Mailbox!vars
  <2>1. CASE FlushStart(c) \/ CheckQlen(c) \/ WaitForMore(c)
    <3>1. /\ pc[c] \notin {"idle", "write"} /\ UNCHANGED <<list, request, call>>
          /\ \E l \in PCs \ {"idle", "write"} : pc' = [pc EXCEPT ![c] = l]
      BY <2>1 DEF FlushStart, CheckQlen, WaitForMore, At, Goto, queue, PCs, Continuations
    <3>2. \A d \in Clients : Asked(d)' = Asked(d)
      BY <1>0, <3>1 DEF Asked
    <3> QED
      BY <1>1, <3>1, <3>2
  <2>2. CASE Drain(c) \/ FrontOfEmpty(c)
    <3>1. UNCHANGED <<list, request, call, pc>>
      BY <2>2 DEF Drain, FrontOfEmpty, queue
    <3>2. \A d \in Clients : Asked(d)' = Asked(d)
      BY <3>1 DEF Asked
    <3> QED
      BY <1>1, <3>1, <3>2
  <2>3. CASE EventsQueuedReturn(c) \/ PollReturns(c)
    <3>1. /\ pc[c] \in {"queued", "poll"} /\ UNCHANGED <<list, request, call>>
          /\ \E l \in {"idle", "poll"} : pc' = [pc EXCEPT ![c] = l]
      BY <2>3 DEF EventsQueuedReturn, PollReturns, At, Goto, queue
    <3>2. call[c].after = "queued"
      BY <3>1 DEF CallInv
    <3>3. \A d \in Clients : Asked(d)' = Asked(d)
      BY <1>0, <3>1, <3>2 DEF Asked
    <3> QED
      BY <1>1, <3>1, <3>3
  <2> QED
    BY <1>6, <2>1, <2>2, <2>3
<1>7. ASSUME NEW c \in Clients, FlushEnd(c) PROVE UNCHANGED Mailbox!vars
  <2>1. /\ pc[c] = "drain" /\ UNCHANGED <<list, request, call>>
        /\ pc' = [pc EXCEPT ![c] = call[c].after] /\ call[c].after \in Continuations
    BY <1>0, <1>7 DEF FlushEnd, At, Goto, queue, Call
  <2>2. \A d \in Clients : Asked(d)' = Asked(d)
    BY <1>0, <2>1 DEF Asked, Continuations
  <2> QED
    BY <1>1, <2>1, <2>2
<1>8. ASSUME NEW c \in Clients, TakeFront(c) PROVE Mailbox!HandOut(c)
  <2>1. /\ pc[c] = "front" /\ list # <<>> /\ UNCHANGED call
        /\ pc' = [pc EXCEPT ![c] = call[c].back] /\ call[c].back \in {"idle", "discard"}
        /\ list' = IF call[c].dequeue THEN RemoveAt(list, 1) ELSE list
        /\ request' = request
    BY <1>0, <1>8 DEF TakeFront, At, Goto, Call, Dequeue, queue
  <2>2. call[c].after = "check" /\ call[c].want = Types /\ (call[c].back = "discard" => call[c].dequeue)
    BY <2>1 DEF CallInv
  <2>3. /\ Asked(c) # Mailbox!Idle
        /\ Asked(c).want = Types /\ Asked(c).dequeue = call[c].dequeue
        /\ Asked(c).kind = IF call[c].back = "discard" THEN "all" ELSE "one"
    <3>1. call[c].dequeue \in BOOLEAN /\ call[c].wait \in BOOLEAN
      BY <1>0 DEF Call
    <3> QED
      BY <2>1, <2>2, <3>1 DEF Asked, Mailbox!Idle
  <2>4. Mailbox!AskedFor(c) = DOMAIN list
    <3>1. \A i \in DOMAIN list : list[i] \in Event
      BY <1>0
    <3>2. \A i \in DOMAIN list : list[i].type \in Asked(c).want
      BY <2>3, <3>1 DEF Event
    <3> QED
      BY <2>3, <3>2, MatchingIs
  <2>5. 1 \in DOMAIN list /\ \A j \in DOMAIN list : 1 <= j
    BY <1>0, <2>1
  <2>6. IF Asked(c).kind = "one" THEN Mailbox!Return(c)
        ELSE [d \in Clients |-> Asked(d)]' = [d \in Clients |-> Asked(d)]
    <3>1. \A d \in Clients : d # c => Asked(d)' = Asked(d)
      BY <1>0, <2>1 DEF Asked
    <3>2. Asked(c)' = IF call[c].back = "discard" THEN Asked(c) ELSE Mailbox!Idle
      BY <1>0, <2>1, <2>2 DEF Asked, Mailbox!Idle
    <3> QED
      BY <2>3, <3>1, <3>2, AskedIs, AskedStays DEF Mailbox!Return
  <2> QED
    BY <2>1, <2>3, <2>4, <2>5, <2>6, HandOutIs
<1>9. ASSUME NEW c \in Clients, ScanHit(c) PROVE Mailbox!HandOut(c)
  <2>1. /\ pc[c] = "scan" /\ UNCHANGED call /\ pc' = [pc EXCEPT ![c] = "idle"] /\ request' = request
    BY <1>9 DEF ScanHit, At, Goto, Dequeue, queue
  <2>2. PICK i \in Matching(call[c].want) :
          /\ \A j \in Matching(call[c].want) : i <= j
          /\ list' = IF call[c].dequeue THEN RemoveAt(list, i) ELSE list
    BY <1>9 DEF ScanHit, Dequeue, queue
  <2>3. call[c].after = "scan" /\ call[c].back # "discard"
    BY <2>1 DEF CallInv
  <2>4. /\ Asked(c) # Mailbox!Idle /\ Asked(c).kind = "one"
        /\ Asked(c).want = call[c].want /\ Asked(c).dequeue = call[c].dequeue
    BY <2>1, <2>3 DEF Asked, Mailbox!Idle
  <2>5. Mailbox!AskedFor(c) = Matching(call[c].want)
    BY <2>4, MatchingIs DEF Matching
  <2>6. Mailbox!Return(c)
    <3>1. \A d \in Clients : d # c => Asked(d)' = Asked(d)
      BY <1>0, <2>1 DEF Asked
    <3>2. Asked(c)' = Mailbox!Idle
      BY <1>0, <2>1 DEF Asked, Mailbox!Idle
    <3> QED
      BY <3>1, <3>2, AskedIs DEF Mailbox!Return
  <2> QED
    <3>1. /\ i \in Mailbox!AskedFor(c) /\ \A j \in Mailbox!AskedFor(c) : i <= j
          /\ list' = IF Asked(c).dequeue THEN RemoveAt(list, i) ELSE list
      BY <2>2, <2>4, <2>5
    <3> QED
      BY <2>1, <2>4, <2>6, <3>1, HandOutIs
<1>10. ASSUME NEW c \in Clients, ScanMiss(c)
       PROVE  Mailbox!NothingThere(c) \/ UNCHANGED Mailbox!vars
  <2>1. /\ pc[c] = "scan" /\ UNCHANGED <<call, list, request>> /\ Matching(call[c].want) = {}
        /\ pc' = [pc EXCEPT ![c] = IF call[c].wait THEN "qwait" ELSE "idle"]
    BY <1>10 DEF ScanMiss, At, Goto, queue
  <2>2. call[c].after = "scan" /\ call[c].back # "discard"
    BY <2>1 DEF CallInv
  <2>3. \A d \in Clients : d # c => Asked(d)' = Asked(d)
    BY <1>0, <2>1 DEF Asked
  <2>4. CASE call[c].wait
    <3>1. Asked(c)' = Asked(c)
      BY <1>0, <2>1, <2>4 DEF Asked
    <3> QED
      BY <1>1, <2>1, <2>3, <3>1
  <2>5. CASE ~call[c].wait
    <3>1. Asked(c) # Mailbox!Idle /\ ~Asked(c).wait /\ Asked(c).want = call[c].want
      BY <2>1, <2>2, <2>5 DEF Asked, Mailbox!Idle
    <3>2. Asked(c)' = Mailbox!Idle
      BY <1>0, <2>1, <2>5 DEF Asked, Mailbox!Idle
    <3>3. Mailbox!AskedFor(c) = {}
      BY <2>1, <3>1, MatchingIs DEF Matching
    <3>4. Mailbox!Return(c)
      BY <2>3, <3>2, AskedIs DEF Mailbox!Return
    <3> QED
      BY <2>1, <3>1, <3>3, <3>4 DEF Mailbox!NothingThere
  <2> QED
    BY <2>4, <2>5
<1>11. ASSUME NEW c \in Clients, Discard(c)
       PROVE  Mailbox!NothingThere(c) \/ UNCHANGED Mailbox!vars
  <2>1. pc[c] = "discard" /\ UNCHANGED <<list, request>>
    BY <1>11 DEF Discard, At, queue
  <2>2. "discard" \in {call[c].after, call[c].back} /\ call[c].after \notin {"idle", "queued"}
    BY <2>1 DEF CallInv
  <2>3. Asked(c) = [kind |-> "all", want |-> Types, wait |-> FALSE, dequeue |-> TRUE]
    BY <2>1, <2>2 DEF Asked
  <2>4. CASE qlen = 0
    <3>1. pc' = [pc EXCEPT ![c] = "idle"] /\ UNCHANGED call
      BY <1>11, <2>4 DEF Discard, Goto
    <3>2. \A d \in Clients : d # c => Asked(d)' = Asked(d)
      BY <1>0, <3>1 DEF Asked
    <3>3. Asked(c)' = Mailbox!Idle
      BY <1>0, <3>1 DEF Asked, Mailbox!Idle
    <3>4. Asked(c) # Mailbox!Idle /\ ~Asked(c).wait
      BY <2>3 DEF Mailbox!Idle
    <3>5. DOMAIN list = {}
      <4>1. Len(list) = 0
        BY <1>0, <2>4
      <4>2. DOMAIN list = 1 .. Len(list)
        BY <1>0
      <4> QED
        BY <4>1, <4>2
    <3>6. Mailbox!AskedFor(c) = {}
      BY <3>4, <3>5, MatchingIs
    <3>7. Mailbox!Return(c)
      BY <3>2, <3>3, AskedIs DEF Mailbox!Return
    <3> QED
      BY <2>1, <3>4, <3>6, <3>7 DEF Mailbox!NothingThere
  <2>5. CASE qlen # 0
    <3>1. /\ pc' = [pc EXCEPT ![c] = "flush"]
          /\ call' = [call EXCEPT ![c] = [XNextEvent EXCEPT !.back = "discard"]]
      BY <1>11, <2>5 DEF Discard, Goto
    <3>2. \A d \in Clients : d # c => Asked(d)' = Asked(d)
      BY <1>0, <3>1 DEF Asked
    <3>3. Asked(c)' = Asked(c)
      BY <1>0, <2>3, <3>1 DEF Asked, XNextEvent, WaitForNext, NoCall
    <3> QED
      BY <1>1, <2>1, <3>2, <3>3
  <2> QED
    BY <2>4, <2>5
<1>12. CASE UNCHANGED vars
  <2>1. \A d \in Clients : Asked(d)' = Asked(d)
    BY <1>12 DEF vars, Asked
  <2> QED
    BY <1>1, <1>12, <2>1 DEF vars
<1> QED
  BY <1>2, <1>3, <1>4, <1>5, <1>6, <1>7, <1>8, <1>9, <1>10, <1>11, <1>12
     DEF Next, ClientStep, PutEvent, XPutBackEvent, Mailbox!Next, Threads

(* The queue implements a Mailbox for any number of clients and loopers:   *)
(* what each call is handed was the first it asked for at one instant,     *)
(* although qlen is read without the lock, the pipe is not guarded and its *)
(* bytes may be another's (wait_for_next, query, XFlush, XSync).           *)
THEOREM QueueImplementsMailbox == Spec => IsAMailbox
BY TypeInvariant, CallInit, CallStep, InitMaps, StepMaps, PTL
   DEF Spec, IsAMailbox, Mailbox!Spec
=============================================================================
