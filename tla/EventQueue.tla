------------------------------ MODULE EventQueue ------------------------------
(***************************************************************************)
(* The input event queue of a Display (xlib/Event.cpp, class Events).      *)
(*                                                                         *)
(* There is no X server.  Window looper threads append events to a list    *)
(* kept in the client's own process, and a pipe carries one byte per event *)
(* so that a client thread can block in read(), or in poll() on            *)
(* ConnectionNumber, until there is one.  The list is guarded by a lock;   *)
(* the pipe is not, and the byte is written after the lock is released.    *)
(*                                                                         *)
(* A critical section of the lock is one action: nothing inside it blocks. *)
(* Every access outside it (the reads of qlen, and each system call on the *)
(* pipe) is an action of its own.                                          *)
(***************************************************************************)
EXTENDS Integers, SequencesExt

CONSTANTS
  Clients,     \* application threads that call Xlib on this display
  Loopers,     \* window threads whose hooks call _x_put_event
  Types,       \* the event types the conditions of a query tell apart
  Wants,       \* the conditions passed to query, as sets of matching types
  PipeCap,     \* bytes the pipe holds before write() blocks
  Chunk,       \* sizeof(dummy) in XFlush
  MaxRequest   \* bound: Display.request stops here

ASSUME ThreadsAssumption == Clients \cap Loopers = {}
ASSUME WantsAssumption == Wants \subseteq SUBSET Types
ASSUME BoundsAssumption ==
  PipeCap \in Nat \ {0} /\ Chunk \in Nat \ {0} /\ MaxRequest \in Nat

Threads == Clients \cup Loopers

VARIABLES
  list,      \* Events::_list
  qlen,      \* Display.qlen
  request,   \* Display.request, the serial of the next event
  lastRead,  \* Display.last_request_read
  pipe,      \* bytes in the pipe
  pc,        \* what each thread is about to do
  call,      \* the Xlib call each client is in
  nbytes,    \* XFlush's local of that name
  taken,     \* history: serials of the events dequeued so far
  ub         \* list.front() was evaluated on an empty list

vars == <<list, qlen, request, lastRead, pipe, pc, call, nbytes, taken, ub>>

queue == <<list, qlen, request, lastRead, taken>>

-----------------------------------------------------------------------------
Event == [serial : Nat, type : Types, front : BOOLEAN]

(* Where a call goes when its XFlush is over: wait_for_next, query, the    *)
(* loop of XSync(True), the return of XEventsQueued, or its own return;    *)
(* "back" is where wait_for_next returns to.                               *)
Continuations == {"check", "scan", "discard", "queued", "idle"}

Call == [after : Continuations, back : {"idle", "discard"},
         want : SUBSET Types, wait : BOOLEAN, dequeue : BOOLEAN]

NoCall ==
  [after |-> "idle", back |-> "idle", want |-> Types, wait |-> FALSE, dequeue |-> FALSE]

XFlush == NoCall                                \* also XSync(False)
XSyncDiscard == [NoCall EXCEPT !.after = "discard"]
XEventsQueued == [NoCall EXCEPT !.after = "queued"]
WaitForNext(dequeue) ==
  [NoCall EXCEPT !.after = "check", !.wait = TRUE, !.dequeue = dequeue]
Query(want, wait, dequeue) ==
  [NoCall EXCEPT !.after = "scan", !.want = want, !.wait = wait, !.dequeue = dequeue]

XNextEvent == WaitForNext(TRUE)
XPeekEvent == WaitForNext(FALSE)
XMaskEvent(want) == Query(want, TRUE, TRUE)          \* XIfEvent, XWindowEvent
XPeekIfEvent(want) == Query(want, TRUE, FALSE)
XCheckMaskEvent(want) == Query(want, FALSE, TRUE)    \* every XCheck...Event

Calls == {XFlush, XSyncDiscard, XNextEvent, XPeekEvent}
           \cup UNION {{XMaskEvent(w), XPeekIfEvent(w), XCheckMaskEvent(w)} : w \in Wants}

PCs == Continuations \cup {"write", "flush", "drain", "wait", "front", "qwait", "poll"}

TypeOK ==
  /\ list \in Seq(Event)
  /\ qlen \in Nat
  /\ request \in Nat
  /\ lastRead \in Nat
  /\ pipe \in 0..PipeCap
  /\ pc \in [Threads -> PCs]
  /\ \A t \in Loopers : pc[t] \in {"idle", "write"}
  /\ call \in [Clients -> Call]
  /\ nbytes \in [Clients -> 0..PipeCap]
  /\ taken \subseteq Nat
  /\ ub \in BOOLEAN

Init ==
  /\ list = <<>>
  /\ qlen = 0
  /\ request = 1
  /\ lastRead = 0
  /\ pipe = 0
  /\ pc = [t \in Threads |-> "idle"]
  /\ call = [c \in Clients |-> NoCall]
  /\ nbytes = [c \in Clients |-> 0]
  /\ taken = {}
  /\ ub = FALSE

-----------------------------------------------------------------------------
At(t, label) == ~ub /\ pc[t] = label
Goto(t, label) == pc' = [pc EXCEPT ![t] = label]

Matching(want) == {i \in DOMAIN list : list[i].type \in want}

(* Mutant: pop_front where the match found by query is erased.             *)
DequeueFirst(i) ==
  /\ list' = Tail(list)
  /\ qlen' = qlen - 1
  /\ taken' = taken \cup {list[i].serial}
  /\ UNCHANGED <<request, lastRead>>

(* Remove the event at position i, as _list.erase and pop_front do.        *)
Dequeue(i) ==
  /\ list' = RemoveAt(list, i)
  /\ qlen' = qlen - 1
  /\ taken' = taken \cup {list[i].serial}
  /\ UNCHANGED <<request, lastRead>>

(* Mutant: a put-back is appended like any other event.                    *)
AddLast(t, type, front) ==
  /\ At(t, "idle")
  /\ request < MaxRequest
  /\ list' = Append(list, [serial |-> request, type |-> type, front |-> front])
  /\ lastRead' = request
  /\ request' = request + 1
  /\ qlen' = qlen + 1
  /\ Goto(t, "write")
  /\ UNCHANGED <<pipe, call, nbytes, taken, ub>>

(* Events::add up to the unlock.                                           *)
Add(t, type, front) ==
  /\ At(t, "idle")
  /\ request < MaxRequest
  /\ LET event == [serial |-> request, type |-> type, front |-> front]
     IN list' = IF front THEN <<event>> \o list ELSE Append(list, event)
  /\ lastRead' = request
  /\ request' = request + 1
  /\ qlen' = qlen + 1
  /\ Goto(t, "write")
  /\ UNCHANGED <<pipe, call, nbytes, taken, ub>>

(* _x_put_event: a looper's hook, or an Xlib call of a client that queues  *)
(* an event itself (XSendEvent, XMapWindow, XCopyArea's NoExpose...).      *)
PutEvent(t) == \E type \in Types : Add(t, type, FALSE)

XPutBackEvent(c) == \E type \in Types : Add(c, type, TRUE)

(* Mutant: the byte is written only for the first event in the queue.      *)
WriteFirstByte(t) ==
  /\ At(t, "write")
  /\ pipe < PipeCap
  /\ pipe' = IF qlen = 1 THEN pipe + 1 ELSE pipe
  /\ Goto(t, "idle")
  /\ UNCHANGED <<queue, call, nbytes, ub>>

(* Events::add after the unlock: write() blocks while the pipe is full.    *)
WriteByte(t) ==
  /\ At(t, "write")
  /\ pipe < PipeCap
  /\ pipe' = pipe + 1
  /\ Goto(t, "idle")
  /\ UNCHANGED <<queue, call, nbytes, ub>>

-----------------------------------------------------------------------------
(* Every call that reads events flushes first.                             *)
Begin(c) ==
  /\ At(c, "idle")
  /\ \E k \in Calls : call' = [call EXCEPT ![c] = k]
  /\ Goto(c, "flush")
  /\ UNCHANGED <<queue, pipe, nbytes, ub>>

(* XEventsQueued flushes only if it reads qlen = 0; otherwise it returns   *)
(* the length at once and changes nothing.                                 *)
BeginEventsQueued(c) ==
  /\ At(c, "idle")
  /\ qlen = 0
  /\ call' = [call EXCEPT ![c] = XEventsQueued]
  /\ Goto(c, "flush")
  /\ UNCHANGED <<queue, pipe, nbytes, ub>>

(* XFlush: ioctl(FIONREAD).                                                *)
FlushStart(c) ==
  /\ At(c, "flush")
  /\ nbytes' = [nbytes EXCEPT ![c] = pipe]
  /\ Goto(c, "drain")
  /\ UNCHANGED <<queue, pipe, call, ub>>

(* Mutant: the loop counts the reads, not the bytes they returned.         *)
DrainCountsReads(c) ==
  /\ At(c, "drain")
  /\ nbytes[c] # 0
  /\ pipe # 0
  /\ pipe' = pipe - Min({nbytes[c], Chunk, pipe})
  /\ nbytes' = [nbytes EXCEPT ![c] = @ - 1]
  /\ UNCHANGED <<queue, pc, call, ub>>

(* XFlush: one read() of its loop; it blocks while the pipe is empty.      *)
Drain(c) ==
  /\ At(c, "drain")
  /\ nbytes[c] # 0
  /\ pipe # 0
  /\ LET rd == Min({nbytes[c], Chunk, pipe})
     IN /\ pipe' = pipe - rd
        /\ nbytes' = [nbytes EXCEPT ![c] = @ - rd]
  /\ UNCHANGED <<queue, pc, call, ub>>

FlushEnd(c) ==
  /\ At(c, "drain")
  /\ nbytes[c] = 0
  /\ Goto(c, call[c].after)
  /\ UNCHANGED <<queue, pipe, call, nbytes, ub>>

-----------------------------------------------------------------------------
(* wait_for_next: the test of qlen, made without the lock.                 *)
CheckQlen(c) ==
  /\ At(c, "check")
  /\ Goto(c, IF qlen = 0 THEN "wait" ELSE "front")
  /\ UNCHANGED <<queue, pipe, call, nbytes, ub>>

(* Mutant: query waits for a second byte before it scans again.            *)
WaitWithoutScan(c) ==
  /\ pc[c] \in {"wait", "qwait"} /\ ~ub
  /\ pipe # 0
  /\ pipe' = pipe - 1
  /\ Goto(c, IF pc[c] = "wait" THEN "front" ELSE "qwait")
  /\ UNCHANGED <<queue, call, nbytes, ub>>

(* wait_for_more, called by wait_for_next or by query.                     *)
WaitForMore(c) ==
  /\ pc[c] \in {"wait", "qwait"} /\ ~ub
  /\ pipe # 0
  /\ pipe' = pipe - 1
  /\ Goto(c, IF pc[c] = "wait" THEN "front" ELSE "scan")
  /\ UNCHANGED <<queue, call, nbytes, ub>>

(* wait_for_next under the lock.                                           *)
TakeFront(c) ==
  /\ At(c, "front")
  /\ list # <<>>
  /\ IF call[c].dequeue THEN Dequeue(1) ELSE UNCHANGED queue
  /\ Goto(c, call[c].back)
  /\ UNCHANGED <<pipe, call, nbytes, ub>>

(* The same with nothing in the list: front() returns a reference to no    *)
(* element and pop_front() hands the list's own header to delete.  Nothing *)
(* the process does from here on is defined, so the model stops.           *)
FrontOfEmpty(c) ==
  /\ At(c, "front")
  /\ list = <<>>
  /\ ub' = TRUE
  /\ UNCHANGED <<queue, pipe, pc, call, nbytes>>

-----------------------------------------------------------------------------
(* query: one pass over the list under the lock, with a match or without.  *)
ScanHit(c) ==
  /\ At(c, "scan")
  /\ \E i \in Matching(call[c].want) :
       /\ \A j \in Matching(call[c].want) : i <= j
       /\ IF call[c].dequeue THEN Dequeue(i) ELSE UNCHANGED queue
  /\ Goto(c, "idle")
  /\ UNCHANGED <<pipe, call, nbytes, ub>>

(* Mutant: query gives up when the front is not what it is asked for.      *)
ScanFrontMiss(c) ==
  /\ At(c, "scan")
  /\ 1 \notin Matching(call[c].want)
  /\ Goto(c, IF call[c].wait THEN "qwait" ELSE "idle")
  /\ UNCHANGED <<queue, pipe, call, nbytes, ub>>

ScanMiss(c) ==
  /\ At(c, "scan")
  /\ Matching(call[c].want) = {}
  /\ Goto(c, IF call[c].wait THEN "qwait" ELSE "idle")
  /\ UNCHANGED <<queue, pipe, call, nbytes, ub>>

-----------------------------------------------------------------------------
(* XSync(True): while QLength, XNextEvent.  QLength is read unlocked.      *)
Discard(c) ==
  /\ At(c, "discard")
  /\ IF qlen = 0
       THEN Goto(c, "idle") /\ UNCHANGED call
       ELSE /\ call' = [call EXCEPT ![c] = [XNextEvent EXCEPT !.back = "discard"]]
            /\ Goto(c, "flush")
  /\ UNCHANGED <<queue, pipe, nbytes, ub>>

(* The value XEventsQueued returns is read after its flush.  A client told *)
(* that nothing is queued may block in poll() on ConnectionNumber, which   *)
(* leaves the byte that wakes it in the pipe.                              *)
EventsQueuedReturn(c) ==
  /\ At(c, "queued")
  /\ \E label \in IF qlen = 0 THEN {"idle", "poll"} ELSE {"idle"} : Goto(c, label)
  /\ UNCHANGED <<queue, pipe, call, nbytes, ub>>

PollReturns(c) ==
  /\ At(c, "poll")
  /\ pipe # 0
  /\ Goto(c, "idle")
  /\ UNCHANGED <<queue, pipe, call, nbytes, ub>>

-----------------------------------------------------------------------------
(* The steps that finish what a thread is doing; starting a new call or    *)
(* delivering a new event is up to the environment.                        *)
ClientStep(c) ==
  \/ FlushStart(c) \/ Drain(c) \/ FlushEnd(c)
  \/ CheckQlen(c) \/ WaitForMore(c) \/ TakeFront(c) \/ FrontOfEmpty(c)
  \/ ScanHit(c) \/ ScanMiss(c)
  \/ Discard(c) \/ EventsQueuedReturn(c) \/ PollReturns(c)

Next ==
  \/ \E t \in Threads : PutEvent(t) \/ WriteByte(t)
  \/ \E c \in Clients : XPutBackEvent(c) \/ Begin(c) \/ BeginEventsQueued(c) \/ ClientStep(c)

Spec == Init /\ [][Next]_vars

(* Each thread is scheduled: a system call that can return does, and the   *)
(* code between two of them runs to the next.                              *)
Fairness ==
  /\ \A t \in Threads : WF_vars(WriteByte(t))
  /\ \A c \in Clients : WF_vars(ClientStep(c))

FairSpec == Spec /\ Fairness

-----------------------------------------------------------------------------
(* No event is lost and none is handed out twice, whatever the clients and *)
(* loopers interleave: the serials in the list are distinct, none of them  *)
(* was dequeued before, and every serial ever given to an event is either  *)
(* still in the list or was dequeued (Events::add, wait_for_next, query).  *)
ExactlyOnce ==
  /\ \A i, j \in DOMAIN list : list[i].serial = list[j].serial => i = j
  /\ \A i \in DOMAIN list : list[i].serial \notin taken
  /\ taken \cup {list[i].serial : i \in DOMAIN list} = 1..(request - 1)

(* Events put back come first, the last one put back first of all; behind  *)
(* them the others in the order they were queued.  No selective removal by *)
(* query, no peek and no put-back disturbs this order.                     *)
DeliveryOrder ==
  \A i, j \in DOMAIN list : i < j =>
    IF list[j].front THEN list[i].front /\ list[i].serial > list[j].serial
                     ELSE list[i].front \/ list[i].serial < list[j].serial

(* What a client has asked of the queue: nothing while it only flushes or  *)
(* counts, all there is in XSync(True), one event otherwise.               *)
Asked(c) ==
  IF pc[c] \in {"idle", "write"} \/ call[c].after \in {"idle", "queued"} THEN [kind |-> "idle"]
  ELSE IF "discard" \in {call[c].after, call[c].back}
    THEN [kind |-> "all", want |-> Types, wait |-> FALSE, dequeue |-> TRUE]
    ELSE [kind |-> "one", want |-> call[c].want, wait |-> call[c].wait, dequeue |-> call[c].dequeue]

(* Seen by its callers the queue is a Mailbox, for as many clients as      *)
(* there are: a call is handed the first event it asked for, or finds      *)
(* none, at one instant, though its flush, its test of qlen, its waiting   *)
(* and its look at the list are apart; and XSync(True) returns when        *)
(* nothing is left.                                                        *)
Mailbox == INSTANCE Mailbox
  WITH Readers <- Clients, events <- list, next <- request, asked <- [c \in Clients |-> Asked(c)]

IsAMailbox == Mailbox!Spec

(* What a blocked client waits for.                                        *)
Awaited(c) ==
  CASE pc[c] \in {"wait", "poll"} -> list # <<>>
    [] pc[c] = "qwait" -> Matching(call[c].want) # {}
    [] OTHER -> FALSE

(* A client is never left blocked in read() or poll() with the event it    *)
(* waits for in the list: a byte is in the pipe, or a looper is about to   *)
(* write one.  XFlush and wait_for_more throw bytes away, so this rests on *)
(* the order in which they and the list are looked at.                     *)
NoLostWakeup ==
  \A c \in Clients : Awaited(c) => pipe # 0 \/ \E t \in Loopers : pc[t] = "write"

(* The count that XFlush took from FIONREAD stays covered by the pipe, so  *)
(* the read() in its loop never blocks.                                    *)
FlushNeverBlocks == \A c \in Clients : pc[c] = "drain" => pipe >= nbytes[c]

(* A blocked client whose event has arrived returns from read() or poll(). *)
WakesUp ==
  \A c \in Clients : Awaited(c) ~> (ub \/ pc[c] \notin {"wait", "qwait", "poll"})

(* wait_for_next finds an event in the list whenever it takes the front.   *)
FrontIsAnEvent == ~ub

(* A client that queues an event itself gets past write() again.           *)
PutReturns == \A c \in Clients : pc[c] = "write" ~> pc[c] # "write"

=============================================================================
