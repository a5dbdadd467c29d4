----------------------------- MODULE HooksProofs -----------------------------
(***************************************************************************)
(* What is proved of the parts that MCHooks puts together, for every value *)
(* of their constants.  Each part has an inductive invariant of its own.   *)
(*                                                                         *)
(* The selection (SelectionInv, ClaimInv): the owner that is told is one   *)
(* whose claim is still in the queue, the text of the last claim arrives,  *)
(* and a conversion that no other one to its property crossed is answered  *)
(* with its own target.                                                    *)
(* The size (SizesInv): once the looper has caught up, the window, its     *)
(* view and its BWindow agree, on what was asked for last.                 *)
(* The hints (HintsInv): a BWindow is as its client last asked, and its    *)
(* subset holds the windows that are transient for it.                     *)
(* The keyboard (ButtonsInv): a release names the button whose press was   *)
(* put; and keys are the same to those that ask for codes, symbols,        *)
(* modifiers or text.                                                      *)
(* The pointer and the focus (GrabInv, FocusInv): the window that grabbed  *)
(* the pointer is there, and a grab gives back the mask that was selected; *)
(* the focused window is its BWindow's focus, and once all messages are    *)
(* handled the words of the hooks name what Haiku says.                    *)
(***************************************************************************)
EXTENDS Hooks, SequenceLemmas, TLAPS

(* The selection: the events in the queue.                                 *)
Events == Requests \cup Notifies

-----------------------------------------------------------------------------
LEMMA FunctionIsSeq ==
  ASSUME NEW S, NEW n \in Nat, NEW f \in [1 .. n -> S]
  PROVE  f \in Seq(S) /\ Len(f) = n
OBVIOUS

(* A notification that shares its property with a new one is alone no      *)
(* longer; all else stays.                                                 *)
Shared(property) ==
  [i \in DOMAIN events |->
     IF i \in {j \in Of("notify") : events[j].property = property}
     THEN [events[i] EXCEPT !.alone = FALSE] ELSE events[i]]

LEMMA SharedKeeps ==
  ASSUME SelectionTypeOK, NEW p \in Properties
  PROVE  /\ Shared(p) \in Seq(Events)
         /\ DOMAIN Shared(p) = DOMAIN events /\ Len(Shared(p)) = Len(events)
         /\ \A i \in Of("request") : Shared(p)[i] = events[i]
         /\ \A i \in Of("notify") :
              /\ Shared(p)[i].type = "notify"
              /\ Shared(p)[i].property = events[i].property
              /\ Shared(p)[i].target = events[i].target
              /\ Shared(p)[i].alone => events[i].alone /\ events[i].property # p
<1>1. events \in Seq(Events)
  BY DEF SelectionTypeOK, Events
<1>2. \A i \in DOMAIN events : /\ events[i] \in Events
                               /\ events[i].type = "notify" <=> events[i] \in Notifies
  BY <1>1 DEF Events, Requests, Notifies
<1>3. \A i \in DOMAIN events : /\ Shared(p)[i] \in Events
                               /\ events[i] \in Notifies => Shared(p)[i] \in Notifies
  BY <1>2 DEF Shared, Of, Events, Notifies
<1>4. /\ Len(events) \in Nat /\ DOMAIN events = 1 .. Len(events)
      /\ Shared(p) \in [DOMAIN events -> Events]
  BY <1>1, <1>3 DEF Shared
<1>5. Shared(p) \in Seq(Events) /\ Len(Shared(p)) = Len(events)
  BY <1>4, FunctionIsSeq
<1>6. \A i \in Of("request") : Shared(p)[i] = events[i]
  BY DEF Shared, Of
<1>7. ASSUME NEW i \in Of("notify")
      PROVE  /\ Shared(p)[i].type = "notify"
             /\ Shared(p)[i].property = events[i].property
             /\ Shared(p)[i].target = events[i].target
             /\ Shared(p)[i].alone => events[i].alone /\ events[i].property # p
  <2>1. events[i] \in Notifies /\ i \in DOMAIN events
    BY <1>2 DEF Of
  <2>2. CASE events[i].property = p
    BY <2>1, <2>2 DEF Shared, Of, Notifies
  <2>3. CASE events[i].property # p
    BY <2>1, <2>3 DEF Shared, Of, Notifies
  <2> QED
    BY <2>2, <2>3
<1> QED
  BY <1>5, <1>6, <1>7 DEF Shared

-----------------------------------------------------------------------------
(* What the calls are about agrees with what is in the queue: a notified    *)
(* property that is alone is no other notification's; if it is the one     *)
(* that is remembered, so is its target; and it is the one if it was the   *)
(* last to be asked for.                                                   *)
DistinctOK == \A i, j \in Of("notify") :
  i # j /\ events[i].alone => events[i].property # events[j].property
PendingOK == \A i \in Of("notify") :
  events[i].alone /\ events[i].property = requestProperty => events[i].target = requestTarget
LastOK == \A i \in Of("notify") :
  events[i].alone /\ (\A j \in Of("notify") : j <= i) => events[i].property = requestProperty

Asked == DistinctOK /\ PendingOK /\ LastOK

SelectionInv == SelectionTypeOK /\ OwnerIsClaiming /\ Asked /\ ConversionAnswers

LEMMA InitSelection == SelectionInit => SelectionInv
<1> SUFFICES ASSUME SelectionInit PROVE SelectionInv
  OBVIOUS
<1>1. /\ events \in Seq(Events) /\ DOMAIN events = {}
      /\ clipboard \in Seq({w \in Claimants : Offers[w] = "text"} \cup {Other})
  BY DEF SelectionInit
<1>2. SelectionTypeOK
  BY <1>1 DEF SelectionInit, SelectionTypeOK, NothingRead, AllTargets, Types, Events
<1> QED
  BY <1>1, <1>2 DEF SelectionInit, SelectionInv, OwnerIsClaiming, XGetSelectionOwner, Asked, DistinctOK,
       PendingOK, LastOK, Of, ConversionAnswers, NothingRead

-----------------------------------------------------------------------------
(* A window claims the selection: a request goes behind all events.        *)
LEMMA ClaimKeeps ==
  ASSUME SelectionInv, NEW w \in Claimants \cup {Nothing}, XSetSelectionOwner(w)
  PROVE  SelectionInv'
<1> DEFINE r == Request(w, "TARGETS")
<1>1. events \in Seq(Events) /\ r \in Events /\ r.type = "request"
  BY DEF SelectionInv, SelectionTypeOK, Events, Requests, Request, AllTargets
<1>2. events' = Append(events, r) /\ requestee' = w /\ copied' = w
      /\ UNCHANGED <<requestProperty, requestTarget, clipboard, got>>
  BY DEF XSetSelectionOwner
<1>8. crossed' \in BOOLEAN
  BY DEF XSetSelectionOwner
<1> HIDE DEF r
<1>3. /\ events' \in Seq(Events)
      /\ DOMAIN events' = DOMAIN events \cup {Len(events) + 1}
      /\ \A i \in DOMAIN events : events'[i] = events[i]
      /\ events'[Len(events) + 1] = r
  BY <1>1, <1>2, AppendKeeps
<1>4. Of("notify")' = Of("notify") /\ \A i \in Of("notify") : events'[i] = events[i]
  BY <1>1, <1>3 DEF Of
<1>5. SelectionTypeOK'
  BY <1>2, <1>3, <1>8 DEF SelectionInv, SelectionTypeOK, Events
<1>6. OwnerIsClaiming'
  BY <1>1, <1>2, <1>3 DEF OwnerIsClaiming, XGetSelectionOwner, Of, r
<1>7. Asked'
  <2>1. DistinctOK'
    BY <1>4 DEF SelectionInv, Asked, DistinctOK
  <2>2. PendingOK'
    BY <1>2, <1>4 DEF SelectionInv, Asked, PendingOK
  <2>3. LastOK'
    BY <1>2, <1>4 DEF SelectionInv, Asked, LastOK
  <2> QED
    BY <2>1, <2>2, <2>3 DEF Asked
<1> QED
  BY <1>2, <1>5, <1>6, <1>7 DEF SelectionInv, ConversionAnswers

(* A conversion: a notification goes behind them, and those of its         *)
(* property are alone no longer.                                           *)
LEMMA ConversionKeeps ==
  ASSUME SelectionInv, NEW p \in Properties, NEW t \in Targets, XConvertSelection(p, t)
  PROVE  SelectionInv'
<1> DEFINE n == Notify(p, t, {i \in Of("notify") : events[i].property = p} = {})
<1>1. /\ events' = Append(Shared(p), n)
      /\ requestProperty' = p /\ requestTarget' = t
      /\ UNCHANGED <<requestee, clipboard, copied, crossed, got>>
  BY DEF XConvertSelection, Shared, history
<1>2. /\ n \in Events /\ n.type = "notify" /\ n.property = p /\ n.target = t
      /\ n.alone => \A i \in Of("notify") : events[i].property # p
  BY TargetsAssumption DEF Events, Notifies, Notify
<1> HIDE DEF n
<1>3. SelectionTypeOK /\ events \in Seq(Events)
  BY DEF SelectionInv, SelectionTypeOK, Events
<1>4. /\ Shared(p) \in Seq(Events)
      /\ DOMAIN Shared(p) = DOMAIN events /\ Len(Shared(p)) = Len(events)
      /\ \A i \in Of("request") : Shared(p)[i] = events[i]
      /\ \A i \in Of("notify") :
           /\ Shared(p)[i].type = "notify"
           /\ Shared(p)[i].property = events[i].property
           /\ Shared(p)[i].target = events[i].target
           /\ Shared(p)[i].alone => events[i].alone /\ events[i].property # p
  BY <1>3, SharedKeeps
<1>5. /\ events' \in Seq(Events)
      /\ DOMAIN events' = DOMAIN events \cup {Len(events) + 1}
      /\ \A i \in DOMAIN events : events'[i] = Shared(p)[i]
      /\ events'[Len(events) + 1] = n
  BY <1>1, <1>2, <1>4, AppendKeeps
<1>6. DOMAIN events = 1 .. Len(events) /\ Len(events) \in Nat
      /\ \A i \in DOMAIN events : i \in Of("request") \/ i \in Of("notify")
  BY <1>3 DEF Of, Events, Requests, Notifies
<1>7. Of("notify")' = Of("notify") \cup {Len(events) + 1}
  <2>1. Of("notify")' \subseteq Of("notify") \cup {Len(events) + 1}
    BY <1>4, <1>5, <1>6 DEF Of
  <2>2. Of("notify") \cup {Len(events) + 1} \subseteq Of("notify")'
    BY <1>2, <1>4, <1>5, <1>6 DEF Of
  <2> QED
    BY <2>1, <2>2
<1>8. SelectionTypeOK'
  BY <1>1, <1>3, <1>5, TargetsAssumption DEF SelectionTypeOK, Events
<1>9. OwnerIsClaiming'
  BY <1>1, <1>4, <1>5 DEF SelectionInv, OwnerIsClaiming, XGetSelectionOwner, Of, Request
<1>10. \A i \in Of("notify") : i \in DOMAIN events /\ i < Len(events) + 1
  BY <1>6 DEF Of
<1>11. DistinctOK'
  BY <1>2, <1>4, <1>5, <1>7, <1>10 DEF SelectionInv, Asked, DistinctOK
<1>12. PendingOK'
  BY <1>1, <1>2, <1>4, <1>5, <1>7, <1>10 DEF PendingOK
<1>13. LastOK'
  <2> SUFFICES ASSUME NEW i \in Of("notify")', \A j \in Of("notify")' : j <= i
               PROVE  events'[i].property = requestProperty'
    BY DEF LastOK
  <2>1. i = Len(events) + 1
    BY <1>6, <1>7, <1>10
  <2> QED
    BY <2>1, <1>1, <1>2, <1>5
<1> QED
  BY <1>1, <1>8, <1>9, <1>11, <1>12, <1>13 DEF SelectionInv, Asked, ConversionAnswers

(* What a step that takes the first event, and may put a request behind    *)
(* the others, leaves of the notifications.                                *)
LEMMA TakenKeeps ==
  ASSUME SelectionTypeOK, events # <<>>, NEW r \in Requests,
         events' = Tail(events) \/ events' = Append(Tail(events), r)
  PROVE  /\ events' \in Seq(Events)
         /\ \A i \in Of("notify")' : i + 1 \in Of("notify") /\ events'[i] = events[i + 1]
         /\ \A i \in Of("notify") : i # 1 => i - 1 \in Of("notify")' /\ events'[i - 1] = events[i]
         /\ \A i \in Of("request") : i # 1 => i - 1 \in Of("request")' /\ events'[i - 1] = events[i]
         /\ Of("notify") \subseteq Nat /\ Of("notify")' \subseteq Nat
<1>1. events \in Seq(Events) /\ r \in Events /\ r.type = "request"
  BY DEF SelectionTypeOK, Events, Requests
<1>2. /\ Tail(events) \in Seq(Events)
      /\ \A i \in DOMAIN Tail(events) : i + 1 \in DOMAIN events /\ Tail(events)[i] = events[i + 1]
      /\ \A i \in DOMAIN events : i # 1 =>
           i - 1 \in DOMAIN Tail(events) /\ Tail(events)[i - 1] = events[i]
  BY <1>1, TailKeeps
<1>3. CASE events' = Tail(events)
  BY <1>1, <1>2, <1>3 DEF Of
<1>4. CASE events' = Append(Tail(events), r)
  <2>1. /\ events' \in Seq(Events)
        /\ DOMAIN events' = DOMAIN Tail(events) \cup {Len(Tail(events)) + 1}
        /\ \A i \in DOMAIN Tail(events) : events'[i] = Tail(events)[i]
        /\ events'[Len(Tail(events)) + 1] = r
    BY <1>1, <1>2, <1>4, AppendKeeps
  <2>2. Of("notify")' = {i \in DOMAIN Tail(events) : Tail(events)[i].type = "notify"}
    BY <1>1, <2>1 DEF Of
  <2>3. \A i \in DOMAIN Tail(events) : events'[i] = Tail(events)[i] /\ i \in DOMAIN events'
    BY <2>1
  <2>4. Of("notify") \subseteq Nat /\ Of("notify")' \subseteq Nat
    BY <1>1, <2>1 DEF Of
  <2> QED
    BY <1>2, <2>1, <2>2, <2>3, <2>4 DEF Of
<1> QED
  BY <1>3, <1>4

(* A window answers a request: what is notified stays, one place earlier.  *)
LEMMA AnswerKeeps ==
  ASSUME SelectionInv, AnswerRequest
  PROVE  SelectionInv'
<1> DEFINE e == Head(events)
           r == Request(requestee, "UTF8_STRING")
<1>1. SelectionTypeOK /\ events \in Seq(Events)
  BY DEF SelectionInv, SelectionTypeOK, Events
<1>2. /\ events # <<>> /\ e = events[1] /\ e.type = "request" /\ e \in Requests
      /\ UNCHANGED <<requestProperty, requestTarget, copied, crossed, got>>
  <2>1. events # <<>> /\ e.type = "request"
        /\ UNCHANGED <<requestProperty, requestTarget, copied, crossed, got>>
    BY DEF AnswerRequest, history
  <2>2. e = events[1] /\ events[1] \in Events
    BY <1>1, <2>1, TailKeeps
  <2> QED
    BY <2>1, <2>2 DEF Events, Notifies
<1>3. r \in Requests
  BY <1>1 DEF Requests, Request, SelectionTypeOK, AllTargets
<1>4. \/ /\ e.owner # Nothing /\ e.target = "TARGETS" /\ ReceiveTypes(e.owner)
      \/ /\ e.owner # Nothing /\ e.target = "UTF8_STRING" /\ ReceiveData(e.owner)
      \/ /\ e.owner = Nothing /\ events' = Tail(events) /\ UNCHANGED <<requestee, clipboard>>
  BY DEF AnswerRequest
<1>5. events' = Tail(events) \/ events' = Append(Tail(events), r)
  BY <1>4 DEF ReceiveTypes, ReceiveData
<1>6. requestee' = requestee \/ requestee' = Nothing
  BY <1>4 DEF ReceiveTypes, ReceiveData
<1>7. clipboard' \in Seq({w \in Claimants : Offers[w] = "text"} \cup {Other})
  <2> DEFINE C == {w \in Claimants : Offers[w] = "text"} \cup {Other}
  <2>1. clipboard \in Seq(C) /\ <<>> \in Seq(C)
    BY <1>1 DEF SelectionTypeOK
  <2>2. e.owner # Nothing => e.owner \in Claimants
    BY <1>2 DEF Requests
  <2>3. CASE e.owner # Nothing /\ e.target = "TARGETS" /\ ReceiveTypes(e.owner)
    BY <2>1, <2>3 DEF ReceiveTypes
  <2>4. CASE e.owner # Nothing /\ e.target = "UTF8_STRING" /\ ReceiveData(e.owner)
    <3>1. CASE Offers[e.owner] = "text"
      <4>1. e.owner \in C /\ clipboard' = Append(clipboard, e.owner)
        BY <2>2, <2>4, <3>1 DEF ReceiveData
      <4> HIDE DEF C
      <4>2. clipboard' \in Seq(C)
        BY <2>1, <4>1, AppendKeeps
      <4> QED
        BY <4>2 DEF C
    <3>2. CASE Offers[e.owner] # "text"
      BY <2>1, <2>4, <3>2 DEF ReceiveData
    <3> QED
      BY <3>1, <3>2
  <2>5. CASE e.owner = Nothing /\ UNCHANGED clipboard
    BY <2>1, <2>5
  <2> QED
    BY <1>4, <2>3, <2>4, <2>5
<1> HIDE DEF r
<1>8. /\ events' \in Seq(Events)
      /\ \A i \in Of("notify")' : i + 1 \in Of("notify") /\ events'[i] = events[i + 1]
      /\ \A i \in Of("notify") : i # 1 => i - 1 \in Of("notify")' /\ events'[i - 1] = events[i]
      /\ \A i \in Of("request") : i # 1 => i - 1 \in Of("request")' /\ events'[i - 1] = events[i]
      /\ Of("notify") \subseteq Nat /\ Of("notify")' \subseteq Nat
  BY <1>1, <1>2, <1>3, <1>5, TakenKeeps
<1>9. SelectionTypeOK'
  BY <1>1, <1>2, <1>6, <1>7, <1>8 DEF SelectionTypeOK, Events
<1>10. OwnerIsClaiming'
  <2> SUFFICES ASSUME requestee' # Nothing
               PROVE  \E i \in Of("request")' : events'[i] = Request(requestee', "TARGETS")
    BY DEF OwnerIsClaiming, XGetSelectionOwner
  <2>1. PICK i \in Of("request") : events[i] = Request(requestee, "TARGETS")
    BY <1>6 DEF SelectionInv, OwnerIsClaiming, XGetSelectionOwner
  <2>2. requestee' = requestee /\ (e.owner = Nothing \/ e.target = "UTF8_STRING")
    BY <1>4, <1>6 DEF ReceiveTypes
  <2>3. i # 1
    BY <1>2, <2>1, <2>2 DEF Request
  <2> QED
    BY <1>8, <2>1, <2>2, <2>3
<1>11. \A i \in Of("notify") : i # 1
  BY <1>2 DEF Of
<1>12. DistinctOK'
  <2> SUFFICES ASSUME NEW i \in Of("notify")', NEW j \in Of("notify")', i # j, events'[i].alone
               PROVE  events'[i].property # events'[j].property
    BY DEF DistinctOK
  <2>1. /\ i + 1 \in Of("notify") /\ events'[i] = events[i + 1]
        /\ j + 1 \in Of("notify") /\ events'[j] = events[j + 1]
        /\ i + 1 # j + 1
    BY <1>8
  <2> QED
    BY <2>1 DEF SelectionInv, Asked, DistinctOK
<1>13. PendingOK'
  BY <1>2, <1>8 DEF SelectionInv, Asked, PendingOK
<1>14. LastOK'
  <2> SUFFICES ASSUME NEW i \in Of("notify")', events'[i].alone, \A j \in Of("notify")' : j <= i
               PROVE  events'[i].property = requestProperty'
    BY DEF LastOK
  <2>1. i + 1 \in Of("notify") /\ events'[i] = events[i + 1] /\ i \in Nat
    BY <1>8
  <2>2. ASSUME NEW j \in Of("notify") PROVE j <= i + 1
    BY <1>8, <1>11, <2>1
  <2> QED
    BY <1>2, <2>1, <2>2 DEF SelectionInv, Asked, LastOK
<1> QED
  BY <1>2, <1>9, <1>10, <1>12, <1>13, <1>14 DEF SelectionInv, Asked, ConversionAnswers

(* A property is read: if it is the one remembered, nothing is remembered   *)
(* afterwards.                                                             *)
LEMMA ReadKeeps ==
  ASSUME SelectionInv, XGetWindowProperty
  PROVE  SelectionInv'
<1> DEFINE e == Head(events)
           type == GetClipboard(e.property)
<1>1. SelectionTypeOK /\ events \in Seq(Events)
  BY DEF SelectionInv, SelectionTypeOK, Events
<1>2. /\ events # <<>> /\ e.type = "notify" /\ events' = Tail(events)
      /\ UNCHANGED <<requestee, clipboard, copied, crossed>>
  BY DEF XGetWindowProperty
<1>3. e = events[1] /\ e \in Notifies /\ 1 \in Of("notify")
  <2>1. e = events[1] /\ events[1] \in Events
    BY <1>1, <1>2, TailKeeps
  <2> QED
    BY <1>1, <1>2, <2>1 DEF Events, Requests, Of
<1>4. /\ got' = [last |-> Of("notify") = {1}, alone |-> e.alone, target |-> e.target, type |-> type]
      /\ requestProperty' = IF type = "failed" THEN requestProperty ELSE Nothing
      /\ requestTarget' = IF type = "UTF8_STRING" /\ requestTarget # "STRING"
                          THEN "UTF8_STRING" ELSE requestTarget
  BY DEF XGetWindowProperty
<1>5. /\ type = "failed" <=> e.property # requestProperty
      /\ type # "failed" => type = TypeOfTarget(requestTarget)
      /\ type \in Types
  BY DEF GetClipboard, TypeOfTarget, Types
<1> HIDE DEF type
<1>6. /\ events' \in Seq(Events)
      /\ \A i \in Of("notify")' : i + 1 \in Of("notify") /\ events'[i] = events[i + 1]
      /\ \A i \in Of("notify") : i # 1 => i - 1 \in Of("notify")' /\ events'[i - 1] = events[i]
      /\ \A i \in Of("request") : i # 1 => i - 1 \in Of("request")' /\ events'[i - 1] = events[i]
      /\ Of("notify") \subseteq Nat /\ Of("notify")' \subseteq Nat
  <2>1. Request(Nothing, "TARGETS") \in Requests
    BY DEF Request, Requests, AllTargets
  <2> QED
    BY <1>1, <1>2, <2>1, TakenKeeps
<1>7. SelectionTypeOK'
  <2>1. got' \in [last : BOOLEAN, alone : BOOLEAN, target : AllTargets, type : Types]
    BY <1>3, <1>4, <1>5 DEF Notifies
  <2>2. requestProperty' \in Properties \cup {Nothing} /\ requestTarget' \in AllTargets \cup {Nothing}
    BY <1>1, <1>4 DEF SelectionTypeOK, AllTargets
  <2> QED
    BY <1>1, <1>2, <1>6, <2>1, <2>2 DEF SelectionTypeOK, Events
<1>8. OwnerIsClaiming'
  <2> SUFFICES ASSUME requestee # Nothing
               PROVE  \E i \in Of("request")' : events'[i] = Request(requestee, "TARGETS")
    BY <1>2 DEF OwnerIsClaiming, XGetSelectionOwner
  <2>1. PICK i \in Of("request") : events[i] = Request(requestee, "TARGETS")
    BY DEF SelectionInv, OwnerIsClaiming, XGetSelectionOwner
  <2>2. i # 1
    BY <1>2, <1>3 DEF Of
  <2> QED
    BY <1>6, <2>1, <2>2
<1>9. DistinctOK'
  <2> SUFFICES ASSUME NEW i \in Of("notify")', NEW j \in Of("notify")', i # j, events'[i].alone
               PROVE  events'[i].property # events'[j].property
    BY DEF DistinctOK
  <2>1. /\ i + 1 \in Of("notify") /\ events'[i] = events[i + 1]
        /\ j + 1 \in Of("notify") /\ events'[j] = events[j + 1]
        /\ i + 1 # j + 1
    BY <1>6
  <2> QED
    BY <2>1 DEF SelectionInv, Asked, DistinctOK
(* Of the others, what is alone has another property than the one read.    *)
<1>10. ASSUME NEW i \in Of("notify")', events'[i].alone
       PROVE  /\ i + 1 \in Of("notify") /\ events'[i] = events[i + 1] /\ i \in Nat
              /\ events[i + 1].property # e.property
              /\ events[i + 1].property \in Properties
  <2>1. i + 1 \in Of("notify") /\ events'[i] = events[i + 1] /\ i \in Nat /\ i # 0
    BY <1>6 DEF Of
  <2>2. events[i + 1].property # events[1].property
    BY <1>3, <1>10, <2>1 DEF SelectionInv, Asked, DistinctOK
  <2>3. events[i + 1] \in Notifies
    BY <1>1, <2>1 DEF Of, Events, Requests
  <2> QED
    BY <1>3, <2>1, <2>2, <2>3 DEF Notifies
<1>11. PendingOK'
  <2> SUFFICES ASSUME NEW i \in Of("notify")', events'[i].alone, events'[i].property = requestProperty'
               PROVE  events'[i].target = requestTarget'
    BY DEF PendingOK
  <2>1. requestProperty' # Nothing
    BY <1>10, NamesAssumption
  <2>2. type = "failed" /\ requestProperty' = requestProperty /\ requestTarget' = requestTarget
    BY <1>4, <2>1
  <2> QED
    BY <1>10, <2>2 DEF SelectionInv, Asked, PendingOK
<1>12. LastOK'
  <2> SUFFICES ASSUME NEW i \in Of("notify")', events'[i].alone, \A j \in Of("notify")' : j <= i
               PROVE  events'[i].property = requestProperty'
    BY DEF LastOK
  <2>1. ASSUME NEW j \in Of("notify") PROVE j <= i + 1
    <3>1. CASE j = 1
      BY <1>10, <3>1
    <3>2. CASE j # 1
      BY <1>6, <1>10, <3>2
    <3> QED
      BY <3>1, <3>2
  <2>2. events[i + 1].property = requestProperty
    BY <1>10, <2>1 DEF SelectionInv, Asked, LastOK
  <2> QED
    BY <1>4, <1>5, <1>10, <2>2
<1>13. ConversionAnswers'
  <2> SUFFICES ASSUME e.alone
               PROVE  /\ type \in {"failed", TypeOfTarget(e.target)}
                      /\ Of("notify") = {1} => type = TypeOfTarget(e.target)
    BY <1>4 DEF ConversionAnswers
  <2>1. CASE e.property = requestProperty
    BY <1>3, <1>5, <2>1 DEF SelectionInv, Asked, PendingOK
  <2>2. CASE e.property # requestProperty
    <3>1. type = "failed"
      BY <1>5, <2>2
    <3>2. ASSUME Of("notify") = {1} PROVE FALSE
      BY <1>3, <2>2, <3>2 DEF SelectionInv, Asked, LastOK
    <3> QED
      BY <3>1, <3>2
  <2> QED
    BY <2>1, <2>2
<1> QED
  BY <1>7, <1>8, <1>9, <1>11, <1>12, <1>13 DEF SelectionInv, Asked

(* Every call and every event that is taken keeps it.                      *)
LEMMA NextKeepsSelection == SelectionInv /\ [SelectionNext]_selectionVars => SelectionInv'
<1> SUFFICES ASSUME SelectionInv, [SelectionNext]_selectionVars
             PROVE  SelectionInv'
  OBVIOUS
<1>1. ASSUME NEW w \in Claimants \cup {Nothing}, XSetSelectionOwner(w)
      PROVE  SelectionInv'
  BY <1>1, ClaimKeeps
<1>2. ASSUME NEW p \in Properties, NEW t \in Targets, XConvertSelection(p, t)
      PROVE  SelectionInv'
  BY <1>2, ConversionKeeps
<1>3. CASE AnswerRequest
  BY <1>3, AnswerKeeps
<1>4. CASE XGetWindowProperty
  BY <1>4, ReadKeeps
<1>5. ASSUME NEW texts \in {<<>>, <<Other>>}, OtherCopies(texts)
      PROVE  SelectionInv'
  <2>1. texts \in Seq({w \in Claimants : Offers[w] = "text"} \cup {Other})
    <3>1. \A S : <<>> \in Seq(S) /\ \A s \in S : <<s>> \in Seq(S)
      OBVIOUS
    <3> QED
      BY <3>1
  <2>2. SelectionTypeOK'
    BY <1>5, <2>1 DEF OtherCopies, SelectionInv, SelectionTypeOK
  <2> QED
    BY <1>5, <2>2 DEF OtherCopies, SelectionInv, OwnerIsClaiming, XGetSelectionOwner, Of,
         Asked, DistinctOK, PendingOK, LastOK, ConversionAnswers
<1>6. CASE UNCHANGED selectionVars
  <2>1. SelectionTypeOK'
    BY <1>6 DEF selectionVars, SelectionInv, SelectionTypeOK
  <2> QED
    BY <1>6, <2>1 DEF selectionVars, SelectionInv, OwnerIsClaiming, XGetSelectionOwner, Of,
         Asked, DistinctOK, PendingOK, LastOK, ConversionAnswers
<1> QED
  BY <1>1, <1>2, <1>3, <1>4, <1>5, <1>6 DEF SelectionNext

-----------------------------------------------------------------------------
(* The statics, the clipboard and the events keep their types.             *)
THEOREM SelectionTypeCorrect == SelectionSpec => []SelectionTypeOK
<1>1. SelectionInv => SelectionTypeOK
  BY DEF SelectionInv
<1> QED
  BY <1>1, InitSelection, NextKeepsSelection, PTL DEF SelectionSpec

(* XGetSelectionOwner names a window only while the request for what it    *)
(* offers is in the queue (Selection.cpp:40-70, 187-213).                  *)
THEOREM OwnerHasClaimed == SelectionSpec => []OwnerIsClaiming
<1>1. SelectionInv => OwnerIsClaiming
  BY DEF SelectionInv
<1> QED
  BY <1>1, InitSelection, NextKeepsSelection, PTL DEF SelectionSpec

(* The two statics of a conversion serve one that no other conversion to   *)
(* its property crosses as well as a queue would (Selection.cpp:72-185):   *)
(* it is never answered with another's target, and the last one always.    *)
THEOREM AloneIsAnswered == SelectionSpec => []ConversionAnswers
<1>1. SelectionInv => ConversionAnswers
  BY DEF SelectionInv
<1> QED
  BY <1>1, InitSelection, NextKeepsSelection, PTL DEF SelectionSpec

(* The requests of a target that wait for a window: for its types when it  *)
(* has claimed, for the text when they are in.                             *)
Wanted(target) == {i \in Of("request") : events[i].target = target /\ events[i].owner # Nothing}
Claims == Wanted("TARGETS")
Datas == Wanted("UTF8_STRING")

(* The stages of the last claim.  While it is made, one of its requests is *)
(* the last of all; then its text is asked for, last of all, and either the *)
(* clipboard is empty and no other text on its way, or a claim before it   *)
(* and behind all other text will clear the clipboard; then it has arrived. *)
Making(c) ==
  /\ requestee = c
  /\ \E m \in Claims : \A i \in Claims \cup Datas : i <= m

Asking(c) ==
  /\ requestee = Nothing
  /\ \E k \in Datas :
       /\ events[k].owner = c
       /\ \A i \in Claims \cup Datas : i <= k
       /\ \/ clipboard = <<>> /\ Datas = {k}
          \/ \E j \in Claims : \A i \in Datas \ {k} : i < j

Arrived(c) ==
  /\ requestee = Nothing
  /\ Claims = {} /\ Datas = {}
  /\ clipboard = IF Offers[c] = "text" THEN <<c>> ELSE <<>>

ClaimInv ==
  copied \in Claimants /\ ~crossed /\ Offers[copied] # "none" =>
    /\ \A i \in Claims : Offers[events[i].owner] # "none"
    /\ Making(copied) \/ Asking(copied) \/ Arrived(copied)

-----------------------------------------------------------------------------
(* What waits moves up by one when the first event is taken, and may have  *)
(* a request r behind it.                                                  *)
LEMMA TailWanted ==
  ASSUME SelectionTypeOK, events # <<>>, NEW target, events' = Tail(events)
  PROVE  /\ \A i \in Wanted(target)' :
              i \in Nat /\ i >= 1 /\ i + 1 \in Wanted(target) /\ events'[i] = events[i + 1]
         /\ \A i \in Wanted(target) : i \in Nat /\ i >= 1
         /\ \A i \in Wanted(target) : i # 1 => i - 1 \in Wanted(target)' /\ events'[i - 1] = events[i]
<1>1. events \in Seq(Events)
  BY DEF SelectionTypeOK, Events
<1>2. /\ \A i \in DOMAIN Tail(events) : i + 1 \in DOMAIN events /\ Tail(events)[i] = events[i + 1]
      /\ \A i \in DOMAIN events : i # 1 =>
           i - 1 \in DOMAIN Tail(events) /\ Tail(events)[i - 1] = events[i]
  BY <1>1, TailKeeps
<1>3. /\ \A i \in DOMAIN events : i \in Nat /\ i >= 1
      /\ \A i \in DOMAIN Tail(events) : i \in Nat /\ i >= 1
  BY <1>1
<1> QED
  BY <1>2, <1>3 DEF Wanted, Of

LEMMA AppendWanted ==
  ASSUME SelectionTypeOK, events # <<>>, NEW target, NEW r \in Requests,
         events' = Append(Tail(events), r)
  PROVE  /\ Len(events) \in Nat
         /\ \A i \in Wanted(target)' :
              i \in Nat /\ (i = Len(events) \/ (i + 1 \in Wanted(target) /\ events'[i] = events[i + 1]))
         /\ \A i \in Wanted(target) : i \in Nat /\ i >= 1 /\ i <= Len(events)
         /\ \A i \in Wanted(target) : i # 1 => i - 1 \in Wanted(target)' /\ events'[i - 1] = events[i]
         /\ events'[Len(events)] = r
         /\ Len(events) \in Wanted(target)' <=> r.target = target /\ r.owner # Nothing
<1>1. events \in Seq(Events) /\ r \in Events /\ r.type = "request"
  BY DEF SelectionTypeOK, Events, Requests
<1>2. /\ Tail(events) \in Seq(Events)
      /\ \A i \in DOMAIN Tail(events) : i + 1 \in DOMAIN events /\ Tail(events)[i] = events[i + 1]
      /\ \A i \in DOMAIN events : i # 1 =>
           i - 1 \in DOMAIN Tail(events) /\ Tail(events)[i - 1] = events[i]
  BY <1>1, TailKeeps
<1>3. /\ \A i \in DOMAIN events : i \in Nat /\ i >= 1 /\ i <= Len(events)
      /\ \A i \in DOMAIN Tail(events) : i \in Nat
      /\ Len(events) \in Nat /\ Len(Tail(events)) + 1 = Len(events)
  BY <1>1
<1>4. /\ DOMAIN events' = DOMAIN Tail(events) \cup {Len(events)}
      /\ \A i \in DOMAIN Tail(events) : events'[i] = Tail(events)[i]
      /\ events'[Len(events)] = r
  BY <1>1, <1>2, <1>3, AppendKeeps
<1> QED
  BY <1>1, <1>2, <1>3, <1>4 DEF Wanted, Of

(* Nothing waits twice.                                                    *)
LEMMA WantedOnce == Claims \cap Datas = {}
BY DEF Claims, Datas, Wanted

(* Taking an event that no window is asked by, or putting a notification   *)
(* behind, leaves each stage.                                              *)
LEMMA TailKeepsClaim ==
  ASSUME SelectionTypeOK, ClaimInv, events # <<>>, events' = Tail(events), 1 \notin Claims \cup Datas,
         UNCHANGED <<requestee, clipboard, copied, crossed>>
  PROVE  ClaimInv'
<1>1. /\ \A i \in Claims' : i \in Nat /\ i + 1 \in Claims /\ events'[i] = events[i + 1]
      /\ \A i \in Claims : i \in Nat /\ i >= 1 /\ i - 1 \in Claims' /\ events'[i - 1] = events[i]
      /\ \A i \in Datas' : i \in Nat /\ i + 1 \in Datas /\ events'[i] = events[i + 1]
      /\ \A i \in Datas : i \in Nat /\ i >= 1 /\ i - 1 \in Datas' /\ events'[i - 1] = events[i]
  BY TailWanted DEF Claims, Datas
<1>2. ASSUME NEW c, Making(c) PROVE Making(c)'
  <2>1. PICK m \in Claims : \A i \in Claims \cup Datas : i <= m
    BY <1>2 DEF Making
  <2>2. m - 1 \in Claims' /\ \A i \in Claims' \cup Datas' : i <= m - 1
    BY <1>1, <2>1
  <2> QED
    BY <1>2, <2>2 DEF Making
<1>3. ASSUME NEW c, Asking(c) PROVE Asking(c)'
  <2>1. PICK k \in Datas :
          /\ events[k].owner = c
          /\ \A i \in Claims \cup Datas : i <= k
          /\ \/ clipboard = <<>> /\ Datas = {k}
             \/ \E j \in Claims : \A i \in Datas \ {k} : i < j
    BY <1>3 DEF Asking
  <2>2. k - 1 \in Datas' /\ events'[k - 1].owner = c /\ \A i \in Claims' \cup Datas' : i <= k - 1
    <3>1. k \in Nat /\ k - 1 \in Datas' /\ events'[k - 1] = events[k]
      BY <1>1
    <3>2. \A i \in Claims' \cup Datas' : i \in Nat /\ i + 1 \in Claims \cup Datas
      BY <1>1
    <3>3. \A i \in Claims' \cup Datas' : i <= k - 1
      BY <2>1, <3>1, <3>2
    <3> QED
      BY <2>1, <3>1, <3>3
  <2>3. CASE clipboard = <<>> /\ Datas = {k}
    <3>1. Datas' = {k - 1}
      BY <1>1, <2>2, <2>3
    <3> QED
      BY <1>3, <2>2, <2>3, <3>1 DEF Asking
  <2>4. CASE \E j \in Claims : \A i \in Datas \ {k} : i < j
    <3>1. PICK j \in Claims : \A i \in Datas \ {k} : i < j
      BY <2>4
    <3>2. j - 1 \in Claims' /\ \A i \in Datas' \ {k - 1} : i < j - 1
      BY <1>1, <2>1, <3>1
    <3> QED
      BY <1>3, <2>2, <3>2 DEF Asking
  <2> QED
    BY <2>1, <2>3, <2>4
<1>4. ASSUME NEW c, Arrived(c) PROVE Arrived(c)'
  <2>1. Claims' = {} /\ Datas' = {}
    BY <1>1, <1>4 DEF Arrived
  <2> QED
    BY <1>4, <2>1 DEF Arrived
<1>5. (\A i \in Claims : Offers[events[i].owner] # "none") =>
        (\A i \in Claims' : Offers[events'[i].owner] # "none")
  <2>1. \A i \in Claims' : i + 1 \in Claims /\ events'[i].owner = events[i + 1].owner
    BY <1>1
  <2> QED
    BY <2>1
<1> QED
  BY <1>2, <1>3, <1>4, <1>5 DEF ClaimInv

LEMMA SameKeepsClaim ==
  ASSUME ClaimInv, Claims' = Claims, Datas' = Datas, \A i \in Claims \cup Datas : events'[i] = events[i],
         UNCHANGED <<requestee, clipboard, copied, crossed>>
  PROVE  ClaimInv'
BY DEF ClaimInv, Making, Asking, Arrived

-----------------------------------------------------------------------------
LEMMA ClaimKeepsClaim ==
  ASSUME SelectionTypeOK, NEW w \in Claimants \cup {Nothing}, XSetSelectionOwner(w)
  PROVE  ClaimInv'
<1> SUFFICES ASSUME w \in Claimants, ~crossed', Offers[w] # "none"
             PROVE  (\A i \in Claims' : Offers[events'[i].owner] # "none") /\ Making(w)'
  BY NamesAssumption DEF ClaimInv, XSetSelectionOwner
<1> DEFINE r == Request(w, "TARGETS")
           n == Len(events) + 1
<1>1. events' = Append(events, r) /\ requestee' = w
      /\ crossed' = \E i \in Claims : crossed \/ Offers[events[i].owner] = "none"
  BY DEF XSetSelectionOwner, Claims, Wanted
<1>2. r \in Events /\ r.type = "request" /\ r.target = "TARGETS" /\ r.owner = w /\ w # Nothing
  BY NamesAssumption DEF Events, Requests, Request, AllTargets
<1> HIDE DEF r
<1>3. events \in Seq(Events) /\ Len(events) \in Nat /\ DOMAIN events = 1 .. Len(events)
  BY DEF SelectionTypeOK, Events
<1>4. /\ DOMAIN events' = DOMAIN events \cup {n}
      /\ \A i \in DOMAIN events : events'[i] = events[i]
      /\ events'[n] = r
  BY <1>1, <1>2, <1>3, AppendKeeps
<1>5. /\ n \in Claims'
      /\ \A i \in Claims' : i = n \/ (i \in Claims /\ events'[i] = events[i])
      /\ \A i \in Claims' \cup Datas' : i <= n
  BY <1>2, <1>3, <1>4 DEF Claims, Datas, Wanted, Of
<1> QED
  BY <1>1, <1>2, <1>4, <1>5 DEF Making

LEMMA ConversionKeepsClaim ==
  ASSUME SelectionTypeOK, ClaimInv, NEW p \in Properties, NEW t \in Targets, XConvertSelection(p, t)
  PROVE  ClaimInv'
<1> DEFINE e == Notify(p, t, {i \in Of("notify") : events[i].property = p} = {})
<1>1. /\ events' = Append(Shared(p), e)
      /\ UNCHANGED <<requestee, clipboard, copied, crossed>>
  BY DEF XConvertSelection, Shared, history
<1>2. e \in Events /\ e.type = "notify"
  BY TargetsAssumption DEF Events, Notifies, Notify
<1> HIDE DEF e
<1>3. /\ Shared(p) \in Seq(Events)
      /\ DOMAIN Shared(p) = DOMAIN events /\ Len(Shared(p)) = Len(events)
      /\ \A i \in Of("request") : Shared(p)[i] = events[i]
      /\ \A i \in Of("notify") : Shared(p)[i].type = "notify"
  BY SharedKeeps
<1>4. /\ DOMAIN events' = DOMAIN events \cup {Len(events) + 1}
      /\ \A i \in DOMAIN events : events'[i] = Shared(p)[i]
      /\ events'[Len(events) + 1] = e
  BY <1>1, <1>2, <1>3, AppendKeeps
<1>5. \A i \in DOMAIN events : i \in Of("request") \/ i \in Of("notify")
  BY DEF SelectionTypeOK, Of, Requests, Notifies
<1>6. Of("request")' = Of("request") /\ \A i \in Of("request") : events'[i] = events[i]
  BY <1>2, <1>3, <1>4, <1>5 DEF Of
<1>7. Claims' = Claims /\ Datas' = Datas /\ \A i \in Claims \cup Datas : events'[i] = events[i]
  BY <1>6 DEF Claims, Datas, Wanted
<1> QED
  BY <1>1, <1>7, SameKeepsClaim

(* An answer: of types, which asks for the text; of the text, which        *)
(* arrives; or none.                                                       *)
LEMMA AnswerKeepsClaim ==
  ASSUME SelectionTypeOK, ClaimInv, AnswerRequest
  PROVE  ClaimInv'
<1> DEFINE o == events[1].owner
<1>1. /\ events # <<>> /\ Head(events) = events[1] /\ 1 \in Of("request")
      /\ o \in Claimants \cup {Nothing}
      /\ UNCHANGED <<copied, crossed>>
  <2>1. events # <<>> /\ Head(events).type = "request" /\ UNCHANGED <<copied, crossed>>
    BY DEF AnswerRequest, history
  <2>2. events \in Seq(Events) /\ 1 \in DOMAIN events /\ Head(events) = events[1] /\ events[1] \in Events
    BY <2>1 DEF SelectionTypeOK, Events
  <2> QED
    BY <2>1, <2>2 DEF Of, Events, Requests, Notifies
<1>2. \/ 1 \in Claims /\ ReceiveTypes(o)
      \/ 1 \in Datas /\ ReceiveData(o)
      \/ 1 \notin Claims \cup Datas /\ events' = Tail(events) /\ UNCHANGED <<requestee, clipboard>>
  BY <1>1 DEF AnswerRequest, Claims, Datas, Wanted
<1>3. CASE 1 \notin Claims \cup Datas /\ events' = Tail(events) /\ UNCHANGED <<requestee, clipboard>>
  BY <1>1, <1>3, TailKeepsClaim
<1> HIDE DEF o
<1>4. CASE 1 \in Claims /\ ReceiveTypes(o)
  <2> SUFFICES ASSUME NEW c \in Claimants, copied = c, ~crossed, Offers[c] # "none"
               PROVE  /\ \A i \in Claims' : Offers[events'[i].owner] # "none"
                      /\ Making(c)' \/ Asking(c)' \/ Arrived(c)'
    BY <1>1 DEF ClaimInv
  <2> DEFINE r == Request(requestee, "UTF8_STRING")
             n == Len(events)
  <2>1. /\ \A i \in Claims : Offers[events[i].owner] # "none"
        /\ Making(c) \/ Asking(c)
    BY <1>4 DEF ClaimInv, Arrived
  <2>2. requestee' = Nothing /\ events' = Append(Tail(events), r) /\ clipboard' = <<>>
    BY <1>4, <2>1 DEF ReceiveTypes, o
  <2>3. r \in Requests /\ r.target = "UTF8_STRING" /\ r.owner = requestee
    BY DEF Requests, Request, SelectionTypeOK, AllTargets
  <2> HIDE DEF r
  <2>4. /\ n \in Nat
        /\ \A i \in Claims' : i \in Nat /\ i + 1 \in Claims /\ events'[i] = events[i + 1]
        /\ \A i \in Claims : i \in Nat /\ i >= 1 /\ i <= n
        /\ \A i \in Claims : i # 1 => i - 1 \in Claims' /\ events'[i - 1] = events[i]
        /\ \A i \in Datas' : i \in Nat /\ (i = n \/ (i + 1 \in Datas /\ events'[i] = events[i + 1]))
        /\ \A i \in Datas : i \in Nat /\ i >= 1 /\ i <= n
        /\ \A i \in Datas : i # 1 => i - 1 \in Datas' /\ events'[i - 1] = events[i]
        /\ events'[n] = r /\ (n \in Datas' <=> requestee # Nothing)
    <3>1. /\ Claims = Wanted("TARGETS") /\ Claims' = Wanted("TARGETS")'
          /\ Datas = Wanted("UTF8_STRING") /\ Datas' = Wanted("UTF8_STRING")'
      BY DEF Claims, Datas
    <3>2. /\ n \in Nat
          /\ \A i \in Claims' :
               i \in Nat /\ (i = n \/ (i + 1 \in Claims /\ events'[i] = events[i + 1]))
          /\ \A i \in Claims : i \in Nat /\ i >= 1 /\ i <= n
          /\ \A i \in Claims : i # 1 => i - 1 \in Claims' /\ events'[i - 1] = events[i]
          /\ events'[n] = r
          /\ n \in Claims' <=> r.target = "TARGETS" /\ r.owner # Nothing
      <4>1. SelectionTypeOK /\ events # <<>> /\ r \in Requests /\ events' = Append(Tail(events), r)
        BY <1>1, <2>2, <2>3
      <4>2. /\ \A i \in Wanted("TARGETS")' :
                 i \in Nat /\ (i = Len(events) \/ (i + 1 \in Wanted("TARGETS") /\ events'[i] = events[i + 1]))
            /\ \A i \in Wanted("TARGETS") : i \in Nat /\ i >= 1 /\ i <= Len(events)
            /\ \A i \in Wanted("TARGETS") :
                 i # 1 => i - 1 \in Wanted("TARGETS")' /\ events'[i - 1] = events[i]
            /\ Len(events) \in Nat /\ events'[Len(events)] = r
            /\ Len(events) \in Wanted("TARGETS")' <=> r.target = "TARGETS" /\ r.owner # Nothing
        BY <4>1, AppendWanted
      <4> QED
        BY <3>1, <4>2
    <3>3. /\ \A i \in Datas' :
               i \in Nat /\ (i = n \/ (i + 1 \in Datas /\ events'[i] = events[i + 1]))
          /\ \A i \in Datas : i \in Nat /\ i >= 1 /\ i <= n
          /\ \A i \in Datas : i # 1 => i - 1 \in Datas' /\ events'[i - 1] = events[i]
          /\ n \in Datas' <=> r.target = "UTF8_STRING" /\ r.owner # Nothing
      <4>1. SelectionTypeOK /\ events # <<>> /\ r \in Requests /\ events' = Append(Tail(events), r)
        BY <1>1, <2>2, <2>3
      <4>2. /\ \A i \in Wanted("UTF8_STRING")' :
                 i \in Nat /\ (i = Len(events) \/ (i + 1 \in Wanted("UTF8_STRING") /\ events'[i] = events[i + 1]))
            /\ \A i \in Wanted("UTF8_STRING") : i \in Nat /\ i >= 1 /\ i <= Len(events)
            /\ \A i \in Wanted("UTF8_STRING") :
                 i # 1 => i - 1 \in Wanted("UTF8_STRING")' /\ events'[i - 1] = events[i]
            /\ Len(events) \in Nat /\ events'[Len(events)] = r
            /\ Len(events) \in Wanted("UTF8_STRING")' <=> r.target = "UTF8_STRING" /\ r.owner # Nothing
        BY <4>1, AppendWanted
      <4> QED
        BY <3>1, <4>2
    <3>4. n \notin Claims'
      BY <2>3, <3>2
    <3> QED
      BY <2>3, <3>2, <3>3, <3>4
  <2>5. \A i \in Claims' : Offers[events'[i].owner] # "none"
    BY <2>1, <2>4
  <2>6. CASE Making(c)
    <3>1. PICK m \in Claims : \A i \in Claims \cup Datas : i <= m
      BY <2>6 DEF Making
    <3>2. n \in Datas' /\ events'[n].owner = c /\ \A i \in Claims' \cup Datas' : i <= n
      BY <2>3, <2>4, <2>6, NamesAssumption DEF Making
    <3>3. CASE m = 1
      <4>1. \A i \in Datas' : i = n
        BY <2>4, <3>1, <3>3, WantedOnce
      <4>2. Datas' = {n}
        BY <3>2, <4>1
      <4> QED
        BY <2>2, <2>5, <3>2, <4>2 DEF Asking
    <3>4. CASE m # 1
      <4>1. m - 1 \in Claims' /\ \A i \in Datas' \ {n} : i < m - 1
        BY <2>4, <3>1, <3>4, WantedOnce
      <4> QED
        BY <2>2, <2>5, <3>2, <4>1 DEF Asking
    <3> QED
      BY <3>3, <3>4
  <2>7. CASE Asking(c)
    <3>1. PICK k \in Datas :
            /\ events[k].owner = c
            /\ \A i \in Claims \cup Datas : i <= k
            /\ \/ clipboard = <<>> /\ Datas = {k}
               \/ \E j \in Claims : \A i \in Datas \ {k} : i < j
      BY <2>7 DEF Asking
    <3>2. n \notin Datas' /\ k # 1
      BY <1>4, <2>4, <2>7, <3>1, WantedOnce DEF Asking
    <3>3. k - 1 \in Datas' /\ events'[k - 1].owner = c /\ \A i \in Claims' \cup Datas' : i <= k - 1
      BY <2>4, <3>1, <3>2
    <3>4. CASE Datas = {k}
      <4>1. Datas' = {k - 1}
        BY <2>4, <3>2, <3>3, <3>4
      <4> QED
        BY <2>2, <2>5, <3>3, <4>1 DEF Asking
    <3>5. CASE \E j \in Claims : \A i \in Datas \ {k} : i < j
      <4>1. PICK j \in Claims : \A i \in Datas \ {k} : i < j
        BY <3>5
      <4>2. CASE j = 1
        <5>1. Datas = {k}
          BY <2>4, <4>1, <4>2
        <5> QED
          BY <3>4, <5>1
      <4>3. CASE j # 1
        <5>1. j - 1 \in Claims' /\ j \in Nat /\ k \in Nat
          BY <2>4, <4>3
        <5>2. \A i \in Datas' : i \in Nat /\ i + 1 \in Datas
          BY <2>4, <3>2
        <5>3. \A i \in Datas' \ {k - 1} : i < j - 1
          BY <4>1, <5>1, <5>2
        <5> QED
          BY <2>2, <2>5, <3>3, <5>1, <5>3 DEF Asking
      <4> QED
        BY <4>2, <4>3
    <3> QED
      BY <3>1, <3>4, <3>5
  <2> QED
    BY <2>1, <2>6, <2>7
<1>5. CASE 1 \in Datas /\ ReceiveData(o)
  <2> SUFFICES ASSUME NEW c \in Claimants, copied = c, ~crossed, Offers[c] # "none"
               PROVE  /\ \A i \in Claims' : Offers[events'[i].owner] # "none"
                      /\ Making(c)' \/ Asking(c)' \/ Arrived(c)'
    BY <1>1 DEF ClaimInv
  <2>1. /\ \A i \in Claims : Offers[events[i].owner] # "none"
        /\ Making(c) \/ Asking(c)
    BY <1>5 DEF ClaimInv, Arrived
  <2>2. /\ requestee' = requestee /\ events' = Tail(events)
        /\ clipboard' = IF Offers[o] = "text" THEN Append(clipboard, o) ELSE clipboard
    BY <1>5 DEF ReceiveData
  <2>3. /\ \A i \in Claims' : i \in Nat /\ i + 1 \in Claims /\ events'[i] = events[i + 1]
        /\ \A i \in Claims : i \in Nat /\ i > 1 /\ i - 1 \in Claims' /\ events'[i - 1] = events[i]
        /\ \A i \in Datas' : i \in Nat /\ i >= 1 /\ i + 1 \in Datas /\ events'[i] = events[i + 1]
        /\ \A i \in Datas : i \in Nat /\ i >= 1
        /\ \A i \in Datas : i # 1 => i - 1 \in Datas' /\ events'[i - 1] = events[i]
    <3>1. 1 \notin Claims
      BY <1>5, WantedOnce
    <3>2. /\ Claims = Wanted("TARGETS") /\ Claims' = Wanted("TARGETS")'
          /\ Datas = Wanted("UTF8_STRING") /\ Datas' = Wanted("UTF8_STRING")'
      BY DEF Claims, Datas
    <3>3. /\ \A i \in Claims' : i \in Nat /\ i + 1 \in Claims /\ events'[i] = events[i + 1]
          /\ \A i \in Claims : i \in Nat /\ i >= 1
          /\ \A i \in Claims : i # 1 => i - 1 \in Claims' /\ events'[i - 1] = events[i]
      BY <1>1, <2>2, <3>2, TailWanted
    <3>4. /\ \A i \in Datas' : i \in Nat /\ i >= 1 /\ i + 1 \in Datas /\ events'[i] = events[i + 1]
          /\ \A i \in Datas : i \in Nat /\ i >= 1
          /\ \A i \in Datas : i # 1 => i - 1 \in Datas' /\ events'[i - 1] = events[i]
      BY <1>1, <2>2, <3>2, TailWanted
    <3>5. \A i \in Claims : i # 1 /\ i > 1
      BY <3>1, <3>3
    <3> QED
      BY <3>3, <3>4, <3>5
  <2>4. \A i \in Claims' : Offers[events'[i].owner] # "none"
    BY <2>1, <2>3
  <2>5. CASE Making(c)
    <3>1. PICK m \in Claims : \A i \in Claims \cup Datas : i <= m
      BY <2>5 DEF Making
    <3>2. m - 1 \in Claims' /\ \A i \in Claims' \cup Datas' : i <= m - 1
      BY <2>3, <3>1
    <3> QED
      BY <2>2, <2>4, <2>5, <3>2 DEF Making
  <2>6. CASE Asking(c)
    <3>1. PICK k \in Datas :
            /\ events[k].owner = c
            /\ \A i \in Claims \cup Datas : i <= k
            /\ \/ clipboard = <<>> /\ Datas = {k}
               \/ \E j \in Claims : \A i \in Datas \ {k} : i < j
      BY <2>6 DEF Asking
    <3>2. CASE clipboard = <<>> /\ Datas = {k}
      <4>1. k = 1 /\ o = c
        BY <1>5, <3>1, <3>2 DEF o
      <4>2. Claims' = {} /\ Datas' = {}
        <5>1. \A i \in Claims : i <= 1 /\ i > 1
          BY <2>3, <3>1, <4>1
        <5>2. Claims = {}
          BY <2>3, <5>1
        <5>3. Claims' = {}
          BY <2>3, <5>2
        <5>4. ASSUME NEW i \in Datas' PROVE FALSE
          <6>1. i \in Nat /\ i >= 1 /\ i + 1 = 1
            BY <2>3, <3>2, <4>1, <5>4
          <6> QED
            BY <6>1
        <5> QED
          BY <5>3, <5>4
      <4>3. clipboard' = IF Offers[c] = "text" THEN <<c>> ELSE <<>>
        BY <2>2, <3>2, <4>1
      <4> QED
        BY <2>2, <2>4, <2>6, <4>2, <4>3 DEF Asking, Arrived
    <3>3. CASE \E j \in Claims : \A i \in Datas \ {k} : i < j
      <4>1. PICK j \in Claims : \A i \in Datas \ {k} : i < j
        BY <3>3
      <4>2. k # 1
        BY <2>3, <3>1
      <4>3. k - 1 \in Datas' /\ events'[k - 1].owner = c /\ \A i \in Claims' \cup Datas' : i <= k - 1
        BY <2>3, <3>1, <4>2
      <4>4. j - 1 \in Claims' /\ \A i \in Datas' \ {k - 1} : i < j - 1
        BY <2>3, <3>1, <4>1
      <4> QED
        BY <2>2, <2>4, <2>6, <4>3, <4>4 DEF Asking
    <3> QED
      BY <3>1, <3>2, <3>3
  <2> QED
    BY <2>1, <2>5, <2>6
<1> QED
  BY <1>2, <1>3, <1>4, <1>5

LEMMA ReadKeepsClaim ==
  ASSUME SelectionTypeOK, ClaimInv, XGetWindowProperty
  PROVE  ClaimInv'
<1>1. /\ events # <<>> /\ Head(events).type = "notify" /\ events' = Tail(events)
      /\ UNCHANGED <<requestee, clipboard, copied, crossed>>
  BY DEF XGetWindowProperty
<1>2. events \in Seq(Events) /\ Head(events) = events[1]
  BY <1>1 DEF SelectionTypeOK, Events
<1>3. 1 \notin Claims \cup Datas
  BY <1>1, <1>2 DEF Claims, Datas, Wanted, Of
<1> QED
  BY <1>1, <1>3, TailKeepsClaim

(* Every step keeps the stage of the last claim, or takes it to the next.  *)
LEMMA NextKeepsClaim == SelectionInv /\ ClaimInv /\ [SelectionNext]_selectionVars => ClaimInv'
<1> SUFFICES ASSUME SelectionTypeOK, ClaimInv, [SelectionNext]_selectionVars
             PROVE  ClaimInv'
  BY DEF SelectionInv
<1>1. ASSUME NEW texts \in {<<>>, <<Other>>}, OtherCopies(texts)
      PROVE  ClaimInv'
  BY <1>1, NamesAssumption DEF OtherCopies, ClaimInv
<1>2. CASE UNCHANGED selectionVars
  <2>1. Claims' = Claims /\ Datas' = Datas /\ events' = events
    BY <1>2 DEF selectionVars, Claims, Datas, Wanted, Of
  <2> QED
    BY <1>2, <2>1, SameKeepsClaim DEF selectionVars
<1> QED
  BY <1>1, <1>2, ClaimKeepsClaim, ConversionKeepsClaim, AnswerKeepsClaim, ReadKeepsClaim DEF SelectionNext

(* What a paste gives once all requests are answered is the text of the    *)
(* window that claimed last, though data of earlier claims was still on    *)
(* its way (Selection.cpp:187-236).                                        *)
THEOREM LastClaimArrives == SelectionSpec => []ClaimArrives
<1>1. SelectionInit => ClaimInv
  BY NamesAssumption DEF SelectionInit, ClaimInv
<1>2. ClaimInv => ClaimArrives
  <2> SUFFICES ASSUME ClaimInv, Of("request") = {}, copied \in Claimants, ~crossed,
                      Offers[copied] # "none"
               PROVE  clipboard = IF Offers[copied] = "text" THEN <<copied>> ELSE <<>>
    BY OffersAssumption DEF ClaimArrives
  <2>1. Claims = {} /\ Datas = {}
    BY DEF Claims, Datas, Wanted
  <2> QED
    BY <2>1 DEF ClaimInv, Making, Asking, Arrived
<1> QED
  BY <1>1, <1>2, InitSelection, NextKeepsSelection, NextKeepsClaim, PTL DEF SelectionSpec

-----------------------------------------------------------------------------
(* What waits in the looper: the view's message, and the BWindow's.        *)
Views == {ViewMessage}
Frames == [what : {"window"}, size : Int]
Resizes == [what : {"view"}] \cup Frames

(* Unless the view's message waits, the size in the last notification is   *)
(* the window's, and that is the view's without the border; a call that    *)
(* has set a border or a limit is going to see to that.                    *)
ToldOK == NoneOf(resizes, Views) => told = base
BaseOK ==
  /\ configuring = NoCall /\ NoneOf(resizes, Views) => base = view - 2 * border
  /\ configuring.at = "resize" /\ NoneOf(resizes, Views) =>
       base = configuring.size \/ base = view - 2 * border

(* Of the BWindow's messages that wait, the last has its size; if none     *)
(* waits it is the view's.                                                 *)
FrameOK ==
  /\ top /\ ~refused =>
       \/ LastOf(resizes, Frames, FrameMessage(frame))
       \/ NoneOf(resizes, Frames) /\ frame = view
  /\ ~top => NoneOf(resizes, Frames)

(* The size asked for last is that of the BWindow, or of the view of a     *)
(* window that has none; and a call that has set a border or a limit is    *)
(* not over yet, but nothing waits then.                                   *)
AskedOK ==
  ~refused /\ ~raced =>
    /\ configuring = NoCall => (IF top THEN frame ELSE view) - 2 * border = asked
    /\ configuring # NoCall => resizes = <<>> /\ base = asked
    /\ configuring.at = "resize" => configuring.size = asked

SizeTypes ==
  /\ base \in Int /\ view \in Int /\ frame \in Int /\ asked \in Int /\ told \in Int
  /\ border \in Borders /\ min \in Sizes \cup {0} /\ max \in Sizes \cup {0}
  /\ \E lo, hi \in 0 .. Bound : lo <= hi /\ limits = <<lo, hi>>
  /\ top => frame = Between(frame, limits)
  /\ resizes \in Seq(Resizes)
  /\ configuring = NoCall \/ configuring \in [at : {"read", "resize"}, size : Int]
  /\ top \in BOOLEAN /\ refused \in BOOLEAN /\ raced \in BOOLEAN

SizesInv ==
  SizeTypes /\ ToldOK /\ BaseOK /\ FrameOK /\ AskedOK /\ HintsAreTold

-----------------------------------------------------------------------------
LEMMA SizesAre ==
  /\ Sizes \subseteq Nat /\ Borders \subseteq Nat /\ Bound \in Nat
  /\ \A s \in Sizes \cup {0}, b \in Borders : s + 2 * b \in Nat
  /\ \A s \in Sizes, b \in Borders : s + 2 * b \in 0 .. Bound /\ s \in 0 .. Bound
BY SizesAssumption, BoundAssumption DEF Bound

LEMMA MessagesAre ==
  /\ ViewMessage \in Resizes /\ ViewMessage \in Views /\ ViewMessage \notin Frames
  /\ \A s \in Int : FrameMessage(s) \in Resizes /\ FrameMessage(s) \in Frames /\ FrameMessage(s) \notin Views
  /\ \A m \in Resizes : m.what = "view" <=> m = ViewMessage
  /\ \A m \in Resizes : m.what = "window" => m.size \in Int /\ m = FrameMessage(m.size) /\ m \in Frames
<1>1. /\ ViewMessage \in Resizes /\ ViewMessage \in Views
      /\ ViewMessage.what = "view" /\ \A m \in Frames : m.what = "window"
  BY DEF ViewMessage, Resizes, Views, Frames
<1>2. ASSUME NEW s \in Int
      PROVE  FrameMessage(s) \in Frames /\ FrameMessage(s).size = s /\ FrameMessage(s).what = "window"
  BY DEF FrameMessage, Frames
<1>3. \A m \in [what : {"view"}] : m = ViewMessage
  BY DEF ViewMessage
<1>4. \A m \in Frames : m.size \in Int /\ m = FrameMessage(m.size)
  BY DEF FrameMessage, Frames
<1> QED
  BY <1>1, <1>2, <1>3, <1>4 DEF Resizes, Views

(* What a step puts behind the messages that wait.                         *)
LEMMA ToldIs ==
  ASSUME NEW s \in Seq(Resizes), NEW c \in BOOLEAN, NEW m \in Resizes
  PROVE  /\ s \o Told(c, m) \in Seq(Resizes)
         /\ Told(c, m) \in Seq(Resizes)
         /\ c => s \o Told(c, m) = Append(s, m)
         /\ ~c => s \o Told(c, m) = s
<1>1. CASE c
  <2>1. Told(c, m) = <<m>> /\ <<m>> \in Seq(Resizes)
    BY <1>1 DEF Told
  <2>2. s \o Told(c, m) = Append(s, m)
    BY <2>1, AppendIsConcat
  <2>3. Append(s, m) \in Seq(Resizes)
    BY AppendKeeps
  <2> QED
    BY <1>1, <2>1, <2>2, <2>3
<1>2. CASE ~c
  <2>1. Told(c, m) = <<>> /\ <<>> \in Seq(Resizes)
    BY <1>2 DEF Told
  <2> QED
    BY <1>2, <2>1, ConcatEmptySeq
<1> QED
  BY <1>1, <1>2

(* The last frame's message, after one that is put if the frame changed.   *)
LEMMA ToldFrame ==
  ASSUME NEW s \in Seq(Resizes), NEW f \in Int, NEW g \in Int
  PROVE  /\ s \o Told(g # f, FrameMessage(g)) \in Seq(Resizes)
         /\ g # f => LastOf(s \o Told(g # f, FrameMessage(g)), Frames, FrameMessage(g))
         /\ g = f => s \o Told(g # f, FrameMessage(g)) = s
         /\ NoneOf(s, Views) <=> NoneOf(s \o Told(g # f, FrameMessage(g)), Views)
<1>1. FrameMessage(g) \in Resizes \cap Frames /\ FrameMessage(g) \notin Views
  BY MessagesAre
<1>2. CASE g # f
  <2>1. s \o Told(g # f, FrameMessage(g)) = Append(s, FrameMessage(g))
    BY <1>1, <1>2, ToldIs
  <2>2. /\ LastOf(Append(s, FrameMessage(g)), Frames, FrameMessage(g))
        /\ Append(s, FrameMessage(g)) \in Seq(Resizes)
    BY <1>1, AppendLast, AppendKeeps
  <2>3. NoneOf(s, Views) => NoneOf(Append(s, FrameMessage(g)), Views)
    BY <1>1, AppendNone
  <2>4. NoneOf(Append(s, FrameMessage(g)), Views) => NoneOf(s, Views)
    BY <1>1, AppendKeeps DEF NoneOf
  <2> QED
    BY <1>2, <2>1, <2>2, <2>3, <2>4
<1>3. CASE g = f
  BY <1>1, <1>3, ToldIs
<1> QED
  BY <1>2, <1>3

LEMMA AppendView ==
  ASSUME NEW s \in Seq(Resizes)
  PROVE  /\ Append(s, ViewMessage) \in Seq(Resizes)
         /\ ~NoneOf(Append(s, ViewMessage), Views)
         /\ \A m : LastOf(s, Frames, m) => LastOf(Append(s, ViewMessage), Frames, m)
         /\ NoneOf(s, Frames) => NoneOf(Append(s, ViewMessage), Frames)
BY MessagesAre, AppendKeeps, AppendOther, AppendNone DEF NoneOf

-----------------------------------------------------------------------------
LEMMA BetweenIs ==
  ASSUME NEW lo \in Int, NEW hi \in Int, lo <= hi, NEW s \in Int
  PROVE  /\ Between(s, <<lo, hi>>) \in lo .. hi
         /\ s \in lo .. hi => Between(s, <<lo, hi>>) = s
BY DEF Between

LEMMA LimitsAre ==
  ASSUME SizeTypes
  PROVE  /\ \E lo, hi \in 0 .. Bound : lo <= hi /\ Limits(border, min, max) = <<lo, hi>>
         /\ (min # 0 /\ max # 0 => min <= max) =>
              Limits(border, min, max) = <<IF min = 0 THEN 0 ELSE min + 2 * border,
                                           IF max = 0 THEN Bound ELSE max + 2 * border>>
<1> DEFINE lo == IF min = 0 THEN 0 ELSE min + 2 * border
           hi == IF max = 0 THEN Bound ELSE max + 2 * border
<1>1. lo \in 0 .. Bound /\ hi \in 0 .. Bound
  BY SizesAre DEF SizeTypes
<1>2. (min # 0 /\ max # 0 => min <= max) => lo <= hi
  BY SizesAre DEF SizeTypes
<1>3. Limits(border, min, max) = IF lo <= hi THEN <<lo, hi>> ELSE limits
  BY DEF Limits
<1> HIDE DEF lo, hi
<1>4. \E a, b \in 0 .. Bound : a <= b /\ limits = <<a, b>>
  BY DEF SizeTypes
<1>5. \E a, b \in 0 .. Bound : a <= b /\ Limits(border, min, max) = <<a, b>>
  BY <1>1, <1>3, <1>4
<1>6. (min # 0 /\ max # 0 => min <= max) => Limits(border, min, max) = <<lo, hi>>
  BY <1>2, <1>3
<1> QED
  BY <1>5, <1>6 DEF lo, hi

(* What a resize leaves: the view has the size asked for, and so has the   *)
(* BWindow if it took it; if that is news to the view, its message waits.  *)
LEMMA ResizeIs ==
  ASSUME SizeTypes, FrameOK, NEW size \in Int, Resize(size), top' = top
  PROVE  /\ \E lo, hi \in 0 .. Bound : lo <= hi /\ limits' = <<lo, hi>>
         /\ top => limits' = Limits(border, min, max) /\ frame' = Between(frame', limits')
         /\ base' \in Int /\ frame' \in Int /\ resizes' \in Seq(Resizes) /\ refused' \in BOOLEAN
         /\ view' = size + 2 * border /\ view' \in Int
         /\ \/ view' = view /\ base' = base /\ (NoneOf(resizes', Views) <=> NoneOf(resizes, Views))
            \/ base' = size /\ ~NoneOf(resizes', Views)
         /\ refused => refused'
         /\ top /\ ~refused' => frame' = view'
         /\ FrameOK'
<1> DEFINE l == Limits(border, min, max)
           limited == Between(frame, l)
           bordered == size + 2 * border
           resized == Between(bordered, l)
           first == Told(limited # frame, FrameMessage(limited))
           r1 == resizes \o first
           r2 == Append(r1, ViewMessage)
           last == Told(resized # limited, FrameMessage(resized))
<1>1. /\ limits' = IF top THEN l ELSE limits
      /\ IF view = bordered
         THEN /\ frame' = IF top THEN limited ELSE frame
              /\ resizes' = IF top THEN resizes \o first ELSE resizes
              /\ refused' = (refused \/ (top /\ limited # view))
              /\ base' = base /\ view' = view
         ELSE /\ base' = size /\ view' = bordered
              /\ frame' = IF top THEN resized ELSE frame
              /\ resizes' = resizes \o
                   IF top THEN first \o <<ViewMessage>> \o last ELSE <<ViewMessage>>
              /\ refused' = (refused \/ (top /\ resized # bordered))
  BY DEF Resize
<1>2. PICK lo \in 0 .. Bound, hi \in 0 .. Bound : lo <= hi /\ l = <<lo, hi>>
  BY LimitsAre
<1>3. /\ bordered \in Int /\ frame \in Int /\ base \in Int /\ view \in Int
      /\ resizes \in Seq(Resizes) /\ top \in BOOLEAN /\ refused \in BOOLEAN
  BY SizesAre DEF SizeTypes
<1>4. lo \in Int /\ hi \in Int
  BY SizesAre
<1>5. /\ limited \in lo .. hi /\ limited \in Int /\ Between(limited, l) = limited
      /\ resized \in lo .. hi /\ resized \in Int /\ Between(resized, l) = resized
  <2>1. limited \in lo .. hi /\ resized \in lo .. hi
    BY <1>2, <1>3, <1>4, BetweenIs
  <2>2. limited \in Int /\ resized \in Int
    BY <1>4, <2>1
  <2> HIDE DEF limited, resized
  <2>3. Between(limited, l) = limited /\ Between(resized, l) = resized
    BY <1>2, <1>4, <2>1, <2>2, BetweenIs
  <2> QED
    BY <2>1, <2>2, <2>3
<1> HIDE DEF l, limited, resized, bordered
<1>6. /\ r1 \in Seq(Resizes) /\ first \in Seq(Resizes)
      /\ limited # frame => LastOf(r1, Frames, FrameMessage(limited))
      /\ limited = frame => r1 = resizes
      /\ NoneOf(r1, Views) <=> NoneOf(resizes, Views)
  <2>1. FrameMessage(limited) \in Resizes /\ (limited # frame) \in BOOLEAN
    BY <1>5, MessagesAre
  <2> QED
    BY <1>3, <1>5, <2>1, ToldFrame, ToldIs
<1>7. resizes \o (first \o <<ViewMessage>> \o last) = r2 \o last /\ r2 \in Seq(Resizes)
  <2>1. <<ViewMessage>> \in Seq(Resizes) /\ ViewMessage \in Resizes
    BY MessagesAre
  <2>2. last \in Seq(Resizes)
    <3>1. FrameMessage(resized) \in Resizes /\ (resized # limited) \in BOOLEAN
      BY <1>5, MessagesAre
    <3> QED
      BY <3>1, <1>3, ToldIs
  <2> HIDE DEF first, last
  <2>3. r2 = (resizes \o first) \o <<ViewMessage>> /\ r2 \in Seq(Resizes)
    BY <1>6, <2>1, AppendIsConcat, AppendKeeps
  <2>4. (resizes \o first) \o <<ViewMessage>> = resizes \o (first \o <<ViewMessage>>)
    BY <1>3, <1>6, <2>1, ConcatAssociative
  <2>5. first \o <<ViewMessage>> \in Seq(Resizes)
    BY <1>6, <2>1, ConcatProperties
  <2>6. (resizes \o (first \o <<ViewMessage>>)) \o last = resizes \o ((first \o <<ViewMessage>>) \o last)
    BY <1>3, <2>2, <2>5, ConcatAssociative
  <2> QED
    BY <2>3, <2>4, <2>6
<1>8. resizes \o <<ViewMessage>> = Append(resizes, ViewMessage)
  BY <1>3, MessagesAre, AppendIsConcat
<1> HIDE DEF first, r1
<1>9. /\ ~NoneOf(r2, Views)
      /\ \A m : LastOf(r1, Frames, m) => LastOf(r2, Frames, m)
      /\ NoneOf(r1, Frames) => NoneOf(r2, Frames)
  BY <1>6, AppendView
<1> HIDE DEF r2
<1>10. /\ r2 \o last \in Seq(Resizes)
       /\ resized # limited => LastOf(r2 \o last, Frames, FrameMessage(resized))
       /\ resized = limited => r2 \o last = r2
       /\ ~NoneOf(r2 \o last, Views)
  <2>1. r2 \in Seq(Resizes) /\ limited \in Int /\ resized \in Int
    BY <1>5, <1>7
  <2>2. /\ r2 \o last \in Seq(Resizes)
        /\ resized # limited => LastOf(r2 \o last, Frames, FrameMessage(resized))
        /\ resized = limited => r2 \o last = r2
        /\ NoneOf(r2, Views) <=> NoneOf(r2 \o last, Views)
    BY <2>1, ToldFrame
  <2> QED
    BY <1>9, <2>2
<1> HIDE DEF last
<1>11. CASE top /\ view = bordered
  <2>1. /\ limits' = l /\ frame' = limited /\ resizes' = r1 /\ base' = base /\ view' = view
        /\ refused' = (refused \/ limited # view)
    BY <1>1, <1>11 DEF r1
  <2>2. FrameOK'
    BY <1>6, <1>11, <2>1 DEF FrameOK
  <2> QED
    BY <1>2, <1>3, <1>5, <1>6, <1>11, <2>1, <2>2 DEF l, bordered
<1>12. CASE top /\ view # bordered
  <2>1. /\ limits' = l /\ frame' = resized /\ resizes' = r2 \o last /\ base' = size /\ view' = bordered
        /\ refused' = (refused \/ resized # bordered)
    BY <1>1, <1>7, <1>12
  <2>2. FrameOK'
    <3> SUFFICES ASSUME ~refused'
                 PROVE  \/ LastOf(resizes', Frames, FrameMessage(resized))
                        \/ NoneOf(resizes', Frames) /\ frame' = view'
      BY <1>12, <2>1 DEF FrameOK
    <3>1. ~refused /\ frame' = view'
      BY <1>3, <2>1
    <3>2. CASE resized # limited
      BY <1>10, <2>1, <3>2
    <3>3. CASE resized = limited /\ limited # frame
      BY <1>6, <1>9, <1>10, <2>1, <3>3
    <3>4. CASE resized = limited /\ limited = frame
      <4>1. LastOf(resizes, Frames, FrameMessage(frame)) \/ NoneOf(resizes, Frames)
        BY <1>12, <3>1 DEF FrameOK
      <4> QED
        BY <1>6, <1>9, <1>10, <2>1, <3>1, <3>4, <4>1
    <3> QED
      BY <3>2, <3>3, <3>4
  <2> QED
    BY <1>2, <1>3, <1>5, <1>10, <1>12, <2>1, <2>2 DEF l, bordered
<1>13. CASE ~top /\ view = bordered
  <2>1. /\ limits' = limits /\ frame' = frame /\ resizes' = resizes /\ base' = base /\ view' = view
        /\ refused' = refused
    BY <1>1, <1>3, <1>13
  <2> QED
    BY <1>3, <1>13, <2>1 DEF FrameOK, SizeTypes, bordered
<1>14. CASE ~top /\ view # bordered
  <2>1. /\ limits' = limits /\ frame' = frame /\ resizes' = Append(resizes, ViewMessage)
        /\ base' = size /\ view' = bordered /\ refused' = refused
    BY <1>1, <1>3, <1>8, <1>14
  <2>2. /\ resizes' \in Seq(Resizes) /\ ~NoneOf(resizes', Views)
        /\ NoneOf(resizes, Frames) => NoneOf(resizes', Frames)
    BY <1>3, <2>1, AppendView
  <2> QED
    BY <1>3, <1>14, <2>1, <2>2 DEF FrameOK, SizeTypes, bordered
<1> QED
  BY <1>3, <1>11, <1>12, <1>13, <1>14

-----------------------------------------------------------------------------
LEMMA InitSizes == GeometryInit => SizesInv
<1> SUFFICES ASSUME GeometryInit
             PROVE  SizesInv
  OBVIOUS
<1> USE DEF GeometryInit
<1>1. base \in Int /\ base \in 0 .. Bound /\ 0 \in Borders
  BY SizesAre, SizesAssumption
<1>2. 0 \in 0 .. Bound /\ Bound \in 0 .. Bound /\ 0 <= Bound /\ 0 \in Int /\ Bound \in Int
  BY DEF Bound
<1>3. SizeTypes
  <2>1. Between(frame, limits) = frame
    BY <1>1, <1>2, BetweenIs
  <2> QED
    BY <1>1, <1>2, <2>1, EmptySeq DEF SizeTypes
<1>4. FrameOK
  BY EmptyHasNone DEF FrameOK
<1>5. AskedOK /\ BaseOK /\ ToldOK
  BY <1>1 DEF AskedOK, BaseOK, ToldOK, NoCall
<1>6. HintsAreTold
  BY DEF HintsAreTold, XGetNormalHints
<1> QED
  BY <1>3, <1>4, <1>5, <1>6 DEF SizesInv

(* A call of the client that resizes, and leaves no call under way.        *)
LEMMA ResizeKeeps ==
  ASSUME SizesInv, NEW size \in Int, Resize(size), configuring' = NoCall, asked' \in Int,
         UNCHANGED <<top, border, min, max, told, raced>>,
         NoneOf(resizes, Views) => base = size \/ base = view - 2 * border,
         ~refused /\ ~raced => asked' = size
  PROVE  SizesInv'
<1>1. SizeTypes /\ FrameOK /\ border \in Int
  BY SizesAre DEF SizesInv, SizeTypes
<1>2. /\ \E lo, hi \in 0 .. Bound : lo <= hi /\ limits' = <<lo, hi>>
      /\ top => limits' = Limits(border, min, max) /\ frame' = Between(frame', limits')
      /\ base' \in Int /\ frame' \in Int /\ resizes' \in Seq(Resizes) /\ refused' \in BOOLEAN
      /\ view' = size + 2 * border /\ view' \in Int
      /\ \/ view' = view /\ base' = base /\ (NoneOf(resizes', Views) <=> NoneOf(resizes, Views))
         \/ base' = size /\ ~NoneOf(resizes', Views)
      /\ refused => refused'
      /\ top /\ ~refused' => frame' = view'
      /\ FrameOK'
  BY <1>1, ResizeIs
<1>3. SizeTypes'
  BY <1>1, <1>2 DEF SizeTypes
<1>4. ToldOK'
  BY <1>2 DEF SizesInv, ToldOK
<1>5. BaseOK'
  BY <1>1, <1>2 DEF BaseOK, NoCall
<1>6. AskedOK'
  <2> SUFFICES ASSUME ~refused', ~raced'
               PROVE  (IF top THEN frame' ELSE view') - 2 * border = asked'
    BY DEF AskedOK, NoCall
  <2>1. ~refused /\ asked' = size
    BY <1>2
  <2>2. (IF top THEN frame' ELSE view') = size + 2 * border
    BY <1>2
  <2> QED
    BY <1>1, <2>1, <2>2
<1>7. HintsAreTold'
  BY <1>1, <1>2, LimitsAre DEF HintsAreTold, XGetNormalHints
<1> QED
  BY <1>2, <1>3, <1>4, <1>5, <1>6, <1>7 DEF SizesInv

(* A step that does not change what the invariant reads but the messages.  *)
LEMMA SizesStutter ==
  ASSUME SizesInv, UNCHANGED geometryVars
  PROVE  SizesInv'
BY DEF SizesInv, SizeTypes, ToldOK, BaseOK, FrameOK, AskedOK, HintsAreTold, XGetNormalHints,
       geometryVars

LEMMA SetsKeeps ==
  ASSUME SizesInv, Sets, border' \in Borders, min' \in Sizes \cup {0}, max' \in Sizes \cup {0}
  PROVE  SizesInv'
<1>1. /\ configuring = NoCall /\ configuring' = [at |-> "read", size |-> 0]
      /\ UNCHANGED <<top, base, view, frame, limits, resizes, asked, told, refused>>
      /\ raced' = (raced \/ resizes # <<>>)
  BY DEF Sets
<1>2. SizeTypes'
  BY <1>1 DEF SizesInv, SizeTypes
<1>3. ToldOK' /\ FrameOK'
  BY <1>1 DEF SizesInv, ToldOK, FrameOK
<1>4. BaseOK' /\ HintsAreTold'
  BY <1>1 DEF BaseOK, HintsAreTold, NoCall
<1>5. AskedOK'
  <2> SUFFICES ASSUME ~refused, ~raced'
               PROVE  resizes = <<>> /\ base = asked
    BY <1>1 DEF AskedOK, NoCall
  <2>1. ~raced /\ resizes = <<>>
    BY <1>1 DEF SizesInv, SizeTypes
  <2>2. NoneOf(resizes, Views) /\ \A m : ~LastOf(resizes, Frames, m)
    BY <2>1, EmptyHasNone
  <2>3. base = view - 2 * border /\ (top => frame = view)
    BY <1>1, <2>2 DEF SizesInv, BaseOK, FrameOK
  <2> QED
    BY <1>1, <2>1, <2>3 DEF SizesInv, AskedOK
<1> QED
  BY <1>2, <1>3, <1>4, <1>5 DEF SizesInv

LEMMA ReadBaseKeeps ==
  ASSUME SizesInv, ReadBase
  PROVE  SizesInv'
<1>1. /\ configuring.at = "read" /\ configuring' = [at |-> "resize", size |-> base]
      /\ UNCHANGED <<top, border, min, max, limits, base, view, frame, resizes, asked, told, refused, raced>>
  BY DEF ReadBase, kept
<1>2. configuring # NoCall /\ configuring' # NoCall /\ configuring'.at = "resize" /\ configuring'.size = base
  BY <1>1 DEF NoCall
<1>3. SizeTypes'
  BY <1>1 DEF SizesInv, SizeTypes
<1>4. ToldOK' /\ FrameOK' /\ BaseOK' /\ HintsAreTold' /\ AskedOK'
  BY <1>1, <1>2 DEF SizesInv, ToldOK, FrameOK, BaseOK, HintsAreTold, AskedOK
<1> QED
  BY <1>3, <1>4 DEF SizesInv

LEMMA UserResizesKeeps ==
  ASSUME SizesInv, NEW size \in Sizes, UserResizes(size)
  PROVE  SizesInv'
<1>1. /\ top /\ frame' = Between(size, limits)
      /\ resizes' = resizes \o Told(frame' # frame, FrameMessage(frame'))
      /\ asked' = frame' - 2 * border
      /\ raced' = (raced \/ configuring # NoCall)
      /\ UNCHANGED <<top, base, border, min, max, view, limits, configuring, told, refused>>
  BY DEF UserResizes
<1>2. PICK lo \in 0 .. Bound, hi \in 0 .. Bound : lo <= hi /\ limits = <<lo, hi>>
  BY DEF SizesInv, SizeTypes
<1>3. /\ lo \in Int /\ hi \in Int /\ size \in Int /\ border \in Int
      /\ frame \in Int /\ resizes \in Seq(Resizes) /\ raced \in BOOLEAN
  BY SizesAre DEF SizesInv, SizeTypes
<1>4. frame' \in lo .. hi /\ frame' \in Int
  BY <1>1, <1>2, <1>3, BetweenIs
<1>5. frame' = Between(frame', limits')
  BY <1>1, <1>2, <1>3, <1>4, BetweenIs
<1>6. /\ resizes' \in Seq(Resizes)
      /\ frame' # frame => LastOf(resizes', Frames, FrameMessage(frame'))
      /\ frame' = frame => resizes' = resizes
      /\ NoneOf(resizes, Views) <=> NoneOf(resizes', Views)
  <2>1. ASSUME NEW g \in Int, frame' = g
        PROVE  /\ resizes' \in Seq(Resizes)
               /\ g # frame => LastOf(resizes', Frames, FrameMessage(g))
               /\ g = frame => resizes' = resizes
               /\ NoneOf(resizes, Views) <=> NoneOf(resizes', Views)
    <3>1. resizes' = resizes \o Told(g # frame, FrameMessage(g))
      BY <1>1, <2>1
    <3> QED
      BY <1>3, <3>1, ToldFrame
  <2> QED
    BY <1>4, <2>1
<1>7. SizeTypes'
  <2>1. asked' \in Int /\ raced' \in BOOLEAN
    BY <1>1, <1>3, <1>4
  <2> QED
    BY <1>1, <1>4, <1>5, <1>6, <2>1 DEF SizesInv, SizeTypes
<1>8. ToldOK' /\ BaseOK' /\ FrameOK' /\ HintsAreTold'
  BY <1>1, <1>6 DEF SizesInv, ToldOK, BaseOK, FrameOK, HintsAreTold, XGetNormalHints
<1>9. AskedOK'
  <2>1. ~raced' => configuring' = NoCall
    BY <1>1
  <2>2. configuring' = NoCall => configuring'.at # "resize"
    BY DEF NoCall
  <2> QED
    BY <1>1, <2>1, <2>2 DEF AskedOK
<1> QED
  BY <1>7, <1>8, <1>9 DEF SizesInv

(* The looper takes its next message.                                      *)
LEMMA ConfiguredKeeps ==
  ASSUME SizesInv, Configured
  PROVE  SizesInv'
<1>1. /\ resizes # <<>> /\ Head(resizes).what = "view" /\ resizes' = Tail(resizes)
      /\ base' = view - 2 * border /\ told' = base'
      /\ UNCHANGED <<top, border, min, max, view, frame, limits, configuring, asked, refused, raced>>
  BY DEF Configured
<1>2. resizes \in Seq(Resizes) /\ border \in Int /\ view \in Int
  BY SizesAre DEF SizesInv, SizeTypes
<1>3. /\ Tail(resizes) \in Seq(Resizes) /\ Head(resizes) \in Resizes
      /\ Head(resizes) = ViewMessage /\ Head(resizes) \notin Frames
  BY <1>1, <1>2, TailKeeps, MessagesAre
<1>4. /\ NoneOf(resizes, Frames) => NoneOf(resizes', Frames)
      /\ \A m : LastOf(resizes, Frames, m) => LastOf(resizes', Frames, m)
  <2>1. NoneOf(resizes, Frames) => NoneOf(Tail(resizes), Frames)
    BY <1>1, <1>2, TailNone
  <2>2. ASSUME NEW m, LastOf(resizes, Frames, m)
        PROVE  LastOf(Tail(resizes), Frames, m)
    <3>1. LastOf(Tail(resizes), Frames, m) \/ Head(resizes) = m
      BY <1>1, <1>2, <2>2, TailLast
    <3>2. m \in Frames
      BY <2>2 DEF LastOf
    <3> QED
      BY <1>3, <3>1, <3>2
  <2> QED
    BY <1>1, <2>1, <2>2
<1>5. SizeTypes'
  BY <1>1, <1>2, <1>3 DEF SizesInv, SizeTypes
<1>6. ToldOK' /\ BaseOK' /\ FrameOK' /\ HintsAreTold'
  BY <1>1, <1>4 DEF SizesInv, ToldOK, BaseOK, FrameOK, HintsAreTold, XGetNormalHints
<1>7. AskedOK'
  BY <1>1 DEF SizesInv, AskedOK
<1> QED
  BY <1>5, <1>6, <1>7 DEF SizesInv

LEMMA FrameResizedKeeps ==
  ASSUME SizesInv, FrameResized
  PROVE  SizesInv'
<1>1. /\ resizes # <<>> /\ Head(resizes).what = "window" /\ view' = Head(resizes).size
      /\ resizes' = Tail(resizes) \o Told(view' # view, ViewMessage)
      /\ UNCHANGED <<top, base, border, min, max, frame, limits, configuring, asked, told, refused, raced>>
  BY DEF FrameResized
<1>2. resizes \in Seq(Resizes) /\ frame \in Int
  BY DEF SizesInv, SizeTypes
<1>3. /\ Tail(resizes) \in Seq(Resizes) /\ Head(resizes) \in Resizes /\ Head(resizes) = resizes[1]
  BY <1>1, <1>2, TailKeeps
<1>4. /\ view' \in Int /\ Head(resizes) = FrameMessage(view') /\ Head(resizes) \in Frames
      /\ Head(resizes) \notin Views
  BY <1>1, <1>3, MessagesAre
<1>5. /\ resizes' \in Seq(Resizes)
      /\ view' # view => resizes' = Append(Tail(resizes), ViewMessage)
      /\ view' = view => resizes' = Tail(resizes)
  <2>1. ViewMessage \in Resizes /\ (view' # view) \in BOOLEAN
    BY MessagesAre
  <2> QED
    BY <1>1, <1>3, <2>1, ToldIs
<1>6. NoneOf(resizes', Views) => view' = view /\ NoneOf(resizes, Views)
  <2>1. view' = view \/ ~NoneOf(resizes', Views)
    BY <1>3, <1>5, AppendView
  <2>2. ASSUME NoneOf(Tail(resizes), Views)
        PROVE  NoneOf(resizes, Views)
    BY <1>1, <1>2, <1>3, <1>4, <2>2, TailKeeps DEF NoneOf
  <2> QED
    BY <1>5, <2>1, <2>2
<1>7. top
  <2>1. 1 \in DOMAIN resizes
    BY <1>1, <1>2
  <2> QED
    BY <1>3, <1>4, <2>1 DEF SizesInv, FrameOK, SizeTypes, NoneOf
<1>8. FrameOK'
  <2> SUFFICES ASSUME ~refused
               PROVE  \/ LastOf(resizes', Frames, FrameMessage(frame))
                      \/ NoneOf(resizes', Frames) /\ frame = view'
    BY <1>1, <1>7 DEF FrameOK
  <2>1. LastOf(resizes, Frames, FrameMessage(frame))
    <3>1. ~NoneOf(resizes, Frames)
      <4>1. 1 \in DOMAIN resizes
        BY <1>1, <1>2
      <4> QED
        BY <1>3, <1>4, <4>1 DEF NoneOf
    <3> QED
      BY <1>7, <3>1 DEF SizesInv, FrameOK
  <2>2. \/ LastOf(Tail(resizes), Frames, FrameMessage(frame))
        \/ NoneOf(Tail(resizes), Frames) /\ Head(resizes) = FrameMessage(frame)
    BY <1>1, <1>2, <2>1, TailLast
  <2>3. Head(resizes) = FrameMessage(frame) => view' = frame
    BY <1>1 DEF FrameMessage
  <2>4. \/ LastOf(resizes', Frames, FrameMessage(frame))
        \/ NoneOf(resizes', Frames) /\ Head(resizes) = FrameMessage(frame)
    BY <1>3, <1>5, <2>2, AppendView
  <2> QED
    BY <2>3, <2>4
<1>9. SizeTypes'
  BY <1>1, <1>4, <1>5 DEF SizesInv, SizeTypes
<1>10. ToldOK' /\ BaseOK' /\ HintsAreTold'
  BY <1>1, <1>6 DEF SizesInv, ToldOK, BaseOK, HintsAreTold, XGetNormalHints
<1>11. AskedOK'
  BY <1>1, <1>7 DEF SizesInv, AskedOK
<1> QED
  BY <1>8, <1>9, <1>10, <1>11 DEF SizesInv

(* Every step of the client, the user or the looper keeps the sizes.       *)
LEMMA NextKeepsSizes == SizesInv /\ [GeometryNext]_geometryVars => SizesInv'
<1> SUFFICES ASSUME SizesInv, [GeometryNext]_geometryVars
             PROVE  SizesInv'
  OBVIOUS
<1>1. /\ configuring = NoCall \/ configuring \in [at : {"read", "resize"}, size : Int]
      /\ border \in Borders /\ min \in Sizes \cup {0} /\ max \in Sizes \cup {0}
      /\ asked \in Int
  BY DEF SizesInv, SizeTypes
<1>2. ASSUME NEW s \in Sizes, XResizeWindow(s)
      PROVE  SizesInv'
  <2>1. /\ configuring = NoCall /\ asked' = s /\ Resize(s)
        /\ UNCHANGED <<top, border, min, max, configuring, told, raced>>
    BY <1>2 DEF XResizeWindow
  <2>2. s \in Int /\ (NoneOf(resizes, Views) => base = view - 2 * border)
    BY <2>1, SizesAre DEF SizesInv, BaseOK
  <2> QED
    BY <2>1, <2>2, ResizeKeeps
<1>3. ASSUME NEW s \in Sizes, SetMinimum(s) \/ SetMaximum(s)
      PROVE  SizesInv'
  BY <1>1, <1>3, SetsKeeps DEF SetMinimum, SetMaximum
<1>4. ASSUME NEW b \in Borders, XSetWindowBorderWidth(b)
      PROVE  SizesInv'
  BY <1>1, <1>4, SetsKeeps DEF XSetWindowBorderWidth
<1>5. ASSUME ResizeToBase
      PROVE  SizesInv'
  <2>1. /\ configuring.at = "resize" /\ configuring' = NoCall /\ Resize(configuring.size)
        /\ UNCHANGED <<top, border, min, max, asked, told, raced>>
    BY <1>5 DEF ResizeToBase
  <2>2. configuring # NoCall /\ configuring.size \in Int
    BY <1>1, <2>1 DEF NoCall
  <2>3. /\ NoneOf(resizes, Views) => base = configuring.size \/ base = view - 2 * border
        /\ ~refused /\ ~raced => asked' = configuring.size
    BY <2>1, <2>2 DEF SizesInv, BaseOK, AskedOK
  <2> QED
    BY <1>1, <2>1, <2>2, <2>3, ResizeKeeps
<1> QED
  BY <1>2, <1>3, <1>4, <1>5, ReadBaseKeeps, UserResizesKeeps, ConfiguredKeeps, FrameResizedKeeps,
     SizesStutter DEF GeometryNext

(* Once the looper has handled what it was told, window, view and BWindow  *)
(* have one size, the one last asked for (Drawables.cpp:449-508, 677-719;  *)
(* Window.cpp:250-287), for all sizes, borders and limits.                 *)
THEOREM SizesSettleDown == GeometrySpec => []SizesSettle
<1>1. SizesInv => SizesSettle
  <2> SUFFICES ASSUME SizesInv
               PROVE  SizesAgree /\ AskedIsKept
    BY DEF SizesInv, SizesSettle
  <2> SUFFICES ASSUME CaughtUp
               PROVE  /\ base = view - 2 * border /\ told = base
                      /\ top /\ ~refused => frame = view
                      /\ ~refused /\ ~raced => base = asked
    BY DEF SizesAgree, AskedIsKept
  <2>1. NoneOf(resizes, Views) /\ \A m : ~LastOf(resizes, Frames, m)
    BY EmptyHasNone DEF CaughtUp
  <2>2. base = view - 2 * border /\ told = base /\ (top /\ ~refused => frame = view)
    BY <2>1 DEF CaughtUp, SizesInv, BaseOK, ToldOK, FrameOK
  <2> QED
    BY <2>2 DEF CaughtUp, SizesInv, AskedOK
<1> QED
  BY <1>1, InitSizes, NextKeepsSizes, PTL DEF GeometrySpec

-----------------------------------------------------------------------------
(* What a BWindow keeps, and what a client asks.                           *)
BWindows ==
  [look : Looks, feel : Feels, avoid : BOOLEAN, disallowed : SUBSET Functions,
   title : Titles \cup {NoWindow}, protocols : SUBSET {"delete", "focus"}, subset : SUBSET HintWindows]
Wishes == [functions : SUBSET Functions, title : Titles \cup {NoWindow}, delete : BOOLEAN]

HintTypes ==
  /\ parentOf \in [HintWindows -> HintWindows \cup {NoWindow}]
  /\ manages \in [HintWindows -> BWindows]
  /\ override \in [HintWindows -> BOOLEAN] /\ shown \in [HintWindows -> BOOLEAN]
  /\ transientFor \in [HintWindows -> HintWindows \cup {NoWindow}]
  /\ wanted \in [HintWindows -> Wishes]

(* What BWindow m of a window keeps is what was asked, q.                  *)
Agrees(m, q) ==
  /\ m.disallowed = Functions \ q.functions
  /\ m.title = q.title
  /\ "delete" \in m.protocols <=> q.delete

(* A window without a BWindow keeps nothing, and nothing was asked; one    *)
(* that still is where it was created has its BWindow.                     *)
WishesOK ==
  \A w \in HintWindows :
    /\ Agrees(manages[w], wanted[w])
    /\ ~HasBWindow(w) => manages[w] = NewBWindow /\ wanted[w] = NothingWanted
    /\ w \notin reborn => HasBWindow(w)
    /\ w \notin reborn \cup modal => (override[w] <=> manages[w].feel = "menu")

HintsInv == HintTypes /\ WishesOK /\ SubsetsFollow

-----------------------------------------------------------------------------
LEMMA NewBWindowIs ==
  /\ NewBWindow \in BWindows /\ NewBWindow.subset = {} /\ NewBWindow.feel = "normal"
  /\ NothingWanted \in Wishes /\ Agrees(NewBWindow, NothingWanted)
<1>1. NewBWindow \in BWindows
  BY DEF NewBWindow, BWindows, Looks, Feels
<1>2. /\ NewBWindow.subset = {} /\ NewBWindow.feel = "normal" /\ NewBWindow.disallowed = {}
      /\ NewBWindow.title = NoWindow /\ NewBWindow.protocols = {}
  BY DEF NewBWindow
<1>3. NothingWanted \in Wishes
  BY DEF NothingWanted, Wishes
<1>4. NothingWanted.functions = Functions /\ NothingWanted.title = NoWindow /\ NothingWanted.delete = FALSE
  BY DEF NothingWanted
<1> QED
  BY <1>1, <1>2, <1>3, <1>4 DEF Agrees

LEMMA InitHints == HintsInit => HintsInv
<1> SUFFICES ASSUME HintsInit
             PROVE  HintsInv
  OBVIOUS
<1>1. \A w \in HintWindows : manages[w] = NewBWindow /\ wanted[w] = NothingWanted /\ parentOf[w] = NoWindow
                             /\ transientFor[w] = NoWindow /\ override[w] = FALSE
  BY DEF HintsInit
<1>2. HintTypes
  BY NewBWindowIs DEF HintsInit, HintTypes
<1>3. WishesOK
  BY <1>1, NewBWindowIs DEF WishesOK, HasBWindow
<1>4. SubsetsFollow
  BY <1>1, NewBWindowIs DEF SubsetsFollow
<1> QED
  BY <1>2, <1>3, <1>4 DEF HintsInv

(* A BWindow's hints are changed, but not its subset; it has the feel for  *)
(* one only if it had it.                                                  *)
LEMMA ChangeKeeps ==
  ASSUME HintsInv, NEW w \in HintWindows, HasBWindow(w), NEW m \in BWindows, NEW q \in Wishes,
         manages' = [manages EXCEPT ![w] = m], wanted' = [wanted EXCEPT ![w] = q],
         m.subset = manages[w].subset, m.feel = "subset" => manages[w].feel = "subset",
         Agrees(m, q),
         override' \in [HintWindows -> BOOLEAN], \A v \in HintWindows \ {w} : override'[v] = override[v],
         modal' = modal \/ modal' = modal \ {w},
         w \notin reborn \cup modal' => (override'[w] <=> m.feel = "menu"),
         UNCHANGED <<parentOf, transientFor, shown, reborn>>
  PROVE  HintsInv'
<1>1. HintTypes'
  BY DEF HintsInv, HintTypes
<1>2. /\ manages'[w] = m /\ wanted'[w] = q
      /\ \A v \in HintWindows \ {w} : manages'[v] = manages[v] /\ wanted'[v] = wanted[v]
      /\ \A v \in HintWindows : HasBWindow(v)' <=> HasBWindow(v)
  BY DEF HintsInv, HintTypes, HasBWindow
<1>3. WishesOK'
  BY <1>2 DEF HintsInv, WishesOK
<1>4. /\ \A v \in HintWindows : manages'[v].subset = manages[v].subset
      /\ \A v \in HintWindows : manages'[v].feel = "subset" => manages[v].feel = "subset"
  BY <1>2
<1>5. SubsetsFollow'
  BY <1>4 DEF HintsInv, SubsetsFollow
<1> QED
  BY <1>1, <1>3, <1>5 DEF HintsInv

LEMMA FieldsAre ==
  ASSUME NEW m \in BWindows
  PROVE  /\ m.look \in Looks /\ m.feel \in Feels /\ m.avoid \in BOOLEAN /\ m.disallowed \subseteq Functions
         /\ m.title \in Titles \cup {NoWindow} /\ m.protocols \subseteq {"delete", "focus"}
         /\ m.subset \subseteq HintWindows
BY DEF BWindows

LEMMA RedirectKeeps ==
  ASSUME HintsInv, NEW w \in HintWindows, NEW b \in BOOLEAN, XChangeWindowAttributes(w, b)
  PROVE  HintsInv'
<1> DEFINE m == [manages[w] EXCEPT !.feel = IF b THEN "menu" ELSE "normal",
                                   !.look = IF b THEN "none" ELSE "titled",
                                   !.avoid = b]
<1>1. /\ HasBWindow(w) /\ override' = [override EXCEPT ![w] = b]
      /\ manages' = [manages EXCEPT ![w] = m] /\ modal' = modal \ {w}
      /\ UNCHANGED <<parentOf, transientFor, shown, wanted, reborn>>
  BY DEF XChangeWindowAttributes, Call
<1>2. manages[w] \in BWindows /\ wanted[w] \in Wishes /\ override \in [HintWindows -> BOOLEAN]
      /\ wanted \in [HintWindows -> Wishes] /\ Agrees(manages[w], wanted[w])
  BY DEF HintsInv, HintTypes, WishesOK
<1>3. m \in BWindows
  BY <1>2 DEF BWindows, Looks, Feels
<1>4. /\ m.feel = (IF b THEN "menu" ELSE "normal") /\ m.subset = manages[w].subset
      /\ m.disallowed = manages[w].disallowed /\ m.title = manages[w].title
      /\ m.protocols = manages[w].protocols
  BY <1>2 DEF BWindows
<1> HIDE DEF m
<1>5. Agrees(m, wanted[w])
  BY <1>2, <1>4 DEF Agrees
<1>6. wanted' = [wanted EXCEPT ![w] = wanted[w]]
  BY <1>1, <1>2
<1>7. /\ override' \in [HintWindows -> BOOLEAN] /\ override'[w] = b
      /\ \A v \in HintWindows \ {w} : override'[v] = override[v]
  BY <1>1, <1>2
<1> QED
  BY <1>1, <1>2, <1>3, <1>4, <1>5, <1>6, <1>7, ChangeKeeps

LEMMA FunctionsKeep ==
  ASSUME HintsInv, NEW w \in HintWindows, NEW f \in SUBSET Functions, SetMotifFunctions(w, f)
  PROVE  HintsInv'
<1> DEFINE m == [manages[w] EXCEPT !.disallowed = Functions \ f]
           q == [wanted[w] EXCEPT !.functions = f]
<1>1. /\ HasBWindow(w) /\ manages' = [manages EXCEPT ![w] = m] /\ wanted' = [wanted EXCEPT ![w] = q]
      /\ UNCHANGED <<parentOf, override, transientFor, shown, reborn, modal>>
  BY DEF SetMotifFunctions, Call, Disallowed, HintsInv, HintTypes
<1>2. /\ manages[w] \in BWindows /\ wanted[w] \in Wishes /\ override \in [HintWindows -> BOOLEAN]
      /\ Agrees(manages[w], wanted[w])
      /\ w \notin reborn \cup modal => (override[w] <=> manages[w].feel = "menu")
  BY DEF HintsInv, HintTypes, WishesOK
<1>3. m \in BWindows /\ q \in Wishes
  BY <1>2 DEF BWindows, Wishes
<1>4. /\ m.feel = manages[w].feel /\ m.subset = manages[w].subset /\ m.title = manages[w].title
      /\ m.protocols = manages[w].protocols /\ m.disallowed = Functions \ f
      /\ q.functions = f /\ q.title = wanted[w].title /\ q.delete = wanted[w].delete
  BY <1>2 DEF BWindows, Wishes
<1> HIDE DEF m, q
<1>5. Agrees(m, q)
  BY <1>2, <1>4 DEF Agrees
<1> QED
  BY <1>1, <1>2, <1>3, <1>4, <1>5, ChangeKeeps


LEMMA DecorationsKeep ==
  ASSUME HintsInv, NEW w \in HintWindows, NEW l \in Looks, SetMotifDecorations(w, l)
  PROVE  HintsInv'
<1> DEFINE m == [manages[w] EXCEPT !.look = l]
           q == wanted[w]
<1>1. /\ HasBWindow(w) /\ manages' = [manages EXCEPT ![w] = m] /\ wanted' = [wanted EXCEPT ![w] = q]
      /\ UNCHANGED <<parentOf, override, transientFor, shown, reborn, modal>>
  BY DEF SetMotifDecorations, Call, HintsInv, HintTypes
<1>2. /\ manages[w] \in BWindows /\ wanted[w] \in Wishes /\ override \in [HintWindows -> BOOLEAN]
      /\ Agrees(manages[w], wanted[w])
      /\ w \notin reborn \cup modal => (override[w] <=> manages[w].feel = "menu")
  BY DEF HintsInv, HintTypes, WishesOK
<1>3. m \in BWindows /\ q \in Wishes
  BY <1>2 DEF BWindows
<1>4. /\ m.subset = manages[w].subset /\ m.title = manages[w].title
      /\ m.protocols = manages[w].protocols /\ m.disallowed = manages[w].disallowed
      /\ m.feel = manages[w].feel /\ q = wanted[w]
  BY <1>2 DEF BWindows
<1> HIDE DEF m, q
<1>5. Agrees(m, q)
  BY <1>2, <1>4 DEF Agrees
<1> QED
  BY <1>1, <1>2, <1>3, <1>4, <1>5, ChangeKeeps


LEMMA ModeKeeps ==
  ASSUME HintsInv, NEW w \in HintWindows, NEW mode \in {"normal", "app", "all"}, SetMotifMode(w, mode)
  PROVE  HintsInv'
<1> DEFINE m == [manages[w] EXCEPT !.feel = ModeOf(w, mode)]
           q == wanted[w]
<1>1. /\ HasBWindow(w) /\ manages' = [manages EXCEPT ![w] = m] /\ wanted' = [wanted EXCEPT ![w] = q]
      /\ UNCHANGED <<parentOf, override, transientFor, shown, reborn, modal>>
  BY DEF SetMotifMode, Call, HintsInv, HintTypes
<1>2. /\ manages[w] \in BWindows /\ wanted[w] \in Wishes /\ override \in [HintWindows -> BOOLEAN]
      /\ Agrees(manages[w], wanted[w])
      /\ w \notin reborn \cup modal => (override[w] <=> manages[w].feel = "menu")
  BY DEF HintsInv, HintTypes, WishesOK
<1>3. m \in BWindows /\ q \in Wishes
  BY <1>2 DEF BWindows, ModeOf, Feels
<1>4. /\ m.subset = manages[w].subset /\ m.title = manages[w].title
      /\ m.protocols = manages[w].protocols /\ m.disallowed = manages[w].disallowed
      /\ m.feel = manages[w].feel \/ m.feel \notin {"menu", "subset"}
      /\ override[w] => m.feel = manages[w].feel
      /\ ~override[w] => m.feel \notin {"menu", "subset"}
      /\ q = wanted[w]
  BY <1>2 DEF BWindows, ModeOf
<1> HIDE DEF m, q
<1>5. Agrees(m, q)
  BY <1>2, <1>4 DEF Agrees
<1> QED
  BY <1>1, <1>2, <1>3, <1>4, <1>5, ChangeKeeps


LEMMA TypeKeeps ==
  ASSUME HintsInv, NEW w \in HintWindows, NEW menu \in BOOLEAN, SetWindowType(w, menu)
  PROVE  HintsInv'
<1> DEFINE m == [manages[w] EXCEPT !.look = IF menu THEN "none" ELSE "titled",
                                   !.feel = ModeOf(w, IF menu THEN "floating" ELSE "normal"),
                                   !.avoid = IF override[w] THEN @ ELSE menu]
           q == wanted[w]
<1>1. /\ HasBWindow(w) /\ manages' = [manages EXCEPT ![w] = m] /\ wanted' = [wanted EXCEPT ![w] = q]
      /\ UNCHANGED <<parentOf, override, transientFor, shown, reborn, modal>>
  BY DEF SetWindowType, Call, HintsInv, HintTypes
<1>2. /\ manages[w] \in BWindows /\ wanted[w] \in Wishes /\ override \in [HintWindows -> BOOLEAN]
      /\ Agrees(manages[w], wanted[w])
      /\ w \notin reborn \cup modal => (override[w] <=> manages[w].feel = "menu")
  BY DEF HintsInv, HintTypes, WishesOK
<1>3. m \in BWindows /\ q \in Wishes
  BY <1>2 DEF BWindows, ModeOf, Feels, Looks
<1>4. /\ m.subset = manages[w].subset /\ m.title = manages[w].title
      /\ m.protocols = manages[w].protocols /\ m.disallowed = manages[w].disallowed
      /\ m.feel = manages[w].feel \/ m.feel \notin {"menu", "subset"}
      /\ override[w] => m.feel = manages[w].feel
      /\ ~override[w] => m.feel \notin {"menu", "subset"}
      /\ q = wanted[w]
  BY <1>2 DEF BWindows, ModeOf
<1> HIDE DEF m, q
<1>5. Agrees(m, q)
  BY <1>2, <1>4 DEF Agrees
<1> QED
  BY <1>1, <1>2, <1>3, <1>4, <1>5, ChangeKeeps


LEMMA ProtocolsKeep ==
  ASSUME HintsInv, NEW w \in HintWindows, NEW d \in BOOLEAN, XSetWMProtocols(w, d)
  PROVE  HintsInv'
<1> DEFINE m == [manages[w] EXCEPT !.protocols = IF d THEN {"delete"} ELSE {"focus"}]
           q == [wanted[w] EXCEPT !.delete = d]
<1>1. /\ HasBWindow(w) /\ manages' = [manages EXCEPT ![w] = m] /\ wanted' = [wanted EXCEPT ![w] = q]
      /\ UNCHANGED <<parentOf, override, transientFor, shown, reborn, modal>>
  BY DEF XSetWMProtocols, Call, HintsInv, HintTypes
<1>2. /\ manages[w] \in BWindows /\ wanted[w] \in Wishes /\ override \in [HintWindows -> BOOLEAN]
      /\ Agrees(manages[w], wanted[w])
      /\ w \notin reborn \cup modal => (override[w] <=> manages[w].feel = "menu")
  BY DEF HintsInv, HintTypes, WishesOK
<1>3. m \in BWindows /\ q \in Wishes
  BY <1>2 DEF BWindows, Wishes
<1>4. /\ m.feel = manages[w].feel /\ m.subset = manages[w].subset /\ m.title = manages[w].title
      /\ m.disallowed = manages[w].disallowed /\ ("delete" \in m.protocols <=> d)
      /\ q.functions = wanted[w].functions /\ q.title = wanted[w].title /\ q.delete = d
  BY <1>2 DEF BWindows, Wishes
<1> HIDE DEF m, q
<1>5. Agrees(m, q)
  BY <1>2, <1>4 DEF Agrees
<1> QED
  BY <1>1, <1>2, <1>3, <1>4, <1>5, ChangeKeeps


LEMMA NameKeeps ==
  ASSUME HintsInv, NEW w \in HintWindows, NEW t \in Titles, XSetWMName(w, t)
  PROVE  HintsInv'
<1> DEFINE m == [manages[w] EXCEPT !.title = t]
           q == [wanted[w] EXCEPT !.title = t]
<1>1. /\ HasBWindow(w) /\ manages' = [manages EXCEPT ![w] = m] /\ wanted' = [wanted EXCEPT ![w] = q]
      /\ UNCHANGED <<parentOf, override, transientFor, shown, reborn, modal>>
  BY DEF XSetWMName, Call, HintsInv, HintTypes
<1>2. /\ manages[w] \in BWindows /\ wanted[w] \in Wishes /\ override \in [HintWindows -> BOOLEAN]
      /\ Agrees(manages[w], wanted[w])
      /\ w \notin reborn \cup modal => (override[w] <=> manages[w].feel = "menu")
  BY DEF HintsInv, HintTypes, WishesOK
<1>3. m \in BWindows /\ q \in Wishes
  BY <1>2 DEF BWindows, Wishes
<1>4. /\ m.feel = manages[w].feel /\ m.subset = manages[w].subset /\ m.title = t
      /\ m.protocols = manages[w].protocols /\ m.disallowed = manages[w].disallowed
      /\ q.functions = wanted[w].functions /\ q.title = t /\ q.delete = wanted[w].delete
  BY <1>2 DEF BWindows, Wishes
<1> HIDE DEF m, q
<1>5. Agrees(m, q)
  BY <1>2, <1>4 DEF Agrees
<1> QED
  BY <1>1, <1>2, <1>3, <1>4, <1>5, ChangeKeeps

-----------------------------------------------------------------------------
(* What a BWindow's subset becomes, and its feel, when m becomes Adopts    *)
(* of it: all else stays.                                                  *)
LEMMA AdoptsIs ==
  ASSUME NEW m \in [HintWindows -> BWindows], NEW t \in HintWindows, NEW w \in HintWindows
  PROVE  /\ Adopts(m, t, w) \in [HintWindows -> BWindows]
         /\ \A v \in HintWindows :
              /\ Adopts(m, t, w)[v].feel = m[v].feel
              /\ Adopts(m, t, w)[v].disallowed = m[v].disallowed
              /\ Adopts(m, t, w)[v].title = m[v].title
              /\ Adopts(m, t, w)[v].protocols = m[v].protocols
              /\ v # t => Adopts(m, t, w)[v] = m[v]
         /\ m[w].feel = "subset" => Adopts(m, t, w)[t].subset = m[t].subset \cup {w}
         /\ m[w].feel # "subset" => Adopts(m, t, w)[t].subset = m[t].subset
<1>1. CASE m[w].feel = "subset"
  <2> DEFINE r == [m[t] EXCEPT !.subset = @ \cup {w}]
  <2>1. Adopts(m, t, w) = [m EXCEPT ![t] = r]
    BY <1>1 DEF Adopts
  <2>2. m[t] \in BWindows
    OBVIOUS
  <2>3. r \in BWindows
    BY <2>2 DEF BWindows
  <2>4. /\ r.feel = m[t].feel /\ r.disallowed = m[t].disallowed /\ r.title = m[t].title
        /\ r.protocols = m[t].protocols /\ r.subset = m[t].subset \cup {w}
    BY <2>2 DEF BWindows
  <2> HIDE DEF r
  <2> QED
    BY <1>1, <2>1, <2>3, <2>4
<1>2. CASE m[w].feel # "subset"
  BY <1>2 DEF Adopts
<1> QED
  BY <1>1, <1>2

LEMMA ModalKeeps ==
  ASSUME HintsInv, NEW w \in HintWindows, SetModal(w)
  PROVE  HintsInv'
<1> DEFINE t == transientFor[w]
           m == [manages[w] EXCEPT !.feel = IF t = NoWindow THEN "app" ELSE "subset"]
           f == [manages EXCEPT ![w] = m]
<1>1. /\ HasBWindow(w) /\ (t # NoWindow => HasBWindow(t)) /\ modal' = modal \cup {w}
      /\ manages' = IF t = NoWindow THEN f ELSE Adopts(f, t, w)
      /\ UNCHANGED <<parentOf, override, transientFor, shown, wanted, reborn>>
  BY DEF SetModal, Call
<1>2. manages[w] \in BWindows /\ manages \in [HintWindows -> BWindows] /\ t \in HintWindows \cup {NoWindow}
  BY DEF HintsInv, HintTypes
<1>3. m \in BWindows
  BY <1>2 DEF BWindows, Feels
<1>4. /\ m.feel = (IF t = NoWindow THEN "app" ELSE "subset") /\ m.subset = manages[w].subset
      /\ m.disallowed = manages[w].disallowed /\ m.title = manages[w].title
      /\ m.protocols = manages[w].protocols
  BY <1>2 DEF BWindows
<1> HIDE DEF m, t
<1>5. /\ f \in [HintWindows -> BWindows] /\ f[w] = m
      /\ \A v \in HintWindows : v # w => f[v] = manages[v]
  BY <1>2, <1>3
<1> HIDE DEF f
<1>6. /\ manages' \in [HintWindows -> BWindows]
      /\ \A v \in HintWindows :
           /\ manages'[v].feel = f[v].feel /\ manages'[v].disallowed = f[v].disallowed
           /\ manages'[v].title = f[v].title /\ manages'[v].protocols = f[v].protocols
           /\ v # t => manages'[v] = f[v]
      /\ t # NoWindow => manages'[t].subset = f[t].subset \cup {w}
  <2>1. CASE t = NoWindow
    BY <1>1, <1>5, <2>1, HintWindowsAssumption
  <2>2. CASE t # NoWindow
    <3>1. t \in HintWindows /\ f[w].feel = "subset" /\ manages' = Adopts(f, t, w)
      BY <1>1, <1>2, <1>4, <1>5, <2>2
    <3> QED
      BY <1>5, <3>1, AdoptsIs
  <2> QED
    BY <2>1, <2>2
<1>7. HintTypes'
  BY <1>1, <1>6 DEF HintsInv, HintTypes
<1>8. WishesOK'
  <2> SUFFICES ASSUME NEW v \in HintWindows
               PROVE  /\ Agrees(manages'[v], wanted'[v])
                      /\ ~HasBWindow(v)' => manages'[v] = NewBWindow /\ wanted'[v] = NothingWanted
                      /\ v \notin reborn' => HasBWindow(v)'
                      /\ v \notin reborn' \cup modal' => (override'[v] <=> manages'[v].feel = "menu")
    BY DEF WishesOK
  <2>1. /\ Agrees(manages[v], wanted[v])
        /\ ~HasBWindow(v) => manages[v] = NewBWindow /\ wanted[v] = NothingWanted
        /\ v \notin reborn => HasBWindow(v)
        /\ v \notin reborn \cup modal => (override[v] <=> manages[v].feel = "menu")
    BY DEF HintsInv, WishesOK
  <2>2. HasBWindow(v)' <=> HasBWindow(v)
    BY <1>1 DEF HasBWindow
  <2>3. /\ manages'[v].disallowed = manages[v].disallowed /\ manages'[v].title = manages[v].title
        /\ manages'[v].protocols = manages[v].protocols
        /\ v # w => manages'[v].feel = manages[v].feel
    BY <1>4, <1>5, <1>6
  <2>4. ~HasBWindow(v) => v # w /\ v # t
    BY <1>1, <1>2, HintWindowsAssumption
  <2>5. ~HasBWindow(v) => manages'[v] = manages[v]
    BY <1>5, <1>6, <2>4
  <2> QED
    BY <1>1, <2>1, <2>2, <2>3, <2>5 DEF Agrees
<1>9. SubsetsFollow'
  <2> SUFFICES ASSUME NEW v \in HintWindows, NEW s \in HintWindows
               PROVE  /\ v \in manages'[s].subset => transientFor[v] = s
                      /\ transientFor[v] = s /\ manages'[v].feel = "subset" /\ {v, s} \cap reborn = {}
                           => v \in manages'[s].subset
    BY <1>1 DEF SubsetsFollow
  <2>1. /\ v \in manages[s].subset => transientFor[v] = s
        /\ transientFor[v] = s /\ manages[v].feel = "subset" /\ {v, s} \cap reborn = {}
             => v \in manages[s].subset
    BY DEF HintsInv, SubsetsFollow
  <2>2. /\ f[s].subset = manages[s].subset
        /\ v # w => f[v].feel = manages[v].feel
    BY <1>4, <1>5
  <2>3. /\ s # t => manages'[s].subset = manages[s].subset
        /\ s = t => manages'[s].subset = manages[s].subset \cup {w}
        /\ v # w => manages'[v].feel = manages[v].feel
    BY <1>6, <2>2, HintWindowsAssumption
  <2> QED
    BY <2>1, <2>3 DEF t
<1> QED
  BY <1>7, <1>8, <1>9 DEF HintsInv

LEMMA LeftIs ==
  ASSUME HintsInv, NEW w \in HintWindows
  PROVE  /\ Left(w) \in [HintWindows -> BWindows]
         /\ \A v \in HintWindows :
              /\ Left(w)[v].feel = manages[v].feel
              /\ Left(w)[v].disallowed = manages[v].disallowed
              /\ Left(w)[v].title = manages[v].title
              /\ Left(w)[v].protocols = manages[v].protocols
              /\ ~HasBWindow(v) => Left(w)[v] = manages[v]
              /\ Left(w)[v].subset = manages[v].subset \ {w}
<1> DEFINE t == transientFor[w]
<1>1. manages \in [HintWindows -> BWindows] /\ t \in HintWindows \cup {NoWindow}
  BY DEF HintsInv, HintTypes
<1>2. \A v \in HintWindows : v # t => w \notin manages[v].subset
  BY DEF HintsInv, SubsetsFollow
<1>3. CASE t # NoWindow /\ HasBWindow(t)
  <2> DEFINE r == [manages[t] EXCEPT !.subset = @ \ {w}]
  <2>1. Left(w) = [manages EXCEPT ![t] = r]
    BY <1>3 DEF Left
  <2>2. t \in HintWindows /\ manages[t] \in BWindows
    BY <1>1, <1>3
  <2>3. r \in BWindows
    BY <2>2 DEF BWindows
  <2>4. /\ r.feel = manages[t].feel /\ r.disallowed = manages[t].disallowed
        /\ r.title = manages[t].title /\ r.protocols = manages[t].protocols
        /\ r.subset = manages[t].subset \ {w}
    BY <2>2 DEF BWindows
  <2> HIDE DEF r, t
  <2> QED
    BY <1>1, <1>2, <1>3, <2>1, <2>2, <2>3, <2>4
<1>4. CASE ~(t # NoWindow /\ HasBWindow(t))
  <2>1. Left(w) = manages
    BY <1>4 DEF Left
  <2>2. ASSUME NEW v \in HintWindows PROVE w \notin manages[v].subset
    <3>1. CASE v = t
      <4>1. manages[v] = NewBWindow
        BY <1>4, <3>1, HintWindowsAssumption DEF HintsInv, WishesOK
      <4> QED
        BY <4>1, NewBWindowIs
    <3>2. CASE v # t
      BY <1>2, <3>2
    <3> QED
      BY <3>1, <3>2
  <2> QED
    BY <1>1, <2>1, <2>2
<1> QED
  BY <1>3, <1>4

LEMMA TransientKeeps ==
  ASSUME HintsInv, NEW w \in HintWindows, NEW t \in HintWindows \cup {NoWindow}, XSetTransientForHint(w, t)
  PROVE  HintsInv'
<1> DEFINE both == t # NoWindow /\ HasBWindow(t) /\ HasBWindow(w)
<1>1. /\ transientFor' = [transientFor EXCEPT ![w] = t]
      /\ manages' = IF both THEN Adopts(Left(w), t, w) ELSE Left(w)
      /\ UNCHANGED <<parentOf, override, shown, wanted, reborn, modal>>
  BY DEF XSetTransientForHint
<1>2. /\ Left(w) \in [HintWindows -> BWindows]
      /\ \A v \in HintWindows :
           /\ Left(w)[v].feel = manages[v].feel
           /\ Left(w)[v].disallowed = manages[v].disallowed
           /\ Left(w)[v].title = manages[v].title
           /\ Left(w)[v].protocols = manages[v].protocols
           /\ ~HasBWindow(v) => Left(w)[v] = manages[v]
           /\ Left(w)[v].subset = manages[v].subset \ {w}
  BY LeftIs
<1>3. /\ manages' \in [HintWindows -> BWindows]
      /\ \A v \in HintWindows :
           /\ manages'[v].feel = manages[v].feel
           /\ manages'[v].disallowed = manages[v].disallowed
           /\ manages'[v].title = manages[v].title
           /\ manages'[v].protocols = manages[v].protocols
           /\ ~HasBWindow(v) => manages'[v] = manages[v]
           /\ manages'[v].subset =
                IF both /\ manages[w].feel = "subset" /\ v = t THEN (manages[v].subset \ {w}) \cup {w}
                ELSE manages[v].subset \ {w}
  <2>1. CASE both
    <3>1. t \in HintWindows /\ manages' = Adopts(Left(w), t, w)
      BY <1>1, <2>1
    <3> DEFINE a == Adopts(Left(w), t, w)
    <3>2. /\ a \in [HintWindows -> BWindows]
          /\ \A v \in HintWindows :
               /\ a[v].feel = Left(w)[v].feel
               /\ a[v].disallowed = Left(w)[v].disallowed
               /\ a[v].title = Left(w)[v].title
               /\ a[v].protocols = Left(w)[v].protocols
               /\ v # t => a[v] = Left(w)[v]
          /\ Left(w)[w].feel = "subset" => a[t].subset = Left(w)[t].subset \cup {w}
          /\ Left(w)[w].feel # "subset" => a[t].subset = Left(w)[t].subset
      BY <1>2, <3>1, AdoptsIs
    <3> HIDE DEF a
    <3>3. manages' = a
      BY <3>1 DEF a
    <3>4. ASSUME NEW v \in HintWindows
          PROVE  /\ a[v].feel = manages[v].feel
                 /\ a[v].disallowed = manages[v].disallowed
                 /\ a[v].title = manages[v].title
                 /\ a[v].protocols = manages[v].protocols
                 /\ ~HasBWindow(v) => a[v] = manages[v]
                 /\ a[v].subset =
                      IF manages[w].feel = "subset" /\ v = t THEN (manages[v].subset \ {w}) \cup {w}
                      ELSE manages[v].subset \ {w}
      <4>1. CASE v = t
        BY <1>2, <2>1, <3>1, <3>2, <4>1
      <4>2. CASE v # t
        BY <1>2, <3>2, <4>2
      <4> QED
        BY <4>1, <4>2
    <3> QED
      BY <2>1, <3>2, <3>3, <3>4
  <2>2. CASE ~both
    <3>1. manages' = Left(w)
      BY <1>1, <2>2
    <3> QED
      BY <1>2, <2>2, <3>1
  <2> QED
    BY <2>1, <2>2
<1>4. \A v \in HintWindows : HasBWindow(v)' <=> HasBWindow(v)
  BY <1>1 DEF HasBWindow
<1>5. HintTypes'
  BY <1>1, <1>3 DEF HintsInv, HintTypes
<1>6. WishesOK'
  <2> SUFFICES ASSUME NEW v \in HintWindows
               PROVE  /\ Agrees(manages'[v], wanted'[v])
                      /\ ~HasBWindow(v)' => manages'[v] = NewBWindow /\ wanted'[v] = NothingWanted
                      /\ v \notin reborn' => HasBWindow(v)'
                      /\ v \notin reborn' \cup modal' => (override'[v] <=> manages'[v].feel = "menu")
    BY DEF WishesOK
  <2>1. /\ Agrees(manages[v], wanted[v])
        /\ ~HasBWindow(v) => manages[v] = NewBWindow /\ wanted[v] = NothingWanted
        /\ v \notin reborn => HasBWindow(v)
        /\ v \notin reborn \cup modal => (override[v] <=> manages[v].feel = "menu")
    BY DEF HintsInv, WishesOK
  <2> HIDE DEF both
  <2> QED
    BY <1>1, <1>3, <1>4, <2>1 DEF Agrees
<1>7. SubsetsFollow'
  <2> SUFFICES ASSUME NEW v \in HintWindows, NEW s \in HintWindows
               PROVE  /\ v \in manages'[s].subset => transientFor'[v] = s
                      /\ transientFor'[v] = s /\ manages'[v].feel = "subset" /\ {v, s} \cap reborn = {}
                           => v \in manages'[s].subset
    BY <1>1 DEF SubsetsFollow
  <2>1. /\ v \in manages[s].subset => transientFor[v] = s
        /\ transientFor[v] = s /\ manages[v].feel = "subset" /\ {v, s} \cap reborn = {}
             => v \in manages[s].subset
        /\ v \notin reborn => HasBWindow(v)
        /\ s \notin reborn => HasBWindow(s)
    BY DEF HintsInv, SubsetsFollow, WishesOK
  <2>2. transientFor'[v] = IF v = w THEN t ELSE transientFor[v]
    BY <1>1 DEF HintsInv, HintTypes
  <2>3. s # NoWindow
    BY HintWindowsAssumption
  <2> HIDE DEF both
  <2>4. CASE v = w
    <3>1. v \in manages'[s].subset <=> both /\ manages[w].feel = "subset" /\ s = t
      BY <1>3, <2>4
    <3>2. t = s /\ {v, s} \cap reborn = {} => both
      BY <2>1, <2>3, <2>4 DEF both
    <3> QED
      BY <1>3, <2>2, <2>4, <3>1, <3>2
  <2>5. CASE v # w
    <3>1. v \in manages'[s].subset <=> v \in manages[s].subset
      BY <1>3, <2>5
    <3> QED
      BY <1>3, <2>1, <2>2, <2>5, <3>1
  <2> QED
    BY <2>4, <2>5
<1> QED
  BY <1>5, <1>6, <1>7 DEF HintsInv

LEMMA ReparentKeeps ==
  ASSUME HintsInv, NEW w \in HintWindows, NEW p \in HintWindows \cup {NoWindow}, XReparentWindow(w, p)
  PROVE  HintsInv'
<1>1. /\ parentOf' = [parentOf EXCEPT ![w] = p]
      /\ manages' = IF HasBWindow(w) THEN Gone(w) ELSE manages
      /\ wanted' = [wanted EXCEPT ![w] = NothingWanted]
      /\ reborn' = reborn \cup {w}
      /\ UNCHANGED <<override, transientFor, shown, modal>>
  BY DEF XReparentWindow
<1>2. manages \in [HintWindows -> BWindows]
  BY DEF HintsInv, HintTypes
<1>3. /\ manages' \in [HintWindows -> BWindows] /\ manages'[w] = NewBWindow
      /\ \A v \in HintWindows \ {w} :
           /\ manages'[v].feel = manages[v].feel
           /\ manages'[v].disallowed = manages[v].disallowed
           /\ manages'[v].title = manages[v].title
           /\ manages'[v].protocols = manages[v].protocols
           /\ ~HasBWindow(v) => manages'[v] = manages[v]
           /\ manages'[v].subset \subseteq manages[v].subset
           /\ manages[v].subset \subseteq manages'[v].subset \cup {w}
  <2>1. CASE ~HasBWindow(w)
    <3>1. manages' = manages /\ manages[w] = NewBWindow
      BY <1>1, <2>1 DEF HintsInv, WishesOK
    <3> QED
      BY <1>2, <3>1
  <2>2. CASE HasBWindow(w)
    <3>1. manages' = [v \in HintWindows |->
                        IF v = w THEN NewBWindow ELSE [manages[v] EXCEPT !.subset = @ \ {w}]]
      BY <1>1, <2>2 DEF Gone
    <3>2. manages'[w] = NewBWindow /\ NewBWindow \in BWindows
      BY <3>1, NewBWindowIs
    <3>3. ASSUME NEW v \in HintWindows \ {w}
          PROVE  /\ manages'[v] \in BWindows
                 /\ manages'[v].feel = manages[v].feel
                 /\ manages'[v].disallowed = manages[v].disallowed
                 /\ manages'[v].title = manages[v].title
                 /\ manages'[v].protocols = manages[v].protocols
                 /\ manages'[v].subset = manages[v].subset \ {w}
      <4> DEFINE r == [manages[v] EXCEPT !.subset = @ \ {w}]
      <4>1. manages'[v] = r
        BY <3>1
      <4>2. manages[v] \in BWindows
        BY <1>2
      <4>3. r \in BWindows
        BY <4>2 DEF BWindows
      <4>4. /\ r.feel = manages[v].feel /\ r.disallowed = manages[v].disallowed
            /\ r.title = manages[v].title /\ r.protocols = manages[v].protocols
            /\ r.subset = manages[v].subset \ {w}
        BY <4>2 DEF BWindows
      <4> HIDE DEF r
      <4> QED
        BY <4>1, <4>3, <4>4
    <3>4. ASSUME NEW v \in HintWindows \ {w}, ~HasBWindow(v)
          PROVE  manages'[v] = manages[v]
      <4>1. manages[v] = NewBWindow
        BY <3>4 DEF HintsInv, WishesOK
      <4>2. manages'[v] = [NewBWindow EXCEPT !.subset = @ \ {w}]
        BY <3>1, <4>1
      <4> QED
        BY <4>1, <4>2 DEF NewBWindow
    <3>5. manages' \in [HintWindows -> BWindows]
      BY <3>1, <3>2, <3>3
    <3> QED
      BY <3>2, <3>3, <3>4, <3>5
  <2> QED
    BY <2>1, <2>2
<1>4. /\ wanted'[w] = NothingWanted /\ wanted' \in [HintWindows -> Wishes]
      /\ \A v \in HintWindows \ {w} : wanted'[v] = wanted[v] /\ (HasBWindow(v)' <=> HasBWindow(v))
  BY <1>1, NewBWindowIs DEF HintsInv, HintTypes, HasBWindow
<1>5. HintTypes'
  BY <1>1, <1>3, <1>4 DEF HintsInv, HintTypes
<1>6. WishesOK'
  <2> SUFFICES ASSUME NEW v \in HintWindows
               PROVE  /\ Agrees(manages'[v], wanted'[v])
                      /\ ~HasBWindow(v)' => manages'[v] = NewBWindow /\ wanted'[v] = NothingWanted
                      /\ v \notin reborn' => HasBWindow(v)'
                      /\ v \notin reborn' \cup modal' => (override'[v] <=> manages'[v].feel = "menu")
    BY DEF WishesOK
  <2>1. CASE v = w
    BY <1>1, <1>3, <1>4, <2>1, NewBWindowIs
  <2>2. CASE v # w
    <3>1. /\ Agrees(manages[v], wanted[v])
          /\ ~HasBWindow(v) => manages[v] = NewBWindow /\ wanted[v] = NothingWanted
          /\ v \notin reborn => HasBWindow(v)
          /\ v \notin reborn \cup modal => (override[v] <=> manages[v].feel = "menu")
      BY DEF HintsInv, WishesOK
    <3> QED
      BY <1>1, <1>3, <1>4, <2>2, <3>1 DEF Agrees
  <2> QED
    BY <2>1, <2>2
<1>7. SubsetsFollow'
  <2> SUFFICES ASSUME NEW v \in HintWindows, NEW s \in HintWindows
               PROVE  /\ v \in manages'[s].subset => transientFor[v] = s
                      /\ transientFor[v] = s /\ manages'[v].feel = "subset" /\ {v, s} \cap reborn' = {}
                           => v \in manages'[s].subset
    BY <1>1 DEF SubsetsFollow
  <2>1. /\ v \in manages[s].subset => transientFor[v] = s
        /\ transientFor[v] = s /\ manages[v].feel = "subset" /\ {v, s} \cap reborn = {}
             => v \in manages[s].subset
    BY DEF HintsInv, SubsetsFollow
  <2>2. CASE s = w
    BY <1>1, <1>3, <2>2, NewBWindowIs
  <2>3. CASE s # w
    BY <1>1, <1>3, <2>1, <2>3
  <2> QED
    BY <2>2, <2>3
<1> QED
  BY <1>5, <1>6, <1>7 DEF HintsInv

(* A step that changes nothing but what is shown and who is asked to close. *)
LEMMA ShownKeeps ==
  ASSUME HintsInv, shown' \in [HintWindows -> BOOLEAN],
         UNCHANGED <<parentOf, manages, override, transientFor, wanted, reborn, modal>>
  PROVE  HintsInv'
BY DEF HintsInv, HintTypes, WishesOK, SubsetsFollow, HasBWindow

(* Every call keeps the hints.                                             *)
LEMMA NextKeepsHints == HintsInv /\ [HintsNext]_hintVars => HintsInv'
<1> SUFFICES ASSUME HintsInv, [HintsNext]_hintVars
             PROVE  HintsInv'
  OBVIOUS
<1>1. shown \in [HintWindows -> BOOLEAN]
  BY DEF HintsInv, HintTypes
<1>2. CASE UNCHANGED hintVars
  BY <1>1, <1>2, ShownKeeps DEF hintVars
<1>3. ASSUME NEW w \in HintWindows, NEW action \in {"add", "remove"}, SendRootState(w, action)
      PROVE  HintsInv'
  <2>1. SetModal(w) \/ UNCHANGED <<parentOf, manages, override, transientFor, shown, wanted, reborn, modal>>
    BY <1>3 DEF SendRootState
  <2> QED
    BY <1>1, <2>1, ModalKeeps, ShownKeeps
<1>4. ASSUME NEW w \in HintWindows, QuitRequested(w) \/ XMapWindow(w)
      PROVE  HintsInv'
  <2>1. /\ shown' = shown \/ \E b \in BOOLEAN : shown' = [shown EXCEPT ![w] = b]
        /\ UNCHANGED <<parentOf, manages, override, transientFor, wanted, reborn, modal>>
    BY <1>4 DEF QuitRequested, XMapWindow
  <2> QED
    BY <1>1, <2>1, ShownKeeps
<1> QED
  BY <1>2, <1>3, <1>4, RedirectKeeps, TypeKeeps, ProtocolsKeep, FunctionsKeep, DecorationsKeep, ModeKeeps,
     NameKeeps, ModalKeeps, TransientKeeps, ReparentKeeps DEF HintsNext

(* A BWindow keeps the functions, title and protocols last asked of it,    *)
(* whatever else is asked (Property.cpp:225-354, Window.cpp:460-545), and  *)
(* a redirected window the feel of a menu.                                 *)
THEOREM HintsStay == HintsSpec => []HintsAreKept
<1>1. HintsInv => HintsAreKept
  <2>0. HintsInv => SubsetsFollow
    BY DEF HintsInv
  <2> SUFFICES ASSUME HintsInv, NEW w \in HintWindows
               PROVE  /\ MotifHints(w).functions = wanted[w].functions
                      /\ manages[w].title = wanted[w].title
                      /\ "delete" \in manages[w].protocols <=> wanted[w].delete
                      /\ w \notin reborn \cup modal => (override[w] <=> manages[w].feel = "menu")
    BY <2>0 DEF HintsAreKept
  <2>1. /\ Agrees(manages[w], wanted[w])
        /\ w \notin reborn \cup modal => (override[w] <=> manages[w].feel = "menu")
        /\ wanted[w] \in Wishes
    BY DEF HintsInv, WishesOK, HintTypes
  <2>2. MotifHints(w).functions = Functions \ manages[w].disallowed
    BY DEF MotifHints
  <2> QED
    BY <2>1, <2>2 DEF Agrees, Wishes
<1> QED
  BY <1>1, InitHints, NextKeepsHints, PTL DEF HintsSpec

(* A BWindow's subset holds windows that are transient for it only, and    *)
(* all modal ones among them that have not got another BWindow since       *)
(* (Window.cpp:526-545, Property.cpp:325-354).                             *)
THEOREM SubsetsFollowTransients == HintsSpec => []SubsetsFollow
<1>1. HintsInv => SubsetsFollow
  BY DEF HintsInv
<1> QED
  BY <1>1, InitHints, NextKeepsHints, PTL DEF HintsSpec

-----------------------------------------------------------------------------
(* A button whose press, or a motion with it, was put while it was alone,   *)
(* and nothing else since, is held, and is what the window compares its    *)
(* next event with.                                                        *)
ButtonsInv ==
  /\ held \subseteq Buttons /\ last_buttons \subseteq Buttons
  /\ pressed \in 0 .. 3
  /\ pressed # 0 => last_buttons = {pressed} /\ pressed \in held
  /\ ReleaseNamesPress

LEMMA NextKeepsButtons == ButtonsInv /\ [KeyboardNext]_buttonVars => ButtonsInv'
<1> SUFFICES ASSUME ButtonsInv, [KeyboardNext]_buttonVars
             PROVE  ButtonsInv'
  OBVIOUS
<1>1. ASSUME NEW type, NEW buttons \in SUBSET Buttons, NEW expected, MouseEvent(type, buttons, expected)
      PROVE  /\ grabbed => UNCHANGED <<event, last_buttons>>
             /\ ~grabbed => /\ last_buttons' = Found(type, buttons)
                            /\ event'.button = Name(Found(type, buttons)) /\ event'.expected = expected
  BY <1>1 DEF MouseEvent
<1>2. ASSUME NEW b \in Buttons, Press(b)
      PROVE  ButtonsInv'
  <2>1. /\ b \notin held /\ held' = held \cup {b} /\ held' \in SUBSET Buttons
        /\ IF "press" \in selects
           THEN /\ MouseEvent("press", held', IF held = {} THEN Name({b}) ELSE 0)
                /\ pressed' = IF held = {} /\ ~grabbed THEN b ELSE 0
           ELSE event' = event /\ last_buttons' = last_buttons /\ pressed' = 0
    BY <1>2 DEF Press, ButtonsInv
  <2>2. Found("press", held') = held'
    BY DEF Found
  <2>3. CASE "press" \in selects /\ ~grabbed
    <3>1. /\ last_buttons' = held' /\ event'.button = Name(held')
          /\ event'.expected = IF held = {} THEN Name({b}) ELSE 0
          /\ pressed' = IF held = {} THEN b ELSE 0
      BY <1>1, <2>1, <2>2, <2>3
    <3>2. held = {} => held' = {b}
      BY <2>1
    <3>3. ReleaseNamesPress'
      BY <3>1, <3>2 DEF ReleaseNamesPress
    <3>4. b \in 0 .. 3
      BY DEF Buttons
    <3> QED
      BY <2>1, <3>1, <3>2, <3>3, <3>4 DEF ButtonsInv
  <2>4. CASE ~("press" \in selects /\ ~grabbed)
    <3>1. event' = event /\ last_buttons' = last_buttons /\ pressed' = 0
      BY <1>1, <2>1, <2>4
    <3> QED
      BY <2>1, <3>1 DEF ButtonsInv, ReleaseNamesPress
  <2> QED
    BY <2>3, <2>4
<1>3. ASSUME NEW b \in Buttons, Release(b)
      PROVE  ButtonsInv'
  <2>1. /\ b \in held /\ held' = held \ {b} /\ held' \in SUBSET Buttons /\ pressed' = 0
        /\ IF "release" \in selects
           THEN MouseEvent("release", held', IF pressed = b THEN Name({b}) ELSE 0)
           ELSE event' = event /\ last_buttons' = last_buttons
    BY <1>3 DEF Release, ButtonsInv
  <2>2. Found("release", held') = last_buttons \ held'
    BY DEF Found
  <2>3. CASE "release" \in selects /\ ~grabbed
    <3>1. /\ last_buttons' = last_buttons \ held' /\ event'.button = Name(last_buttons \ held')
          /\ event'.expected = IF pressed = b THEN Name({b}) ELSE 0
      BY <1>1, <2>1, <2>2, <2>3
    <3>2. pressed = b => last_buttons \ held' = {b}
      <4>1. pressed = b => last_buttons = {b}
        BY DEF ButtonsInv, Buttons
      <4> QED
        BY <2>1, <4>1
    <3>3. ReleaseNamesPress'
      BY <3>1, <3>2 DEF ReleaseNamesPress
    <3> QED
      BY <2>1, <3>1, <3>3 DEF ButtonsInv
  <2>4. CASE ~("release" \in selects /\ ~grabbed)
    <3>1. event' = event /\ last_buttons' = last_buttons
      BY <1>1, <2>1, <2>4
    <3> QED
      BY <2>1, <3>1 DEF ButtonsInv, ReleaseNamesPress
  <2> QED
    BY <2>3, <2>4
<1>4. ASSUME NEW b \in Wheel, WheelTurned(b)
      PROVE  ButtonsInv'
  <2>1. CASE grabbed
    BY <1>4, <2>1 DEF WheelTurned, ButtonsInv, ReleaseNamesPress
  <2>2. CASE ~grabbed
    <3>1. /\ held' = held /\ last_buttons' = {} /\ pressed' = 0
          /\ event'.button = b /\ event'.expected = b
      BY <1>4, <2>2 DEF WheelTurned
    <3> QED
      BY <3>1 DEF ButtonsInv, ReleaseNamesPress
  <2> QED
    BY <2>1, <2>2
<1>6. ASSUME Motion
      PROVE  ButtonsInv'
  <2>1. held' = held /\ held \in SUBSET Buttons /\ MouseEvent("motion", held, 0)
    BY <1>6 DEF Motion, ButtonsInv
  <2>2. CASE grabbed
    <3>1. event' = event /\ last_buttons' = last_buttons /\ pressed' = pressed
      BY <1>1, <1>6, <2>1, <2>2 DEF Motion
    <3> QED
      BY <2>1, <3>1 DEF ButtonsInv, ReleaseNamesPress
  <2>3. CASE ~grabbed
    <3>1. last_buttons' = held /\ event'.expected = 0
      BY <1>1, <2>1, <2>3 DEF Found
    <3>2. pressed' = Alone(held)
      BY <1>6, <2>3 DEF Motion
    <3>3. Alone(held) = 0 \/ (Alone(held) \in Buttons /\ held = {Alone(held)})
      BY DEF Alone
    <3>4. pressed' \in 0 .. 3 /\ (pressed' # 0 => held = {pressed'})
      BY <3>2, <3>3 DEF Buttons
    <3> QED
      BY <2>1, <3>1, <3>4 DEF ButtonsInv, ReleaseNamesPress
  <2> QED
    BY <2>2, <2>3
<1>5. ASSUME UNCHANGED <<held, last_buttons, event, pressed>>
      PROVE  ButtonsInv'
  BY <1>5 DEF ButtonsInv, ReleaseNamesPress
<1> QED
  BY <1>2, <1>3, <1>4, <1>5, <1>6 DEF KeyboardNext, Grab, SelectsButtons, buttonVars

(* The release of a button that was pressed alone names it, whatever was   *)
(* grabbed or selected in between (Drawables.cpp:856-896).                 *)
THEOREM ReleasesNamePresses == KeyboardSpec => []ReleaseNamesPress
<1>1. KeyboardInit => ButtonsInv
  BY DEF KeyboardInit, ButtonsInv, ReleaseNamesPress, NoEvent
<1>2. ButtonsInv => ReleaseNamesPress
  BY DEF ButtonsInv
<1> QED
  BY <1>1, <1>2, NextKeepsButtons, PTL DEF KeyboardSpec

-----------------------------------------------------------------------------
(* The symbols of the table's keys are distinct, and only the space's is a *)
(* character.                                                              *)
LEMMA SymsAre ==
  ASSUME NEW i \in Locals
  PROVE  /\ Sym(i) \in Int
         /\ i # Space => ~IsAllowedAscii(Sym(i)) /\ Sym(i) > 1000
         /\ i # Space => XKeysymToKeycode(Sym(i)) = Start + i
         /\ i = Space => XKeysymToKeycode(Sym(i)) = 32
<1>1. Sym(i) \in Int /\ (i # Space => ~IsAllowedAscii(Sym(i)) /\ Sym(i) > 1000)
  BY DEF Sym, IsAllowedAscii, Locals
<1>2. CASE i # Space
  <2> DEFINE k == CHOOSE j \in Locals : Sym(j) = Sym(i)
  <2>1. k \in Locals /\ Sym(k) = Sym(i)
    OBVIOUS
  <2> HIDE DEF k
  <2>2. k = i
    BY <1>2, <2>1 DEF Sym, Locals, Space
  <2>3. XKeysymToKeycode(Sym(i)) = Start + k
    BY <1>1, <1>2 DEF XKeysymToKeycode, k
  <2> QED
    BY <1>1, <1>2, <2>2, <2>3
<1>3. CASE i = Space
  BY <1>1, <1>3 DEF XKeysymToKeycode, Sym, IsAllowedAscii
<1> QED
  BY <1>1, <1>2, <1>3

(* Codes, symbols and modifiers agree with one another (Keyboard.cpp:28-   *)
(* 219, 326-400).                                                          *)
THEOREM KeysAlwaysAgree == KeysAgree
<1>1. ASSUME NEW code \in 1 .. 255, MapXFromLocal(code) # NoSymbol, code # Start + Space
      PROVE  XKeysymToKeycode(MapXFromLocal(code)) = code
  <2>1. CASE IsAllowedAscii(code)
    BY <2>1 DEF MapXFromLocal, XKeysymToKeycode
  <2>2. CASE ~IsAllowedAscii(code)
    <3>1. code - Start \in Locals /\ MapXFromLocal(code) = Sym(code - Start) /\ code - Start # Space
      BY <1>1, <2>2 DEF MapXFromLocal, Start, Space
    <3> QED
      BY <3>1, SymsAre DEF Start
  <2> QED
    BY <2>1, <2>2
<1>2. ASSUME NEW i \in Locals
      PROVE  MapXFromLocal(XKeysymToKeycode(Sym(i))) = Sym(i)
  <2>1. CASE i = Space
    BY <2>1, SymsAre DEF MapXFromLocal, IsAllowedAscii, Sym
  <2>2. CASE i # Space
    BY <2>2, SymsAre DEF MapXFromLocal, IsAllowedAscii, Start, Locals
  <2> QED
    BY <2>1, <2>2
<1>3. ASSUME NEW i \in Locals, NEW row \in 1 .. 7
      PROVE  i \in XGetModifierMapping[row] <=> XkbKeysymToModifiers(Sym(i)) = row
  <2>1. XkbKeysymToModifiers(Sym(i)) =
          IF i \in {1, 2} THEN 1 ELSE IF i = 7 THEN 2 ELSE IF i \in {3, 4} THEN 3 ELSE IF i = 5 THEN 4
          ELSE IF i = 6 THEN 7 ELSE IF i = 8 THEN 5 ELSE IF i = 9 THEN 6 ELSE 0
    BY DEF XkbKeysymToModifiers, Sym, Locals, Space
  <2>2. XGetModifierMapping[row] =
          IF row = 1 THEN {1, 2} ELSE IF row = 2 THEN {7} ELSE IF row = 3 THEN {3, 4}
          ELSE IF row = 4 THEN {5} ELSE IF row = 5 THEN {8} ELSE IF row = 6 THEN {9} ELSE {6}
    BY DEF XGetModifierMapping
  <2> QED
    BY <2>1, <2>2 DEF Locals
<1>4. ASSUME NEW first \in 1 .. 255, NEW count \in 1 .. 2, XGetKeyboardMapping(first, count, 255) # <<>>
      PROVE  MapXFromLocal(first) = XGetKeyboardMapping(first, count, 255)[1]
  <2>1. XGetKeyboardMapping(first, count, 255) = [i \in 1 .. count |-> MapXFromLocal(first + i - 1)]
    BY <1>4 DEF XGetKeyboardMapping
  <2>2. 1 \in 1 .. count /\ first + 1 - 1 = first
    OBVIOUS
  <2> QED
    BY <2>1, <2>2
<1> QED
  BY <1>1, <1>2, <1>3, <1>4 DEF KeysAgree

(* The text of a key is what it gives, up to a zero and as far as the      *)
(* buffer holds (Keyboard.cpp:287-308).                                    *)
THEOREM TextIsAlwaysTyped == TextIsTyped
<1> SUFFICES ASSUME NEW local \in {0} \cup (Locals \ Modifiers), NEW bytes \in Bytes, NEW size \in 1 .. 4
             PROVE  LET text == XLookupString(FillKeyEvent(local, bytes), size)
                    IN  /\ \A i \in DOMAIN text : text[i] = bytes[i] /\ text[i] # 0
                        /\ Len(text) = Len(bytes) \/ Len(text) = size \/ bytes[Len(text) + 1] = 0
  BY DEF TextIsTyped
<1> DEFINE e == FillKeyEvent(local, bytes)
           zeros == {i \in DOMAIN e.bytes : e.bytes[i] = 0}
           length == IF zeros = {} THEN Len(e.bytes)
                     ELSE (CHOOSE i \in zeros : \A j \in zeros : i <= j) - 1
           n == IF length < size THEN length ELSE size
<1>1. bytes \in Seq(0 .. 255) /\ Len(bytes) \in 1 .. 4 /\ DOMAIN bytes = 1 .. Len(bytes)
  BY BytesAssumption
<1>2. /\ e.bytes = bytes
      /\ e.keycode = IF local # 0 THEN Start + local
                     ELSE IF Len(bytes) = 1 /\ IsAllowedAscii(bytes[1]) THEN bytes[1] ELSE Unknown
  BY DEF FillKeyEvent
<1>3. CASE IsAllowedAscii(e.keycode)
  <2>1. local = 0 /\ Len(bytes) = 1 /\ e.keycode = bytes[1] /\ bytes[1] # 0
    BY <1>2, <1>3 DEF IsAllowedAscii, Start, Unknown, Locals
  <2>2. XLookupString(e, size) = <<bytes[1]>>
    BY <1>3, <2>1 DEF XLookupString
  <2>3. Len(<<bytes[1]>>) = 1 /\ DOMAIN <<bytes[1]>> = 1 .. 1 /\ <<bytes[1]>>[1] = bytes[1]
    OBVIOUS
  <2> QED
    BY <2>1, <2>2, <2>3
<1>4. CASE ~IsAllowedAscii(e.keycode)
  <2>1. XLookupString(e, size) = SubSeq(bytes, 1, n)
    <3>1. XLookupString(e, size) = SubSeq(e.bytes, 1, n)
      BY <1>4 DEF XLookupString
    <3> HIDE DEF n, e
    <3> QED
      BY <1>2, <3>1
  <2>2. zeros # {} => \E i \in zeros : \A j \in zeros : i <= j
    <3>1. zeros \subseteq 1 .. 4
      BY <1>1, <1>2
    <3> HIDE DEF zeros
    <3>2. CASE 1 \in zeros
      BY <3>1, <3>2
    <3>3. CASE 1 \notin zeros /\ 2 \in zeros
      BY <3>1, <3>3
    <3>4. CASE 1 \notin zeros /\ 2 \notin zeros /\ 3 \in zeros
      BY <3>1, <3>4
    <3>5. CASE 1 \notin zeros /\ 2 \notin zeros /\ 3 \notin zeros
      <4>1. zeros \subseteq {4}
        BY <3>1, <3>5
      <4>2. CASE zeros = {}
        BY <4>2
      <4>3. CASE 4 \in zeros /\ \A j \in zeros : 4 <= j
        BY <4>3
      <4>4. zeros = {} \/ 4 \in zeros
        BY <4>1
      <4>5. \A j \in zeros : 4 <= j
        BY <4>1
      <4> QED
        BY <4>2, <4>3, <4>4, <4>5
    <3> QED
      BY <3>2, <3>3, <3>4, <3>5
  <2>3. /\ length \in 0 .. Len(bytes)
        /\ \A i \in 1 .. length : bytes[i] # 0
        /\ length = Len(bytes) \/ bytes[length + 1] = 0
    <3>1. CASE zeros = {}
      BY <1>1, <1>2, <3>1
    <3>2. CASE zeros # {}
      <4> DEFINE z == CHOOSE i \in zeros : \A j \in zeros : i <= j
      <4>1. z \in zeros /\ \A j \in zeros : z <= j
        <5> HIDE DEF zeros
        <5> QED
          BY <2>2, <3>2
      <4> HIDE DEF z
      <4>2. length = z - 1
        BY <3>2 DEF z
      <4> HIDE DEF length
      <4>3. z \in 1 .. Len(bytes) /\ bytes[z] = 0 /\ \A j \in 1 .. Len(bytes) : bytes[j] = 0 => z <= j
        BY <1>1, <1>2, <4>1
      <4> QED
        BY <1>1, <4>2, <4>3
    <3> QED
      BY <3>1, <3>2
  <2> HIDE DEF length
  <2>4. n \in 0 .. Len(bytes) /\ n <= length /\ (n = length \/ n = size)
    <3>1. Len(bytes) \in Int
      BY <1>1
    <3>2. length \in Int /\ 0 <= length /\ length <= Len(bytes)
      BY <2>3, <3>1
    <3>3. size \in Int /\ 1 <= size
      OBVIOUS
    <3> QED
      BY <3>1, <3>2, <3>3
  <2> HIDE DEF n
  <2>5. Len(SubSeq(bytes, 1, n)) = n /\ DOMAIN SubSeq(bytes, 1, n) = 1 .. n
        /\ \A i \in 1 .. n : SubSeq(bytes, 1, n)[i] = bytes[i]
    BY <1>1, <2>4
  <2>6. \A i \in 1 .. n : bytes[i] # 0
    BY <2>3, <2>4
  <2>7. /\ \A i \in DOMAIN SubSeq(bytes, 1, n) :
              SubSeq(bytes, 1, n)[i] = bytes[i] /\ SubSeq(bytes, 1, n)[i] # 0
        /\ n = Len(bytes) \/ n = size \/ bytes[n + 1] = 0
    BY <2>3, <2>4, <2>5, <2>6
  <2> QED
    BY <2>1, <2>5, <2>7
<1> QED
  BY <1>3, <1>4

(* A key told as pressed is told as released, with the same code           *)
(* (Drawables.cpp:257-281, 898-927).                                       *)
THEOREM ReleasesAlwaysFollow == ReleasesFollow
<1> SUFFICES ASSUME NEW local \in {0, Space} \cup Modifiers, NEW raw \in {"Tab", "Function", "other"},
                    NEW key \in {"Print", "other"}, NEW c \in BOOLEAN, NEW d \in BOOLEAN,
                    NEW m \in SUBSET {"KeyPressMask", "KeyReleaseMask"}
             PROVE  LET Sent(control) ==
                          [local |-> local, bytes |-> <<65>>, raw |-> raw, key |-> key, control |-> control]
                        down == KeyDown(Sent(c), m)
                        up == KeyUp(Sent(d), m)
                    IN  down # <<>> /\ ~(raw = "Tab" /\ d) =>
                          up # <<>> /\ up[1] = [down[1] EXCEPT !.type = "KeyRelease"]
  BY DEF ReleasesFollow
<1> DEFINE Sent(control) ==
             [local |-> local, bytes |-> <<65>>, raw |-> raw, key |-> key, control |-> control]
           down == KeyDown(Sent(c), m)
           up == KeyUp(Sent(d), m)
           code == FillKeyEvent(local, <<65>>).keycode
<1> SUFFICES ASSUME down # <<>>, ~(raw = "Tab" /\ d)
             PROVE  up # <<>> /\ up[1] = [down[1] EXCEPT !.type = "KeyRelease"]
  OBVIOUS
<1>1. \A control \in BOOLEAN :
        /\ Sent(control).raw = raw /\ Sent(control).key = key /\ Sent(control).control = control
        /\ Sent(control).local = local /\ Sent(control).bytes = <<65>>
  OBVIOUS
<1>2. \A type : \A control \in BOOLEAN :
        KeyEvent(type, Sent(control)) = [type |-> type, keycode |-> code]
  BY <1>1 DEF KeyEvent
<1> HIDE DEF Sent, code
<1>3. DispatchedTo(Sent(c)) = "view" /\ "KeyPressMask" \in m
  BY DEF KeyDown
<1>4. DispatchedTo(Sent(d)) = "view"
  BY <1>1, <1>3 DEF DispatchedTo
<1>5. down = <<[type |-> "KeyPress", keycode |-> code]>>
  BY <1>2, <1>3 DEF KeyDown
<1>6. up = <<[type |-> "KeyRelease", keycode |-> code]>>
  BY <1>2, <1>3, <1>4 DEF KeyUp
<1> HIDE DEF down, up
<1> QED
  BY <1>5, <1>6

-----------------------------------------------------------------------------
(* The types of what a grab reads and writes.  Which window a call is       *)
(* about may be read from a word the hooks write: it has no type here.     *)
IsAt(c) == c = At(c.at, c.window, c.mask) /\ c.at \in Stages /\ c.mask \in Masks

GrabTypeOK ==
  /\ live \subseteq Windows
  /\ mask \in [Windows -> Masks]
  /\ priorMask \in [Windows -> Masks]
  /\ selected \in [Windows -> Masks]
  /\ grab \in Windows \cup {None}
  /\ call = Idle \/ IsAt(call)

(* Where the client's thread is tells what the grab is: a window that is   *)
(* being destroyed has let go of it, and between the two steps of a grab   *)
(* the mask is still the one that was selected.                            *)
CallOK ==
  /\ call.at \in {"children", "defocus", "remove"} => call.window \in live /\ grab # call.window
  /\ call.at \in {"grab", "mask"} => call.window \in live
  /\ call.at = "grab" => grab = None
  /\ call.at = "mask" => grab = call.window /\ mask[call.window] = selected[call.window]

GrabInv == GrabTypeOK /\ CallOK /\ GrabLives /\ MaskIsGivenBack

grabVars == <<live, mask, priorMask, selected, grab, call>>

-----------------------------------------------------------------------------
LEMMA InitGrab == InputInit => GrabInv
BY WindowsAssumption, MasksAssumption
DEF InputInit, GrabInv, GrabTypeOK, IsAt, CallOK, GrabLives, MaskIsGivenBack, Idle

(* Steps that touch nothing a grab is about.                               *)
LEMMA GrabStutters ==
  ASSUME GrabInv, UNCHANGED grabVars
  PROVE  GrabInv'
BY DEF GrabInv, GrabTypeOK, IsAt, CallOK, GrabLives, MaskIsGivenBack, grabVars

(* The end of a grab while the client's thread is not in the middle of     *)
(* one: the mask is as selected, whatever the call goes on to.             *)
LEMMA UngrabbedGivesBack ==
  ASSUME GrabInv, call.at # "mask", Ungrabbed
  PROVE  /\ grab' = None
         /\ mask' \in [Windows -> Masks]
         /\ \A w \in live : mask'[w] = selected[w]
<1>1. CASE grab = None
  BY <1>1, WindowsAssumption DEF GrabInv, GrabTypeOK, MaskIsGivenBack, Ungrabbed
<1>2. CASE grab # None
  <2>1. /\ mask' = [mask EXCEPT ![grab] = priorMask[grab]]
        /\ grab' = None
    BY <1>2 DEF Ungrabbed
  <2>2. grab \in live /\ grab \in Windows /\ live \subseteq Windows
    BY <1>2 DEF GrabInv, GrabLives, GrabTypeOK
  <2>3. priorMask[grab] = selected[grab]
    BY <2>2 DEF GrabInv, MaskIsGivenBack
  <2> QED
    BY <2>1, <2>2, <2>3 DEF GrabInv, GrabTypeOK, MaskIsGivenBack
<1> QED
  BY <1>1, <1>2

(* Steps of the loopers and of the user.                                   *)
LEMMA HooksKeepGrabs ==
  ASSUME NEW t \in Tops, Looper(t)
  PROVE  UNCHANGED grabVars
BY DEF Looper, MouseMoved, WindowActivated, MouseDown, Takes, Dropped, grabVars, window, words

LEMMA UserKeepsGrabs ==
  ASSUME User
  PROVE  UNCHANGED grabVars
BY DEF User, PointerMoves, Activated, ButtonGoesDown, Post, grabVars, window, words

-----------------------------------------------------------------------------
LEMMA ClientKeepsGrabInv ==
  ASSUME GrabInv, Client
  PROVE  GrabInv'
<1> USE WindowsAssumption, MasksAssumption
<1>1. ASSUME NEW w \in live \cap Chosen, NEW m \in Masks, XSelectInput(w, m)
      PROVE  GrabInv'
  BY <1>1 DEF XSelectInput, Starts, Idle, words,
         GrabInv, GrabTypeOK, IsAt, CallOK, GrabLives, MaskIsGivenBack
<1>2. ASSUME NEW w \in live \cap Chosen, NEW m \in Masks, NEW d \in Displays, XGrabPointer(d, w, m)
      PROVE  GrabInv'
  <2>1. call = Idle /\ (call' = Idle \/ call' = At("grab", w, m)) /\ Ungrabbed
        /\ UNCHANGED <<live, priorMask, selected>>
    BY <1>2 DEF XGrabPointer, Starts
  <2>2. grab' = None /\ mask' \in [Windows -> Masks] /\ \A v \in live : mask'[v] = selected[v]
    BY <2>1, UngrabbedGivesBack DEF Idle
  <2> QED
    BY <2>1, <2>2 DEF At, Idle, Stages, GrabInv, GrabTypeOK, IsAt, CallOK, GrabLives, MaskIsGivenBack
<1>3. ASSUME GrabPointer
      PROVE  GrabInv'
  <2>1. call.at = "grab" /\ call' = At("mask", call.window, call.mask) /\ grab' = call.window
        /\ UNCHANGED <<live, mask, priorMask, selected>>
    BY <1>3 DEF GrabPointer, Goes
  <2>2. call.window \in live /\ call.mask \in Masks /\ grab = None
    BY <2>1 DEF GrabInv, GrabTypeOK, IsAt, CallOK, Idle
  <2>3. \A w \in live : mask[w] = selected[w]
    BY <2>2 DEF GrabInv, GrabTypeOK, MaskIsGivenBack
  <2> QED
    BY <2>1, <2>2, <2>3 DEF At, Stages, GrabInv, GrabTypeOK, IsAt, CallOK, GrabLives, MaskIsGivenBack
<1>4. ASSUME GrabMask
      PROVE  GrabInv'
  <2>1. /\ call.at = "mask" /\ call' = Idle
        /\ priorMask' = [priorMask EXCEPT ![call.window] = mask[call.window]]
        /\ mask' = [mask EXCEPT ![call.window] = call.mask]
        /\ UNCHANGED <<live, selected, grab>>
    BY <1>4 DEF GrabMask, Goes, words
  <2>2. /\ call.window \in live /\ call.mask \in Masks /\ grab = call.window
        /\ mask[call.window] = selected[call.window]
    BY <2>1 DEF GrabInv, GrabTypeOK, IsAt, CallOK, Idle
  <2> QED
    BY <2>1, <2>2 DEF Idle, GrabInv, GrabTypeOK, IsAt, CallOK, GrabLives, MaskIsGivenBack
<1>5. ASSUME XUngrabPointer
      PROVE  GrabInv'
  <2>1. call = Idle /\ call' = Idle /\ Ungrabbed /\ UNCHANGED <<live, priorMask, selected>>
    BY <1>5 DEF XUngrabPointer, Starts
  <2>2. grab' = None /\ mask' \in [Windows -> Masks] /\ \A v \in live : mask'[v] = selected[v]
    BY <2>1, UngrabbedGivesBack DEF Idle
  <2> QED
    BY <2>1, <2>2 DEF Idle, GrabInv, GrabTypeOK, IsAt, CallOK, GrabLives, MaskIsGivenBack
<1>6. ASSUME NEW m \in Masks, XChangeActivePointerGrab(m)
      PROVE  GrabInv'
  BY <1>6 DEF XChangeActivePointerGrab, Starts, Idle, words,
         GrabInv, GrabTypeOK, IsAt, CallOK, GrabLives, MaskIsGivenBack
<1>7. ASSUME NEW t \in Tops, Show(t)
      PROVE  GrabInv'
  BY <1>7, GrabStutters DEF Show, Starts, grabVars
<1>8. ASSUME NEW w \in live, XSetInputFocus(w) \/ XConfigureWindow(w)
      PROVE  GrabInv'
  BY <1>8, GrabStutters DEF XSetInputFocus, XConfigureWindow, Starts, grabVars
<1>9. ASSUME NEW w \in live, XDestroyWindow(w)
      PROVE  GrabInv'
  <2>1. /\ call = Idle /\ call' = At("children", w, {})
        /\ IF grab = w THEN Ungrabbed ELSE UNCHANGED <<mask, grab>>
        /\ UNCHANGED <<live, priorMask, selected>>
    BY <1>9 DEF XDestroyWindow, Starts
  <2>2. w \in Windows
    BY DEF GrabInv, GrabTypeOK
  <2>3. CASE grab = w
    <3>1. grab' = None /\ mask' \in [Windows -> Masks] /\ \A v \in live : mask'[v] = selected[v]
      BY <2>1, <2>3, UngrabbedGivesBack DEF Idle
    <3> QED
      BY <2>1, <2>2, <3>1 DEF At, Stages, GrabInv, GrabTypeOK, IsAt, CallOK, GrabLives, MaskIsGivenBack
  <2>4. CASE grab # w
    BY <2>1, <2>2, <2>4 DEF At, Idle, Stages, GrabInv, GrabTypeOK, IsAt, CallOK, GrabLives, MaskIsGivenBack
  <2> QED
    BY <2>3, <2>4
<1>10. ASSUME XSetInputFocusNone \/ ReadAgain \/ Unfocus
       PROVE  GrabInv'
  <2>1. /\ call' = Idle \/ \E at \in {"unfocus", "crashed", "focus"} : \E w : call' = At(at, w, {})
        /\ UNCHANGED <<live, mask, priorMask, selected, grab>>
    <3>1. CASE XSetInputFocusNone
      BY <3>1 DEF XSetInputFocusNone, Starts, words
    <3>2. CASE ReadAgain
      BY <3>2 DEF ReadAgain, Goes, words
    <3>3. CASE Unfocus
      BY <3>3 DEF Unfocus, Goes
    <3> QED
      BY <1>10, <3>1, <3>2, <3>3
  <2>2. call.at # "mask"
    BY <1>10 DEF XSetInputFocusNone, ReadAgain, Unfocus, Starts, Goes, Idle
  <2>3. call' = Idle \/ (IsAt(call') /\ call'.at \in {"unfocus", "crashed", "focus"})
    BY <2>1 DEF IsAt, At, Stages
  <2>4. GrabTypeOK' /\ GrabLives'
    BY <2>1, <2>3 DEF GrabInv, GrabTypeOK, GrabLives
  <2>5. CallOK'
    BY <2>3 DEF CallOK, Idle
  <2>6. MaskIsGivenBack'
    BY <2>1, <2>2, <2>3 DEF GrabInv, MaskIsGivenBack, Idle
  <2> QED
    BY <2>4, <2>5, <2>6 DEF GrabInv
<1>11. ASSUME DeleteChildren
       PROVE  GrabInv'
  <2> DEFINE S == Children(call.window)
  <2>1. /\ call.at = "children" /\ call' = [call EXCEPT !.at = "defocus"]
        /\ live' = live \ S
        /\ IF grab \in S THEN Ungrabbed ELSE UNCHANGED <<mask, grab>>
        /\ UNCHANGED <<priorMask, selected>>
    BY <1>11 DEF DeleteChildren, Removed
  <2>2. IsAt(call)
    BY <2>1 DEF GrabInv, GrabTypeOK, Idle
  <2>3. call.window \in live /\ grab # call.window /\ call.window \notin S
    BY <2>1 DEF GrabInv, CallOK, Children
  <2>4. /\ IsAt(call')
        /\ call'.at = "defocus" /\ call'.window = call.window
    BY <2>1, <2>2 DEF IsAt, At, Stages
  <2>5. CASE grab \in S
    <3>1. grab' = None /\ mask' \in [Windows -> Masks] /\ \A v \in live : mask'[v] = selected[v]
      BY <2>1, <2>5, UngrabbedGivesBack
    <3> HIDE DEF S
    <3> QED
      BY <2>1, <2>3, <2>4, <3>1 DEF GrabInv, GrabTypeOK, IsAt, CallOK, GrabLives, MaskIsGivenBack
  <2>6. CASE grab \notin S
    <3> HIDE DEF S
    <3> QED
      BY <2>1, <2>3, <2>4, <2>6 DEF GrabInv, GrabTypeOK, IsAt, CallOK, GrabLives, MaskIsGivenBack
  <2> QED
    BY <2>5, <2>6
<1>12. ASSUME Defocus
       PROVE  GrabInv'
  <2>1. /\ call.at = "defocus" /\ call' = [call EXCEPT !.at = "remove"]
        /\ UNCHANGED <<live, mask, priorMask, selected, grab>>
    BY <1>12 DEF Defocus, Goes
  <2>2. IsAt(call)
    BY <2>1 DEF GrabInv, GrabTypeOK, Idle
  <2>3. /\ IsAt(call')
        /\ call'.at = "remove" /\ call'.window = call.window
    BY <2>1, <2>2 DEF IsAt, At, Stages
  <2> QED
    BY <2>1, <2>3 DEF GrabInv, GrabTypeOK, IsAt, CallOK, GrabLives, MaskIsGivenBack
<1>13. ASSUME RemoveView
       PROVE  GrabInv'
  <2>1. /\ call.at = "remove" /\ call' = Idle
        /\ live' = live \ {call.window}
        /\ UNCHANGED <<mask, priorMask, selected, grab>>
    BY <1>13 DEF RemoveView, Removed
  <2> QED
    BY <2>1 DEF Idle, GrabInv, GrabTypeOK, IsAt, CallOK, GrabLives, MaskIsGivenBack
<1> QED
  BY <1>1, <1>2, <1>3, <1>4, <1>5, <1>6, <1>7, <1>8, <1>9, <1>10, <1>11, <1>12, <1>13 DEF Client

(* Every step of the client, the user or a looper keeps the grab.          *)
LEMMA NextKeepsGrabInv == GrabInv /\ [InputNext]_inputVars => GrabInv'
<1> SUFFICES ASSUME GrabInv, [InputNext]_inputVars
             PROVE  GrabInv'
  OBVIOUS
<1>1. CASE Client
  BY <1>1, ClientKeepsGrabInv
<1>2. CASE \E t \in Tops : Looper(t)
  BY <1>2, HooksKeepGrabs, GrabStutters
<1>3. CASE User
  BY <1>3, UserKeepsGrabs, GrabStutters
<1>4. CASE UNCHANGED inputVars
  BY <1>4, GrabStutters DEF inputVars, window, words, grabVars
<1> QED
  BY <1>1, <1>2, <1>3, <1>4 DEF InputNext

-----------------------------------------------------------------------------
(* The window that grabbed the pointer is never one that was destroyed     *)
(* (Drawables.cpp:328-355, 579-598), whatever the loopers do meanwhile.    *)
THEOREM GrabbingWindowLives == InputSpec => []GrabLives
<1>1. GrabInv => GrabLives
  BY DEF GrabInv
<1> QED
  BY <1>1, InitGrab, NextKeepsGrabInv, PTL DEF InputSpec

(* A grab gives back the mask that was selected while there was none, and  *)
(* keeps it as long as it lasts (Drawables.cpp:550-598).                   *)
THEOREM GrabsGiveBack == InputSpec => []MaskIsGivenBack
<1>1. GrabInv => MaskIsGivenBack
  BY DEF GrabInv
<1> QED
  BY <1>1, InitGrab, NextKeepsGrabInv, PTL DEF InputSpec

-----------------------------------------------------------------------------
(* A window is not destroyed before those below it, and what is destroyed  *)
(* is not in the words of the user; a call that destroys one has deleted   *)
(* its children when it goes on to its own view.                           *)
CallThere ==
  /\ call.at \in {"focus", "children", "defocus", "remove"} => call.window \in live
  /\ call.at \in {"defocus", "remove"} => Children(call.window) = {}

ThereOK ==
  /\ live \subseteq Windows
  /\ \A w \in live : Top[w] \in live
  /\ over \in live \cup {None} /\ active \in (live \cap Tops) \cup {None}
  /\ CallThere

(* A BWindow's focus is one of its own views that are there.               *)
ViewsOK ==
  /\ currentFocus \subseteq live
  /\ focusView \in [Tops -> live \cup {None}]
  /\ \A t \in Tops : focusView[t] # None => Top[focusView[t]] = t
  /\ isActive \subseteq Tops

(* What waits in a looper is for its own views, and nothing waits in one   *)
(* that is gone.                                                           *)
Messages == [what : Hooks, window : Windows]
MessagesOK ==
  /\ messages \in [Tops -> Seq(Messages)]
  /\ \A t \in Tops : \A i \in DOMAIN messages[t] :
       /\ Top[messages[t][i].window] = t
       /\ messages[t][i].what \in {"activated", "deactivated"} => messages[t][i].window = t
  /\ \A t \in Tops \ live : messages[t] = <<>>

(* Of the messages that wait about a BWindow's being active, or about the  *)
(* pointer in a window, the last says how it is now; if none waits, what   *)
(* was told has been noted.                                                *)
Activations(t) == {Message("activated", t), Message("deactivated", t)}
ActiveOK ==
  \A t \in Tops :
    \/ NoneOf(messages[t], Activations(t)) /\ (t \in isActive => active = t)
    \/ LastOf(messages[t], Activations(t),
              Message(IF active = t THEN "activated" ELSE "deactivated", t))

Crossings(w) == {Message("entered", w), Message("exited", w)}
PointerOK ==
  \A w \in live :
    \/ NoneOf(messages[Top[w]], Crossings(w)) /\ (pointer = w => over = w)
    \/ LastOf(messages[Top[w]], Crossings(w),
              Message(IF over = w THEN "entered" ELSE "exited", w))

FocusInv ==
  ThereOK /\ ViewsOK /\ FocusIsFocus /\ MessagesOK /\ ActiveOK /\ PointerOK
  /\ pointer \in Windows \cup {None}

-----------------------------------------------------------------------------
LEMMA TopsAre == \A w \in Windows : Top[w] \in Tops /\ Top[w] \in Windows /\ Top[Top[w]] = Top[w]
BY TopAssumption DEF Tops

LEMMA TopOfTop == Tops \subseteq Windows /\ \A t \in Tops : Top[t] = t
BY TopAssumption DEF Tops

LEMMA InitFocus == InputInit => FocusInv
<1> SUFFICES ASSUME InputInit
             PROVE  FocusInv
  OBVIOUS
<1> USE DEF InputInit
<1>1. ThereOK
  BY TopAssumption DEF ThereOK, CallThere, Idle
<1>2. ViewsOK /\ FocusIsFocus
  BY DEF ViewsOK, FocusIsFocus
<1>3. \A t \in Tops : messages[t] = <<>>
  OBVIOUS
<1>4. MessagesOK
  BY <1>3, EmptySeq DEF MessagesOK
<1>5. ActiveOK
  BY <1>3, EmptyHasNone DEF ActiveOK
<1>6. PointerOK
  <2>1. \A w \in live : messages[Top[w]] = <<>>
    BY <1>3, TopsAre
  <2> QED
    BY <2>1, EmptyHasNone, WindowsAssumption DEF PointerOK
<1> QED
  BY <1>1, <1>2, <1>4, <1>5, <1>6 DEF FocusInv

(* XWindow::MakeFocus(true) of a window that is there.                     *)
LEMMA MadeFocusIs ==
  ASSUME ThereOK, ViewsOK, FocusIsFocus, NEW w \in live, Becomes(MadeFocus(State, w))
  PROVE  /\ focusView' = [focusView EXCEPT ![Top[w]] = w]
         /\ \/ UNCHANGED <<focused, currentFocus>> /\ (focusView[Top[w]] = w \/ Top[w] \notin isActive)
            \/ /\ Top[w] \in isActive /\ focused' = w
               /\ currentFocus' = (currentFocus \ {focusView[Top[w]]}) \cup {w}
<1> DEFINE t == Top[w]
           before == focusView[t]
<1>1. t \in Tops /\ w \in Windows
  BY TopsAre DEF ThereOK
<1>2. CASE before = w
  <2>1. MadeFocus(State, w) = State
    BY <1>2 DEF MadeFocus, State
  <2>2. [focusView EXCEPT ![t] = w] = focusView
    BY <1>1, <1>2 DEF ViewsOK
  <2> QED
    BY <1>2, <2>1, <2>2 DEF Becomes, State
<1>3. CASE before # w
  <2>1. w \notin currentFocus
    BY <1>3 DEF FocusIsFocus
  <2> DEFINE s == [State EXCEPT !.view[t] = None]
             o == IF before = None THEN State ELSE Unfocused(State, before)
             m == [o EXCEPT !.view[t] = w]
  <2>2. before # None => before \in live /\ Top[before] = t
    BY <1>1 DEF ViewsOK
  <2>3. /\ o = [focused |-> o.focused, current |-> o.current, view |-> o.view]
        /\ [o.view EXCEPT ![t] = w] = [focusView EXCEPT ![t] = w]
        /\ o.current = currentFocus \ {before}
        /\ before \notin currentFocus => o.focused = focused
    <3>1. CASE before = None
      BY <3>1, WindowsAssumption DEF State, ThereOK, ViewsOK
    <3>2. CASE before # None
      <4>1. Unfocused(State, before) = Focus(s, before, FALSE)
        BY <2>2, <3>2 DEF Unfocused, State
      <4>2. s = [focused |-> focused, current |-> currentFocus, view |-> [focusView EXCEPT ![t] = None]]
        BY DEF State
      <4>3. [[focusView EXCEPT ![t] = None] EXCEPT ![t] = w] = [focusView EXCEPT ![t] = w]
        BY <1>1 DEF ViewsOK
      <4>4. o = Focus(s, before, FALSE)
        BY <3>2, <4>1
      <4> HIDE DEF s, o
      <4>5. CASE before \in currentFocus
        <5>1. o = [s EXCEPT !.focused = Cleared(s.focused, before), !.current = s.current \ {before}]
          BY <4>2, <4>4, <4>5 DEF Focus
        <5> QED
          BY <4>2, <4>3, <4>5, <5>1
      <4>6. CASE before \notin currentFocus
        <5>1. o = s
          BY <4>2, <4>4, <4>6 DEF Focus
        <5> QED
          BY <4>2, <4>3, <4>6, <5>1
      <4> QED
        BY <4>5, <4>6
    <3> QED
      BY <3>1, <3>2
  <2>4. MadeFocus(State, w) = IF t \in isActive THEN Focus(m, w, TRUE) ELSE m
    BY <1>3 DEF MadeFocus, State
  <2> HIDE DEF o
  <2>5. m = [focused |-> o.focused, current |-> currentFocus \ {before},
             view |-> [focusView EXCEPT ![t] = w]]
    BY <2>3
  <2> HIDE DEF m
  <2>6. CASE t \in isActive
    <3>1. Focus(m, w, TRUE) = [m EXCEPT !.focused = w, !.current = m.current \cup {w}]
      BY <2>1, <2>5 DEF Focus
    <3> QED
      BY <2>4, <2>5, <2>6, <3>1 DEF Becomes
  <2>7. CASE t \notin isActive
    <3>1. before \notin currentFocus
      BY <2>2, <2>7, WindowsAssumption DEF FocusIsFocus, ThereOK, ViewsOK
    <3>2. currentFocus \ {before} = currentFocus
      BY <3>1
    <3> QED
      BY <2>3, <2>4, <2>5, <2>7, <3>1, <3>2 DEF Becomes
  <2> QED
    BY <2>6, <2>7
<1> QED
  BY <1>2, <1>3

LEMMA MadeFocusKeeps ==
  ASSUME ThereOK, ViewsOK, FocusIsFocus, NEW w \in live, Becomes(MadeFocus(State, w)),
         UNCHANGED <<live, isActive>>
  PROVE  (ViewsOK /\ FocusIsFocus)'
<1>1. Top[w] \in Tops /\ w \in Windows
  BY TopsAre DEF ThereOK
<1>2. /\ focusView' = [focusView EXCEPT ![Top[w]] = w]
      /\ \/ UNCHANGED <<focused, currentFocus>> /\ (focusView[Top[w]] = w \/ Top[w] \notin isActive)
         \/ /\ Top[w] \in isActive /\ focused' = w
            /\ currentFocus' = (currentFocus \ {focusView[Top[w]]}) \cup {w}
  BY MadeFocusIs
<1>3. ViewsOK'
  BY <1>1, <1>2 DEF ViewsOK, ThereOK
<1>4. FocusIsFocus'
  BY <1>1, <1>2, TopsAre DEF FocusIsFocus, ViewsOK, ThereOK
<1> QED
  BY <1>3, <1>4

(* XWindow::MakeFocus(false).                                              *)
LEMMA UnfocusedKeeps ==
  ASSUME ThereOK, ViewsOK, FocusIsFocus, NEW w \in live, Becomes(Unfocused(State, w)),
         UNCHANGED <<live, isActive>>
  PROVE  (ViewsOK /\ FocusIsFocus)'
<1> DEFINE t == Top[w]
           s == [State EXCEPT !.view[t] = None]
<1>1. t \in Tops /\ w \in Windows
  BY TopsAre DEF ThereOK
<1>2. CASE focusView[t] # w
  <2>1. Unfocused(State, w) = State
    BY <1>2 DEF Unfocused, State
  <2> QED
    BY <2>1 DEF Becomes, State, ViewsOK, FocusIsFocus
<1>3. CASE focusView[t] = w
  <2>1. Unfocused(State, w) = Focus(s, w, FALSE)
    BY <1>3 DEF Unfocused, State
  <2>2. s = [focused |-> focused, current |-> currentFocus, view |-> [focusView EXCEPT ![t] = None]]
    BY DEF State
  <2> HIDE DEF s
  <2>3. /\ focusView' = [focusView EXCEPT ![t] = None]
        /\ currentFocus' = currentFocus \ {w}
        /\ focused' = Cleared(focused, w)
    <3>1. CASE w \in currentFocus
      <4>1. Focus(s, w, FALSE)
              = [s EXCEPT !.focused = Cleared(s.focused, w), !.current = s.current \ {w}]
        BY <2>2, <3>1 DEF Focus
      <4> QED
        BY <2>1, <2>2, <4>1 DEF Becomes
    <3>2. CASE w \notin currentFocus
      <4>1. Focus(s, w, FALSE) = s
        BY <2>2, <3>2 DEF Focus
      <4>2. focused # w
        BY <3>2, <1>1, WindowsAssumption DEF FocusIsFocus
      <4>3. currentFocus \ {w} = currentFocus
        BY <3>2
      <4>4. focusView' = s.view /\ currentFocus' = s.current /\ focused' = s.focused
        BY <2>1, <4>1 DEF Becomes
      <4> QED
        BY <2>2, <4>2, <4>3, <4>4 DEF Cleared
    <3> QED
      BY <3>1, <3>2
  <2>4. ViewsOK'
    BY <1>1, <2>3 DEF ViewsOK, ThereOK
  <2>5. FocusIsFocus'
    BY <1>1, <1>3, <2>3, TopsAre DEF FocusIsFocus, ViewsOK, ThereOK, Cleared
  <2> QED
    BY <2>4, <2>5
<1> QED
  BY <1>2, <1>3

(* To remove views: children with their BWindow staying, or a window that  *)
(* has no children any more.                                               *)
LEMMA RemovedKeeps ==
  ASSUME FocusInv, NEW S \in SUBSET live, Removed(S), UNCHANGED pointer,
         \A w \in live : Top[w] \in S => w \in S,
         CallThere'
  PROVE  FocusInv'
<1> DEFINE views == {w \in S : focusView[Top[w]] = w}
<1>1. /\ live' = live \ S
      /\ focusView' = [t \in Tops |-> ClearedOf(focusView[t], views)]
      /\ currentFocus' = currentFocus \ views
      /\ focused' = ClearedOf(focused, views \cap currentFocus)
      /\ isActive' = isActive \ S
      /\ over' = ClearedOf(over, S) /\ active' = ClearedOf(active, S)
      /\ messages' = [t \in Tops |-> IF t \in S THEN <<>> ELSE messages[t]]
  BY DEF Removed
<1>2. live \subseteq Windows /\ None \notin Windows
  BY WindowsAssumption DEF FocusInv, ThereOK
<1>3. \A w \in live : Top[w] \in Tops /\ (w \notin S => Top[w] \notin S)
  BY <1>2, TopsAre, TopOfTop
<1>4. \A w \in currentFocus \cap S : w \in views
  BY DEF FocusInv, FocusIsFocus
<1> HIDE DEF views
<1>5. views \subseteq S
  BY DEF views
<1>6. ThereOK'
  <2>1. live' \subseteq Windows /\ \A w \in live' : Top[w] \in live'
    BY <1>1, <1>3 DEF FocusInv, ThereOK
  <2>2. over' \in live' \cup {None} /\ active' \in (live' \cap Tops) \cup {None}
    BY <1>1 DEF FocusInv, ThereOK, ClearedOf
  <2> QED
    BY <2>1, <2>2 DEF ThereOK
<1>7. \A t \in Tops : focusView[t] \in S => focusView[t] \in views
  BY <1>2 DEF FocusInv, ViewsOK, views
<1>8. ViewsOK'
  BY <1>1, <1>2, <1>4, <1>5, <1>7 DEF FocusInv, ViewsOK, ClearedOf
<1>9. FocusIsFocus'
  BY <1>1, <1>2, <1>3, <1>4, <1>5 DEF FocusInv, ViewsOK, FocusIsFocus, ClearedOf
<1>10. \A t \in Tops : messages'[t] = messages[t] \/ (t \in S /\ messages'[t] = <<>>)
  BY <1>1, Zenon
<1>11. MessagesOK'
  <2>1. messages' \in [Tops -> Seq(Messages)]
    BY <1>1, EmptySeq DEF FocusInv, MessagesOK
  <2>2. \A t \in Tops \ live' : messages'[t] = <<>>
    BY <1>1 DEF FocusInv, MessagesOK
  <2> QED
    BY <1>10, <2>1, <2>2 DEF FocusInv, MessagesOK
<1>12. ActiveOK'
  <2> SUFFICES ASSUME NEW t \in Tops
               PROVE  \/ NoneOf(messages'[t], Activations(t)) /\ (t \in isActive' => active' = t)
                      \/ LastOf(messages'[t], Activations(t),
                                Message(IF active' = t THEN "activated" ELSE "deactivated", t))
    BY DEF ActiveOK
  <2>1. CASE t \in S
    BY <1>1, <2>1, EmptyHasNone
  <2>2. CASE t \notin S
    <3>1. messages'[t] = messages[t] /\ (t \in isActive' => t \in isActive)
      BY <1>1, <2>2
    <3>2. active' = t <=> active = t
      BY <1>1, <1>2, <2>2, TopOfTop DEF ClearedOf
    <3> QED
      BY <3>1, <3>2 DEF FocusInv, ActiveOK
  <2> QED
    BY <2>1, <2>2
<1>13. PointerOK'
  <2> SUFFICES ASSUME NEW w \in live'
               PROVE  \/ NoneOf(messages'[Top[w]], Crossings(w)) /\ (pointer' = w => over' = w)
                      \/ LastOf(messages'[Top[w]], Crossings(w),
                                Message(IF over' = w THEN "entered" ELSE "exited", w))
    BY DEF PointerOK
  <2>1. w \in live /\ w \notin S /\ Top[w] \in Tops /\ Top[w] \notin S
    BY <1>1, <1>3
  <2>2. messages'[Top[w]] = messages[Top[w]]
    BY <1>1, <2>1
  <2>3. over' = w <=> over = w
    BY <1>1, <1>2, <2>1 DEF ClearedOf
  <2> QED
    BY <2>1, <2>2, <2>3 DEF FocusInv, PointerOK
<1> QED
  BY <1>6, <1>8, <1>9, <1>11, <1>12, <1>13 DEF FocusInv

-----------------------------------------------------------------------------
(* A looper takes its first message.                                       *)
LEMMA TakenMessage ==
  ASSUME FocusInv, NEW t \in Tops, messages[t] # <<>>,
         messages' = [messages EXCEPT ![t] = Tail(@)], UNCHANGED <<live, world>>
  PROVE  /\ t \in live
         /\ Head(messages[t]) \in Messages /\ Top[Head(messages[t]).window] = t
         /\ Head(messages[t]).what \in {"activated", "deactivated"} => Head(messages[t]).window = t
         /\ MessagesOK'
         /\ \A u \in Tops : u # t => messages'[u] = messages[u]
         /\ messages'[t] = Tail(messages[t])
<1>1. messages \in [Tops -> Seq(Messages)] /\ messages[t] \in Seq(Messages)
  BY DEF FocusInv, MessagesOK
<1>2. messages'[t] = Tail(messages[t]) /\ \A u \in Tops : u # t => messages'[u] = messages[u]
  BY <1>1
<1>3. /\ Tail(messages[t]) \in Seq(Messages)
      /\ Head(messages[t]) = messages[t][1] /\ messages[t][1] \in Messages
      /\ 1 \in DOMAIN messages[t]
      /\ \A i \in DOMAIN Tail(messages[t]) :
           i + 1 \in DOMAIN messages[t] /\ Tail(messages[t])[i] = messages[t][i + 1]
  BY <1>1, TailKeeps
<1>4. t \in live
  BY DEF FocusInv, MessagesOK
<1>5. messages' \in [Tops -> Seq(Messages)]
  BY <1>1, <1>3
<1>6. MessagesOK'
  <2> SUFFICES ASSUME NEW u \in Tops
               PROVE  /\ \A i \in DOMAIN messages'[u] :
                           /\ Top[messages'[u][i].window] = u
                           /\ messages'[u][i].what \in {"activated", "deactivated"} =>
                                messages'[u][i].window = u
                      /\ u \notin live => messages'[u] = <<>>
    BY <1>5 DEF MessagesOK
  <2>1. CASE u = t
    BY <1>2, <1>3, <1>4, <2>1 DEF FocusInv, MessagesOK
  <2>2. CASE u # t
    BY <1>2, <2>2 DEF FocusInv, MessagesOK
  <2> QED
    BY <2>1, <2>2
<1> QED
  BY <1>2, <1>3, <1>4, <1>6 DEF FocusInv, MessagesOK

(* What the last message says holds on while others are taken; once the    *)
(* last is taken, it has been noted.                                       *)
LEMMA TakenSays ==
  ASSUME FocusInv, NEW t \in Tops, messages[t] # <<>>,
         messages' = [messages EXCEPT ![t] = Tail(@)], UNCHANGED <<live, world>>,
         \A u \in Tops :
           u \in isActive' => u \in isActive \/ (u = t /\ Head(messages[t]) = Message("activated", t)),
         Head(messages[t]) = Message("deactivated", t) => t \notin isActive',
         \A w \in live :
           pointer' = w => pointer = w \/ Head(messages[t]) = Message("entered", w),
         \A w \in live : Head(messages[t]) = Message("exited", w) => pointer' # w
  PROVE  ActiveOK' /\ PointerOK'
<1>1. /\ messages'[t] = Tail(messages[t])
      /\ \A u \in Tops : u # t => messages'[u] = messages[u]
  BY TakenMessage
<1>2. messages[t] \in Seq(Messages)
  BY DEF FocusInv, MessagesOK
<1>4. ActiveOK'
  <2> SUFFICES ASSUME NEW u \in Tops
               PROVE  \/ NoneOf(messages'[u], Activations(u)) /\ (u \in isActive' => active' = u)
                      \/ LastOf(messages'[u], Activations(u),
                                Message(IF active' = u THEN "activated" ELSE "deactivated", u))
    BY DEF ActiveOK
  <2> DEFINE m == Message(IF active = u THEN "activated" ELSE "deactivated", u)
  <2>1. active' = active
    BY DEF world
  <2>2. CASE u # t
    BY <1>1, <2>1, <2>2 DEF FocusInv, ActiveOK
  <2>3. CASE u = t /\ NoneOf(messages[u], Activations(u)) /\ (u \in isActive => active = u)
    BY <1>1, <1>2, <2>1, <2>3, TailNone DEF Activations
  <2>4. CASE u = t /\ LastOf(messages[u], Activations(u), m)
    <3>1. LastOf(messages'[u], Activations(u), m)
          \/ (NoneOf(messages'[u], Activations(u)) /\ Head(messages[t]) = m)
      BY <1>1, <1>2, <2>4, TailLast
    <3>2. Head(messages[t]) = m => (u \in isActive' => active' = u)
      BY <2>1, <2>4
    <3> QED
      BY <2>1, <3>1, <3>2
  <2> QED
    BY <2>2, <2>3, <2>4 DEF FocusInv, ActiveOK
<1>5. PointerOK'
  <2> SUFFICES ASSUME NEW w \in live
               PROVE  \/ NoneOf(messages'[Top[w]], Crossings(w)) /\ (pointer' = w => over' = w)
                      \/ LastOf(messages'[Top[w]], Crossings(w),
                                Message(IF over' = w THEN "entered" ELSE "exited", w))
    BY DEF PointerOK
  <2> DEFINE u == Top[w]
             m == Message(IF over = w THEN "entered" ELSE "exited", w)
  <2>1. over' = over /\ u \in Tops
    BY TopsAre DEF world, FocusInv, ThereOK
  <2>2. ASSUME u # t
        PROVE  Head(messages[t]) \notin Crossings(w)
    <3>1. Top[Head(messages[t]).window] = t
      BY TakenMessage
    <3> QED
      BY <2>2, <3>1 DEF Crossings, Message
  <2>3. CASE NoneOf(messages[u], Crossings(w)) /\ (pointer = w => over = w)
    <3>1. NoneOf(messages'[u], Crossings(w)) /\ Head(messages[t]) \notin Crossings(w)
      BY <1>1, <1>2, <2>1, <2>2, <2>3, TailNone
    <3> QED
      BY <2>1, <2>3, <3>1 DEF Crossings
  <2>4. CASE LastOf(messages[u], Crossings(w), m)
    <3>1. CASE u # t
      BY <1>1, <2>1, <2>4, <3>1
    <3>2. CASE u = t
      <4>1. LastOf(messages'[u], Crossings(w), m)
            \/ (NoneOf(messages'[u], Crossings(w)) /\ Head(messages[t]) = m)
        BY <1>1, <1>2, <2>4, <3>2, TailLast
      <4>2. Head(messages[t]) = m => (pointer' = w => over' = w)
        BY <2>1
      <4> QED
        BY <2>1, <4>1, <4>2
    <3> QED
      BY <3>1, <3>2
  <2> QED
    BY <2>3, <2>4 DEF FocusInv, PointerOK
<1> QED
  BY <1>4, <1>5

LEMMA LooperKeepsFocus ==
  ASSUME GrabTypeOK, FocusInv, NEW t \in Tops, Looper(t)
  PROVE  FocusInv'
<1> DEFINE m == Head(messages[t])
<1>1. /\ messages[t] # <<>>
      /\ messages' = [messages EXCEPT ![t] = Tail(@)]
      /\ UNCHANGED <<live, world, call>>
  BY DEF Looper, MouseMoved, WindowActivated, MouseDown, Dropped, Takes, window, words
<1>2. /\ t \in live /\ m \in Messages /\ Top[m.window] = t
      /\ m.what \in {"activated", "deactivated"} => m.window = t
      /\ MessagesOK'
  BY <1>1, TakenMessage
<1>3. ThereOK'
  BY <1>1 DEF FocusInv, ThereOK, CallThere, Children, world
<1>4. live \subseteq Windows /\ None \notin Windows
  BY WindowsAssumption DEF FocusInv, ThereOK
<1> HIDE DEF m
<1>5. CASE MouseMoved(t)
  <2>1. /\ m.what \in Transits /\ m.window \in live
        /\ pointer' = IF m.what = "entered" THEN m.window ELSE Cleared(pointer, m.window)
        /\ UNCHANGED <<focused, currentFocus, focusView, isActive>>
    BY <1>5 DEF MouseMoved, Takes, haiku, m
  <2>2. m.what = "entered" => m = Message("entered", m.window)
    BY <1>2 DEF Message, Messages
  <2>3. \A w \in live : pointer' = w => pointer = w \/ m = Message("entered", w)
    BY <1>4, <2>1, <2>2 DEF Cleared
  <2>4. \A w \in live : m = Message("exited", w) => pointer' # w
    BY <1>4, <2>1 DEF Cleared, Message
  <2>5. m # Message("deactivated", t)
    BY <2>1 DEF Message, Transits
  <2>6. ActiveOK' /\ PointerOK'
    BY <1>1, <2>1, <2>3, <2>4, <2>5, TakenSays DEF m
  <2>7. ViewsOK' /\ FocusIsFocus'
    BY <1>1, <2>1 DEF FocusInv, ViewsOK, FocusIsFocus
  <2>8. pointer' \in Windows \cup {None}
    BY <1>4, <2>1 DEF FocusInv, Cleared
  <2> QED
    BY <1>2, <1>3, <2>6, <2>7, <2>8 DEF FocusInv
<1>6. CASE WindowActivated(t)
  <2> DEFINE on == m.what = "activated"
             ours == {w \in live : Top[w] = t}
             holds == IF on THEN ours \cap {focusView[t]} ELSE {}
  <2>1. /\ m.what \in {"activated", "deactivated"}
        /\ isActive' = IF on THEN isActive \cup {t} ELSE isActive \ {t}
        /\ currentFocus' = (currentFocus \ ours) \cup holds
        /\ focused' = IF holds \subseteq currentFocus
                      THEN ClearedOf(focused, (currentFocus \cap ours) \ holds)
                      ELSE focusView[t]
        /\ UNCHANGED <<pointer, focusView>>
    BY <1>6 DEF WindowActivated, Takes, m
  <2>2. /\ on => m = Message("activated", t)
        /\ m = Message("deactivated", t) => ~on
        /\ \A w \in live : m # Message("exited", w)
    BY <1>2, <2>1 DEF Message, Messages
  <2>3. ActiveOK' /\ PointerOK'
    BY <1>1, <2>1, <2>2, TakenSays DEF m
  <2>4. ViewsOK'
    BY <1>1, <2>1 DEF FocusInv, ViewsOK
  <2>5. \A w \in currentFocus' :
          focusView'[Top[w]] = w /\ Top[w] \in isActive'
    BY <2>1 DEF FocusInv, FocusIsFocus, ViewsOK
  <2>6. focused' # None => focused' \in currentFocus'
    <3>1. holds = {} \/ holds = {focusView[t]}
      OBVIOUS
    <3>2. CASE holds \subseteq currentFocus
      BY <2>1, <3>2 DEF FocusInv, FocusIsFocus, ClearedOf
    <3>3. CASE ~(holds \subseteq currentFocus)
      BY <2>1, <3>1, <3>3
    <3> QED
      BY <3>2, <3>3
  <2>7. FocusIsFocus' /\ pointer' \in Windows \cup {None}
    BY <2>1, <2>5, <2>6 DEF FocusIsFocus, FocusInv
  <2> QED
    BY <1>2, <1>3, <2>3, <2>4, <2>7 DEF FocusInv
<1>7. CASE MouseDown(t)
  <2>1. /\ m.what = "down" /\ m.window \in live
        /\ Becomes(MadeFocus(State, m.window))
        /\ UNCHANGED <<pointer, isActive>>
    BY <1>7 DEF MouseDown, Takes, m
  <2>2. (ViewsOK /\ FocusIsFocus)'
    BY <1>1, <2>1, MadeFocusKeeps DEF FocusInv
  <2>3. m # Message("deactivated", t) /\ \A w \in live : m # Message("exited", w)
    BY <2>1 DEF Message
  <2>4. ActiveOK' /\ PointerOK'
    BY <1>1, <2>1, <2>3, TakenSays DEF m
  <2> QED
    BY <1>2, <1>3, <2>1, <2>2, <2>4 DEF FocusInv
<1>8. CASE Dropped(t)
  <2>1. /\ m.window \notin live
        /\ UNCHANGED <<focused, pointer, currentFocus, focusView, isActive>>
    BY <1>8 DEF Dropped, window, words, haiku, m
  <2>2. m # Message("deactivated", t) /\ \A w \in live : m # Message("exited", w)
    BY <1>2, <2>1 DEF Message
  <2>4. ActiveOK' /\ PointerOK'
    BY <1>1, <2>1, <2>2, TakenSays DEF m
  <2>3. ViewsOK' /\ FocusIsFocus'
    BY <1>1, <2>1 DEF FocusInv, ViewsOK, FocusIsFocus
  <2> QED
    BY <1>2, <1>3, <2>1, <2>3, <2>4 DEF FocusInv
<1> QED
  BY <1>5, <1>6, <1>7, <1>8 DEF Looper

-----------------------------------------------------------------------------
(* The user's messages: what of a BWindow or a window was true goes first, *)
(* and what is true now comes last.                                        *)
LEMMA QueuedIs ==
  ASSUME NEW q \in Seq(Messages), NEW t \in Tops, NEW what \in Hooks, NEW w \in Windows \cup {None}
  PROVE  /\ Queued(q, t, what, w) \in Seq(Messages)
         /\ (w = None \/ Top[w] # t) => Queued(q, t, what, w) = q
         /\ (w # None /\ Top[w] = t) =>
              /\ Message(what, w) \in Messages
              /\ Queued(q, t, what, w) = Append(q, Message(what, w))
<1>1. CASE w = None \/ Top[w] # t
  BY <1>1 DEF Queued
<1>2. CASE w # None /\ Top[w] = t
  <2>1. Message(what, w) \in Messages
    BY <1>2 DEF Message, Messages
  <2>2. Queued(q, t, what, w) = Append(q, Message(what, w))
    BY <1>2 DEF Queued
  <2> QED
    BY <1>2, <2>1, <2>2, AppendKeeps
<1> QED
  BY <1>1, <1>2

LEMMA QueuedMessages ==
  ASSUME NEW q \in Seq(Messages), NEW t \in Tops, NEW what \in Hooks, NEW w \in Windows \cup {None},
         what \in {"activated", "deactivated"} => w \in Tops \cup {None},
         \A i \in DOMAIN q :
           Top[q[i].window] = t /\ (q[i].what \in {"activated", "deactivated"} => q[i].window = t)
  PROVE  \A i \in DOMAIN Queued(q, t, what, w) :
           /\ Top[Queued(q, t, what, w)[i].window] = t
           /\ Queued(q, t, what, w)[i].what \in {"activated", "deactivated"} =>
                Queued(q, t, what, w)[i].window = t
<1>1. CASE w = None \/ Top[w] # t
  BY <1>1, QueuedIs
<1>2. CASE w # None /\ Top[w] = t
  <2>1. Message(what, w) \in Messages /\ Queued(q, t, what, w) = Append(q, Message(what, w))
    BY <1>2, QueuedIs
  <2>2. /\ DOMAIN Append(q, Message(what, w)) = DOMAIN q \cup {Len(q) + 1}
        /\ \A i \in DOMAIN q : Append(q, Message(what, w))[i] = q[i]
        /\ Append(q, Message(what, w))[Len(q) + 1] = Message(what, w)
    BY <2>1, AppendKeeps
  <2>3. what \in {"activated", "deactivated"} => w = t
    BY <1>2, TopOfTop
  <2> QED
    BY <1>2, <2>1, <2>2, <2>3 DEF Message
<1> QED
  BY <1>1, <1>2

(* What is not about a kind of message leaves it as it was.                *)
LEMMA QueuedOther ==
  ASSUME NEW q \in Seq(Messages), NEW t \in Tops, NEW what \in Hooks, NEW w \in Windows \cup {None},
         NEW A, w = None \/ Top[w] # t \/ Message(what, w) \notin A
  PROVE  /\ NoneOf(q, A) => NoneOf(Queued(q, t, what, w), A)
         /\ \A m : LastOf(q, A, m) => LastOf(Queued(q, t, what, w), A, m)
<1>1. CASE w = None \/ Top[w] # t
  BY <1>1, QueuedIs
<1>2. CASE w # None /\ Top[w] = t
  <2>1. Message(what, w) \in Messages /\ Queued(q, t, what, w) = Append(q, Message(what, w))
    BY <1>2, QueuedIs
  <2> QED
    BY <1>2, <2>1, AppendNone, AppendOther
<1> QED
  BY <1>1, <1>2

LEMMA QueuedLast ==
  ASSUME NEW q \in Seq(Messages), NEW what \in Hooks, NEW w \in Windows, NEW A, Message(what, w) \in A
  PROVE  LastOf(Queued(q, Top[w], what, w), A, Message(what, w))
<1>1. /\ Top[w] \in Tops /\ w # None
  BY TopsAre, WindowsAssumption
<1>2. /\ Message(what, w) \in Messages
      /\ Queued(q, Top[w], what, w) = Append(q, Message(what, w))
  BY <1>1, QueuedIs
<1> QED
  BY <1>2, AppendLast

LEMMA PostKeeps ==
  ASSUME FocusInv, NEW what \in Hooks, NEW then \in Hooks,
         NEW w \in live \cup {None}, NEW v \in live \cup {None}, Post(what, w, then, v),
         what \in {"activated", "deactivated"} => w \in Tops \cup {None},
         then \in {"activated", "deactivated"} => v \in Tops \cup {None}
  PROVE  /\ MessagesOK' /\ ViewsOK' /\ FocusIsFocus'
         /\ UNCHANGED <<live, isActive, pointer, call>>
         /\ \A t \in Tops : /\ messages'[t] = Queued(Queued(messages[t], t, what, w), t, then, v)
                           /\ Queued(messages[t], t, what, w) \in Seq(Messages)
<1>1. /\ messages' = [t \in Tops |-> Queued(Queued(messages[t], t, what, w), t, then, v)]
      /\ UNCHANGED <<live, currentFocus, focused, focusView, isActive, pointer, call>>
  BY DEF Post, window, words, haiku
<1>2. /\ w \in Windows \cup {None} /\ v \in Windows \cup {None}
      /\ messages \in [Tops -> Seq(Messages)]
  BY DEF FocusInv, ThereOK, MessagesOK
<1>3. \A t \in Tops : /\ Queued(messages[t], t, what, w) \in Seq(Messages)
                     /\ Queued(Queued(messages[t], t, what, w), t, then, v) \in Seq(Messages)
  BY <1>2, QueuedIs
<1>4. MessagesOK'
  <2>1. messages' \in [Tops -> Seq(Messages)]
    BY <1>1, <1>3
  <2>2. ASSUME NEW t \in Tops
        PROVE  \A i \in DOMAIN messages'[t] :
                 /\ Top[messages'[t][i].window] = t
                 /\ messages'[t][i].what \in {"activated", "deactivated"} => messages'[t][i].window = t
    <3> DEFINE q == messages[t]
               r == Queued(q, t, what, w)
    <3>1. q \in Seq(Messages) /\ r \in Seq(Messages) /\ messages'[t] = Queued(r, t, then, v)
      BY <1>1, <1>2, <1>3
    <3>2. \A i \in DOMAIN q :
            Top[q[i].window] = t /\ (q[i].what \in {"activated", "deactivated"} => q[i].window = t)
      BY DEF FocusInv, MessagesOK
    <3> HIDE DEF q
    <3>3. \A i \in DOMAIN r :
            Top[r[i].window] = t /\ (r[i].what \in {"activated", "deactivated"} => r[i].window = t)
      BY <1>2, <3>1, <3>2, QueuedMessages
    <3> HIDE DEF r
    <3> QED
      BY <1>2, <3>1, <3>3, QueuedMessages
  <2>3. ASSUME NEW t \in Tops \ live'
        PROVE  messages'[t] = <<>>
    <3>1. messages[t] = <<>> /\ messages[t] \in Seq(Messages) /\ t \notin live
      BY <1>1, <1>2 DEF FocusInv, MessagesOK
    <3>2. (w = None \/ Top[w] # t) /\ (v = None \/ Top[v] # t)
      BY <3>1 DEF FocusInv, ThereOK
    <3>3. Queued(messages[t], t, what, w) = messages[t]
      BY <1>2, <3>1, <3>2, QueuedIs
    <3> QED
      BY <1>1, <1>2, <3>1, <3>2, <3>3, QueuedIs
  <2> QED
    BY <2>1, <2>2, <2>3 DEF MessagesOK
<1>5. ViewsOK' /\ FocusIsFocus'
  BY <1>1 DEF FocusInv, ViewsOK, FocusIsFocus
<1> QED
  BY <1>1, <1>3, <1>4, <1>5

LEMMA UserKeepsFocus ==
  ASSUME FocusInv, User
  PROVE  FocusInv'
<1>0. /\ live \subseteq Windows /\ None \notin Windows /\ over \in live \cup {None}
      /\ active \in (live \cap Tops) \cup {None}
      /\ \A t \in Tops : messages[t] \in Seq(Messages)
  BY WindowsAssumption DEF FocusInv, ThereOK, MessagesOK
<1>1. ASSUME NEW w \in live \cup {None}, PointerMoves(w)
      PROVE  FocusInv'
  <2>1. over # w /\ over' = w /\ Post("exited", over, "entered", w) /\ active' = active
    BY <1>1 DEF PointerMoves
  <2>2. /\ MessagesOK' /\ ViewsOK' /\ FocusIsFocus'
        /\ UNCHANGED <<live, isActive, pointer, call>>
        /\ \A t \in Tops :
             /\ messages'[t] = Queued(Queued(messages[t], t, "exited", over), t, "entered", w)
             /\ Queued(messages[t], t, "exited", over) \in Seq(Messages)
    BY <1>0, <2>1, PostKeeps DEF Hooks, Transits
  <2>3. ThereOK'
    BY <2>1, <2>2 DEF FocusInv, ThereOK, CallThere, Children
  <2>4. ActiveOK'
    <3> SUFFICES ASSUME NEW t \in Tops
                 PROVE  \/ NoneOf(messages'[t], Activations(t)) /\ (t \in isActive' => active' = t)
                        \/ LastOf(messages'[t], Activations(t),
                                  Message(IF active' = t THEN "activated" ELSE "deactivated", t))
      BY DEF ActiveOK
    <3> DEFINE m == Message(IF active = t THEN "activated" ELSE "deactivated", t)
               r == Queued(messages[t], t, "exited", over)
    <3>1. \A u : Message("exited", u) \notin Activations(t) /\ Message("entered", u) \notin Activations(t)
      BY DEF Activations, Message
    <3>2. /\ NoneOf(messages[t], Activations(t)) => NoneOf(r, Activations(t))
          /\ \A k : LastOf(messages[t], Activations(t), k) => LastOf(r, Activations(t), k)
      BY <1>0, <3>1, QueuedOther DEF Hooks, Transits
    <3>3. r \in Seq(Messages) /\ messages'[t] = Queued(r, t, "entered", w)
      BY <2>2
    <3> HIDE DEF r
    <3>4. /\ NoneOf(r, Activations(t)) => NoneOf(messages'[t], Activations(t))
          /\ \A k : LastOf(r, Activations(t), k) => LastOf(messages'[t], Activations(t), k)
      BY <1>0, <3>1, <3>3, QueuedOther DEF Hooks, Transits
    <3>5. \/ NoneOf(messages[t], Activations(t)) /\ (t \in isActive => active = t)
          \/ LastOf(messages[t], Activations(t), m)
      BY DEF FocusInv, ActiveOK
    <3> QED
      BY <2>1, <2>2, <3>2, <3>4, <3>5
  <2>5. PointerOK'
    <3> SUFFICES ASSUME NEW p \in live
                 PROVE  \/ NoneOf(messages'[Top[p]], Crossings(p)) /\ (pointer' = p => over' = p)
                        \/ LastOf(messages'[Top[p]], Crossings(p),
                                  Message(IF over' = p THEN "entered" ELSE "exited", p))
      BY <2>2 DEF PointerOK
    <3> DEFINE t == Top[p]
               r == Queued(messages[t], t, "exited", over)
               m == Message(IF over = p THEN "entered" ELSE "exited", p)
    <3>0. p \in Windows /\ t \in Tops
      BY <1>0, TopsAre
    <3>1. r \in Seq(Messages) /\ messages'[t] = Queued(r, t, "entered", w) /\ messages[t] \in Seq(Messages)
      BY <1>0, <2>2, <3>0
    <3>2. CASE p = w
      <4>1. LastOf(messages'[t], Crossings(p), Message("entered", p))
        <5> HIDE DEF r
        <5> QED
          BY <3>0, <3>1, <3>2, QueuedLast DEF Hooks, Transits, Crossings
      <4> QED
        BY <2>1, <3>2, <4>1
    <3>3. CASE p # w
      <4>1. Message("entered", w) \notin Crossings(p)
        BY <3>3 DEF Message, Crossings
      <4>2. /\ NoneOf(r, Crossings(p)) => NoneOf(messages'[t], Crossings(p))
            /\ \A k : LastOf(r, Crossings(p), k) => LastOf(messages'[t], Crossings(p), k)
        <5> HIDE DEF r, t
        <5> QED
          BY <1>0, <3>0, <3>1, <4>1, QueuedOther DEF Hooks, Transits
      <4>3. CASE p = over
        <5>1. LastOf(r, Crossings(p), Message("exited", p))
          BY <3>0, <3>1, <4>3, QueuedLast DEF Hooks, Transits, Crossings
        <5> QED
          BY <2>1, <3>3, <4>2, <5>1
      <4>4. CASE p # over
        <5>1. Message("exited", over) \notin Crossings(p)
          BY <4>4 DEF Message, Crossings
        <5>2. /\ NoneOf(messages[t], Crossings(p)) => NoneOf(r, Crossings(p))
              /\ \A k : LastOf(messages[t], Crossings(p), k) => LastOf(r, Crossings(p), k)
          <6> HIDE DEF t
          <6> QED
            BY <1>0, <3>0, <3>1, <5>1, QueuedOther DEF Hooks, Transits
        <5>3. \/ NoneOf(messages[t], Crossings(p)) /\ (pointer = p => over = p)
              \/ LastOf(messages[t], Crossings(p), m)
          BY DEF FocusInv, PointerOK
        <5> QED
          BY <2>1, <2>2, <3>3, <4>2, <4>4, <5>2, <5>3
      <4> QED
        BY <4>3, <4>4
    <3> QED
      BY <3>2, <3>3
  <2> QED
    BY <2>2, <2>3, <2>4, <2>5 DEF FocusInv
<1>2. ASSUME NEW v \in (live \cap Tops) \cup {None}, Activated(v)
      PROVE  FocusInv'
  <2>1. active # v /\ active' = v /\ Post("deactivated", active, "activated", v) /\ over' = over
    BY <1>2 DEF Activated
  <2>2. /\ MessagesOK' /\ ViewsOK' /\ FocusIsFocus'
        /\ UNCHANGED <<live, isActive, pointer, call>>
        /\ \A t \in Tops :
             /\ messages'[t] = Queued(Queued(messages[t], t, "deactivated", active), t, "activated", v)
             /\ Queued(messages[t], t, "deactivated", active) \in Seq(Messages)
    BY <1>0, <2>1, PostKeeps DEF Hooks
  <2>3. ThereOK'
    BY <2>1, <2>2 DEF FocusInv, ThereOK, CallThere, Children
  <2>4. ActiveOK'
    <3> SUFFICES ASSUME NEW t \in Tops
                 PROVE  \/ NoneOf(messages'[t], Activations(t)) /\ (t \in isActive' => active' = t)
                        \/ LastOf(messages'[t], Activations(t),
                                  Message(IF active' = t THEN "activated" ELSE "deactivated", t))
      BY DEF ActiveOK
    <3> DEFINE r == Queued(messages[t], t, "deactivated", active)
               m == Message(IF active = t THEN "activated" ELSE "deactivated", t)
    <3>0. t \in Windows /\ Top[t] = t
      BY TopOfTop
    <3>1. r \in Seq(Messages) /\ messages'[t] = Queued(r, t, "activated", v) /\ messages[t] \in Seq(Messages)
      BY <1>0, <2>2
    <3>2. CASE t = v
      <4>1. LastOf(messages'[t], Activations(t), Message("activated", t))
        <5> HIDE DEF r
        <5>1. LastOf(Queued(r, Top[t], "activated", t), Activations(t), Message("activated", t))
          BY <3>0, <3>1, QueuedLast DEF Hooks, Activations
        <5> QED
          BY <3>0, <3>1, <3>2, <5>1
      <4> QED
        BY <2>1, <3>2, <4>1
    <3>3. CASE t # v
      <4>1. Message("activated", v) \notin Activations(t)
        BY <3>3 DEF Message, Activations
      <4>2. /\ NoneOf(r, Activations(t)) => NoneOf(messages'[t], Activations(t))
            /\ \A k : LastOf(r, Activations(t), k) => LastOf(messages'[t], Activations(t), k)
        <5> HIDE DEF r
        <5>1. v \in Windows \cup {None} /\ "activated" \in Hooks /\ r \in Seq(Messages)
          BY <1>0, <3>1 DEF Hooks
        <5>2. /\ NoneOf(r, Activations(t)) => NoneOf(Queued(r, t, "activated", v), Activations(t))
              /\ \A k : LastOf(r, Activations(t), k) =>
                        LastOf(Queued(r, t, "activated", v), Activations(t), k)
          BY <4>1, <5>1, QueuedOther
        <5> QED
          BY <3>1, <5>2
      <4>3. CASE t = active
        <5>1. LastOf(Queued(messages[t], Top[t], "deactivated", t), Activations(t), Message("deactivated", t))
          BY <3>0, <3>1, QueuedLast DEF Hooks, Activations
        <5>2. LastOf(r, Activations(t), Message("deactivated", t))
          BY <3>0, <4>3, <5>1
        <5> QED
          BY <2>1, <3>3, <4>2, <5>2
      <4>4. CASE t # active
        <5>1. Message("deactivated", active) \notin Activations(t)
          BY <4>4 DEF Message, Activations
        <5>2. /\ NoneOf(messages[t], Activations(t)) => NoneOf(r, Activations(t))
              /\ \A k : LastOf(messages[t], Activations(t), k) => LastOf(r, Activations(t), k)
          BY <1>0, <3>1, <5>1, QueuedOther DEF Hooks
        <5>3. \/ NoneOf(messages[t], Activations(t)) /\ (t \in isActive => active = t)
              \/ LastOf(messages[t], Activations(t), m)
          BY DEF FocusInv, ActiveOK
        <5> QED
          BY <2>1, <2>2, <3>3, <4>2, <4>4, <5>2, <5>3
      <4> QED
        BY <4>3, <4>4
    <3> QED
      BY <3>2, <3>3
  <2>5. PointerOK'
    <3> SUFFICES ASSUME NEW p \in live
                 PROVE  \/ NoneOf(messages'[Top[p]], Crossings(p)) /\ (pointer' = p => over' = p)
                        \/ LastOf(messages'[Top[p]], Crossings(p),
                                  Message(IF over' = p THEN "entered" ELSE "exited", p))
      BY <2>2 DEF PointerOK
    <3> DEFINE t == Top[p]
               r == Queued(messages[t], t, "deactivated", active)
               m == Message(IF over = p THEN "entered" ELSE "exited", p)
    <3>1. t \in Tops /\ messages[t] \in Seq(Messages)
      BY <1>0, TopsAre
    <3>2. r \in Seq(Messages) /\ messages'[t] = Queued(r, t, "activated", v)
      BY <2>2, <3>1
    <3>3. \A u : Message("deactivated", u) \notin Crossings(p) /\ Message("activated", u) \notin Crossings(p)
      BY DEF Crossings, Message
    <3> HIDE DEF t
    <3>4. /\ NoneOf(messages[t], Crossings(p)) => NoneOf(r, Crossings(p))
          /\ \A k : LastOf(messages[t], Crossings(p), k) => LastOf(r, Crossings(p), k)
      BY <1>0, <3>1, <3>3, QueuedOther DEF Hooks
    <3> HIDE DEF r
    <3>5. /\ NoneOf(r, Crossings(p)) => NoneOf(messages'[t], Crossings(p))
          /\ \A k : LastOf(r, Crossings(p), k) => LastOf(messages'[t], Crossings(p), k)
      <4>1. Message("activated", v) \notin Crossings(p) /\ v \in Windows \cup {None} /\ "activated" \in Hooks
        BY <1>0, <3>3 DEF Hooks
      <4> QED
        BY <3>1, <3>2, <4>1, QueuedOther
    <3>6. \/ NoneOf(messages[t], Crossings(p)) /\ (pointer = p => over = p)
          \/ LastOf(messages[t], Crossings(p), m)
      BY DEF FocusInv, PointerOK, t
    <3> QED
      BY <2>1, <2>2, <3>4, <3>5, <3>6 DEF t
  <2> QED
    BY <2>2, <2>3, <2>4, <2>5 DEF FocusInv
<1>3. ASSUME ButtonGoesDown
      PROVE  FocusInv'
  <2>1. over # None /\ Post("down", over, "down", None) /\ UNCHANGED <<over, active>>
    BY <1>3 DEF ButtonGoesDown, world
  <2>2. /\ MessagesOK' /\ ViewsOK' /\ FocusIsFocus'
        /\ UNCHANGED <<live, isActive, pointer, call>>
        /\ \A t \in Tops :
             /\ messages'[t] = Queued(Queued(messages[t], t, "down", over), t, "down", None)
             /\ Queued(messages[t], t, "down", over) \in Seq(Messages)
    BY <1>0, <2>1, PostKeeps DEF Hooks
  <2>3. \A t \in Tops : messages'[t] = Queued(messages[t], t, "down", over)
    BY <2>2, QueuedIs DEF Hooks
  <2>4. ThereOK'
    BY <2>1, <2>2 DEF FocusInv, ThereOK, CallThere, Children
  <2>5. \A t \in Tops : /\ NoneOf(messages[t], Activations(t)) => NoneOf(messages'[t], Activations(t))
                       /\ \A k : LastOf(messages[t], Activations(t), k)
                               => LastOf(messages'[t], Activations(t), k)
    <3>1. \A t \in Tops : Message("down", over) \notin Activations(t)
      BY DEF Message, Activations
    <3> QED
      BY <1>0, <2>3, <3>1, QueuedOther DEF Hooks
  <2>6. \A p \in live : /\ NoneOf(messages[Top[p]], Crossings(p)) => NoneOf(messages'[Top[p]], Crossings(p))
                       /\ \A k : LastOf(messages[Top[p]], Crossings(p), k)
                               => LastOf(messages'[Top[p]], Crossings(p), k)
    <3> SUFFICES ASSUME NEW p \in live
                 PROVE  /\ NoneOf(messages[Top[p]], Crossings(p)) => NoneOf(messages'[Top[p]], Crossings(p))
                        /\ \A k : LastOf(messages[Top[p]], Crossings(p), k)
                                => LastOf(messages'[Top[p]], Crossings(p), k)
      OBVIOUS
    <3>1. Message("down", over) \notin Crossings(p) /\ Top[p] \in Tops
      BY <1>0, TopsAre DEF Message, Crossings
    <3>2. "down" \in Hooks /\ over \in Windows \cup {None} /\ messages[Top[p]] \in Seq(Messages)
      BY <1>0, <3>1 DEF Hooks
    <3> QED
      BY <2>3, <3>1, <3>2, QueuedOther
  <2>7. ActiveOK'
    BY <2>1, <2>2, <2>5 DEF FocusInv, ActiveOK
  <2>8. PointerOK'
    BY <2>1, <2>2, <2>6 DEF FocusInv, PointerOK
  <2> QED
    BY <2>2, <2>4, <2>7, <2>8 DEF FocusInv
<1> QED
  BY <1>1, <1>2, <1>3 DEF User

-----------------------------------------------------------------------------
(* Steps of the client's thread that leave the focus and all messages.     *)
LEMMA FocusStutters ==
  ASSUME FocusInv, CallThere',
         UNCHANGED <<live, currentFocus, pointer, focusView, isActive, world, messages>>,
         focused' = focused \/ focused' = None
  PROVE  FocusInv'
<1>1. ThereOK' /\ ViewsOK' /\ MessagesOK'
  BY DEF FocusInv, ThereOK, ViewsOK, MessagesOK, world
<1>2. FocusIsFocus'
  BY DEF FocusInv, FocusIsFocus
<1>3. ActiveOK' /\ PointerOK'
  BY DEF FocusInv, ActiveOK, PointerOK, world
<1> QED
  BY <1>1, <1>2, <1>3 DEF FocusInv

LEMMA FocusChanges ==
  ASSUME FocusInv, call' = Idle, NEW w \in live,
         Becomes(MadeFocus(State, w)) \/ Becomes(Unfocused(State, w)),
         UNCHANGED <<live, pointer, isActive, world, messages>>
  PROVE  FocusInv'
<1>1. ThereOK' /\ MessagesOK'
  BY DEF FocusInv, ThereOK, CallThere, MessagesOK, world, Idle
<1>2. (ViewsOK /\ FocusIsFocus)'
  BY MadeFocusKeeps, UnfocusedKeeps DEF FocusInv
<1>3. ActiveOK' /\ PointerOK'
  BY DEF FocusInv, ActiveOK, PointerOK, world
<1> QED
  BY <1>1, <1>2, <1>3 DEF FocusInv

LEMMA ClientKeepsFocus ==
  ASSUME GrabInv, FocusInv, Client
  PROVE  FocusInv'
<1>0. call = Idle \/ IsAt(call)
  BY DEF GrabInv, GrabTypeOK
<1>1. ASSUME NEW w \in live \cap Chosen, NEW m \in Masks, XSelectInput(w, m)
      PROVE  FocusInv'
  BY <1>1, FocusStutters DEF XSelectInput, Starts, CallThere, Idle, words, haiku
<1>2. ASSUME NEW w \in live \cap Chosen, NEW m \in Masks, NEW d \in Displays, XGrabPointer(d, w, m)
      PROVE  FocusInv'
  BY <1>2, FocusStutters DEF XGrabPointer, Starts, CallThere, Idle, At, haiku
<1>3. CASE GrabPointer
  BY <1>3, FocusStutters DEF GrabPointer, Goes, CallThere, At, haiku
<1>4. CASE GrabMask
  BY <1>4, FocusStutters DEF GrabMask, Goes, CallThere, Idle, words, haiku
<1>5. CASE XUngrabPointer
  BY <1>5, FocusStutters DEF XUngrabPointer, Starts, CallThere, Idle, haiku
<1>6. ASSUME NEW m \in Masks, XChangeActivePointerGrab(m)
      PROVE  FocusInv'
  BY <1>6, FocusStutters DEF XChangeActivePointerGrab, Starts, CallThere, Idle, words, haiku
<1>7. ASSUME NEW t \in Tops, Show(t)
      PROVE  FocusInv'
  BY <1>7, FocusChanges DEF Show, Starts
<1>8. ASSUME NEW w \in live, XSetInputFocus(w) \/ XConfigureWindow(w)
      PROVE  FocusInv'
  BY <1>8, FocusChanges DEF XSetInputFocus, XConfigureWindow, Starts
<1>9. ASSUME NEW w \in live, XDestroyWindow(w)
      PROVE  FocusInv'
  BY <1>9, FocusStutters DEF XDestroyWindow, Starts, CallThere, At, haiku
<1>10. CASE XSetInputFocusNone
  BY <1>10, FocusStutters DEF XSetInputFocusNone, Starts, CallThere, At, words, haiku
<1>11. CASE ReadAgain
  <2>1. /\ call' = At(IF focused = None THEN "crashed" ELSE "focus", focused, {})
        /\ UNCHANGED <<live, currentFocus, words, haiku, messages, world>>
    BY <1>11 DEF ReadAgain, Goes
  <2>2. focused # None => focused \in live
    BY DEF FocusInv, FocusIsFocus, ViewsOK
  <2>3. CallThere'
    BY <2>1, <2>2 DEF CallThere, At
  <2> QED
    BY <2>1, <2>3, FocusStutters DEF words, haiku
<1>12. CASE Unfocus
  BY <1>12, FocusChanges DEF Unfocus, Goes, FocusInv, ThereOK, CallThere
<1>13. CASE DeleteChildren
  <2> DEFINE w == call.window
             S == Children(w)
  <2>1. /\ call.at = "children" /\ call' = [call EXCEPT !.at = "defocus"]
        /\ Removed(S) /\ UNCHANGED pointer
    BY <1>13 DEF DeleteChildren
  <2>2. call'.at = "defocus" /\ call'.window = w
    BY <1>0, <2>1 DEF IsAt, At, Idle
  <2>3. w \in live /\ w \in Windows
    BY <2>1 DEF FocusInv, ThereOK, CallThere
  <2>4. live' = live \ S
    BY <2>1 DEF Removed
  <2>5. CallThere'
    BY <2>2, <2>3, <2>4 DEF CallThere, Children
  <2>6. S \in SUBSET live
    BY DEF Children
  <2>7. \A v \in live : Top[v] \notin S
    BY TopAssumption DEF Children, FocusInv, ThereOK
  <2> HIDE DEF S
  <2> QED
    BY <2>1, <2>5, <2>6, <2>7, RemovedKeeps
<1>14. CASE Defocus
  <2>1. /\ call.at = "defocus" /\ call' = [call EXCEPT !.at = "remove"]
        /\ focused' = Cleared(focused, call.window)
        /\ UNCHANGED <<live, currentFocus, pointer, haiku, messages, world>>
    BY <1>14 DEF Defocus, Goes
  <2>2. call'.at = "remove" /\ call'.window = call.window
    BY <1>0, <2>1 DEF IsAt, At, Idle
  <2>3. CallThere'
    BY <2>1, <2>2 DEF CallThere, Children, FocusInv, ThereOK
  <2> QED
    BY <2>1, <2>3, FocusStutters DEF Cleared, haiku
<1>15. CASE RemoveView
  <2> DEFINE w == call.window
  <2>1. /\ call.at = "remove" /\ call' = Idle
        /\ Removed({w}) /\ UNCHANGED pointer
    BY <1>15 DEF RemoveView
  <2>2. w \in live /\ Children(w) = {}
    BY <2>1 DEF FocusInv, ThereOK, CallThere
  <2>3. \A v \in live : Top[v] \in {w} => v \in {w}
    BY <2>2 DEF Children
  <2>4. CallThere'
    BY <2>1 DEF CallThere, Idle
  <2>5. {w} \in SUBSET live
    BY <2>2
  <2> QED
    BY <2>1, <2>3, <2>4, <2>5, RemovedKeeps
<1> QED
  BY <1>1, <1>2, <1>3, <1>4, <1>5, <1>6, <1>7, <1>8, <1>9, <1>10, <1>11, <1>12, <1>13, <1>14, <1>15
  DEF Client

(* Every step keeps the focus; who lives is up to the calls of the grab.   *)
LEMMA NextKeepsFocus == GrabInv /\ FocusInv /\ [InputNext]_inputVars => FocusInv'
<1> SUFFICES ASSUME GrabInv, FocusInv, [InputNext]_inputVars
             PROVE  FocusInv'
  OBVIOUS
<1>1. CASE Client
  BY <1>1, ClientKeepsFocus
<1>2. ASSUME NEW t \in Tops, Looper(t)
      PROVE  FocusInv'
  BY <1>2, LooperKeepsFocus DEF GrabInv
<1>3. CASE User
  BY <1>3, UserKeepsFocus
<1>4. CASE UNCHANGED inputVars
  BY <1>4, FocusStutters
  DEF inputVars, window, words, haiku, CallThere, Children, FocusInv, ThereOK
<1> QED
  BY <1>1, <1>2, <1>3, <1>4 DEF InputNext

LEMMA FocusInvariant == InputSpec => [](GrabInv /\ FocusInv)
BY InitGrab, InitFocus, NextKeepsGrabInv, NextKeepsFocus, PTL DEF InputSpec

(* The focused window, and each that was told it has the focus, is there   *)
(* and is the focus of its BWindow, which is active (Drawables.cpp:721-777),*)
(* whatever loopers and client do to one another.                          *)
THEOREM FocusedWindowIsFocus == InputSpec => []FocusIsFocus
<1>1. FocusInv => FocusIsFocus
  BY DEF FocusInv
<1> QED
  BY <1>1, FocusInvariant, PTL

(* Once all messages are handled the words name what Haiku says, in        *)
(* whatever order the loopers ran (Drawables.cpp:732-738, 799-807).        *)
THEOREM WordsAgreeWithHaiku == InputSpec => []WordsSettle
<1>1. ASSUME FocusInv, Settled
      PROVE  /\ focused \in {None} \cup currentFocus
             /\ \A w \in currentFocus : Top[w] = active
             /\ pointer \in {None, over} \cup (Windows \ live)
  <2>1. focused \in {None} \cup currentFocus
    BY <1>1 DEF FocusInv, FocusIsFocus
  <2>2. \A t \in Tops : t \in isActive => active = t
    BY <1>1, EmptyHasNone DEF FocusInv, ActiveOK, Settled
  <2>3. \A w \in currentFocus : Top[w] = active
    BY <1>1, <2>2 DEF FocusInv, FocusIsFocus, ViewsOK
  <2>4. \A w \in live : pointer = w => over = w
    <3>1. \A w \in live : messages[Top[w]] = <<>>
      BY <1>1, TopsAre DEF FocusInv, ThereOK, Settled
    <3> QED
      BY <1>1, <3>1, EmptyHasNone DEF FocusInv, PointerOK
  <2> QED
    BY <1>1, <2>1, <2>3, <2>4 DEF FocusInv
<1>2. FocusInv => WordsSettle
  BY <1>1 DEF WordsSettle, FocusSettles, PointerSettles
<1> QED
  BY <1>2, FocusInvariant, PTL

-----------------------------------------------------------------------------
(* The parts together.  No step of one changes what another looks at, so   *)
(* that a behaviour of the whole is one of each part.                      *)
hookVars == <<part, geometryVars, hintVars, buttonVars, selectionVars, inputVars>>

LEMMA EachPartInit ==
  Init => GeometryInit /\ HintsInit /\ KeyboardInit /\ SelectionInit /\ InputInit
BY DEF Init

LEMMA EachPartStep ==
  [Next]_hookVars => /\ [GeometryNext]_geometryVars /\ [HintsNext]_hintVars
                     /\ [KeyboardNext]_buttonVars /\ [SelectionNext]_selectionVars
                     /\ [InputNext]_inputVars
BY DEF Next, hookVars

(* Whichever part is used, it behaves as it does alone, and the others     *)
(* stand still.                                                            *)
THEOREM PartsBehaveAlone ==
  Spec => GeometrySpec /\ HintsSpec /\ KeyboardSpec /\ SelectionSpec /\ InputSpec
BY EachPartInit, EachPartStep, PTL
   DEF Spec, hookVars, GeometrySpec, HintsSpec, KeyboardSpec, SelectionSpec, InputSpec

(* Keys agree in every state (Keyboard.cpp:28-400).                        *)
THEOREM KeysStay == Spec => []KeysAreKept
<1>1. KeysAreKept
  BY KeysAlwaysAgree, TextIsAlwaysTyped, ReleasesAlwaysFollow DEF KeysAreKept
<1> QED
  BY <1>1, PTL

(* All that is proved of the parts holds of what puts them together: the   *)
(* words, grabs and masks, sizes, hints, buttons, keys and the clipboard.  *)
THEOREM HooksAgree ==
  Spec => [](/\ FocusIsFocus /\ WordsSettle /\ GrabLives /\ MaskIsGivenBack
             /\ SizesSettle /\ HintsAreKept /\ ReleaseNamesPress /\ KeysAreKept
             /\ ClaimArrives /\ ConversionAnswers /\ OwnerIsClaiming)
BY PartsBehaveAlone, KeysStay, FocusedWindowIsFocus, WordsAgreeWithHaiku, GrabbingWindowLives,
   GrabsGiveBack, SizesSettleDown, HintsStay, ReleasesNamePresses, LastClaimArrives,
   AloneIsAnswered, OwnerHasClaimed, PTL
==============================================================================
