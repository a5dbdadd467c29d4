------------------------------ MODULE Selection ------------------------------
(***************************************************************************)
(* The CLIPBOARD selection (xlib/Selection.cpp, and the calls of           *)
(* xlib/Property.cpp that reach it).                                       *)
(*                                                                         *)
(* There is no other client to talk to: a window that claims the selection *)
(* is asked by events for what it offers and then for the text, which goes *)
(* to Haiku's clipboard; a conversion is answered from there when the      *)
(* property is read.  Each conversation is several calls and events, and   *)
(* what it is about is kept in three statics.                              *)
(*                                                                         *)
(* The client handles an event in one action: it answers requests of its   *)
(* windows, as ICCCM asks, and reads the property it is notified of.       *)
(***************************************************************************)
EXTENDS Integers, Sequences, FiniteSets, SequencesExt

CONSTANTS
  Claimants,     \* the windows that claim the selection
  Offers,        \* what each offers: "text", "INCR" (text in pieces) or "none"
  Other,         \* what another application copies
  Properties,    \* the properties conversions name
  Targets,       \* the targets they name
  MaxEvents,     \* bound: events in the queue
  Nothing

ASSUME OffersAssumption == Offers \in [Claimants -> {"text", "INCR", "none"}]
ASSUME NamesAssumption == Nothing \notin Claimants \cup Properties /\ Other \notin Claimants
ASSUME EventsAssumption == MaxEvents \in Nat

VARIABLES
  requestProperty, requestTarget,  \* sCurrentSelectionRequestProperty, ...Target
  requestee,     \* sCurrentSelectionRequestee
  clipboard,     \* the texts in be_clipboard's message
  events,        \* the selection events in the display's queue
  copied,        \* history: whose text was copied last, by a claim or elsewhere
  crossed,       \* history: a claim crossed one with nothing to offer
  got            \* history: the last property read

selectionVars == <<requestProperty, requestTarget, requestee, clipboard, events, copied, crossed, got>>
history == <<copied, crossed, got>>

-----------------------------------------------------------------------------
AllTargets == {"TARGETS", "STRING", "UTF8_STRING", "text/plain;charset=utf-8", "image/png"}
Types == {"ATOM", "UTF8_STRING", "none", "failed"}

ASSUME TargetsAssumption == Targets \subseteq AllTargets

(* alone is history: no other conversion to its property was under way.    *)
Request(owner, target) == [type |-> "request", owner |-> owner, target |-> target]
Notify(property, target, alone) ==
  [type |-> "notify", property |-> property, target |-> target, alone |-> alone]
NothingRead == [last |-> FALSE, alone |-> FALSE, target |-> "TARGETS", type |-> "failed"]

Requests == [type : {"request"}, owner : Claimants \cup {Nothing}, target : AllTargets]
Notifies == [type : {"notify"}, property : Properties, target : AllTargets, alone : BOOLEAN]

Of(type) == {i \in DOMAIN events : events[i].type = type}

SelectionTypeOK ==
  /\ requestProperty \in Properties \cup {Nothing}
  /\ requestTarget \in AllTargets \cup {Nothing}
  /\ requestee \in Claimants \cup {Nothing}
  /\ clipboard \in Seq({w \in Claimants : Offers[w] = "text"} \cup {Other})
  /\ events \in Seq(Requests \cup Notifies)
  /\ copied \in Claimants \cup {Other, Nothing}
  /\ crossed \in BOOLEAN
  /\ got \in [last : BOOLEAN, alone : BOOLEAN, target : AllTargets, type : Types]

SelectionInit ==
  /\ requestProperty = Nothing /\ requestTarget = Nothing /\ requestee = Nothing
  /\ clipboard = <<>>
  /\ events = <<>>
  /\ copied = Nothing /\ crossed = FALSE /\ got = NothingRead

-----------------------------------------------------------------------------
(* XGetSelectionOwner(CLIPBOARD); Nothing stands for the root.             *)
XGetSelectionOwner == requestee

(* XSetSelectionOwner(CLIPBOARD): a window claims it, or gives it up.      *)
XSetSelectionOwner(w) ==
  /\ Len(events) < MaxEvents
  /\ requestee' = w
  /\ events' = Append(events, Request(w, "TARGETS"))
  /\ copied' = w
  /\ LET claims == {i \in Of("request") : events[i].target = "TARGETS" /\ events[i].owner # Nothing}
     IN  crossed' = \E i \in claims : crossed \/ Offers[events[i].owner] = "none"
  /\ UNCHANGED <<requestProperty, requestTarget, clipboard, got>>

(* XConvertSelection, or a SelectionRequest sent to the root.  What is     *)
(* asked is remembered, and the requestor notified at once.                *)
XConvertSelection(property, target) ==
  /\ Len(events) < MaxEvents
  /\ requestProperty' = property /\ requestTarget' = target
  /\ LET same == {i \in Of("notify") : events[i].property = property}
         others == [i \in DOMAIN events |->
                      IF i \in same THEN [events[i] EXCEPT !.alone = FALSE] ELSE events[i]]
     IN  events' = Append(others, Notify(property, target, same = {}))
  /\ UNCHANGED <<requestee, clipboard, history>>

-----------------------------------------------------------------------------
(* Mutant: the clipboard is not cleared for the text to come.              *)
ReceiveTypesUncleared(w) ==
  /\ requestee' = Nothing
  /\ events' = IF Offers[w] # "none"
               THEN Append(Tail(events), Request(requestee, "UTF8_STRING")) ELSE Tail(events)
  /\ UNCHANGED clipboard

(* Mutant: the claim is not over when the types are in.                    *)
ReceiveTypesClaimed(w) ==
  /\ UNCHANGED requestee
  /\ IF Offers[w] # "none"
     THEN /\ events' = Append(Tail(events), Request(requestee, "UTF8_STRING"))
          /\ clipboard' = <<>>
     ELSE events' = Tail(events) /\ UNCHANGED clipboard

(* XChangeProperty(CLIPBOARD, ATOM) with what a window offers: if there is *)
(* text it is asked for, of the window that claimed last, and the          *)
(* clipboard cleared for it.                                               *)
ReceiveTypes(w) ==
  /\ requestee' = Nothing
  /\ IF Offers[w] # "none"
     THEN /\ events' = Append(Tail(events), Request(requestee, "UTF8_STRING"))
          /\ clipboard' = <<>>
     ELSE events' = Tail(events) /\ UNCHANGED clipboard

(* XChangeProperty(CLIPBOARD, UTF8_STRING) with the text, behind what is   *)
(* there; text in pieces, type INCR, is refused.                           *)
ReceiveData(w) ==
  /\ events' = Tail(events)
  /\ clipboard' = IF Offers[w] = "text" THEN Append(clipboard, w) ELSE clipboard
  /\ UNCHANGED requestee

(* A window answers a request; no window has the owner Nothing.            *)
AnswerRequest ==
  /\ events # <<>> /\ Head(events).type = "request"
  /\ LET e == Head(events)
     IN  \/ /\ e.owner # Nothing /\ e.target = "TARGETS"
            /\ ReceiveTypes(e.owner)
         \/ /\ e.owner # Nothing /\ e.target = "UTF8_STRING"
            /\ ReceiveData(e.owner)
         \/ /\ e.owner = Nothing
            /\ events' = Tail(events) /\ UNCHANGED <<requestee, clipboard>>
  /\ UNCHANGED <<requestProperty, requestTarget, history>>

-----------------------------------------------------------------------------
(* _x_handle_get_clipboard: the type a target is answered with, if the     *)
(* property is the one asked for.  Text that is not there is read all the  *)
(* same, from a pointer that was never set: whatever it is has this type.  *)
TypeOfTarget(target) ==
  CASE target = "TARGETS" -> "ATOM"
    [] target \in {"STRING", "UTF8_STRING", "text/plain;charset=utf-8"} -> "UTF8_STRING"
    [] OTHER -> "none"

(* Mutant: whatever is read is the answer.                                 *)
GetClipboardAnyway(property) == TypeOfTarget(requestTarget)

GetClipboard(property) ==
  IF property # requestProperty THEN "failed" ELSE TypeOfTarget(requestTarget)

(* The requestor reads the property it is notified of.                     *)
XGetWindowProperty ==
  /\ events # <<>> /\ Head(events).type = "notify"
  /\ LET e == Head(events)
         type == GetClipboard(e.property)
     IN  /\ got' = [last |-> Of("notify") = {1}, alone |-> e.alone,
                    target |-> e.target, type |-> type]
         /\ requestProperty' = IF type = "failed" THEN requestProperty ELSE Nothing
         /\ requestTarget' = IF type = "UTF8_STRING" /\ requestTarget # "STRING"
                             THEN "UTF8_STRING" ELSE requestTarget
  /\ events' = Tail(events)
  /\ UNCHANGED <<requestee, clipboard, copied, crossed>>

(* Another application copies text, or something else.                     *)
OtherCopies(texts) ==
  /\ clipboard' = texts
  /\ copied' = Other
  /\ UNCHANGED <<requestProperty, requestTarget, requestee, events, crossed, got>>

-----------------------------------------------------------------------------
SelectionNext ==
  \/ \E w \in Claimants \cup {Nothing} : XSetSelectionOwner(w)
  \/ \E p \in Properties, t \in Targets : XConvertSelection(p, t)
  \/ AnswerRequest
  \/ XGetWindowProperty
  \/ \E texts \in {<<>>, <<Other>>} : OtherCopies(texts)

SelectionSpec == SelectionInit /\ [][SelectionNext]_selectionVars

-----------------------------------------------------------------------------
(* Once all requests are answered, a paste is of the text of the window    *)
(* that claimed last, unless something was copied elsewhere since: of its  *)
(* own, though data of earlier claims was still on its way.                *)
ClaimArrives ==
  Of("request") = {} /\ copied \in Claimants /\ ~crossed =>
    CASE Offers[copied] = "text" -> clipboard # <<>> /\ clipboard[1] = copied
      [] Offers[copied] = "INCR" -> clipboard = <<>>
      [] OTHER -> TRUE

(* A conversion whose property no other one used meanwhile is never        *)
(* answered with another's target, and is answered if it was the last.     *)
ConversionAnswers ==
  got.alone => /\ got.type \in {"failed", TypeOfTarget(got.target)}
               /\ got.last => got.type = TypeOfTarget(got.target)

(* A window is named as the owner only while its claim is in the queue: a  *)
(* client that asks later is told the root, and looks at the clipboard.    *)
OwnerIsClaiming ==
  XGetSelectionOwner # Nothing =>
    \E i \in Of("request") : events[i] = Request(XGetSelectionOwner, "TARGETS")
=============================================================================
