-------------------------------- MODULE Input --------------------------------
(***************************************************************************)
(* The pointer, its grab and the focus (xlib/Drawables.cpp, the hooks of   *)
(* XWindow; xlib/Window.cpp, XSetInputFocus and XGrabPointer).             *)
(*                                                                         *)
(* Three words of the process say which window has the focus, which one    *)
(* the pointer is in and which one grabbed it.  The hooks of a window run  *)
(* in the looper of the BWindow it is in, with that looper's lock; each    *)
(* looper has its own queue of messages.  The client's thread writes the   *)
(* words too, with or without a lock, and destroys windows.                *)
(*                                                                         *)
(* A hook, and a stretch of a client's call under one looper lock, is one  *)
(* action; a call is as many actions as it has such stretches.             *)
(***************************************************************************)
EXTENDS Integers, Sequences, FiniteSets, FiniteSetsExt

CONSTANTS
  Windows,       \* the windows there are at first
  Top,           \* the window at the top of the BWindow each is in
  Displays,
  DisplayOf,     \* the display each window was created for
  Masks,         \* the event masks windows have
  Chosen,        \* bound: the windows the client selects input on and grabs
  MaxPending,    \* bound: messages that wait in all loopers together
  None           \* no window

Tops == {Top[w] : w \in Windows}

ASSUME WindowsAssumption == None \notin Windows /\ IsFiniteSet(Windows)
ASSUME TopAssumption == Top \in [Windows -> Windows] /\ \A w \in Windows : Top[Top[w]] = Top[w]
ASSUME DisplaysAssumption ==
  DisplayOf \in [Windows -> Displays] /\ \A w \in Windows : DisplayOf[w] = DisplayOf[Top[w]]
ASSUME MasksAssumption == {} \in Masks /\ Chosen \subseteq Windows
ASSUME BoundsAssumption == MaxPending \in Nat

VARIABLES
  live,          \* the windows that are not destroyed
  mask,          \* their _event_mask
  priorMask,     \* their _prior_event_mask
  currentFocus,  \* those with current_focus set
  focused, pointer, grab,   \* sFocusedWindow, sPointerWindow, sPointerGrabWindow
  focusView,     \* BWindow::CurrentFocus, of each BWindow
  isActive,      \* the BWindows whose IsActive is set
  over, active,  \* where the pointer is, and the active BWindow
  messages,      \* what each looper has yet to handle
  call,          \* what the client's thread is at
  selected       \* history: the mask last selected while the window was not grabbed

words == <<focused, pointer, grab>>
window == <<live, mask, priorMask, currentFocus>>
haiku == <<focusView, isActive>>
world == <<over, active>>
inputVars == <<window, words, haiku, world, messages, call, selected>>

-----------------------------------------------------------------------------
Idle == [at |-> "idle"]
At(at, w, m) == [at |-> at, window |-> w, mask |-> m]
Message(what, w) == [what |-> what, window |-> w]

Stages == {"grab", "mask", "unfocus", "focus", "children", "defocus", "remove", "crashed"}
Transits == {"entered", "exited"}
Hooks == Transits \cup {"activated", "deactivated", "down"}

InputTypeOK ==
  /\ live \subseteq Windows
  /\ mask \in [Windows -> Masks] /\ priorMask \in [Windows -> Masks]
  /\ currentFocus \subseteq live
  /\ {focused, pointer, grab} \subseteq Windows \cup {None}
  /\ focusView \in [Tops -> live \cup {None}]
  /\ \A t \in Tops : focusView[t] # None => Top[focusView[t]] = t
  /\ isActive \subseteq Tops
  /\ over \in live \cup {None} /\ active \in (live \cap Tops) \cup {None}
  /\ messages \in [Tops -> Seq([what : Hooks, window : Windows])]
  /\ \A t \in Tops : \A i \in DOMAIN messages[t] : Top[messages[t][i].window] = t
  /\ call = Idle \/ call \in [at : Stages, window : live \cup {None}, mask : Masks]
  /\ selected \in [Windows -> Masks]

InputInit ==
  /\ live = Windows
  /\ mask = [w \in Windows |-> {}]
  /\ priorMask = mask /\ selected = mask
  /\ currentFocus = {}
  /\ focused = None /\ pointer = None /\ grab = None
  /\ focusView = [t \in Tops |-> None]
  /\ isActive = {}
  /\ over = None /\ active = None
  /\ messages = [t \in Tops |-> <<>>]
  /\ call = Idle

-----------------------------------------------------------------------------
(* What the user does, as the app_server tells the loopers: the pointer    *)
(* leaves one window and enters another, a BWindow is activated in place   *)
(* of another, a button goes down.                                         *)
Runs == call.at # "crashed"

Pending == MapThenSumSet(LAMBDA t : Len(messages[t]), Tops)
Queued(queue, t, what, w) ==
  IF w # None /\ Top[w] = t THEN Append(queue, Message(what, w)) ELSE queue
Post(what, w, then, v) ==
  /\ Runs
  /\ messages' = [t \in Tops |-> Queued(Queued(messages[t], t, what, w), t, then, v)]
  /\ Pending' <= MaxPending
  /\ UNCHANGED <<window, words, haiku, call, selected>>

PointerMoves(w) ==
  /\ over # w
  /\ over' = w
  /\ Post("exited", over, "entered", w)
  /\ UNCHANGED active

Activated(t) ==
  /\ active # t
  /\ active' = t
  /\ Post("deactivated", active, "activated", t)
  /\ UNCHANGED over

ButtonGoesDown ==
  /\ over # None
  /\ Post("down", over, "down", None)
  /\ UNCHANGED world

-----------------------------------------------------------------------------
(* XWindow::_Focus(focus) on what the three kinds of state become: s has   *)
(* focused, currentFocus and focusView.  The weak compare-exchange fails   *)
(* only if the word is another: it is strong on x86.                       *)
State == [focused |-> focused, current |-> currentFocus, view |-> focusView]

Cleared(word, w) == IF word = w THEN None ELSE word
ClearedOf(word, S) == IF word \in S THEN None ELSE word

Focus(s, w, focus) ==
  IF focus = (w \in s.current) THEN s
  ELSE [s EXCEPT !.focused = IF focus THEN w ELSE Cleared(@, w),
                 !.current = IF focus THEN @ \cup {w} ELSE @ \ {w}]

(* XWindow::MakeFocus.  BView::MakeFocus takes the focus from the view of  *)
(* the BWindow that has it, by MakeFocus(false) of that view.              *)

Unfocused(s, w) ==
  IF s.view[Top[w]] # w THEN s ELSE Focus([s EXCEPT !.view[Top[w]] = None], w, FALSE)

(* Mutant: a window takes the focus in a BWindow that is not active.       *)
MadeFocusAnywhere(s, w) ==
  LET before == s.view[Top[w]]
      others == IF before = None THEN s ELSE Unfocused(s, before)
  IN  IF before = w THEN s ELSE Focus([others EXCEPT !.view[Top[w]] = w], w, TRUE)

MadeFocus(s, w) ==
  LET before == s.view[Top[w]]
      others == IF before = None THEN s ELSE Unfocused(s, before)
      moved == [others EXCEPT !.view[Top[w]] = w]
  IN  IF before = w THEN s
      ELSE IF Top[w] \in isActive THEN Focus(moved, w, TRUE) ELSE moved

Becomes(s) == focused' = s.focused /\ currentFocus' = s.current /\ focusView' = s.view

-----------------------------------------------------------------------------
(* The hooks: a looper takes its next message; one to a view that is gone  *)
(* goes nowhere.                                                           *)
Takes(t, what) ==
  /\ Runs
  /\ messages[t] # <<>>
  /\ Head(messages[t]).what \in what /\ Head(messages[t]).window \in live
  /\ messages' = [messages EXCEPT ![t] = Tail(@)]
  /\ UNCHANGED <<world, live, mask, priorMask, grab, call, selected>>

(* Mutant: an exit clears the word only if the window asked for the event. *)
MouseMovedIfSelected(t) ==
  /\ Takes(t, Transits)
  /\ LET m == Head(messages[t])
     IN  pointer' = IF m.what = "entered" THEN m.window
                    ELSE IF "LeaveWindow" \in mask[m.window] THEN Cleared(pointer, m.window)
                    ELSE pointer
  /\ UNCHANGED <<focused, currentFocus, haiku>>

(* XWindow::MouseMoved with a transit; a crossing event is put after it,   *)
(* if the mask and the grab allow.                                         *)
MouseMoved(t) ==
  /\ Takes(t, Transits)
  /\ LET m == Head(messages[t])
     IN  pointer' = IF m.what = "entered" THEN m.window ELSE Cleared(pointer, m.window)
  /\ UNCHANGED <<focused, currentFocus, haiku>>

Dropped(t) ==
  /\ Runs
  /\ messages[t] # <<>> /\ Head(messages[t]).window \notin live
  /\ messages' = [messages EXCEPT ![t] = Tail(@)]
  /\ UNCHANGED <<window, words, haiku, world, call, selected>>

(* XWindow::WindowActivated, of each window of the BWindow, in any order:  *)
(* the one that is its focus takes the focus, and all others let it go.    *)
WindowActivated(t) ==
  /\ Takes(t, {"activated", "deactivated"})
  /\ LET on == Head(messages[t]).what = "activated"
         ours == {w \in live : Top[w] = t}
         holds == IF on THEN ours \cap {focusView[t]} ELSE {}
     IN  /\ isActive' = IF on THEN isActive \cup {t} ELSE isActive \ {t}
         /\ currentFocus' = (currentFocus \ ours) \cup holds
         /\ focused' = IF holds \subseteq currentFocus
                       THEN ClearedOf(focused, (currentFocus \cap ours) \ holds)
                       ELSE focusView[t]
  /\ UNCHANGED <<pointer, focusView>>

(* XWindow::MouseDown takes the focus, whether or not the event is put.    *)
MouseDown(t) ==
  /\ Takes(t, {"down"})
  /\ Becomes(MadeFocus(State, Head(messages[t]).window))
  /\ UNCHANGED <<pointer, isActive>>

-----------------------------------------------------------------------------
(* The client's thread.                                                    *)
Starts(c) == call = Idle /\ call' = c /\ UNCHANGED world
Goes(from, c) == call.at = from /\ call' = c /\ UNCHANGED world

XSelectInput(w, m) ==
  /\ Starts(Idle)
  /\ mask' = [mask EXCEPT ![w] = m]
  /\ selected' = IF grab = w THEN selected ELSE [selected EXCEPT ![w] = m]
  /\ UNCHANGED <<live, priorMask, currentFocus, words, haiku, messages>>

(* XWindow::ungrab_pointer, under the window's looper lock.                *)
Ungrabbed ==
  IF grab = None THEN UNCHANGED <<mask, grab>>
  ELSE mask' = [mask EXCEPT ![grab] = priorMask[grab]] /\ grab' = None

(* Mutant: a grab of the grab window does not end the grab before it.      *)
XGrabPointerAgain(d, w, m) ==
  /\ grab # None => DisplayOf[grab] = d
  /\ Starts(At("grab", w, m))
  /\ IF grab = w THEN UNCHANGED <<mask, grab>> ELSE Ungrabbed
  /\ UNCHANGED <<live, priorMask, currentFocus, focused, pointer, haiku, messages, selected>>

(* XGrabPointer.  A grab of the same display ends first, even if the       *)
(* window is not viewable or owner_events is set; then the call is over.   *)
(* Then the word is written, and then, with the lock, the mask.            *)
XGrabPointer(d, w, m) ==
  /\ grab # None => DisplayOf[grab] = d
  /\ Starts(Idle) \/ Starts(At("grab", w, m))
  /\ Ungrabbed
  /\ UNCHANGED <<live, priorMask, currentFocus, focused, pointer, haiku, messages, selected>>

GrabPointer ==
  /\ Goes("grab", At("mask", call.window, call.mask))
  /\ grab' = call.window
  /\ UNCHANGED <<live, mask, priorMask, currentFocus, focused, pointer, haiku, messages, selected>>

GrabMask ==
  /\ Goes("mask", Idle)
  /\ priorMask' = [priorMask EXCEPT ![call.window] = mask[call.window]]
  /\ mask' = [mask EXCEPT ![call.window] = call.mask]
  /\ UNCHANGED <<live, currentFocus, words, haiku, messages, selected>>

XUngrabPointer ==
  /\ Starts(Idle)
  /\ grab # None
  /\ Ungrabbed
  /\ UNCHANGED <<live, priorMask, currentFocus, focused, pointer, haiku, messages, selected>>

(* There is a grab: the code does not ask.                                 *)
XChangeActivePointerGrab(m) ==
  /\ Starts(Idle)
  /\ grab # None
  /\ mask' = [mask EXCEPT ![grab] = m]
  /\ UNCHANGED <<live, priorMask, currentFocus, words, haiku, messages, selected>>

(* RootWindow::Show gives the focus of a BWindow that has none to its top. *)
Show(t) ==
  /\ Starts(Idle)
  /\ t \in live /\ focusView[t] = None
  /\ Becomes(MadeFocus(State, t))
  /\ UNCHANGED <<live, mask, priorMask, pointer, grab, isActive, messages, selected>>

(* XConfigureWindow, restacking a view among its siblings, and             *)
(* XReparentWindow, within a BWindow: to remove a view that is the focus   *)
(* takes the focus from it, and to add it again does not give it back.     *)
XConfigureWindow(w) ==
  /\ Starts(Idle)
  /\ Top[w] # w
  /\ Becomes(Unfocused(State, w))
  /\ UNCHANGED <<live, mask, priorMask, pointer, grab, isActive, messages, selected>>

(* XSetInputFocus of a window; it is activated too, which the app_server   *)
(* tells the loopers.  Of None or PointerRoot: the word is read twice, and *)
(* the second time it may be null.                                         *)
XSetInputFocus(w) ==
  /\ Starts(Idle)
  /\ focused # w
  /\ Becomes(MadeFocus(State, w))
  /\ UNCHANGED <<live, mask, priorMask, pointer, grab, isActive, messages, selected>>

XSetInputFocusNone ==
  /\ focused # None
  /\ Starts(At("unfocus", None, {}))
  /\ UNCHANGED <<live, mask, priorMask, currentFocus, words, haiku, messages, selected>>

ReadAgain ==
  /\ Goes("unfocus", At(IF focused = None THEN "crashed" ELSE "focus", focused, {}))
  /\ UNCHANGED <<live, mask, priorMask, currentFocus, words, haiku, messages, selected>>

Unfocus ==
  /\ Goes("focus", Idle)
  /\ Becomes(Unfocused(State, call.window))
  /\ UNCHANGED <<live, mask, priorMask, pointer, grab, isActive, messages, selected>>

-----------------------------------------------------------------------------
(* ~XWindow: ends its grab; deletes its children, with the lock; lets go   *)
(* of the focus, without; and is removed, with the lock again.  To remove  *)
(* a view that is the focus of its BWindow takes the focus from it first.  *)
(* A BWindow goes with its top, and its looper's messages with it.         *)
Children(w) == {c \in live \ {w} : Top[c] = w}

Removed(S) ==
  /\ live' = live \ S
  /\ LET views == {w \in S : focusView[Top[w]] = w}
     IN  /\ focusView' = [t \in Tops |-> ClearedOf(focusView[t], views)]
         /\ currentFocus' = currentFocus \ views
         /\ focused' = ClearedOf(focused, views \cap currentFocus)
  /\ isActive' = isActive \ S
  /\ over' = ClearedOf(over, S)
  /\ active' = ClearedOf(active, S)
  /\ messages' = [t \in Tops |-> IF t \in S THEN <<>> ELSE messages[t]]

XDestroyWindow(w) ==
  /\ Starts(At("children", w, {}))
  /\ IF grab = w THEN Ungrabbed ELSE UNCHANGED <<mask, grab>>
  /\ UNCHANGED <<live, priorMask, currentFocus, focused, pointer, haiku, messages, selected>>

(* Mutant: children do not end their grab.                                 *)
DeleteChildrenGrabbed ==
  /\ call.at = "children"
  /\ call' = [call EXCEPT !.at = "defocus"]
  /\ Removed(Children(call.window))
  /\ UNCHANGED <<priorMask, mask, grab, pointer, selected>>

DeleteChildren ==
  /\ call.at = "children"
  /\ call' = [call EXCEPT !.at = "defocus"]
  /\ Removed(Children(call.window))
  /\ IF grab \in Children(call.window) THEN Ungrabbed ELSE UNCHANGED <<mask, grab>>
  /\ UNCHANGED <<priorMask, pointer, selected>>

Defocus ==
  /\ Goes("defocus", [call EXCEPT !.at = "remove"])
  /\ focused' = Cleared(focused, call.window)
  /\ UNCHANGED <<live, mask, priorMask, currentFocus, pointer, grab, haiku, messages, selected>>

RemoveView ==
  /\ call.at = "remove"
  /\ call' = Idle
  /\ Removed({call.window})
  /\ UNCHANGED <<mask, priorMask, pointer, grab, selected>>

-----------------------------------------------------------------------------
Client ==
  \/ \E w \in live \cap Chosen, m \in Masks :
       XSelectInput(w, m) \/ \E d \in Displays : XGrabPointer(d, w, m)
  \/ GrabPointer \/ GrabMask \/ XUngrabPointer
  \/ \E m \in Masks : XChangeActivePointerGrab(m)
  \/ \E t \in Tops : Show(t)
  \/ \E w \in live : XSetInputFocus(w) \/ XConfigureWindow(w) \/ XDestroyWindow(w)
  \/ XSetInputFocusNone \/ ReadAgain \/ Unfocus
  \/ DeleteChildren \/ Defocus \/ RemoveView

Looper(t) ==
  MouseMoved(t) \/ WindowActivated(t) \/ MouseDown(t) \/ Dropped(t)

User ==
  \/ \E w \in live \cup {None} : PointerMoves(w)
  \/ \E t \in (live \cap Tops) \cup {None} : Activated(t)
  \/ ButtonGoesDown

InputNext == Client \/ (\E t \in Tops : Looper(t)) \/ User

InputSpec == InputInit /\ [][InputNext]_inputVars

-----------------------------------------------------------------------------
(* A window that sFocusedWindow names is not destroyed, is the focus of    *)
(* its BWindow and knows it; so is each that has current_focus set.        *)
FocusIsFocus ==
  /\ focused # None => focused \in currentFocus
  /\ \A w \in currentFocus : focusView[Top[w]] = w /\ Top[w] \in isActive

(* Once the loopers have handled what they were told, no other window has  *)
(* the focus than the focus of the active BWindow, in whatever order they  *)
(* ran; the word itself may be null then.                                  *)
Settled == \A t \in Tops : messages[t] = <<>>

FocusSettles ==
  Settled => /\ focused \in {None} \cup currentFocus
             /\ \A w \in currentFocus : Top[w] = active

(* Then too sPointerWindow is the window the pointer is in, or null, or    *)
(* one that was destroyed while the pointer was in it.                     *)
PointerSettles == Settled => pointer \in {None, over} \cup (Windows \ live)

(* Once the loopers have caught up, the words name what Haiku says.        *)
WordsSettle == FocusSettles /\ PointerSettles

(* The window that grabbed the pointer is not destroyed.                   *)
GrabLives == grab # None => grab \in live

(* A window has, while it has not grabbed the pointer, the mask it last    *)
(* selected at such a time; and while it has, keeps that mask for later.   *)
MaskIsGivenBack ==
  \A w \in live :
    IF grab # w THEN mask[w] = selected[w]
    ELSE call.at # "mask" => priorMask[w] = selected[w]

=============================================================================
