------------------------------- MODULE Windows -------------------------------
(***************************************************************************)
(* The registry of windows, the tree they form, and what is mapped         *)
(* (xlib/Drawables.cpp, xlib/Window.cpp).                                  *)
(*                                                                         *)
(* An X window is a Haiku view.  A top-level one is the only view of a     *)
(* BWindow of its own, any other is a child of its parent's view, and the  *)
(* order of the children, lowest first, is the stacking order.  A BWindow  *)
(* is hidden or shown; a view counts how often it was hidden.              *)
(*                                                                         *)
(* Each action is a call, made by the one thread that manages windows, or  *)
(* the hook the looper runs when the user closes a window.  sent holds the *)
(* events the last of them queued.                                         *)
(***************************************************************************)
EXTENDS Integers, Sequences, SequencesExt

CONSTANTS
  MaxWindows,    \* bound: how many windows are created
  MaxHides,      \* bound: how often a view is hidden without being shown
  MaxDetailed,   \* bound: with more windows than this, none selects events and
                 \* none is hidden twice
  Masks,         \* the event masks windows have
  None           \* no window, or the root window, which is not in the registry

Selectable == {"StructureNotify", "SubstructureNotify", "VisibilityChange"}
Ids == 1 .. MaxWindows

ASSUME BoundsAssumption ==
  MaxWindows \in Nat /\ MaxDetailed \in Nat /\ MaxHides \in Nat \ {0}
ASSUME MasksAssumption == Masks \subseteq SUBSET Selectable /\ {} \in Masks
ASSUME NoneAssumption == None \notin Ids

VARIABLES
  last,          \* Drawables::last, counted from 0: the newest id
  drawables,     \* the ids in the registry
  parent,        \* the parent view of each window
  children,      \* its child views, lowest first
  hides,         \* how often its view is hidden
  bwindow,       \* its BWindow: none, hidden or shown
  mask,          \* its event mask
  sent           \* the events queued by the last call

vars == <<last, drawables, parent, children, hides, bwindow, mask, sent>>
tree == <<drawables, parent, children>>
shown == <<hides, bwindow>>

-----------------------------------------------------------------------------
TypeOK ==
  /\ last \in 0 .. MaxWindows
  /\ drawables \subseteq 1 .. last
  /\ parent \in [Ids -> drawables \cup {None}]
  /\ children \in [Ids -> Seq(drawables)]
  /\ hides \in [Ids -> 0 .. MaxHides]
  /\ bwindow \in [Ids -> {"none", "hidden", "shown"}]
  /\ mask \in [Ids -> Masks]
  /\ \A w \in Ids \ drawables :
       /\ parent[w] = None /\ children[w] = <<>> /\ bwindow[w] = "none"
       /\ hides[w] = 0 /\ mask[w] = {}

Init ==
  /\ last = 0
  /\ drawables = {}
  /\ parent = [w \in Ids |-> None]
  /\ children = [w \in Ids |-> <<>>]
  /\ hides = [w \in Ids |-> 0]
  /\ bwindow = [w \in Ids |-> "none"]
  /\ mask = [w \in Ids |-> {}]
  /\ sent = <<>>

-----------------------------------------------------------------------------
(* Views that are closed under going to a child, and those below w: w and  *)
(* all its descendants.                                                    *)
Closed(S) == \A x \in drawables : parent[x] \in S => x \in S
Below(w) == {x \in drawables : \A S \in SUBSET drawables : w \in S /\ Closed(S) => x \in S}

(* BView::IsHidden(): hidden itself, or what it is in is.                  *)
Hidden[w \in Ids] ==
  \/ hides[w] > 0
  \/ IF parent[w] = None THEN bwindow[w] # "shown" ELSE Hidden[parent[w]]

(* RemoveSelf, and AddChild: at the end, or before another child.          *)
Without(s, w) == IF Contains(s, w) THEN RemoveAt(s, CHOOSE i \in DOMAIN s : s[i] = w) ELSE s
Before(s, w, x) == InsertAt(s, CHOOSE i \in DOMAIN s : s[i] = x, w)
Detached(w) == IF parent[w] = None THEN children
               ELSE [children EXCEPT ![parent[w]] = Without(@, w)]

-----------------------------------------------------------------------------
Event(type, receiver, w) == [type |-> type, event |-> receiver, window |-> w]

(* A notification about w goes to w if it selected its own, or else to its *)
(* parent if that selected its children's.                                 *)
Notify(type, w) ==
  IF "StructureNotify" \in mask[w] THEN <<Event(type, w, w)>>
  ELSE IF parent[w] # None /\ "SubstructureNotify" \in mask[parent[w]]
  THEN <<Event(type, parent[w], w)>>
  ELSE <<>>

(* XWindow::visibility(was) after a call, was being what w was before it:  *)
(* told to w and those below it that differ from was, down to the first    *)
(* that does not.  Of the visibility states only hidden and not hidden are *)
(* told apart: stacking and activation do not change within a call.        *)
VisibilityOf(x) == IF "VisibilityChange" \in mask[x]
                   THEN <<Event("VisibilityNotify", x, x)>> ELSE <<>>
(* Mutant: the windows below w are not told.                               *)
VisibilityOfOne(w, was) == IF Hidden[w]' = was THEN <<>> ELSE VisibilityOf(w)

Visibility(w, was) ==
  LET told[x \in Ids] ==
        IF Hidden[x]' = was THEN <<>>
        ELSE VisibilityOf(x) \o FlattenSeq([i \in DOMAIN children[x] |-> told[children[x][i]]])
  IN  told[w]

-----------------------------------------------------------------------------
(* XCreateWindow, with the event mask its attributes give.                 *)
XCreateWindow(p, m) ==
  LET w == last + 1 IN
  /\ last < MaxWindows
  /\ w > MaxDetailed => m = {} /\ \A x \in drawables : mask[x] = {}
  /\ last' = w
  /\ drawables' = drawables \cup {w}
  /\ parent' = [parent EXCEPT ![w] = p]
  /\ mask' = [mask EXCEPT ![w] = m]
  /\ \/ /\ p = None
        /\ bwindow' = [bwindow EXCEPT ![w] = "hidden"]
        /\ UNCHANGED <<children, hides>>
        /\ sent' = <<>>
     \/ /\ p \in drawables
        /\ children' = [children EXCEPT ![p] = Append(@, w)]
        /\ hides' = [hides EXCEPT ![w] = 1]
        /\ UNCHANGED bwindow
        /\ sent' = IF "SubstructureNotify" \in mask[p]
                   THEN <<Event("CreateNotify", p, w)>> ELSE <<>>

(* The order windows are deleted in: a destructor deletes the children,    *)
(* lowest first, before it sends its own DestroyNotify.                    *)
Deleted[w \in Ids] ==
  FlattenSeq([i \in DOMAIN children[w] |-> Deleted[children[w][i]]]) \o <<w>>

(* What is left when the windows in S are deleted.                         *)
Delete(S) ==
  /\ drawables' = drawables \ S
  /\ parent' = [x \in Ids |-> IF x \in S THEN None ELSE parent[x]]
  /\ hides' = [x \in Ids |-> IF x \in S THEN 0 ELSE hides[x]]
  /\ bwindow' = [x \in Ids |-> IF x \in S THEN "none" ELSE bwindow[x]]
  /\ mask' = [x \in Ids |-> IF x \in S THEN {} ELSE mask[x]]
  /\ UNCHANGED last

(* Mutant: a window's own DestroyNotify before those of its children.      *)
DestroyNotifiesTopDown(w) ==
  LET order == Reverse(Deleted[w])
  IN  FlattenSeq([i \in DOMAIN order |-> Notify("DestroyNotify", order[i])])

DestroyNotifies(w) ==
  FlattenSeq([i \in DOMAIN Deleted[w] |-> Notify("DestroyNotify", Deleted[w][i])])

XDestroyWindow(w) ==
  LET S == Below(w) IN
  /\ Delete(S)
  /\ children' = [x \in Ids |-> IF x \in S THEN <<>> ELSE Detached(w)[x]]
  /\ sent' = DestroyNotifies(w)

XDestroySubwindows(w) ==
  LET S == Below(w) \ {w} IN
  /\ S # {}
  /\ Delete(S)
  /\ children' = [x \in Ids |-> IF x \in Below(w) THEN <<>> ELSE children[x]]
  /\ sent' = FlattenSeq([i \in DOMAIN children[w] |-> DestroyNotifies(children[w][i])])

-----------------------------------------------------------------------------
(* Showing or hiding each window of S if it is not so: the BWindow if it   *)
(* has one, or else the view, by one.                                      *)
Show(S) ==
  /\ bwindow' = [x \in Ids |-> IF x \in S /\ bwindow[x] # "none" THEN "shown" ELSE bwindow[x]]
  /\ hides' = [x \in Ids |-> IF x \in S /\ bwindow[x] = "none" /\ hides[x] > 0
                             THEN hides[x] - 1 ELSE hides[x]]

Hide(S) ==
  /\ bwindow' = [x \in Ids |-> IF x \in S /\ bwindow[x] # "none" THEN "hidden" ELSE bwindow[x]]
  /\ hides' = [x \in Ids |-> IF x \in S /\ bwindow[x] = "none" /\ hides[x] = 0
                             THEN 1 ELSE hides[x]]

XMapWindow(w) ==
  /\ Show({w})
  /\ UNCHANGED <<last, tree, mask>>
  /\ sent' = Notify("MapNotify", w) \o Visibility(w, Hidden[w])

XUnmapWindow(w) ==
  /\ Hide({w})
  /\ UNCHANGED <<last, tree, mask>>
  /\ sent' = Notify("UnmapNotify", w) \o Visibility(w, Hidden[w])

(* The children, highest first, and lowest first.                          *)
XMapSubwindows(w) ==
  LET order == Reverse(children[w]) IN
  /\ order # <<>>
  /\ Show(ToSet(order))
  /\ UNCHANGED <<last, tree, mask>>
  /\ sent' = FlattenSeq([i \in DOMAIN order |->
               Notify("MapNotify", order[i]) \o Visibility(order[i], Hidden[order[i]])])

XUnmapSubwindows(w) ==
  LET order == children[w] IN
  /\ order # <<>>
  /\ Hide(ToSet(order))
  /\ UNCHANGED <<last, tree, mask>>
  /\ sent' = FlattenSeq([i \in DOMAIN order |->
               Notify("UnmapNotify", order[i]) \o Visibility(order[i], Hidden[order[i]])])

-----------------------------------------------------------------------------
(* XConfigureWindow with a stacking mode, for a window that is a child.    *)
(* sibling is None or another child of its parent: X calls anything else   *)
(* BadMatch, and Haiku stops in the debugger.                              *)
Siblings(w) == ToSet(children[parent[w]]) \ {w}

(* Mutant: above a sibling puts the window on top.                         *)
RestackedOnTop(w, sibling, mode) ==
  LET others == Without(children[parent[w]], w)
  IN  IF mode = "Above" THEN Append(others, w)
      ELSE IF sibling = None THEN <<w>> \o others ELSE Before(others, w, sibling)

Restacked(w, sibling, mode) ==
  LET others == Without(children[parent[w]], w)
      next == CHOOSE i \in DOMAIN others : others[i] = sibling
  IN  IF mode = "Above"
      THEN IF sibling = None THEN Append(others, w) ELSE InsertAt(others, next + 1, w)
      ELSE IF sibling = None THEN <<w>> \o others ELSE Before(others, w, sibling)

Restack(w, sibling, mode) ==
  /\ parent[w] # None
  /\ sibling \in Siblings(w) \cup {None}
  /\ UNCHANGED <<last, drawables, parent, shown, mask>>
  /\ sent' = <<>>
  /\ children' = [children EXCEPT ![parent[w]] = Restacked(w, sibling, mode)]

(* XMapRaised: XMapWindow, then to the top.                                *)
XMapRaised(w) ==
  /\ Show({w})
  /\ UNCHANGED <<last, drawables, parent, mask>>
  /\ sent' = Notify("MapNotify", w) \o Visibility(w, Hidden[w])
  /\ children' = IF parent[w] = None THEN children
                 ELSE [children EXCEPT ![parent[w]] = Restacked(w, None, "Above")]

-----------------------------------------------------------------------------
(* XReparentWindow.  p is not below w: X calls that BadMatch, and here it  *)
(* would close a circle of views.                                          *)
ReparentNotify(w, p) ==
  LET to == IF "StructureNotify" \in mask[w] THEN {w}
            ELSE IF parent[w] # None /\ "SubstructureNotify" \in mask[parent[w]] THEN {parent[w]}
            ELSE IF p # None /\ "SubstructureNotify" \in mask[p] THEN {p}
            ELSE {}
  IN  SetToSeq({Event("ReparentNotify", r, w) : r \in to})

(* The MapNotify of the XMapWindow at its end, from the new parent.        *)
Remap(w, p) ==
  IF "StructureNotify" \in mask[w] THEN <<Event("MapNotify", w, w)>>
  ELSE IF p # None /\ "SubstructureNotify" \in mask[p] THEN <<Event("MapNotify", p, w)>>
  ELSE <<>>

(* A top-level window stays so, and is only moved.                         *)
ReparentNowhere(w) ==
  /\ parent[w] = None
  /\ sent' = <<>>
  /\ UNCHANGED <<last, tree, shown, mask>>

(* Mutant: a child gets no BWindow.                                       *)
ReparentToRootBare(w) ==
  /\ parent[w] # None
  /\ children' = Detached(w)
  /\ parent' = [parent EXCEPT ![w] = None]
  /\ sent' = ReparentNotify(w, None)
  /\ UNCHANGED <<last, drawables, shown, mask>>

(* A child gets a BWindow of its own, hidden unless it is mapped again.    *)
ReparentToRoot(w) ==
  /\ parent[w] # None
  /\ children' = Detached(w)
  /\ parent' = [parent EXCEPT ![w] = None]
  /\ bwindow' = [bwindow EXCEPT ![w] = IF Hidden[w] THEN "hidden" ELSE "shown"]
  /\ UNCHANGED <<last, drawables, hides, mask>>
  /\ sent' = ReparentNotify(w, None) \o
             IF Hidden[w] THEN <<>> ELSE Remap(w, None) \o Visibility(w, TRUE)

(* The bounds: whether a view may be hidden once more.                     *)
MayHide(w) == hides[w] < IF last > MaxDetailed THEN 1 ELSE MaxHides

(* Mutants: it keeps its BWindow; it is not mapped again.                  *)
ReparentToKeepsBWindow(w, p) ==
  /\ parent[w] # p
  /\ Hidden[w] => MayHide(w)
  /\ children' = [Detached(w) EXCEPT ![p] = Append(@, w)]
  /\ parent' = [parent EXCEPT ![w] = p]
  /\ hides' = [hides EXCEPT ![w] = IF Hidden[w] THEN @ + 1 ELSE @]
  /\ UNCHANGED <<last, drawables, bwindow, mask>>
  /\ sent' = ReparentNotify(w, p)

ReparentToUnmapped(w, p) ==
  /\ parent[w] # p
  /\ MayHide(w)
  /\ children' = [Detached(w) EXCEPT ![p] = Append(@, w)]
  /\ parent' = [parent EXCEPT ![w] = p]
  /\ bwindow' = [bwindow EXCEPT ![w] = "none"]
  /\ hides' = [hides EXCEPT ![w] = @ + 1]
  /\ UNCHANGED <<last, drawables, mask>>
  /\ sent' = ReparentNotify(w, p)

(* To another parent: the BWindow it had goes, and the view is hidden once *)
(* more unless it is mapped again.                                         *)
ReparentTo(w, p) ==
  /\ parent[w] # p
  /\ Hidden[w] => MayHide(w)
  /\ children' = [Detached(w) EXCEPT ![p] = Append(@, w)]
  /\ parent' = [parent EXCEPT ![w] = p]
  /\ bwindow' = [bwindow EXCEPT ![w] = "none"]
  /\ hides' = [hides EXCEPT ![w] = IF Hidden[w] THEN @ + 1 ELSE @]
  /\ UNCHANGED <<last, drawables, mask>>
  /\ sent' = ReparentNotify(w, p) \o
             IF Hidden[w] THEN <<>> ELSE Remap(w, p) \o Visibility(w, TRUE)

(* To the parent it has: told, and mapped again if it is.                  *)
ReparentToSame(w) ==
  /\ parent[w] # None
  /\ sent' = ReparentNotify(w, parent[w]) \o
             IF Hidden[w] THEN <<>> ELSE Remap(w, parent[w])
  /\ UNCHANGED <<last, tree, shown, mask>>

XReparentWindow(w, p) ==
  \/ p = None /\ (ReparentNowhere(w) \/ ReparentToRoot(w))
  \/ p \in drawables \ Below(w) /\ (ReparentTo(w, p) \/ (parent[w] = p /\ ReparentToSame(w)))

-----------------------------------------------------------------------------
XSelectInput(w, m) ==
  /\ last > MaxDetailed => m = {}
  /\ mask' = [mask EXCEPT ![w] = m]
  /\ sent' = <<>>
  /\ UNCHANGED <<last, tree, shown>>

(* RootWindow::QuitRequested, when the user closes a window: the client is *)
(* asked to if WM_DELETE_WINDOW is among the protocols it set, which is    *)
(* left open; or else the window hides, and nobody is told.                *)
QuitRequested(w) ==
  /\ bwindow[w] = "shown"
  /\ \/ /\ sent' = <<Event("ClientMessage", w, w)>>
        /\ UNCHANGED bwindow
     \/ /\ sent' = <<>>
        /\ bwindow' = [bwindow EXCEPT ![w] = "hidden"]
  /\ UNCHANGED <<last, tree, hides, mask>>

Next ==
  \/ \E p \in drawables \cup {None}, m \in Masks : XCreateWindow(p, m)
  \/ \E w \in drawables :
       \/ XDestroyWindow(w)
       \/ XDestroySubwindows(w)
       \/ XMapWindow(w)
       \/ XUnmapWindow(w)
       \/ XMapSubwindows(w)
       \/ XUnmapSubwindows(w)
       \/ XMapRaised(w)
       \/ \E p \in drawables \cup {None} : XReparentWindow(w, p)
       \/ \E x \in drawables \cup {None}, mode \in {"Above", "Below"} : Restack(w, x, mode)
       \/ \E m \in Masks : XSelectInput(w, m)
       \/ QuitRequested(w)

Spec == Init /\ [][Next]_vars

-----------------------------------------------------------------------------
(* Parents and children agree, a window is in the list of one parent and   *)
(* once, and has a BWindow exactly if it has no parent.  The code relies   *)
(* on it: XConfigureWindow uses Parent() of a window without a BWindow.    *)
ParentsAgree == \A p, w \in drawables : parent[w] = p <=> Contains(children[p], w)
ListedOnce == \A p \in drawables : IsInjective(children[p])
BWindowOrParent == \A w \in drawables : bwindow[w] = "none" <=> parent[w] # None

TreeOK == ParentsAgree /\ ListedOnce /\ BWindowOrParent

(* Every window is in some BWindow, its own or an ancestor's: XGrabPointer *)
(* uses Window() of any window there is, and destruction ends.             *)
InSomeBWindow ==
  \A w \in drawables : \E r \in drawables : bwindow[r] # "none" /\ w \in Below(r)

(* Destruction is told to every window that selected its own, once, after  *)
(* those below it, and nobody below a destroyed window is left.            *)
DestroyIsTold ==
  [][LET gone == drawables \ drawables'
         told == {i \in DOMAIN sent' : sent'[i].type = "DestroyNotify"}
     IN  /\ \A w \in gone : "StructureNotify" \in mask[w] =>
              \E i \in told : sent'[i] = Event("DestroyNotify", w, w)
         /\ \A i, j \in told : i < j =>
              sent'[j].window \notin Below(sent'[i].window)
         /\ \A w \in gone : Below(w) \subseteq gone]_vars

(* Mapping and unmapping, one window or all of a window's children, tells  *)
(* each window whose visibility they change, once, if it asked.            *)
VisibilityIsTold ==
  [][(\E w \in drawables : \/ XMapWindow(w) \/ XUnmapWindow(w) \/ XMapRaised(w)
                           \/ XMapSubwindows(w) \/ XUnmapSubwindows(w)) =>
       \A w \in drawables :
         Hidden[w]' # Hidden[w] /\ "VisibilityChange" \in mask[w] =>
           \E i \in DOMAIN sent' :
             /\ sent'[i] = Event("VisibilityNotify", w, w)
             /\ \A j \in DOMAIN sent' : sent'[j] = sent'[i] => j = i]_vars

(* A window that is viewable is viewable after it is reparented to the     *)
(* root or to a viewable parent, and so is what is below it: XReparent-    *)
(* Window maps again what it unmapped.                                     *)
ReparentKeepsMapped ==
  [][\A w \in drawables, p \in drawables \cup {None} :
       parent'[w] = p /\ ~Hidden[w] /\ (p = None \/ ~Hidden[p]) /\ XReparentWindow(w, p) =>
         \A x \in Below(w) : Hidden[x]' = Hidden[x]]_vars

(* Restacking puts a window right above or below the sibling, or without   *)
(* one above or below all others, and keeps the order of the others; so    *)
(* does mapping it raised.                                                 *)
IsMoved(w, x, mode) ==
  LET s == children[parent[w]]
      t == children'[parent[w]]
      at(q, y) == CHOOSE i \in DOMAIN q : q[i] = y
  IN  /\ ToSet(t) = ToSet(s) /\ Len(t) = Len(s)
      /\ at(t, w) = IF x = None THEN IF mode = "Above" THEN Len(t) ELSE 1
                    ELSE IF mode = "Above" THEN at(t, x) + 1 ELSE at(t, x) - 1
      /\ \A y, z \in ToSet(s) \ {w} : at(s, y) < at(s, z) => at(t, y) < at(t, z)

RestackMovesOne ==
  [][\A w \in drawables : parent[w] # None /\ UNCHANGED <<drawables, parent, mask>> =>
       /\ \A x \in Siblings(w) \cup {None}, mode \in {"Above", "Below"} :
            Restack(w, x, mode) => IsMoved(w, x, mode)
       /\ XMapRaised(w) => IsMoved(w, None, "Above")]_vars
=============================================================================
