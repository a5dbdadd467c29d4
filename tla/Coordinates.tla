----------------------------- MODULE Coordinates -----------------------------
(***************************************************************************)
(* Where windows are (xlib/Window.cpp, xlib/Drawables.cpp): a tree of      *)
(* windows without borders, each at a point of its parent.  Windows are    *)
(* numbers from 1, in the order of their stacking and above their parents; *)
(* 0 is the root window, which has no view, and the parent of the windows  *)
(* that have a BWindow.                                                    *)
(***************************************************************************)
EXTENDS Integers, Sequences, FiniteSets, SequencesExt

CONSTANTS Trees,      \* functions from windows to [parent, x, y, width, height, hidden]
          Pointers_   \* points <<x, y>>: where the pointer is, and what is converted

ASSUME TreesAssumption ==
  /\ \A t \in Trees :
       /\ t \in Seq([parent : Nat, x : Int, y : Int, width : Nat, height : Nat, hidden : BOOLEAN])
       /\ \A w \in DOMAIN t : t[w].parent < w
  /\ Pointers_ \subseteq Int \X Int

ChildrenOf(t, w) == {c \in DOMAIN t : t[c].parent = w}
Children(t, w) ==
  CHOOSE s \in [1 .. Cardinality(ChildrenOf(t, w)) -> ChildrenOf(t, w)] :
    \A i, j \in DOMAIN s : i < j => s[i] < s[j]

(* BView::Frame: a view that is a BWindow's is at its origin.              *)
ViewAt(t, w) == IF t[w].parent = 0 THEN <<0, 0>> ELSE <<t[w].x, t[w].y>>
InFrame(t, w, p) ==
  \A i \in 1 .. 2 : p[i] \in ViewAt(t, w)[i] .. ViewAt(t, w)[i] + <<t[w].width, t[w].height>>[i] - 1

Origin(t, w) ==
  LET origin[v \in 0 .. Len(t)] ==
        IF v = 0 THEN <<0, 0>>
        ELSE <<origin[t[v].parent][1] + t[v].x, origin[t[v].parent][2] + t[v].y>>
  IN origin[w]
ConvertToScreen(t, w, p) == <<p[1] + Origin(t, w)[1], p[2] + Origin(t, w)[2]>>
ConvertFromScreen(t, w, p) ==
  <<p[1] - Origin(t, w)[1], p[2] - Origin(t, w)[2]>>

(* XDrawable::contains: the last view, of the window and those below it,   *)
(* whose frame has the point, which is taken as it is in every frame.      *)
Under(t, w, p) ==
  LET under[v \in DOMAIN t] ==
        LET hit == {c \in ChildrenOf(t, v) : under[c] # 0}
        IN  IF hit # {} THEN under[Max(hit)] ELSE IF InFrame(t, v, p) THEN v ELSE 0
  IN under[w]

XTranslateCoordinates(t, src, dest, p) ==
  LET q == ConvertFromScreen(t, dest, ConvertToScreen(t, src, p))
  IN  [at |-> q, child |-> IF dest = 0 THEN 0 ELSE Under(t, dest, q)]

(* XQueryPointer, with the pointer at this point of the screen: what is    *)
(* left of a window or above it is as far right or below.  Of the root the *)
(* child is the window of sPointerWindow, or 0.                            *)
Abs(n) == IF n < 0 THEN -n ELSE n
XQueryPointer(t, w, p, pointer) ==
  LET q == ConvertFromScreen(t, w, p)
      child == IF w = 0 THEN pointer ELSE Under(t, w, q)
  IN  [root |-> <<Abs(p[1]), Abs(p[2])>>, win |-> <<Abs(q[1]), Abs(q[2])>>,
       child |-> IF w # 0 /\ child = w THEN 0 ELSE child]

(* XQueryTree: the root is not a window here.                              *)
XQueryTree(t, w) ==
  IF w = 0 THEN [status |-> "BadWindow", children |-> <<>>]
  ELSE [status |-> "Success", parent |-> t[w].parent, children |-> Children(t, w)]

(* XGetWindowAttributes and XGetGeometry.                                  *)
IsHidden(t, w) ==
  LET hidden[v \in 0 .. Len(t)] == v # 0 /\ (t[v].hidden \/ hidden[t[v].parent])
  IN hidden[w]
XGetWindowAttributes(t, w) ==
  IF w = 0 THEN [x |-> 0, y |-> 0, map_state |-> "IsViewable"]
  ELSE [x |-> t[w].x, y |-> t[w].y,
        map_state |-> IF t[w].hidden THEN "IsUnmapped"
                      ELSE IF t[w].parent # 0 /\ IsHidden(t, w) THEN "IsUnviewable" ELSE "IsViewable"]

-----------------------------------------------------------------------------
(* What is asked of the windows agrees: a point that is converted comes    *)
(* back, and is where the attributes and the trees of the windows above    *)
(* say; the pointer is in the child that has it, of a BWindow whose        *)
(* windows have none below them, and right of and below its corner; and a  *)
(* window is viewable if and only if those above are, and it is mapped.    *)
WindowsAgree ==
  \A t \in Trees :
    /\ \A w \in DOMAIN t, p \in Pointers_ :
         LET tree == XQueryTree(t, w)
             above == XGetWindowAttributes(t, tree.parent).map_state
         IN  /\ \A v \in DOMAIN t \cup {0} :
                  XTranslateCoordinates(t, v, w, XTranslateCoordinates(t, w, v, p).at).at = p
             /\ XTranslateCoordinates(t, w, tree.parent, p).at
                  = <<p[1] + XGetWindowAttributes(t, w).x, p[2] + XGetWindowAttributes(t, w).y>>
             /\ tree.parent # 0 => w \in ToSet(XQueryTree(t, tree.parent).children)
             /\ (XGetWindowAttributes(t, w).map_state = "IsViewable")
                  = (~t[w].hidden /\ above = "IsViewable")
             /\ LET q == ConvertFromScreen(t, w, p)
                    pointer == XQueryPointer(t, w, p, 0)
                    under == {c \in ToSet(tree.children) : InFrame(t, c, q)}
                IN  tree.parent = 0 /\ q[1] >= 0 /\ q[2] >= 0 =>
                      /\ pointer.win = q
                      /\ (\A c \in ToSet(tree.children) : XQueryTree(t, c).children = <<>>) =>
                           pointer.child = IF under = {} THEN 0 ELSE CHOOSE c \in under : \A d \in under : d <= c
==============================================================================
