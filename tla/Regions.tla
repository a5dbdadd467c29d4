------------------------------ MODULE Regions ------------------------------
(***************************************************************************)
(* Regions (xlib/Region.cpp): a BRegion is a set of points.                *)
(***************************************************************************)
EXTENDS Integers, FiniteSets, FiniteSetsExt

CONSTANTS RegionNames,  \* the regions of a program
          Wide, High    \* bounds of the coordinates

ASSUME GridAssumption == Wide \in Nat /\ High \in Nat

VARIABLES regions,      \* the points of each region
          ideal,        \* history: what the operations are for
          aliased       \* history: an operation whose result was its second source

regionVars == <<regions, ideal, aliased>>

Points == (0 .. Wide - 1) \X (0 .. High - 1)
Rects == [x : 0 .. Wide - 1, y : 0 .. High - 1, width : 1 .. Wide, height : 1 .. High]
PointsOf(r) == (r.x .. r.x + r.width - 1) \X (r.y .. r.y + r.height - 1)

Ops == {"union", "subtract", "intersect", "xor"}
Of(op, a, b) ==
  CASE op = "union" -> a \cup b
    [] op = "subtract" -> a \ b
    [] op = "intersect" -> a \cap b
    [] op = "xor" -> (a \ b) \cup (b \ a)

(* BRegion::Frame, of a region that is not empty.                          *)
Frame(points) ==
  LET xs == {p[1] : p \in points}  ys == {p[2] : p \in points}
      Least(s) == CHOOSE m \in s : \A n \in s : m <= n
      Most(s) == CHOOSE m \in s : \A n \in s : m >= n
  IN [x |-> Least(xs), y |-> Least(ys),
      width |-> Most(xs) - Least(xs) + 1, height |-> Most(ys) - Least(ys) + 1]

(* Mutant: the sources are taken in the other order.                       *)
CombineOther(op, a, b, res) ==
  LET second == IF a = res THEN regions[b] ELSE regions[a]
  IN /\ regions' = [regions EXCEPT ![res] = Of(op, regions[b], second)]
     /\ ideal' = [ideal EXCEPT ![res] = Of(op, ideal[a], ideal[b])]
     /\ aliased' = (aliased \/ (b = res /\ a # b))

(* The result is assigned the first source, then combined with the second, *)
(* which is the first by then if it is the result.                         *)
Combine(op, a, b, res) ==
  LET second == IF b = res THEN regions[a] ELSE regions[b]
  IN /\ regions' = [regions EXCEPT ![res] = Of(op, regions[a], second)]
     /\ ideal' = [ideal EXCEPT ![res] = Of(op, ideal[a], ideal[b])]
     /\ aliased' = (aliased \/ (b = res /\ a # b))

XUnionRectWithRegion(rect, src, res) ==
  /\ PointsOf(rect) \subseteq Points
  /\ regions' = [regions EXCEPT ![res] = regions[src] \cup PointsOf(rect)]
  /\ ideal' = [ideal EXCEPT ![res] = ideal[src] \cup PointsOf(rect)]
  /\ UNCHANGED aliased

Offset(points, dx, dy) == {<<p[1] + dx, p[2] + dy>> : p \in points}
XOffsetRegion(r, dx, dy) ==
  /\ Offset(regions[r], dx, dy) \subseteq Points
  /\ regions' = [regions EXCEPT ![r] = Offset(@, dx, dy)]
  /\ ideal' = [ideal EXCEPT ![r] = Offset(@, dx, dy)]
  /\ UNCHANGED aliased

XEmptyRegion(r) == regions[r] = {}
XEqualRegion(a, b) == regions[a] = regions[b]
XPointInRegion(r, p) == p \in regions[r]
XClipBox(r) == Frame(regions[r])
XRectInRegion(r, rect) ==
  LET common == PointsOf(rect) \cap regions[r]
      large == Frame(common).width > 1 /\ Frame(common).height > 1
  IN IF common = {} THEN "RectangleOut"
     ELSE IF large THEN "RectangleIn" ELSE "RectanglePart"

RegionsInit ==
  /\ regions = [r \in RegionNames |-> {}]
  /\ ideal = regions
  /\ aliased = FALSE

RegionsNext ==      \* nothing is said of what follows a wrong result
  /\ ~aliased
  /\ \/ \E op \in Ops, a, b, res \in RegionNames : Combine(op, a, b, res)
     \/ \E rect \in Rects, src, res \in RegionNames : XUnionRectWithRegion(rect, src, res)
     \/ \E r \in RegionNames, dx, dy \in {-1, 0, 1} : XOffsetRegion(r, dx, dy)

RegionsSpec == RegionsInit /\ [][RegionsNext]_regionVars

-----------------------------------------------------------------------------
(* The regions are what set algebra makes of them, and what is asked of     *)
(* them agrees with that: XClipBox is the least rectangle around a region,  *)
(* XRectInRegion says "out" just of rectangles that do not meet it and      *)
(* "part" of none that lies within it and is larger than a line.  If the    *)
(* result of an operation is its second source, its result is wrong.        *)
RegionsAreSets == ~aliased =>
  /\ regions = ideal
  /\ \A r \in RegionNames, rect \in Rects :
       LET answer == XRectInRegion(r, rect)
       IN /\ (answer = "RectangleOut") <=> PointsOf(rect) \cap ideal[r] = {}
          /\ PointsOf(rect) \subseteq ideal[r] /\ rect.width > 1 /\ rect.height > 1 =>
               answer = "RectangleIn"
  /\ \A r \in RegionNames : ~XEmptyRegion(r) =>
       /\ regions[r] \subseteq PointsOf(XClipBox(r))
       /\ \A rect \in Rects : ideal[r] \subseteq PointsOf(rect) =>
            PointsOf(XClipBox(r)) \subseteq PointsOf(rect)
=============================================================================
