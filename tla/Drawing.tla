------------------------------- MODULE Drawing -------------------------------
(***************************************************************************)
(* What is drawn (xlib/Drawing.cpp): the coordinates that are handed to    *)
(* the BView, the exposures that a copy leads to, and the bitmap that      *)
(* images go through.  A BRect is [left, top, right, bottom], the edges    *)
(* included; an XRectangle is [x, y, width, height], 16 bits each.         *)
(***************************************************************************)
EXTENDS Integers, Sequences, FiniteSets, SequencesExt

CONSTANTS
  PointLists,   \* sequences of points <<x, y>>
  CopyRects,    \* where it is copied to
  ViewSize,     \* the size of the view: square
  PutSizes      \* bound: widths and heights of images

ASSUME PutSizesAssumption == PutSizes \subseteq Nat \ {0}

(* What XPoint and XRectangle hold.  The rectangles that are copied to and *)
(* exposed lie within sixteen bits as a whole, and also when a border of   *)
(* up to two is taken off.                                                 *)
Coordinate == -(2 ^ 15) .. 2 ^ 15 - 1
ASSUME DrawingAssumption ==
  /\ PointLists \subseteq Seq(Coordinate \X Coordinate)
  /\ ViewSize \in Nat
  /\ \A r \in CopyRects :
       /\ r \in [x : Coordinate, y : Coordinate, width : 1 .. 2 ^ 16 - 1, height : 1 .. 2 ^ 16 - 1]
       /\ {r.x - 2, r.y - 2, r.x + r.width - 1, r.y + r.height - 1} \subseteq Coordinate

VARIABLES
  scratch,      \* scratch_bitmap->Bounds() of the drawable; -1 while there is none
  lastPut       \* history: of the last image put, the part that was asked for and
                \* the points of it that were not shown

drawingVars == <<scratch, lastPut>>

Short(n) == ((n + 2 ^ 15) % (2 ^ 16)) - 2 ^ 15
make_xrect(x, y, w, h) == [x |-> Short(x), y |-> Short(y), width |-> w % (2 ^ 16), height |-> h % (2 ^ 16)]
Brect(r) == [left |-> r.x, top |-> r.y, right |-> r.x + r.width - 1, bottom |-> r.y + r.height - 1]
Xrect(b) == make_xrect(b.left, b.top, b.right - b.left + 1, b.bottom - b.top + 1)
Inside(b) == (b.left .. b.right) \X (b.top .. b.bottom)

-----------------------------------------------------------------------------
(* Coordinates: each point is relative to the previous one, or all are to  *)
(* the origin.                                                             *)
Plus(p, q) == <<p[1] + q[1], p[2] + q[2]>>
Summed(points) ==
  LET sum[i \in DOMAIN points] == IF i = 1 THEN points[1] ELSE Plus(sum[i - 1], points[i])
  IN sum

XFillPolygon(points, mode) ==
  IF mode = "CoordModeOrigin" THEN points ELSE Summed(points)

(* XDrawPoints sums in sixteen bits.                                       *)
XDrawPoints(points, mode) ==
  IF mode = "CoordModeOrigin" THEN points
  ELSE [i \in DOMAIN points |-> <<Short(Summed(points)[i][1]), Short(Summed(points)[i][2])>>]

(* XDrawLines sums both ends of each line, so that points between lines    *)
(* are counted twice.                                                      *)
XDrawLines(points, mode) ==
  LET ends == [i \in 1 .. 2 * (Len(points) - 1) |-> points[(i \div 2) + 1]]
      at == IF mode = "CoordModeOrigin" THEN ends ELSE Summed(ends)
  IN  [i \in 1 .. Len(points) - 1 |-> <<at[2 * i - 1], at[2 * i]>>]

(* XDrawText: the delta of an item moves what is after it.                 *)
XDrawText(items) ==
  LET x[i \in DOMAIN items] ==
        IF i = 1 THEN 0 ELSE x[i - 1] + items[i - 1].width + items[i - 1].delta
  IN x

(* XFillRectangle, and with its outline XDrawRectangle: the rectangle is    *)
(* made of sixteen bits first.                                             *)
XFillRectangle(x, y, w, h) == Brect(make_xrect(x, y, w, h))

(* Xutf8DrawImageString: the background, from the ascent to the descent.   *)
Background(x, y, width, ascent, descent) == Brect(make_xrect(x, y - ascent, width, ascent + descent))

-----------------------------------------------------------------------------
(* XCopyArea: what there is to expose is the part of the destination that  *)
(* is not in the view.  A BRegion has rectangles that do not overlap: here *)
(* one for each run of points in a row, and in any order.                  *)
Bounds == [left |-> 0, top |-> 0, right |-> ViewSize - 1, bottom |-> ViewSize - 1]
RectsOf(points) ==
  LET starts == {p \in points : <<p[1] - 1, p[2]>> \notin points}
      Width(p) == CHOOSE n \in 1 .. Cardinality(points) :
                    /\ \A i \in 0 .. n - 1 : <<p[1] + i, p[2]>> \in points
                    /\ <<p[1] + n, p[2]>> \notin points
      runs == SetToSeq(starts)
  IN  [i \in DOMAIN runs |-> [left |-> runs[i][1], top |-> runs[i][2],
                              right |-> runs[i][1] + Width(runs[i]) - 1, bottom |-> runs[i][2]]]

Exposure(rects, i) == [type |-> "GraphicsExpose", count |-> i, area |-> Xrect(rects[i + 1])]

Exposures(rect) ==
  LET rects == RectsOf(Inside(Brect(rect)) \ Inside(Bounds))
  IN  IF rects = <<>> THEN <<[type |-> "NoExpose"]>>
      ELSE [n \in 1 .. Len(rects) |-> Exposure(rects, Len(rects) - n)]

(* Copied from the drawable itself, from a pixmap, or from another window; *)
(* it is to a drawable that has a view, or is gone.                        *)
XCopyArea(from, view, rect, graphics_exposures) ==
  IF from = "window" THEN [status |-> "BadValue", events |-> <<>>]
  ELSE IF ~view THEN [status |-> "BadDrawable", events |-> <<>>]
  ELSE [status |-> "Success", events |-> IF graphics_exposures THEN Exposures(rect) ELSE <<>>]

-----------------------------------------------------------------------------
(* XWindow::_Expose, from Draw for a window without children, and from     *)
(* DrawAfterChildren for one that draws over them.                         *)
Expose(rect, border, mask) ==
  LET translated == [left |-> rect.left - border, top |-> rect.top - border,
                     right |-> rect.right - border, bottom |-> rect.bottom - border]
  IN  IF "ExposureMask" \notin mask \/ rect.right < rect.left \/ rect.bottom < rect.top THEN <<>>
      ELSE <<[type |-> "Expose", count |-> 0, area |-> Xrect(translated)]>>
Draw(rect, border, mask, onChildren) == IF onChildren THEN <<>> ELSE Expose(rect, border, mask)
DrawAfterChildren(rect, border, mask, onChildren) ==
  IF onChildren THEN Expose(rect, border, mask) ELSE <<>>

-----------------------------------------------------------------------------
NoImage == [from |-> <<0, 0>>, size |-> [width |-> 0, height |-> 0], missing |-> {}]
DrawingInit == scratch = [width |-> -1, height |-> -1] /\ lastPut = NoImage

(* XPutImage of an image of this size, from this point of it: the scratch  *)
(* bitmap is made as large as the part that is put, but the image is read  *)
(* into it from its own corner, and the part is looked for at its place.   *)
Larger(a, b) == IF a < b THEN b ELSE a
Missing(image, from, size) ==
  {p \in (0 .. size.width - 1) \X (0 .. size.height - 1) :
     LET q == Plus(p, from)
     IN  \/ q[1] >= image.width \/ q[2] >= image.height
         \/ q[1] > scratch'.width \/ q[2] > scratch'.height}

(* Mutant: the bitmap is kept when it is large enough in one direction.    *)
XPutImageKept(image, from, size) ==
  /\ scratch' = IF scratch.width < size.width - 1 /\ scratch.height < size.height - 1
                THEN [width |-> Larger(scratch.width, size.width - 1),
                      height |-> Larger(scratch.height, size.height - 1)]
                ELSE scratch
  /\ lastPut' = [from |-> from, size |-> size, missing |-> Missing(image, from, size)]

XPutImage(image, from, size) ==
  /\ scratch' = IF scratch.width < size.width - 1 \/ scratch.height < size.height - 1
                THEN [width |-> Larger(scratch.width, size.width - 1),
                      height |-> Larger(scratch.height, size.height - 1)]
                ELSE scratch
  /\ lastPut' = [from |-> from, size |-> size, missing |-> Missing(image, from, size)]

Sizes_ == [width : PutSizes, height : PutSizes]
Offsets == (0 .. 1) \X (0 .. 1)
DrawingNext ==
  \E image, size \in Sizes_, from \in Offsets :
    /\ from[1] + size.width <= image.width /\ from[2] + size.height <= image.height
    /\ XPutImage(image, from, size)

DrawingSpec == DrawingInit /\ [][DrawingNext]_drawingVars

-----------------------------------------------------------------------------
(* An image put from its corner is shown whole, whatever images of other   *)
(* shapes were put before it: the bitmap they share has grown with them.   *)
(* Of a part that begins elsewhere in the image, no more columns and rows  *)
(* are missing than are left of it and above it in the image, and they are *)
(* the last ones (Drawing.cpp:401-415).                                    *)
ImagesAreShown ==
  \A p \in lastPut.missing :
    p[1] >= lastPut.size.width - lastPut.from[1] \/ p[2] >= lastPut.size.height - lastPut.from[2]

(* The coordinates are those of the points: where a point is relative to   *)
(* the one before it, a line's too while there is one line; of more, the   *)
(* points in between are counted twice, as LinesJoin finds.                *)
CoordinatesAreSummed ==
  \A l \in PointLists :
    LET at == [i \in DOMAIN l |->
                 FoldLeft(Plus, <<0, 0>>, SubSeq(l, 1, i))]
    IN  /\ XFillPolygon(l, "CoordModePrevious") = at
        /\ (\A p \in ToSet(at) : \A i \in 1 .. 2 : Short(p[i]) = p[i]) =>
             XDrawPoints(l, "CoordModePrevious") = at
        /\ Len(l) <= 2 => \A i \in 1 .. Len(l) - 1 :
             XDrawLines(l, "CoordModePrevious")[i] = <<at[i], at[i + 1]>>
        /\ \A i \in 1 .. Len(l) - 1 : XDrawLines(l, "CoordModeOrigin")[i] = <<l[i], l[i + 1]>>

(* Relative lines join each point to the next, however many there are.      *)
LinesJoin ==
  \A l \in PointLists :
    XDrawLines(l, "CoordModePrevious") = XDrawLines(Summed(l), "CoordModeOrigin")

(* A program that draws again what it is told of until the count is zero   *)
(* has drawn all of the destination that was not in the view, once.        *)
ExposuresCover ==
  \A r \in CopyRects :
    LET events == XCopyArea("itself", TRUE, r, TRUE).events
        Area(i) == Inside(Brect(events[i].area))
        outside == Inside(Brect(r)) \ Inside(Bounds)
    IN  IF events[1].type = "NoExpose" THEN outside = {}
        ELSE /\ UNION {Area(i) : i \in DOMAIN events} = outside
             /\ \A i, j \in DOMAIN events : i # j => Area(i) \cap Area(j) = {}
             /\ {i \in DOMAIN events : events[i].count = 0} = {Len(events)}

(* What the server asks to be drawn, in the view's coordinates, is exposed  *)
(* once, in the window's, whichever of the two hooks the flags choose; and  *)
(* a program that fills it in two parts has filled it, and no point twice.  *)
ExposedOnce ==
  \A r \in CopyRects, border \in 0 .. 2, on \in BOOLEAN, cut \in 1 .. 3 :
    LET events == Draw(Brect(r), border, {"ExposureMask"}, on)
                  \o DrawAfterChildren(Brect(r), border, {"ExposureMask"}, on)
        e == events[1].area
        left == Inside(XFillRectangle(e.x, e.y, cut, e.height))
        right == Inside(XFillRectangle(e.x + cut, e.y, e.width - cut, e.height))
    IN  /\ Len(events) = 1
        /\ {<<p[1] + border, p[2] + border>> : p \in Inside(Brect(e))} = Inside(Brect(r))
        /\ cut < e.width => left \cup right = Inside(Brect(e)) /\ left \cap right = {}

(* Two items are drawn as one of both: what follows is where it would be.  *)
(* The backgrounds of lines that are apart by the font's height meet.      *)
TextsFollow ==
  \A a, b, d \in {-1, 0, 7, 40} :
    LET Item(width, delta) == [width |-> width, delta |-> delta]
        apart == XDrawText(<<Item(a, 0), Item(b, d), Item(1, 0)>>)
        joint == XDrawText(<<Item(a + b, d), Item(1, 0)>>)
    IN  /\ apart[3] = joint[2]
        /\ Background(a, b, 5, 11, 4).bottom + 1 = Background(a, b + 15, 5, 11, 4).top
=============================================================================
