------------------------------ MODULE Geometry ------------------------------
(***************************************************************************)
(* The size of one window (xlib/Drawables.cpp, XWindow::resize and the     *)
(* FrameResized hooks; xlib/Window.cpp, XConfigureWindow, XSetNormalHints).*)
(*                                                                         *)
(* A size is kept three times: as _base_size, without the border; in the   *)
(* view, with it; and in the BWindow of a window that has one, which stays *)
(* inside limits.  A call writes all three and the messages it causes   *)
(* write them again, in the window's looper, some time later; the user     *)
(* writes the last one.  Sizes are of one dimension.                       *)
(***************************************************************************)
EXTENDS Integers, Sequences

CONSTANTS
  Sizes,         \* what the client and the user ask for
  Borders,       \* the widths of borders
  MaxMessages,   \* bound: resizes that wait in the looper
  MaxSize        \* bound: no border or limit is set at a size outside 1..MaxSize

ASSUME SizesAssumption == Sizes \subseteq Nat \ {0} /\ Borders \subseteq Nat /\ 0 \in Borders
ASSUME SizesBoundsAssumption == MaxMessages \in Nat /\ MaxSize \in Nat

VARIABLES
  top,           \* the window has a BWindow
  base,          \* _base_size
  border,        \* _border_width
  min, max,      \* _min_size and _max_size; 0 while they are not set
  view,          \* the size of the view
  frame,         \* the size of the BWindow
  limits,        \* what the BWindow's size is kept between
  resizes,       \* what the looper has yet to handle
  configuring,   \* what the client's thread is at
  asked,         \* history: the size last asked for, by the client or the user
  told,          \* history: the size in the last ConfigureNotify
  refused,       \* history: the BWindow did not take a size, or was not given it
  raced          \* history: a border or a limit was set while resizes waited

kept == <<base, view, frame, resizes>>
geometryVars == <<top, base, border, min, max, view, frame, limits, resizes, configuring, asked, told,
                  refused, raced>>

-----------------------------------------------------------------------------
(* Bound stands for the size that no BWindow reaches.                      *)
Bound == 100
ASSUME BoundAssumption == \A s \in Sizes, b \in Borders : s + 2 * b <= Bound

NoCall == [at |-> "idle", size |-> 0]
Between(size, l) == IF size < l[1] THEN l[1] ELSE IF size > l[2] THEN l[2] ELSE size

GeometryTypeOK ==
  /\ {base, view, frame, asked, told, configuring.size} \subseteq Int
  /\ border \in Borders /\ min \in Sizes \cup {0} /\ max \in Sizes \cup {0}
  /\ limits \in (0..Bound) \X (0..Bound) /\ limits[1] <= limits[2]
  /\ top => frame = Between(frame, limits)
  /\ resizes \in Seq([what : {"view"}] \cup [what : {"window"}, size : Int])
  /\ configuring.at \in {"idle", "read", "resize"}
  /\ {top, refused, raced} \subseteq BOOLEAN

GeometryInit ==
  /\ top \in BOOLEAN
  /\ base \in Sizes /\ view = base /\ frame = base /\ asked = base /\ told = base
  /\ border = 0 /\ min = 0 /\ max = 0 /\ limits = <<0, Bound>>
  /\ resizes = <<>>
  /\ configuring = NoCall
  /\ refused = FALSE /\ raced = FALSE

-----------------------------------------------------------------------------
(* BWindow::SetSizeLimits and ResizeTo keep the frame between the limits,  *)
(* and tell the looper of a frame that changed; limits that cross are not  *)
(* taken.  BView::ResizeTo tells the looper of a view that changed.        *)
ViewMessage == [what |-> "view"]
FrameMessage(size) == [what |-> "window", size |-> size]
Told(changed, m) == IF changed THEN <<m>> ELSE <<>>

(* The limits of the BWindow, borders b included.                          *)
Limits(b, lo, hi) ==
  LET l == <<IF lo = 0 THEN 0 ELSE lo + 2 * b, IF hi = 0 THEN Bound ELSE hi + 2 * b>>
  IN  IF l[1] <= l[2] THEN l ELSE limits

(* XWindow::resize, with the looper's lock.  It does nothing more if the   *)
(* view has the size, even if the BWindow has another meanwhile.           *)
Resize(size) ==
  LET l == Limits(border, min, max)
      limited == Between(frame, l)
      bordered == size + 2 * border
      resized == Between(bordered, l)
      first == Told(limited # frame, FrameMessage(limited))
  IN  /\ limits' = IF top THEN l ELSE limits
      /\ IF view = bordered
         THEN /\ frame' = IF top THEN limited ELSE frame
              /\ resizes' = IF top THEN resizes \o first ELSE resizes
              /\ refused' = (refused \/ (top /\ limited # view))
              /\ UNCHANGED <<base, view>>
         ELSE /\ base' = size /\ view' = bordered
              /\ frame' = IF top THEN resized ELSE frame
              /\ resizes' = resizes \o
                   IF top THEN first \o <<ViewMessage>> \o
                               Told(resized # limited, FrameMessage(resized))
                   ELSE <<ViewMessage>>
              /\ refused' = (refused \/ (top /\ resized # bordered))

Room == Len(resizes) + 3 <= MaxMessages

-----------------------------------------------------------------------------
(* XResizeWindow: XConfigureWindow with a size.                            *)
XResizeWindow(size) ==
  /\ configuring = NoCall /\ Room
  /\ asked' = size
  /\ Resize(size)
  /\ UNCHANGED <<top, border, min, max, configuring, told, raced>>

(* XSetWindowBorderWidth and XSetNormalHints write without the lock, read  *)
(* _base_size, and resize to it with the lock.                             *)
Sets == /\ configuring = NoCall /\ Room /\ base \in 1..MaxSize
        /\ configuring' = [at |-> "read", size |-> 0]
        /\ UNCHANGED <<top, base, view, frame, limits, resizes, asked, told, refused>>
        /\ raced' = (raced \/ resizes # <<>>)

XSetWindowBorderWidth(b) == Sets /\ border' = b /\ UNCHANGED <<min, max>>

SetMinimum(size) == Sets /\ min' = size /\ UNCHANGED <<border, max>>

SetMaximum(size) == Sets /\ max' = size /\ UNCHANGED <<border, min>>

ReadBase ==
  /\ configuring.at = "read"
  /\ configuring' = [at |-> "resize", size |-> base]
  /\ UNCHANGED <<top, border, min, max, limits, kept, asked, told, refused, raced>>

ResizeToBase ==
  /\ configuring.at = "resize"
  /\ configuring' = NoCall
  /\ Resize(configuring.size)
  /\ UNCHANGED <<top, border, min, max, asked, told, raced>>

(* XGetNormalHints, and XGetWMNormalHints: the limits, of those asked for.  *)
XGetNormalHints(flags) ==
  [min |-> IF "PMinSize" \in flags THEN limits[1] ELSE 0,
   max |-> IF "PMaxSize" \in flags THEN limits[2] ELSE 0]

(* The user resizes the BWindow.                                           *)
UserResizes(size) ==
  /\ top /\ Room
  /\ frame' = Between(size, limits)
  /\ resizes' = resizes \o Told(frame' # frame, FrameMessage(frame'))
  /\ asked' = frame' - 2 * border
  /\ raced' = (raced \/ configuring # NoCall)
  /\ UNCHANGED <<top, base, border, min, max, view, limits, configuring, told, refused>>

-----------------------------------------------------------------------------
(* The looper: XWindow::FrameResized works the size out from the view, and *)
(* notifies; RootWindow::FrameResized gives the view the BWindow's size.   *)
Configured ==
  /\ resizes # <<>> /\ Head(resizes).what = "view"
  /\ resizes' = Tail(resizes)
  /\ base' = view - 2 * border
  /\ told' = base'
  /\ UNCHANGED <<top, border, min, max, view, frame, limits, configuring, asked, refused, raced>>

(* Mutant: the view stays as it is.                                        *)
FrameResizedAlone ==
  /\ resizes # <<>> /\ Head(resizes).what = "window"
  /\ resizes' = Tail(resizes)
  /\ UNCHANGED <<top, base, border, min, max, view, frame, limits, configuring, asked, told, refused, raced>>

FrameResized ==
  /\ resizes # <<>> /\ Head(resizes).what = "window"
  /\ view' = Head(resizes).size
  /\ resizes' = Tail(resizes) \o Told(view' # view, ViewMessage)
  /\ UNCHANGED <<top, base, border, min, max, frame, limits, configuring, asked, told,
                  refused, raced>>

-----------------------------------------------------------------------------
GeometryNext ==
  \/ \E s \in Sizes : XResizeWindow(s) \/ SetMinimum(s) \/ SetMaximum(s) \/ UserResizes(s)
  \/ \E b \in Borders : XSetWindowBorderWidth(b)
  \/ ReadBase \/ ResizeToBase
  \/ Configured \/ FrameResized

GeometrySpec == GeometryInit /\ [][GeometryNext]_geometryVars

-----------------------------------------------------------------------------
(* Once the looper has handled what it was told, the three sizes agree,    *)
(* the last ConfigureNotify told them, and the BWindow too has this size   *)
(* unless it was given none or another, for its limits.                    *)
CaughtUp == resizes = <<>> /\ configuring = NoCall

SizesAgree ==
  CaughtUp => /\ base = view - 2 * border
              /\ told = base
              /\ top /\ ~refused => frame = view

(* The size is then the one last asked for, whatever calls and messages    *)
(* crossed: except where a border or a limit was set while a message       *)
(* waited, which works the size out from the old view and the new border.  *)
AskedIsKept == CaughtUp /\ ~refused /\ ~raced => base = asked

(* A program that asks for the limits it set, which do not cross, gets them *)
(* with the border on both sides, as of the last call that is over.         *)
HintsAreTold ==
  LET hints == XGetNormalHints({"PMinSize", "PMaxSize"})
  IN  top /\ configuring = NoCall /\ (min # 0 /\ max # 0 => min <= max) =>
        /\ hints.min = IF min = 0 THEN 0 ELSE min + 2 * border
        /\ max # 0 => hints.max = max + 2 * border

(* Once the looper has caught up, the window, its view and its BWindow     *)
(* have one size, and it is what was asked for last.                       *)
SizesSettle == SizesAgree /\ AskedIsKept /\ HintsAreTold
=============================================================================
