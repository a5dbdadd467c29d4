-------------------------------- MODULE Hints --------------------------------
(***************************************************************************)
(* What a client tells the window manager of its windows, kept in their    *)
(* BWindows (xlib/Property.cpp, xlib/Window.cpp, RootWindow of             *)
(* xlib/Drawables.cpp).                                                    *)
(*                                                                         *)
(* Look, feel, flags, title, protocols and subset are the BWindow's, and   *)
(* go with it when the window is reparented; override_redirect and         *)
(* transient_for are the XWindow's, and stay.                              *)
(***************************************************************************)
EXTENDS Integers, FiniteSets

CONSTANTS
  HintWindows,    \* two windows
  Functions,      \* the functions of a window that may be disallowed, "close" among them
  Titles,         \* what windows are called
  NoWindow,       \* None
  MaxHints        \* bound: calls that a client makes

ASSUME HintWindowsAssumption == NoWindow \notin HintWindows
ASSUME MaxHintsAssumption == MaxHints \in Nat

VARIABLES
  parentOf,       \* where a window is: another window, or NoWindow for a BWindow of its own
  manages,        \* the BWindow of a window that has one: look, feel, flags, title...
  override,       \* override_redirect
  transientFor,   \* transient_for
  shown,          \* whether the BWindow is shown
  closing,        \* the windows that were sent WM_DELETE_WINDOW
  calls,
  wanted,         \* history: what the client last asked, kept by the BWindow of the time
  reborn,         \* history: the windows that have another BWindow than they were created with
  modal           \* history: the windows made modal

hintVars == <<parentOf, manages, override, transientFor, shown, closing, calls, wanted, reborn, modal>>

-----------------------------------------------------------------------------
Looks == {"titled", "bordered", "none"}
Feels == {"normal", "menu", "floating", "app", "all", "subset"}
NewBWindow == [look |-> "titled", feel |-> "normal", avoid |-> FALSE, disallowed |-> {},
               title |-> NoWindow, protocols |-> {}, subset |-> {}]
NothingWanted == [functions |-> Functions, title |-> NoWindow, delete |-> FALSE]

HasBWindow(w) == parentOf[w] = NoWindow

HintsTypeOK ==
  /\ parentOf \in [HintWindows -> HintWindows \cup {NoWindow}]
  /\ override \in [HintWindows -> BOOLEAN] /\ shown \in [HintWindows -> BOOLEAN]
  /\ transientFor \in [HintWindows -> HintWindows \cup {NoWindow}]
  /\ \A w \in HintWindows :
       /\ manages[w].look \in Looks /\ manages[w].feel \in Feels
       /\ manages[w].disallowed \subseteq Functions /\ manages[w].subset \subseteq HintWindows
       /\ ~HasBWindow(w) => manages[w] = NewBWindow

HintsInit ==
  /\ parentOf = [w \in HintWindows |-> NoWindow]
  /\ manages = [w \in HintWindows |-> NewBWindow]
  /\ override = [w \in HintWindows |-> FALSE]
  /\ transientFor = [w \in HintWindows |-> NoWindow]
  /\ shown = [w \in HintWindows |-> TRUE]
  /\ closing = {} /\ calls = 0
  /\ wanted = [w \in HintWindows |-> NothingWanted]
  /\ reborn = {} /\ modal = {}

Call(w) == calls < MaxHints /\ calls' = calls + 1 /\ HasBWindow(w)

(* BWindow::AddToSubset takes a window with the feel for it, b.            *)
Adopts(m, t, w) == IF m[w].feel = "subset" THEN [m EXCEPT ![t].subset = @ \cup {w}] ELSE m

-----------------------------------------------------------------------------
(* XChangeWindowAttributes with CWOverrideRedirect: nothing if the flag is *)
(* what it was.                                                            *)
XChangeWindowAttributes(w, redirect) ==
  /\ Call(w) /\ override[w] # redirect
  /\ override' = [override EXCEPT ![w] = redirect]
  /\ manages' = [manages EXCEPT ![w].feel = IF redirect THEN "menu" ELSE "normal",
                                ![w].look = IF redirect THEN "none" ELSE "titled",
                                ![w].avoid = redirect]
  /\ modal' = modal \ {w}
  /\ UNCHANGED <<parentOf, transientFor, shown, closing, wanted, reborn>>

(* _MOTIF_WM_HINTS with functions, decorations or an input mode, any of    *)
(* them absent.  Functions are set whole; the mode is for windows that are *)
(* not redirected.                                                         *)
(* Mutant: what was disallowed stays so.                                   *)
DisallowedMore(w, functions) == manages[w].disallowed \cup (Functions \ functions)

Disallowed(w, functions) == Functions \ functions

ModeOf(w, mode) == IF override[w] THEN manages[w].feel ELSE mode

SetMotifFunctions(w, functions) ==
  /\ Call(w)
  /\ manages' = [manages EXCEPT ![w].disallowed = Disallowed(w, functions)]
  /\ wanted' = [wanted EXCEPT ![w].functions = functions]
  /\ UNCHANGED <<parentOf, override, transientFor, shown, closing, reborn, modal>>

SetMotifDecorations(w, look) ==
  /\ Call(w)
  /\ manages' = [manages EXCEPT ![w].look = look]
  /\ UNCHANGED <<parentOf, override, transientFor, shown, closing, wanted, reborn, modal>>

SetMotifMode(w, mode) ==
  /\ Call(w)
  /\ manages' = [manages EXCEPT ![w].feel = ModeOf(w, mode)]
  /\ UNCHANGED <<parentOf, override, transientFor, shown, closing, wanted, reborn, modal>>

(* _NET_WM_WINDOW_TYPE: the look of a redirected window is set too.        *)
SetWindowType(w, menu) ==
  /\ Call(w)
  /\ manages' =
       [manages EXCEPT ![w].look = IF menu THEN "none" ELSE "titled",
                       ![w].feel = ModeOf(w, IF menu THEN "floating" ELSE "normal"),
                       ![w].avoid = IF override[w] THEN @ ELSE menu]
  /\ UNCHANGED <<parentOf, override, transientFor, shown, closing, wanted, reborn, modal>>

(* XGetWindowProperty of _MOTIF_WM_HINTS: what the BWindow says.           *)
MotifHints(w) ==
  LET look == manages[w].look  feel == manages[w].feel
  IN  [functions |-> Functions \ manages[w].disallowed,
       decorations |-> CASE look = "titled" -> {"title", "border"}
                         [] look = "bordered" -> {"border"}
                         [] look = "none" -> {},
       mode |-> IF feel \in {"app", "all"} THEN feel ELSE "normal"]

(* _NET_WM_STATE: the feel of any window.                                  *)
(* The window it is transient for has a BWindow (the code does not ask).   *)
SetModal(w) ==
  /\ Call(w)
  /\ LET t == transientFor[w]
         m == [manages EXCEPT ![w].feel = IF t = NoWindow THEN "app" ELSE "subset"]
     IN  /\ t # NoWindow => HasBWindow(t)
         /\ manages' = IF t = NoWindow THEN m ELSE Adopts(m, t, w)
  /\ modal' = modal \cup {w}
  /\ UNCHANGED <<parentOf, override, transientFor, shown, closing, wanted, reborn>>

(* _x_handle_send_root: the same asked of the root window; what is not an   *)
(* addition is not handled.                                                *)
SendRootState(w, action) ==
  \/ action = "add" /\ SetModal(w)
  \/ /\ action \in {"remove", "toggle"} /\ Call(w)
     /\ UNCHANGED <<parentOf, manages, override, transientFor, shown, closing, wanted, reborn, modal>>

(* XSetTransientForHint: w leaves the subset it is in, and is for t, or    *)
(* for none; its place in t's subset needs the feel.                       *)
(* Mutant: it does not leave.                                              *)
LeftNone(w) == manages

Left(w) ==
  IF transientFor[w] # NoWindow /\ HasBWindow(transientFor[w])
  THEN [manages EXCEPT ![transientFor[w]].subset = @ \ {w}] ELSE manages

XSetTransientForHint(w, t) ==
  /\ calls < MaxHints /\ calls' = calls + 1 /\ t # w
  /\ transientFor' = [transientFor EXCEPT ![w] = t]
  /\ manages' = IF t # NoWindow /\ HasBWindow(t) /\ HasBWindow(w)
                THEN Adopts(Left(w), t, w) ELSE Left(w)
  /\ UNCHANGED <<parentOf, override, shown, closing, wanted, reborn, modal>>

(* XSetWMProtocols, also as a property; XSetWMName, of a BWindow only.     *)
XSetWMProtocols(w, delete) ==
  /\ Call(w)
  /\ manages' = [manages EXCEPT ![w].protocols = IF delete THEN {"delete"} ELSE {"focus"}]
  /\ wanted' = [wanted EXCEPT ![w].delete = delete]
  /\ UNCHANGED <<parentOf, override, transientFor, shown, closing, reborn, modal>>

XSetWMName(w, title) ==
  /\ Call(w)
  /\ manages' = [manages EXCEPT ![w].title = title]
  /\ wanted' = [wanted EXCEPT ![w].title = title]
  /\ UNCHANGED <<parentOf, override, transientFor, shown, closing, reborn, modal>>

-----------------------------------------------------------------------------
(* XReparentWindow: into p, the BWindow is deleted; out, it is a new one,  *)
(* that knows nothing of what was asked.  A mapped window is mapped again. *)
Gone(w) == [v \in HintWindows |->
              IF v = w THEN NewBWindow ELSE [manages[v] EXCEPT !.subset = @ \ {w}]]

XReparentWindow(w, p) ==
  /\ calls < MaxHints /\ calls' = calls + 1
  /\ p # w /\ p # parentOf[w] /\ (p # NoWindow => parentOf[p] # w)
  /\ parentOf' = [parentOf EXCEPT ![w] = p]
  /\ manages' = IF HasBWindow(w) THEN Gone(w) ELSE manages
  /\ wanted' = [wanted EXCEPT ![w] = NothingWanted]
  /\ reborn' = reborn \cup {w}
  /\ UNCHANGED <<override, transientFor, shown, closing, modal>>

(* The user closes: RootWindow::QuitRequested asks the client, if it takes *)
(* part in the protocol, or hides the window.                              *)
QuitRequested(w) ==
  /\ HasBWindow(w) /\ shown[w]
  /\ "close" \notin manages[w].disallowed
  /\ IF "delete" \in manages[w].protocols
     THEN closing' = closing \cup {w} /\ shown' = shown
     ELSE closing' = closing /\ shown' = [shown EXCEPT ![w] = FALSE]
  /\ UNCHANGED <<parentOf, manages, override, transientFor, calls, wanted, reborn, modal>>

(* XMapWindow, and the client's answer to WM_DELETE_WINDOW.                *)
XMapWindow(w) ==
  /\ ~shown[w] \/ w \in closing
  /\ shown' = [shown EXCEPT ![w] = TRUE]
  /\ closing' = closing \ {w}
  /\ UNCHANGED <<parentOf, manages, override, transientFor, calls, wanted, reborn, modal>>

HintsNext ==
  \E w \in HintWindows :
    \/ \E b \in BOOLEAN : XChangeWindowAttributes(w, b) \/ SetWindowType(w, b) \/ XSetWMProtocols(w, b)
    \/ \E f \in SUBSET Functions : SetMotifFunctions(w, f)
    \/ \E l \in Looks : SetMotifDecorations(w, l)
    \/ \E m \in {"normal", "app", "all"} : SetMotifMode(w, m)
    \/ \E t \in Titles : XSetWMName(w, t)
    \/ SetModal(w) \/ \E action \in {"add", "remove"} : SendRootState(w, action)
    \/ \E t \in HintWindows \cup {NoWindow} : XSetTransientForHint(w, t) \/ XReparentWindow(w, t)
    \/ QuitRequested(w) \/ XMapWindow(w)

HintsSpec == HintsInit /\ [][HintsNext]_hintVars

-----------------------------------------------------------------------------
(* A BWindow's subset holds windows that are transient for it and for no   *)
(* other, and the modal ones among those are in it: unless one of the two  *)
(* has got another BWindow since.                                          *)
SubsetsFollow ==
  \A w, t \in HintWindows :
    /\ w \in manages[t].subset => transientFor[w] = t
    /\ transientFor[w] = t /\ manages[w].feel = "subset" /\ {w, t} \cap reborn = {}
         => w \in manages[t].subset

(* Whatever else was asked since, a BWindow has the title and protocols its *)
(* client last asked of it, so that closing it asks exactly the clients    *)
(* that want to be, and its hints, read again, tell the functions asked;   *)
(* and a redirected window floats above all others, unless it was made     *)
(* modal or has got another BWindow.  Its subset is of its transients.     *)
HintsAreKept ==
  /\ \A w \in HintWindows : HasBWindow(w) =>
       /\ MotifHints(w).functions = wanted[w].functions
       /\ manages[w].title = wanted[w].title
       /\ "delete" \in manages[w].protocols <=> wanted[w].delete
       /\ w \notin reborn \cup modal => (override[w] <=> manages[w].feel = "menu")
  /\ SubsetsFollow
==============================================================================
