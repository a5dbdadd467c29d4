------------------------------ MODULE Displays ------------------------------
(***************************************************************************)
(* Opening and closing displays (xlib/Display.cpp, Extension.cpp, and what *)
(* Drawables.cpp, Font.cpp and Event.cpp do at these times).               *)
(*                                                                         *)
(* The first display starts the thread of the BApplication and waits for a *)
(* byte from it; the last one destroys all windows and waits for that      *)
(* thread to end, unless the program has a BApplication of its own.  In    *)
(* between every window has a looper, which holds its lock in a hook and   *)
(* may block in there, in write().  Fonts, extensions and the screen       *)
(* belong to the process.                                                  *)
(*                                                                         *)
(* One client thread makes the calls; it takes locks in several steps.     *)
(***************************************************************************)
EXTENDS Integers, FiniteSets

CONSTANTS
  Displays,
  Windows,       \* each with a BWindow of its own
  DisplayOf,     \* the display each is created for
  Extensions,    \* those added to displays, each with a close_display
  ExtensionOf,   \* the display each is added to
  Capacity,      \* bound: the bytes a pipe holds
  None

ASSUME DisplayOfAssumption ==
  DisplayOf \in [Windows -> Displays] /\ ExtensionOf \in [Extensions -> Displays]
ASSUME DisplaysAssumption == IsFiniteSet(Displays)
ASSUME CapacityAssumption == Capacity \in Nat \ {0}
ASSUME NoneAssumption == None \notin Displays \cup Windows \cup {"hook", "client"}

VARIABLES
  display,       \* what each display is at: "none", "opening", "open", "closing"
  openDisplays,  \* sOpenDisplays
  app,           \* be_app: "none"; "started", "running" or "asked" to quit, if it is the
                 \* library's; "own", if it is the program's and no XlibApplication
  appDisplay,    \* XlibApplication::_display
  screen,        \* slist[0].display
  fonts,         \* sFonts is filled
  extensions,    \* sExtensions
  live,          \* the windows in the registry
  orphans,       \* those of them whose display is closed: they still point to it
  registry,      \* its lock is held for writing, by the client's thread
  looper,        \* who holds each looper's lock: None, "hook" or "client"
  pipe,          \* the bytes in each display's pipe
  call,          \* what the client's thread is at, and the display and window
  closedWith,    \* history: the extensions closed, and the display each was told
  disturbed,     \* history: the displays open while another was closed
  ub             \* a thread used an application or a display that is gone: the model stops

process == <<app, appDisplay, screen, fonts, extensions>>
locks == <<live, orphans, registry, looper, pipe>>
history == <<closedWith, disturbed, ub>>
vars == <<display, openDisplays, process, locks, call, history>>

-----------------------------------------------------------------------------
Idle == [at |-> "idle", display |-> None, window |-> None]
At(at, d, w) == [at |-> at, display |-> d, window |-> w]
Stages == {"idle", "wait", "init", "lock", "put", "notify", "delete", "destroy", "quit",
           "join", "finalize"}

(* A display is None in a call about a window, unless it closes a display. *)
TypeOK ==
  /\ display \in [Displays -> {"none", "opening", "open", "closing"}]
  /\ openDisplays \in Int
  /\ app \in {"none", "started", "running", "asked", "own"}
  /\ appDisplay \in Displays \cup {None} /\ screen \in Displays \cup {None}
  /\ fonts \in BOOLEAN /\ registry \in BOOLEAN /\ ub \in BOOLEAN
  /\ extensions \subseteq Extensions
  /\ live \subseteq Windows /\ orphans \subseteq live
  /\ looper \in [Windows -> {None, "hook", "client"}]
  /\ \A w \in Windows \ live : looper[w] = None
  /\ pipe \in [Displays -> 0..Capacity]
  /\ call \in [at : Stages, display : Displays \cup {None}, window : Windows \cup {None}]
  /\ closedWith \subseteq Extensions \X Displays
  /\ disturbed \subseteq Displays

Init ==
  /\ display = [d \in Displays |-> "none"]
  /\ openDisplays = 0
  /\ app \in {"none", "own"} /\ appDisplay = None /\ screen = None
  /\ fonts = FALSE /\ extensions = {}
  /\ live = {} /\ orphans = {} /\ registry = FALSE
  /\ looper = [w \in Windows |-> None]
  /\ pipe = [d \in Displays |-> 0]
  /\ call = Idle
  /\ closedWith = {} /\ disturbed = {} /\ ub = FALSE

-----------------------------------------------------------------------------

(* XOpenDisplay: if there is no BApplication, its thread is started, and   *)
(* ReadyToRun writes a byte to this display's pipe.                        *)
XOpenDisplay(d) ==
  /\ call = Idle /\ display[d] = "none"
  /\ display' = [display EXCEPT ![d] = "opening"]
  /\ IF app = "none"
     THEN app' = "started" /\ appDisplay' = d /\ call' = At("wait", d, None)
     ELSE call' = At("init", d, None) /\ UNCHANGED <<app, appDisplay>>
  /\ UNCHANGED <<openDisplays, screen, fonts, extensions, locks, history>>

ReadyToRun ==
  /\ app = "started"
  /\ app' = "running"
  /\ pipe' = [pipe EXCEPT ![appDisplay] = @ + 1]
  /\ UNCHANGED <<display, openDisplays, appDisplay, screen, fonts, extensions, live, orphans,
                 registry, looper, call, history>>

WaitForApplication ==
  /\ call.at = "wait" /\ pipe[call.display] > 0
  /\ pipe' = [pipe EXCEPT ![call.display] = @ - 1]
  /\ call' = [call EXCEPT !.at = "init"]
  /\ UNCHANGED <<display, openDisplays, process, live, orphans, registry, looper, history>>

(* Mutant: the screen is filled in by the first display only.              *)
InitFirstDisplay ==
  /\ call.at = "init"
  /\ call' = Idle
  /\ display' = [display EXCEPT ![call.display] = "open"]
  /\ openDisplays' = openDisplays + 1
  /\ screen' = IF screen = None THEN call.display ELSE screen
  /\ fonts' = TRUE
  /\ disturbed' = disturbed \ {call.display}
  /\ closedWith' = {c \in closedWith : ExtensionOf[c[1]] # call.display}
  /\ UNCHANGED <<app, appDisplay, extensions, locks, ub>>

(* set_display, and the tables of the process if they are not there.       *)
InitDisplay ==
  /\ call.at = "init"
  /\ call' = Idle
  /\ display' = [display EXCEPT ![call.display] = "open"]
  /\ openDisplays' = openDisplays + 1
  /\ screen' = call.display
  /\ fonts' = TRUE
  /\ disturbed' = disturbed \ {call.display}
  /\ closedWith' = {c \in closedWith : ExtensionOf[c[1]] # call.display}
  /\ UNCHANGED <<app, appDisplay, extensions, locks, ub>>

XAddExtension(e) ==
  /\ call = Idle /\ display[ExtensionOf[e]] = "open" /\ e \notin extensions
  /\ extensions' = extensions \cup {e}
  /\ UNCHANGED <<display, openDisplays, app, appDisplay, screen, fonts, locks, call, history>>

-----------------------------------------------------------------------------
(* Windows and their loopers.  A hook is run with the looper's lock, and   *)
(* puts an event; write() blocks while the pipe is full.  A display that   *)
(* is closed may leave its windows, and an event of theirs is put with     *)
(* what was freed of it.                                                   *)
PutEvent(w) ==
  \/ /\ w \notin orphans /\ pipe[DisplayOf[w]] < Capacity
     /\ pipe' = [pipe EXCEPT ![DisplayOf[w]] = @ + 1]
     /\ UNCHANGED ub
  \/ /\ w \in orphans
     /\ ub' = TRUE
     /\ UNCHANGED pipe

XCreateWindow(w) ==
  /\ call = Idle /\ display[DisplayOf[w]] = "open" /\ w \notin live
  /\ live' = live \cup {w}
  /\ UNCHANGED <<display, openDisplays, process, orphans, registry, looper, pipe, call,
                 history>>

HookStarts(w) ==
  /\ w \in live /\ looper[w] = None
  /\ looper' = [looper EXCEPT ![w] = "hook"]
  /\ UNCHANGED <<display, openDisplays, process, live, orphans, registry, pipe, call, history>>

(* Mutant: a hook looks a window up in the registry.                       *)
HookPutsLookup(w) ==
  /\ looper[w] = "hook" /\ ~registry
  /\ PutEvent(w)
  /\ looper' = [looper EXCEPT ![w] = None]
  /\ UNCHANGED <<display, openDisplays, process, live, orphans, registry, call, closedWith,
                 disturbed>>

HookPuts(w) ==
  /\ looper[w] = "hook"
  /\ PutEvent(w)
  /\ looper' = [looper EXCEPT ![w] = None]
  /\ UNCHANGED <<display, openDisplays, process, live, orphans, registry, call, closedWith,
                 disturbed>>

XNextEvent(d) ==
  /\ call = Idle /\ display[d] = "open" /\ pipe[d] > 0
  /\ pipe' = [pipe EXCEPT ![d] = @ - 1]
  /\ UNCHANGED <<display, openDisplays, process, live, orphans, registry, looper, call, history>>

(* A call that locks the looper and puts an event while it has the lock,   *)
(* as XConfigureWindow and XCopyArea do.                                   *)
XConfigureWindow(w) ==
  /\ call = Idle /\ w \in live \ orphans /\ display[DisplayOf[w]] = "open"
  /\ call' = At("lock", None, w)
  /\ UNCHANGED <<display, openDisplays, process, locks, history>>

LockLooper ==
  /\ call.at = "lock" /\ looper[call.window] = None
  /\ looper' = [looper EXCEPT ![call.window] = "client"]
  /\ call' = [call EXCEPT !.at = "put"]
  /\ UNCHANGED <<display, openDisplays, process, live, orphans, registry, pipe, history>>

PutConfigure ==
  /\ call.at = "put"
  /\ PutEvent(call.window)
  /\ looper' = [looper EXCEPT ![call.window] = None]
  /\ call' = Idle
  /\ UNCHANGED <<display, openDisplays, process, live, orphans, registry, closedWith,
                 disturbed>>

(* ~XWindow puts its DestroyNotify and then waits for the looper, which    *)
(* quits; ~XDrawable takes the window out of the registry, with the lock   *)
(* its thread may have already.                                            *)
XDestroyWindow(w) ==
  /\ call = Idle /\ w \in live \ orphans /\ display[DisplayOf[w]] = "open"
  /\ call' = At("notify", None, w)
  /\ UNCHANGED <<display, openDisplays, process, locks, history>>

PutDestroyNotify ==
  /\ call.at = "notify"
  /\ PutEvent(call.window)
  /\ call' = [call EXCEPT !.at = "delete"]
  /\ UNCHANGED <<display, openDisplays, process, live, orphans, registry, looper, closedWith,
                 disturbed>>

DeleteWindow ==
  /\ call.at = "delete" /\ looper[call.window] = None
  /\ live' = live \ {call.window} /\ orphans' = orphans \ {call.window}
  /\ call' = IF call.display = None THEN Idle ELSE At("destroy", call.display, None)
  /\ UNCHANGED <<display, openDisplays, process, registry, looper, pipe, history>>

-----------------------------------------------------------------------------
Others(d) == {o \in Displays \ {d} : display[o] = "open"}

(* XCloseDisplay: the last display takes the registry and destroys what is *)
(* in it; another only makes the application forget it.  With a be_app     *)
(* that is no XlibApplication neither is done, and no application quits.   *)
XCloseDisplay(d) ==
  /\ call = Idle /\ display[d] = "open"
  /\ display' = [display EXCEPT ![d] = "closing"]
  /\ openDisplays' = openDisplays - 1
  /\ disturbed' = disturbed \cup Others(d)
  /\ \/ /\ app # "own" /\ openDisplays' = 0
        /\ registry' = TRUE /\ call' = At("destroy", d, None)
        /\ UNCHANGED appDisplay
     \/ /\ app # "own" => openDisplays' # 0
        /\ appDisplay' = IF app # "own" /\ appDisplay = d THEN None ELSE appDisplay
        /\ call' = At("finalize", d, None)
        /\ UNCHANGED registry
  /\ UNCHANGED <<app, screen, fonts, extensions, live, orphans, looper, pipe, closedWith, ub>>

(* Drawables::destroy, one window after the other.                         *)
DestroyNext ==
  /\ call.at = "destroy"
  /\ \E w \in live : call' = At("notify", call.display, w)
  /\ UNCHANGED <<display, openDisplays, process, locks, history>>

Destroyed ==
  /\ call.at = "destroy" /\ live = {}
  /\ registry' = FALSE
  /\ app' = "asked"
  /\ call' = [call EXCEPT !.at = "quit"]
  /\ UNCHANGED <<display, openDisplays, appDisplay, screen, fonts, extensions, live, orphans,
                 looper, pipe, history>>

(* The application asks its windows, which never let it quit.              *)
QuitRequested ==
  /\ app = "asked"
  /\ app' = IF live = {} THEN "none" ELSE "running"
  /\ UNCHANGED <<display, openDisplays, appDisplay, screen, fonts, extensions, locks, call,
                 history>>

(* The thread to wait for is read from the application, which may be gone  *)
(* by then.                                                                *)
ReadThread ==
  /\ call.at = "quit"
  /\ call' = [call EXCEPT !.at = "join"]
  /\ ub' = (ub \/ app = "none")
  /\ UNCHANGED <<display, openDisplays, process, locks, closedWith, disturbed>>

WaitForThread ==
  /\ call.at = "join" /\ app = "none"
  /\ call' = [call EXCEPT !.at = "finalize"]
  /\ UNCHANGED <<display, openDisplays, process, locks, history>>

(* Mutant: the extensions stay.                                            *)
FinalizeKeepsExtensions ==
  /\ call.at = "finalize"
  /\ closedWith' = closedWith \cup (extensions \X {call.display})
  /\ fonts' = FALSE
  /\ display' = [display EXCEPT ![call.display] = "none"]
  /\ pipe' = [pipe EXCEPT ![call.display] = 0]
  /\ orphans' = orphans \cup {w \in live : DisplayOf[w] = call.display}
  /\ call' = Idle
  /\ UNCHANGED <<openDisplays, app, appDisplay, screen, extensions, live, registry, looper,
                 disturbed, ub>>

(* All extensions are told of this display and forgotten; all fonts go.    *)
Finalize ==
  /\ call.at = "finalize"
  /\ closedWith' = closedWith \cup (extensions \X {call.display})
  /\ extensions' = {}
  /\ fonts' = FALSE
  /\ display' = [display EXCEPT ![call.display] = "none"]
  /\ pipe' = [pipe EXCEPT ![call.display] = 0]
  /\ orphans' = orphans \cup {w \in live : DisplayOf[w] = call.display}
  /\ call' = Idle
  /\ UNCHANGED <<openDisplays, app, appDisplay, screen, live, registry, looper, disturbed, ub>>

-----------------------------------------------------------------------------
Continue ==
  \/ WaitForApplication \/ InitDisplay
  \/ LockLooper \/ PutConfigure
  \/ PutDestroyNotify \/ DeleteWindow
  \/ DestroyNext \/ Destroyed \/ ReadThread \/ WaitForThread \/ Finalize

Begin ==
  \/ \E d \in Displays : XOpenDisplay(d) \/ XCloseDisplay(d) \/ XNextEvent(d)
  \/ \E e \in Extensions : XAddExtension(e)
  \/ \E w \in Windows : XCreateWindow(w) \/ XConfigureWindow(w) \/ XDestroyWindow(w)

Application == ReadyToRun \/ QuitRequested

Next ==
  /\ ~ub
  /\ \/ Begin \/ Continue \/ Application
     \/ \E w \in Windows : HookStarts(w) \/ HookPuts(w)

(* Threads run on, and take what they wait for once it stays free or comes *)
(* free again and again: a looper's lock is handed over in turn.           *)
Fairness ==
  /\ SF_vars(~ub /\ Continue)
  /\ WF_vars(~ub /\ Application)
  /\ \A w \in Windows : WF_vars(~ub /\ HookPuts(w))

Spec == Init /\ [][Next]_vars /\ Fairness

-----------------------------------------------------------------------------
(* A display that is open has the application's thread behind it, which    *)
(* the close of another display leaves running.                            *)
HasApplication == \A d \in Displays : display[d] = "open" => app \in {"running", "own"}

(* XOpenDisplay and XCloseDisplay, and the calls that take a looper's      *)
(* lock, return: no lock or message is waited for in a circle.  What may   *)
(* stop them is a pipe that stays full, whoever waits in write().          *)
CallsReturn ==
  call # Idle ~> call = Idle \/ ub \/ \E d \in Displays : [](pipe[d] = Capacity)

(* The process-wide state is there for each display that was never open    *)
(* while another was closed: fonts, a screen of an open display, and its   *)
(* extensions, which are told of no other display.                         *)
IsUndisturbed(d) ==
  display[d] = "open" =>
    /\ fonts
    /\ display[screen] = "open"
    /\ \A c \in closedWith : ExtensionOf[c[1]] # d
UndisturbedKeepTheirs ==
  HasApplication /\ \A d \in Displays \ disturbed : IsUndisturbed(d)

(* Once no display is open, the next one finds no fonts, no extension, no  *)
(* lock that is held, and no application or window of the library's.  Only *)
(* where the program has its own BApplication may there be windows left,   *)
(* and then all of them point to displays that are gone.                   *)
WhatIsLeft ==
  call = Idle /\ openDisplays = 0 =>
    /\ extensions = {} /\ ~fonts /\ ~registry
    /\ \/ app = "none" /\ live = {}
       \/ app = "own" /\ live = orphans
=============================================================================
