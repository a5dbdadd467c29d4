# A TLA+ model of Xlibe

Xlibe implements the Xlib API on top of the Haiku API. There is no X server:
windows, events, atoms, selections and graphics contexts live in the client's
own process, and every X window is a Haiku view whose hooks run in the thread
of its Haiku window (a *looper*). What a server would serialise, Xlibe has to
synchronise, and that is where this model looks.

The modules here model the parts of `xlib/` that keep state shared between
threads or between calls, and the algorithms by which the rest of it stores,
finds and converts things; they check them with TLC on small instances and,
where the result matters for every size, prove them with TLAPS. All line numbers
refer to the sources at this commit; `PROJECT.json` maps each definition to
the lines it stands for.

## The system

| Component | State | Operations | What makes it hard | What makes it correct |
|---|---|---|---|---|
| Event queue (`Event.cpp`) | list of events, `qlen`, `request`, a pipe with a byte per event | put (loopers, and clients inside drawing calls), put back, next, peek, masked and predicate searches, flush, sync, count | the pipe is outside the lock; two threads per window; a reader that blocks | each event is handed out once, in order; nobody sleeps on an event that is there |
| Atoms (`Atom.cpp`) | name/id set, next id, a readers-writer lock | intern, look up a name, initialise | the read lock is dropped before the write lock is taken; self call under the lock | one atom per name, one name per atom, each call atomic |
| Quarks (`Resource.cpp`) | two maps, a counter, a readers-writer lock | string to quark, unique quark, quark to string | check, number and insertion are three critical sections | one quark per string, one string per quark |
| Graphics contexts (`GC.cpp`, `Drawing.cpp`) | values, clip mask, dirty mask and last drawable of each GC; last GC, colours and clip of each view | create, change, copy, free, set, draw, clear | two caches that point to each other and are invalidated by different calls | a call draws with its own GC's values, inside its own clip |
| Drawables and window tree (`Drawables.cpp`, `Window.cpp`) | id registry with a lock, the Haiku view tree, per-window masks, size, border | create, destroy, reparent, map, unmap, configure, restack | recursion on destruction, looper locks taken inside and around the registry lock | ids name live objects; notifications name the right window, in the right order |
| Pointer, grab and focus (`Drawables.cpp`, `Window.cpp`) | three process-wide window pointers, a saved event mask per window | grab, ungrab, enter, leave, focus, destroy | written by client and window threads without a common lock | none names the wrong window once all have caught up; a grab leaves the mask as it found it |
| Sizes (`Drawables.cpp`, `Window.cpp`) | one size three times, a border, limits | configure, set a border or limits, the user's resize, two hooks | each write causes messages that write again, later | the three agree, and are what was asked for last |
| Hints (`Property.cpp`, `Window.cpp`) | title, look, feel, functions, protocols, subset of the BWindow; override and transience of the window | properties, Motif and EWMH hints, reparent, close | what is kept in a BWindow goes with it | the last BWindow has what was asked of it and no more |
| Keyboard and buttons (`Keyboard.cpp`, `Drawables.cpp`) | the buttons that were down last | hooks for buttons, wheel and keys; codes to symbols, text | overlapping tables, a comparison with an earlier state | a release names its press; all ways to ask for a key agree |
| Selections (`Selection.cpp`, `Property.cpp`) | the pending request, the owner, the clipboard | own, convert, notify, read and write the clipboard as a property | a conversation of several calls kept in three statics | each request is answered with its own target and property |
| Display lifecycle (`Display.cpp`, `Extension.cpp`) | open displays, the application thread, extensions, shared `Screen` | open, close, lock, unlock | process-wide state shared by displays; threads that end with the last of them | closing one display leaves the others alone; no call waits in a circle |
| Resource manager (`xorg/Xrm.c`, `GetDflt.c`) | a tree of hash tables with runs of entries; a database per display and who owns it | put, merge, destroy, get, list, enumerate, parse and print files | every search relies on an order that puts, merges and growth keep | the best match is found; all that answer agree; files are read as written |
| Contexts (`xorg/Context.c`) | a hash table that grows and shrinks | save, find, delete | entries move | what was saved is found |
| Fonts (`Font.cpp`) | a table of fonts by id, two default fonts | load, list, query, sets; made and cleared with displays | ids outlive the table | an id never names another font |
| Regions, images, pixmaps, cursors, colours | pixels and points | operations and conversions | off-by-one at widths, pads and edges | each agrees with its inverse or with sets |
| Text, command lines, geometries, settings | | parse and print | grammars, growing buffers | what is printed is read back |
| Drawing (`Drawing.cpp`) | a scratch bitmap per drawable | points, lines, text, copies, images, exposures | sixteen-bit rectangles with edges in or out | what is exposed is drawn once, where it should be |
| `xext/`, stubs | | | constants and forwards | |

How they interact: a looper's hook (`Draw`, `MouseDown`, `FrameResized`, ...)
builds an `XEvent` and calls `_x_put_event`, which appends it to the display's
queue and writes a byte to the pipe; so do the Xlib calls that would have made
a server send an event (`XMapWindow`, `XCopyArea`, `XSendEvent`, ...). Client
threads take events out. Drawing calls look their drawable up in the registry,
lock its looper, push the GC's dirty values into the view and draw.

`PROJECT.json` lists the hazards of this code, each at its line, with the
properties that watch it.

## The modules

### Mailbox, EventQueue (MCEventQueue, EventQueueProofs)

Models `class Events` and the calls around it. A critical section of `_lock` is
one action; everything outside it is an action of its own: the unlocked test
of `qlen` (`CheckQlen`), `ioctl` and each `read` of `XFlush` (`FlushStart`,
`Drain`, `FlushEnd`), the `read` of `wait_for_more` (`WaitForMore`), and the
`write` after the unlock in `Events::add` (`Add`, then `WriteByte`). A client
call is a record that says where it goes after its flush: to `wait_for_next`
(`XNextEvent`, `XPeekEvent`), to `query` (the masked, window, typed and
predicate calls; blocking or not, removing or not), to the loop of
`XSync(True)`, or back to its caller.

An event keeps its serial, a type that searches tell apart, and whether it was
put back. `taken` and `front` are history. `ub` is set where the code calls
`front()` and `pop_front()` on an empty list; the model stops there, because
nothing is defined afterwards. Reads of `qlen` are modelled as reads of its
current value: they race with writes under the lock, but a word is read whole.

`Mailbox` says what the queue promises without a pipe, a lock or a counter: put
events come back out, each once, the ones put back in front. `IsAMailbox` is the
refinement; the flush, the bytes, the reads of `qlen` and the tests that fail
are stuttering steps.

`poll()` on `ConnectionNumber` is the one thing modelled from outside: a
client told that nothing is queued may wait there, as toolkits do.

`XSelectInput` is left to the windows, and so is the choice of receiver in
`XSendEvent`, which is a `PutEvent` here. The byte `ReadyToRun` writes
(Display.cpp:57-62) is read again before `XOpenDisplay` returns, so the pipe
starts empty.

### Interner, Atoms (MCAtoms, AtomsProofs)

`Interner` says what a table that interns names owes its callers: each call
takes effect at one instant. `Atoms` is the code, with its readers-writer lock
kept explicitly, and `IsAnInterner` is the refinement (`table <- atoms`,
`asked <- call`).

`XInternAtom` calls itself while it is the writer (Atom.cpp:67). Its read lock
then fails with `EDEADLK`, as Haiku's `pthread_rwlock_rdlock` does for the
thread that holds the lock for writing, and `AutoLocker` ignores the failure;
the inner call therefore runs under the outer lock. That is an assumption about
Haiku: on a system whose rdlock blocks instead, the call would never return.

`XInternAtoms` and `XGetAtomNames` are loops over these and are left out.

### Quarks (MCLibrary, LibraryProofs)

A part of the run `library`. The lock is never taken by a thread that holds it, so
each hold is one action:
the look-up, `XrmUniqueQuark`, and the insertion. The table of strings is kept
as a set of pairs, since the map keyed by the quark is the one written first.

### DrawState (MCDrawState, DrawStateProofs)

Graphics contexts, the drawables they draw in, and the drawing state of the
views. Attributes are reduced to those the code treats differently: one that
`XClearArea` also writes (`background`), one that is pushed only when it is not
null (`font`), one that is neither (`foreground`, standing for the other
value attributes), and the clip. A value is 0 for each attribute's default.
The looper lock is held from `_x_check_gc` to the end of the drawing call, so
the call is one action. `gid` is not initialised by `XCreateGC` (GC.cpp:31):
the model starts it with any value in `GarbageIds`.

Assumed: GCs are used by one thread at a time, as Xlib requires; the view's
background is the default background. `XCopyGC` never copies the clip mask
(it takes the 0 `XChangeGC` returns for a failure), and is modelled so.

### Windows (MCWindows, WindowsProofs, SequenceLemmas)

The registry (`drawables`, `last`), the tree of views (`parent`, `children`,
lowest first), what is shown (`hides` for a view, `bwindow` for the BWindow of a
top-level window), the event masks, and in `sent` the events the last call
queued. An action is a whole Xlib call with the calls it makes itself: the
`XMapWindow` at the end of `XReparentWindow`, the restacking at the end of
`XMapRaised`, the recursion of destruction and of `XWindow::visibility`. The
user closing a window is `QuitRequested`.

`Hidden`, `Without` and `Before` are Haiku's `IsHidden`, `RemoveSelf` and
`AddChild`, modelled from how the code uses them. Of the visibility states only
hidden and not hidden are kept. What decides between the others (a next
sibling, whether the BWindow is active) is the same before and after a map or
unmap, except that Haiku may activate a BWindow it shows, which `WindowActivated`
then tells separately.

Assumed: one thread manages windows (`Displays` is about the locks); a window is
not reparented below itself and a sibling is a sibling, which X calls
`BadMatch` and Xlibe does not test; whether a window set `WM_DELETE_WINDOW` is
left open. Sizes are `Geometry`'s, hints and transience `Hints`', focus `Input`'s.

### Input (MCHooks, HooksProofs)

The words `sFocusedWindow`, `sPointerWindow` and `sPointerGrabWindow`, the two
event masks and `current_focus` of each window, and on Haiku's side which view
is the focus of its BWindow, which BWindow is active and where the pointer is.
What the user does is told to the loopers by messages, and each looper has its
own queue: a leave and the enter that belongs to it may be handled in either
order. A hook runs with its looper's lock and is one action. A client's call is
as many actions as it has stretches under one lock: `XGrabPointer` writes the
word before the mask, `XSetInputFocus` with no window reads the word twice, and
`~XWindow` ends the grab, deletes its children, lets go of the focus and
removes its view in four steps, between which loopers run. Restacking a window or
reparenting it within a BWindow takes its view out and puts it back, which is
where the focus may be lost (`XConfigureWindow`).

`Focus`, `Unfocused` and `MadeFocus` are `XWindow::_Focus` and `MakeFocus` with
what `BView::MakeFocus` calls. A message is handled by the view it names, and
one whose view is gone by the time its turn comes is dropped (`Dropped`), as a
BLooper does with a token it no longer knows. The weak compare-exchange is
modelled as a strong one, which it is on x86. A grab that is to take effect
follows the one it ends; `XChangeActivePointerGrab` without a grab dereferences
null and is left out, and the null `XSetInputFocus` may read is the stage
`crashed`, where the model stops.

### Geometry, Hints, Keyboard, Selection (MCHooks, HooksProofs)

`Geometry` has one window of one dimension, with or without a BWindow, and
follows a size through `_base_size`, view and BWindow and through the messages
each write leaves for the looper. `raced` and `refused` remember that a border
or a limit was set while messages waited, or that the limits refused a size:
then the size may end up another than the one asked for, and `AskedIsKept` says
nothing. The three copies agree even so, except that the BWindow may have the
size its limits gave it.

`Hints` has the state kept in BWindows and that kept in windows, two windows
and calls in every order up to `MaxHints`. `wanted`, `reborn` and `modal` are
history. A client that asks again after a reparent (`reborn`) starts from a new
BWindow; that what was asked of the old one is lost is as the code has it.

`Keyboard` has the buttons as the hooks see them (a set that was down last, a
set now, wheel turns, motion, which is compared with them too), the modifiers, and the three ways to ask for a key as
functions over all codes of the tables' kinds.

`Selection` has a display's selection events in one queue and clients that
answer them as ICCCM asks: on a request they write the property, on a notify
they read it. `copied`, `crossed` and `alone` are history: whose text was copied
last, whether a claim crossed one with nothing to offer, and whether two
conversions named one property at once. Of the clipboard the texts are kept, of
a reply its type.

### Displays (MCDisplays, DisplaysProofs)

Opening and closing of displays, with the application's thread, the registry's
lock, a lock for the looper of each window, and a pipe for each display. One
client thread takes locks in several steps; a hook holds its looper's lock, and
blocks in `write` while the pipe is full. `CallsReturn` is the absence of a
deadlock: a call that began ends, unless some pipe stays full for ever.
`closedWith` and `disturbed` remember which displays were open while another was
closed: `XCloseDisplay` forgets all extensions and fonts, and
`UndisturbedKeepTheirs` is about the displays this did not happen to.

A behaviour starts without a `BApplication`, or with the program's own (`app` is
`own`): then `XOpenDisplay` starts no thread (Display.cpp:200), and the last
`XCloseDisplay` destroys no windows, quits nothing and waits for nothing
(Display.cpp:222). `WhatIsLeft` says what the last close leaves in each case. A
window whose display was closed is in `orphans`: its looper runs on, and the
client is taken not to use it any more. `ub` is set where a looper puts an event
for such a window, with the `Events` and the display that were deleted, and where
`XCloseDisplay` asks the application for its thread after it may have ended; the
model stops there.

### Resources, ResourceFile, Defaults, Contexts, Stores (MCLibrary, LibraryProofs)

`Resources` is the hash tables of `Xrm.c` as they are: tables of nodes and of
values, buckets, growth, and runs of up to four entries of one name. Put, merge
and destroy are actions; the searches are functions over the tree, written so
that one walk serves `XrmQGetResource`, the search list and the enumeration,
which differ in `mode`. The reference is `Best`: of all ways a resource matches,
the one that is first in the order the documentation gives. `ResourceFile` is
the text: specifiers, lines, values with their escapes, files that include
files, and the printing of a database. `Defaults` is who owns a display's
database. `Contexts` is the table of `Context.c` with its growth and shrinking,
from a mask of one so that six keys reach both. `Stores` states what the last
two owe a caller.

### Fonts, Regions, TextLists, Images, Commands, Settings, Drawing, Coordinates, Pictures (MCLibrary, LibraryProofs)

Fonts, regions and the scratch bitmap have state and actions; the others are
functions, compared with their inverse or with a definition by sets over all
inputs of a small set. `Fonts` follows ids over displays that close and open
with other fonts installed, and looks names up in each table. Ids come round
after `FontIds` of them, 2^16 in the code (Font.cpp:47, 111); in the run it is 6,
so that they do. `Images` covers pixels of images of every depth and padding, bitmap files of
both formats, pixmaps, cursors and colors. What a new bitmap holds before
anything is read into it is any of `Memories`, as `XGetSubImage` does not clear it
(Image.cpp:205); whether a cursor is drawn beyond its mask is therefore open.
`Drawing` and `Coordinates` have where things are drawn and where windows are. `Pictures` makes one statement of each.
The order in which the pixels of an image are put is left open (`PutPixels` is a
fold over a set of points): no two of them have a bit in common. Of an image
that is put from a point inside it, `lastPut` has what is not shown: the scratch
bitmap is made as large as the part, and the image is read into it from its own
corner (Drawing.cpp:401-415). `ImagesAreShown` says that nothing is missing of an
image put from its corner, and of another part at most as much as lies before it.
Relative lines are modelled as they are drawn: `CoordinatesAreSummed` states what
is right of one line, and `LinesJoin`, which the run `lines` refutes, of more.

### Hooks, MCHooks, MCLibrary

`Hooks`, which `MCHooks` gives its constants, and `MCLibrary` each compose
components that do not meet: a behaviour picks a `part` and the others stay at
their initial values, so that one run checks them all at the cost of their sum. The properties of the run are named for what a user sees, and are
conjunctions of the named properties of the modules.

## The runs

Every run finishes within three minutes. "Passing" runs check that the code does
what it should, and "violation" runs reproduce, on the smallest instance that
shows it, a disagreement between the code and what the repository says of it.

| Run | Instance | Checks |
|---|---|---|
| `event_queue_one_client` | 1 client, 2 loopers, 3 events, pipe of 3, chunk of 2, fair | `NoLostWakeup`, `FlushNeverBlocks`, `WakesUp` |
| `event_queue_threads` | 2 clients, 1 looper, 3 events, pipe of 2 | `ExactlyOnce`, `DeliveryOrder`, `IsAMailbox` |
| `event_queue_stale_byte` | 1 client, 1 looper | `FrontIsAnEvent` is violated |
| `event_queue_pipe_full` | 1 client, no looper, pipe of 3, fair | `PutReturns` is violated |
| `atoms` | 2 threads, 2 predefined names and 2 others, fair | `IsAnInterner`, `LockIsLetGo` |
| `draw_state` | 2 GCs, 2 windows, background and clip | `ClipIsTheGCs`, `LastGCIsOwned` |
| `draw_state_two_gcs` | 2 GCs, 2 pixmaps, foreground and clip | `ColoursAreTheGCs` is violated |
| `windows` | 3 windows, hide counts to 2, masks with everything or nothing; a fourth window, hide counts to 1 | `TreeOK`, `InSomeBWindow`, `DestroyIsTold`, `VisibilityIsTold`, `ReparentKeepsMapped`, `RestackMovesOne` |
| `displays` | 2 displays, a window and an extension of each, pipes of 2, the application Xlibe's or the program's own, fair | `UndisturbedKeepTheirs`, `WhatIsLeft`, `CallsReturn` |
| `hooks` | input: 2 BWindows of 2 displays, one with a child, 2 messages on their way; geometry: sizes 3 to 5, borders 0 and 1, 4 messages; hints: 2 windows, 4 calls; 5 presses; selection: 3 claimants (text, text in pieces, none), 2 properties, 4 targets, 3 events | `FocusIsFocus`, `WordsSettle`, `GrabLives`, `MaskIsGivenBack`, `SizesSettle`, `HintsAreKept`, `ReleaseNamesPress`, `KeysAreKept`, `ClaimArrives`, `ConversionAnswers`, `OwnerIsClaiming` |
| `library` | the sets of `MCLibrary`: databases of up to 5 resources, context tables of 6 keys, regions of 3 by 2 points, 4 lists of installed fonts with 6 ids in all, 3 threads that make quarks of 2 strings, texts of 3 special characters, images up to 9 by 2, ... | `DatabasesAreKept`, `QueriesAgree`, `OwnEntriesStay`, `RegionsAreSets`, `FontsStayTheirs`, `TextsAreKept`, `ImagesAreKept`, `NamesAreParsed`, `DrawnAsTold`, `QuarkHasOneString` |
| `lines` | the same | `LinesAreSummed` is violated |

Each module's type invariant is not among a run's properties: it states what
the variables range over. They are proved, alone or as a conjunct of the
invariant of their component, in all modules that have theorems; `InputTypeOK`
only in what a grab and a focus are about (add it to the invariants of
`Hooks.cfg` to check the rest).

Why the bounds are enough. Event queue: three events are one more than a chunk,
so a flush reads twice; two loopers can both be between unlock and write; two
clients are enough for each to take what the other saw. The pipe holds as many
bytes as there are events except where its being full is the question.
Atoms: the races are between two callers that miss one name, and a third name
shows that others are not disturbed. DrawState: a second GC and a second drawable are what the comparison
tells apart; the values need only be equal or not. Windows: three make both a
chain of depth three and two siblings under one parent, and a fourth makes three
siblings, of which restacking one can change the order of the other two; ids are
not used again; two is the first hide count a single map does not undo, which is
followed while there are three (`MaxDetailed`). A mask with everything
or nothing tells who is told. Displays: what one display does to another needs
two; a window of each can have a hook in a full pipe while the other is
destroyed. Hooks: two loopers are needed for messages out of order and a child
for a grab or a focus that goes with its parent; two messages are a leave and
an enter, or a deactivation and an activation, on their way at once. Three
sizes are one between two limits; the most messages one call leaves are three,
and a fourth waits before them. Three events are two claims and a conversion.
Library: quarks are made by one thread more than the race needs; four entries of one name (tight and loose, node and value) are all
there can be, a table grows at five entries, and each conversion has inputs at
the edges of its words, bytes and buffers.

Deadlock is checked in `atoms`, `draw_state` and `draw_state_two_gcs`. The
event queue may stop (a client waits for an event nobody sends), and so does
the model of the windows when as many as `MaxWindows` were created and destroyed. `displays` stops where a hook and
the client both wait for a full pipe, which is what `CallsReturn` excepts, and
where a hook has put an event for a display that is deleted.
`hooks` stops at its bounds of calls and presses and in the stage `crashed`;
`library` and `lines` where a part has only functions or the quarks are used up.

What the violations show:

* `event_queue_stale_byte`: `Events::add` writes its byte after the unlock. A
  client that is awake takes the event before the byte is there; the byte then
  wakes the next `XNextEvent` to an empty list, and `front()` is undefined.
* `event_queue_pipe_full`: bytes are removed only by calls that read events. A
  client that draws in a loop, as `test/xlib-4-2.c` does, queues a `NoExpose`
  per `XCopyArea` and blocks in `write` when the pipe is full.
* `draw_state_two_gcs`: `_x_check_gc` compares a GC with the drawable's last
  one only if the GC comes from another drawable. The two GCs that
  `test/xlib-4-2.c` uses in turn end up drawing in one colour.
* `lines`: `XDrawLines` adds each point to the next in the list of the ends of its
  lines, in which every point but the first and the last is twice. The ten
  relative points of `test/kt-draw.c:92` are not joined at their sums.

### Where properties make an exception

A property of a passing run that excepts a case says so in its comment. Each
exception is what the code does, seen while modelling. Of these the repository
says otherwise, in a comment or a declaration:

* two threads that miss the same string get two quarks (Resource.cpp:57), where
  a quark stands for a string (include/X11/Xresource.h:90); `OneThreadOneQuark` is the
  theorem for one thread;
* after an `XGetDefault` that found no file, `XrmSetDatabase` destroys a database
  the program made (Xrm.c:353), where only one that `XGetDefault` made should be
  (Xrm.c:352);
* the macros `GLOOSE` and `ILOOSE` may take tight values for loose ones
  (Xrm.c:2134, 1845), where they look for loose ones (Xrm.c:2131, 1842);
* `XDrawLines` with relative points sums points twice from the third on
  (Drawing.cpp:124), which the run `lines` shows: `CoordinatesAreSummed` is about
  one line.

Of the others nothing is said, or only by X:

* a window hidden and then reparented may need two `XMapWindow`s (Window.cpp:486);
* `XInternAtoms` returns `BadAtom` when every name was found, and `Success` when one
  other than the first was missed (Atom.cpp:82);
* `XSetInputFocus` reads the focused window again after its test, and
  `XChangeActivePointerGrab` does not test (Window.cpp:828, 909); `sPointerWindow`
  outlives its window (Drawables.cpp:804);
* a border or limit set while resizes wait can undo the last size asked for;
  `XGetNormalHints` tells limits with the border in them (Window.cpp:957);
* a claim that crosses one with nothing to offer may not reach the clipboard, and
  two conversions at once to one property may be answered for each other
  (Selection.cpp:102);
* closing a display takes fonts and extensions from the others
  (Display.cpp:236), and the thread to wait for is read after the application
  may have ended (Display.cpp:229);
* with a `BApplication` of the program's own the last close leaves the windows and
  their loopers (Display.cpp:222), and an event that one of them puts uses the
  display that was deleted (Display.cpp:247, Event.cpp:157); so does one of a
  window whose display was closed while another was open;
* an enumeration of all levels misses some resources below a prefix of two
  components (Xrm.c:1885);
* a printed value that is not a string and has a newline leaks as a line
  (Xrm.c:2047); text that is no text of the locale is converted for ever
  (Locale.cpp:41);
* a region operation whose result is its second source is wrong
  (Region.cpp:63); fonts that are italic by their flags are listed as upright
  (Font.cpp:150);
* a `Font` may name another font once 2^16 ids were made from its own on
  (Font.cpp:47, 111); the font that gets the id 0 then is not loaded, and hides
  those that match after it (Font.cpp:381), and a name that is not found loads it
  (Font.cpp:416);
* where a cursor's mask is smaller than its source, whether the rest is drawn is
  for uninitialised memory to say (Image.cpp:205, Cursor.cpp:134);
* a part of an image that begins `x` columns and `y` rows inside it may be drawn
  without its last `x` columns and `y` rows (Drawing.cpp:401-415);
* `XQueryPointer` returns absolute values (Window.cpp:858).

### Fairness

`EventQueue!Fairness` is weak fairness on each thread's next step: a `read`,
`write` or `poll` that can return does, and code between system calls runs on.
Nothing is assumed of new calls or new events. `Atoms!Fairness` is weak
fairness on each thread's step through its call; `LockIsLetGo` then holds
because the only calls in the model end by releasing the lock, whichever path
they take. `Displays!Fairness` is weak for hooks and the application, and strong
for the client's thread: hooks may take a looper's lock again and again, and a
BLooper's lock is a semaphore that hands itself to those that wait in turn.
Nothing else assumes strong fairness.

## The proofs

All are by an inductive invariant, `Init => IInv`, `IInv /\ [Next]_vars =>
IInv'`, `IInv => Inv`, with one step per action.

* `EventQueueProofs`. `TypeOK` is strengthened by `qlen = Len(list)`, without
  which `qlen` could pass below zero. `ExactlyOnce` and `DeliveryOrder` rest on
  the serials in the list being below `request`; the lemmas about `RemoveAt`,
  `Append` and putting in front say which serials each leaves. Both hold for
  any number of clients and loopers. `NoLostWakeup` and `FlushNeverBlocks`
  assume one client (`OneClient`): with two, one may drain the byte the other
  waits for. `AloneFrontIsAnEvent` adds that there is no looper.
  `QueueImplementsMailbox` maps the list, the counter and each client's call to
  the abstract ones; it needs, besides the types, that the call a client is in is
  the one its stage says (`CallInv`), since an event is handed out by the same
  step for a search and for a call that waits.
* `AtomsProofs`. The invariant relates the lock to the program counters (who is
  at `find` reads, who is at `recheck` writes, never both), says that ids in
  the table are distinct and below `nextAtomID`, and that whatever callers were
  told is in the table. The refinement maps `Find`, `FindNone`, `Recheck`,
  `Insert`, `InitAtoms` and `GetName` to the abstract call's one step, and the
  lock's steps to stuttering.
* `DrawStateProofs`. `LastGCIsOwned` is inductive as it stands. `ClipIsTheGCs`
  needs that no view is clipped between calls and that a GC with a region has
  its clip marked dirty. `OneGCDrawsRight` assumes a single GC, no windows and a
  `gid` that is nobody's by chance: three assumptions of which the violation run
  drops the first.
* `WindowsProofs`. `TypeOK` and `TreeOK` are inductive only together with
  `Acyclic`: there is a rank that falls from each window to its parent. Creation
  ranks the new window above its parent, deletion keeps the ranks, and
  reparenting raises those of the subtree, which is where `p \notin Below(w)` is
  used. `InSomeBWindow` follows by taking the window of least rank a given one
  is below. `RestackMovesOne` is an action property: with no child listed twice,
  which `TreeOK` says, the place of a window in a list is one number (`AtIs`,
  `AtFinds`), taking one out and putting it back moves only that one
  (`WithoutKeepsOrder`, `InsertKeepsOrder`), and the rest follows for each mode.

  The other action properties go over the tree by recursive functions. That such
  a function satisfies its own definition is proved first: `Hidden`, which goes
  up, from the least set of windows that has a window and all it is in
  (`HiddenExists`, `HiddenIs`); `Deleted` and `Visibility`, which go down, from
  heights that a bounded rank gives (`Heights`, `SaidExists`, `DeletedIs`,
  `VisibilityIs`). Then what a window passes on holds of all, by the one of
  least rank or height of which it would not (`FromTheTop`, `FromTheBottom`):
  - `ReparentKeepsMapped`: nothing outside what is moved changes, the window
    moved does not, and so nothing below it does (`MoveKeepsMapped`).
  - `DestroyIsTold`: `Deleted` lists what is below a window, and none before all
    below it (`DeletedAre`), since two children of one window have nothing below
    them in common (`BranchesApart`); each window listed sends one event or none.
    No other call sends a DestroyNotify (`EachStepTells`).
  - `VisibilityIsTold`: a window that changes is below one that is shown or
    hidden, and all between the two change with it, so that `Visibility` does
    not stop before it (`ChangedIsReached`); what is told is told once, as the
    windows of two branches are not the same (`VisibilityShows`).
* `DisplaysProofs`. Neither property is inductive: what the last display leaves
  depends on how far its `XCloseDisplay` has come, and on whose the application is. `CallOK` says which
  display and window each stage of the client's call is about and that the
  display is opening or closing at these stages only, `AppOK` where the
  application's thread is at each stage, `LeftOK` what is left at each stage
  when no display is open, and `KeepOK` that a display that is being closed has
  already disturbed those that are open. `CountOK` makes `sOpenDisplays` the
  number of open displays, for which `Displays` is assumed finite; from it
  follows that the branch of the last one is taken by the last one (`LastOne`).
  Loopers' hooks run between any two steps.
* `HooksProofs`, for each part of `Hooks` by itself first. `PartsBehaveAlone`
  then shows that a behaviour of the composition is one of each part's own
  specification, in which it stutters while another is picked, and `HooksAgree`
  takes all the invariants of the run to the composition.
  * Pointer and grab: `GrabLives` and `MaskIsGivenBack` are inductive with the
    types of grab and masks and with `CallOK`, what the stage of the client's call
    says of the grab: between the two steps of a grab nobody has the pointer or
    the window of the call does, and that window lives; while a window is
    destroyed it does not have the grab. Loopers change neither, so
    their steps are one lemma.
  * Focus and pointer words (`FocusInv`): `FocusIsFocus` is inductive with
    `ThereOK` (what is named lives, and so does its top) and `ViewsOK` (a
    BWindow's focus is one of its own views). `WordsSettle` speaks of the moment
    when all queues are empty, so its invariant has to say what each queue still
    promises: the last crossing message of a window in its looper's queue, if
    there is one, is an enter just if the pointer is over it (`PointerOK`); the
    last activation message of a BWindow says whether it is the active one, and
    if there is none a BWindow that thinks it is active is (`ActiveOK`). With
    several loopers the queues are handled in any order, and the statement is
    about each alone.
  * Sizes (`SizesInv`): unless a message for the view waits, the size told is
    the window's (`ToldOK`), and that is the view's without its border
    (`BaseOK`); the last message of the BWindow has the BWindow's size, or none
    waits and the view has it (`FrameOK`); and the BWindow, or the view of a
    window that has none, has the size that was asked for last, unless it was
    refused or crossed (`AskedOK`). `BoundAssumption` says that `Bound`, which
    stands for no limit, is above every size with its borders.
  * Hints (`HintsInv`): `WishesOK` relates each BWindow to what was asked of it,
    also while it has no BWindow; `SubsetsFollow`, a conjunct of `HintsAreKept`, is
    inductive with the types.
  * Keys: `ReleaseNamesPress` needs `ButtonsInv`, that a press put alone is held
    and what the next event is compared with. The three parts of `KeysAreKept`
    are facts about functions and no invariants: `KeysAlwaysAgree` goes through
    the table, `TextIsAlwaysTyped` is for any bytes (`BytesAssumption`: one to
    four of them), `ReleasesAlwaysFollow` splits on what Haiku tells of the key.
    `KeysStay` puts them together.
  * Clipboard: `OwnerIsClaiming` needs only the queue's shape: a claim is
    removed from its head by the same step that clears the owner. For
    `ConversionAnswers` the invariant `Asked` says three things of the queue:
    notifies that are alone name distinct properties (`DistinctOK`), while the
    property asked for is pending the last notify names it and its target
    (`PendingOK`), and a notify that is last and alone can still be answered
    (`LastOK`). `ClaimArrives` needs to know where the last claim is
    (`ClaimInv`): while it is made its request is the last of all (`Making`);
    then its text is asked for, last of all, and the clipboard is empty or a
    claim before it will still clear what older texts leave there (`Asking`);
    then it has arrived (`Arrived`).
* `LibraryProofs`.
  * Regions: what was not written over its own source is the set it should be;
    frames are told truly because a bounded set of numbers has a least and a
    largest member (`LeastOf`, from the library's well-founded minimum). The
    grid is of any size.
  * Fonts (`FontsInv`): an id that was given is as far behind the next as ids were
    made since, modulo their number, until they come round to it (`AfterIs`,
    `AfterAdds`), so a table made anew, with fewer fonts than there are ids, cannot
    have it before. `InstalledAssumption` is that the fonts are fewer than the ids.
  * `Defaults`: unless `XGetDefault` found no file, the flag is set just while
    the database is its own.
  * Contexts (`ContextsInv`): each entry is in the chain its key hashes to, no key
    has two, the entries are those saved and as many as `numentries`. Growing and
    shrinking move entries one by one: the loop's invariant says of the first `i`
    entries that they are in the new table and of the others that they are not,
    so that each step keeps what is found. `ContextsAreFound` is this, and
    `OwnEntriesAlwaysStay` both parts of `Stores`.
  * Drawing and places. The scratch bitmap is as large as the last image, at
    least (`DrawingInv`); the other parts of `DrawnAsTold` are facts about functions
    (`DrawnWhereTold` has all). Exposures: the rectangles of a region are the
    largest runs of each of its rows, which cover it (`RowStarts`, `RowEnds`) and
    have no point in common (`RowIs`, `RectsAre`). Relative coordinates: a fold
    over points takes one at a time (`IsFold`, `FoldIs`), so that what it returns
    is the sum at each index. Windows: what is asked of a window goes up or down its
    tree by recursive functions, which exist because a parent is below its
    children in number (`ClimbExists`); a point converted to the screen and back
    is the same by arithmetic, and the child under the pointer is the last one
    (`UnderIs`), which has the largest number.
  * Images (`ImagesAlwaysKept`, facts about functions of any sizes, paddings
    and bitmaps, and of the depths an image can have). A row is as long as its
    pixels are, at least, so two pixels of whole bytes have no byte in common
    (`PlacesApart`), and one of a bit leaves the other bits of its byte
    (`BitIs`). So putting a pixel keeps the others (`SoundKeeps`, `PutIs`), and
    putting many leaves at each point its own, in any order: induction on the
    number of points (`PutsAre`). With the bits of a bitmap in the order of
    `Format_Image` (`FormatIs`) pixmaps, parts of them and cursors follow
    (`BitmapIs`, `SubImageIs`), and the numbers of the older file format are
    divided as they were multiplied (`OlderIs`). The binary search of colors is
    right of a range when it is right of the shorter ones (`SearchStep`).
  * Quarks: a number taken and not yet inserted is below the counter, nobody
    else's, and in no pair. `OneThreadOneQuark` assumes one thread: nothing is
    inserted between its look-up and its insertion.
* `SequenceLemmas` says what inserting in and removing from a list leaves, and
  what the last message of a kind in a queue is when one is appended or taken
  (`LastOf`, `NoneOf`): the lemmas the queues of `EventQueue`, `Windows`, `Input`,
  `Geometry` and `Selection` share. For the tree of windows it says what
  flattening a list of lists returns, whose elements and in what order
  (`FlattenIs`), that what is said of a tree of finite height, at each node
  in terms of its children, exists (`SaidExists`), and so does what is said of
  each number in terms of lower ones (`ClimbExists`, `RunExists`). All are
  inductions, made on sets of numbers (`UpFrom0`).

The proofs assume nothing but the constants' assumptions in the modules, which
TLC evaluates on the instances above, and the facts of the library's theorem
modules. `ContextsAssumption` has XIDs and contexts numbers and `NULL` no pointer that
is saved; `DrawingAssumption` keeps coordinates small enough for their sums to stay
in the sixteen bits of an `XPoint` or `XRectangle`, beyond which the code's
rectangles wrap; `ImagesAssumption` has images of the depths that the library
makes (Image.cpp:50) and bitmaps of rows of one length; `TreesAssumption` numbers windows above their parents, as
they are when none is reparented and as they can be numbered otherwise.
Some definitions have the form they have for the proofs' sake: `WindowActivated`
tells a BWindow's windows as one set, not one by one (each writes its own flag,
and at most one of them the word, so that the order does not matter),
`LoadFont` takes the least id, not the head of a sorted list, and `FindColor`
searches by a recursive function.

Only model-checked:

* `WakesUp`, `LockIsLetGo` and `CallsReturn`: liveness is beyond the prover.
* `DatabasesAreKept`, `QueriesAgree`, `TextsAreKept` and `NamesAreParsed`: what
  they say is computed by recursion over trees of tables and texts (Resources,
  ResourceFile, TextLists, Settings, Commands, Fonts), and to prove it is
  induction over that data.

## Plan

What would come next: two client threads that use and destroy windows
(Drawables.cpp:68), and the search of a resource as a recursive function, of which
`QueriesAgree` could be proved.

The runs are as many as can be kept within a few minutes: a new component joins
`MCHooks` or `MCLibrary` as a part. The disagreements that an earlier run
showed and that are exceptions now are listed above.

## Not modelled

What Haiku paints, and metrics of its fonts; arcs; names of keysyms and of
cursor shapes, which are tables; the constants of screens and visuals; input
methods, the bell, debugging output, `stubs.c`, `macros.c` and `xext/`, which
return constants or forward; declarations in headers. The display lock is
recursive and taken by one thread. `PROJECT.json` lists for each component what
is left out of it.
