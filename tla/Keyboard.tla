------------------------------ MODULE Keyboard ------------------------------
(***************************************************************************)
(* Keys and buttons (xlib/Keyboard.cpp; XWindow::_MouseEvent and _KeyEvent *)
(* of xlib/Drawables.cpp).                                                 *)
(*                                                                         *)
(* A keycode is a character between ' ' and '~', or one of a table of      *)
(* others that starts at 128.  A message says which buttons are held, and  *)
(* an event names one button: the window works out which from those of the *)
(* event before.                                                           *)
(***************************************************************************)
EXTENDS Integers, Sequences, FiniteSets

CONSTANTS
  MaxPresses,     \* bound: buttons pressed, and wheels turned, after the first state
  Bytes           \* the texts that keys give: sequences of at most four characters

ASSUME BytesAssumption == \A bytes \in Bytes : bytes \in Seq(0 .. 255) /\ Len(bytes) \in 1 .. 4

VARIABLES
  held,           \* the buttons held
  last_buttons,   \* last_buttons
  grabbed,        \* another window has the pointer
  selects,        \* the events of buttons and motions that the window selects
  event,          \* history: the last event put, its button and what it should be
  pressed,        \* history: the button whose press, or a motion with it, was put
                  \* while no other was held, or 0
  presses

buttonVars == <<held, last_buttons, grabbed, selects, event, pressed, presses>>

-----------------------------------------------------------------------------
(* Keysyms: characters are themselves, the others are numbered from 1000   *)
(* in the order of LocalKeyCode, but for the space, which is a character.  *)
NoSymbol == 0
Unknown == 1
Start == 128
Locals == 1..36
Modifiers == 1..9
Space == 12
ShiftLeft == 1
Sym(i) == IF i = Space THEN 32 ELSE 1000 + i

IsAllowedAscii(c) == c >= 32 /\ c <= 126

(* map_x_from_local, XkbKeycodeToKeysym and those that call it.            *)
MapXFromLocal(code) ==
  IF IsAllowedAscii(code) THEN code
  ELSE IF code - Start \in Locals THEN Sym(code - Start) ELSE NoSymbol

(* An unknown keysym is given the key of the left Shift.                   *)
XKeysymToKeycode(sym) ==
  IF IsAllowedAscii(sym) THEN sym
  ELSE IF \E i \in Locals : Sym(i) = sym THEN Start + (CHOOSE i \in Locals : Sym(i) = sym)
  ELSE Start + ShiftLeft

(* The modifiers: rows of two keys, of Shift, Lock, Control and Mod1 to 4. *)
XGetModifierMapping == <<{1, 2}, {7}, {3, 4}, {5}, {8}, {9}, {6}>>

XkbKeysymToModifiers(sym) ==
  CASE sym \in {Sym(1), Sym(2)} -> 1
    [] sym = Sym(7) -> 2
    [] sym \in {Sym(3), Sym(4)} -> 3
    [] sym = Sym(5) -> 4
    [] sym = Sym(6) -> 7
    [] sym = Sym(8) -> 5
    [] sym = Sym(9) -> 6
    [] OTHER -> 0

XGetKeyboardMapping(first, count, max) ==
  IF first + (count - 1) > max THEN <<>> ELSE [i \in 1..count |-> MapXFromLocal(first + i - 1)]

-----------------------------------------------------------------------------
(* A key has its code from the table, by what it is without modifiers (an  *)
(* index of the table, or 0), or from the only character it gives.         *)
FillKeyEvent(local, bytes) ==
  [keycode |-> IF local # 0 THEN Start + local
               ELSE IF Len(bytes) = 1 /\ IsAllowedAscii(bytes[1]) THEN bytes[1] ELSE Unknown,
   bytes |-> bytes]

(* RootWindow::DispatchMessage: a key is the view's, but for Tab with the   *)
(* Control key, and the Print key; a release is told to who selects presses. *)
DispatchedTo(m) ==
  IF (m.raw = "Tab" /\ m.control) \/ (m.raw = "Function" /\ m.key = "Print") THEN "BWindow" ELSE "view"
KeyEvent(type, m) == [type |-> type, keycode |-> FillKeyEvent(m.local, m.bytes).keycode]
KeyDown(m, mask) ==
  IF DispatchedTo(m) = "view" /\ "KeyPressMask" \in mask THEN <<KeyEvent("KeyPress", m)>> ELSE <<>>
KeyUp(m, mask) ==
  IF DispatchedTo(m) = "view" /\ "KeyPressMask" \in mask THEN <<KeyEvent("KeyRelease", m)>> ELSE <<>>

(* XLookupString: a key's character, whatever the buffer, or the bytes up  *)
(* to a zero, as far as the buffer holds.                                  *)
(* Mutant: the bytes after a zero too, and none of another key.            *)
LookupTable(e, size) == IF IsAllowedAscii(e.keycode) THEN <<e.keycode>> ELSE <<>>

XLookupString(e, size) ==
  IF IsAllowedAscii(e.keycode) THEN <<e.keycode>>
  ELSE LET zeros == {i \in DOMAIN e.bytes : e.bytes[i] = 0}
           length == IF zeros = {} THEN Len(e.bytes)
                     ELSE (CHOOSE i \in zeros : \A j \in zeros : i <= j) - 1
       IN  SubSeq(e.bytes, 1, IF length < size THEN length ELSE size)

-----------------------------------------------------------------------------
Buttons == {1, 2, 3}
Wheel == {4, 5}
Name(buttons) ==       \* the last test that holds gives the name; 2 and 3 are the other way round
  IF 1 \in buttons THEN 1 ELSE IF 3 \in buttons THEN 2 ELSE IF 2 \in buttons THEN 3 ELSE 0
Selectable == {"press", "release", "motion", "button motion"}
NoEvent == [type |-> "none", button |-> 0, expected |-> 0]

KeyboardTypeOK ==
  /\ {held, last_buttons} \subseteq SUBSET Buttons
  /\ grabbed \in BOOLEAN /\ selects \subseteq Selectable
  /\ pressed \in 0..3 /\ presses \in 0..MaxPresses
  /\ event.type \in {"none", "press", "release", "motion"} /\ event.button \in 0..5

KeyboardInit ==
  /\ held = {} /\ last_buttons = {}
  /\ grabbed = FALSE /\ selects \in SUBSET Selectable
  /\ event = NoEvent /\ pressed = 0 /\ presses = 0

(* XWindow::_MouseEvent, with the buttons of the message: a release is of  *)
(* those that are not held any more.  Each event is what comes after it.   *)
(* Mutant: what is held is what the next event is compared with.           *)
FoundHeld(type, buttons) == IF type = "release" THEN buttons \ last_buttons ELSE buttons

Found(type, buttons) == IF type = "release" THEN last_buttons \ buttons ELSE buttons

MouseEvent(type, buttons, expected) ==
  IF grabbed THEN UNCHANGED <<event, last_buttons>>
  ELSE /\ last_buttons' = Found(type, buttons)
       /\ event' = [type |-> type, button |-> Name(Found(type, buttons)), expected |-> expected]

Press(b) ==
  /\ presses < MaxPresses /\ presses' = presses + 1
  /\ b \notin held /\ held' = held \cup {b}
  /\ IF "press" \in selects
     THEN /\ MouseEvent("press", held', IF held = {} THEN Name({b}) ELSE 0)
          /\ pressed' = IF held = {} /\ ~grabbed THEN b ELSE 0
     ELSE UNCHANGED <<event, last_buttons>> /\ pressed' = 0
  /\ UNCHANGED <<grabbed, selects>>

Release(b) ==
  /\ b \in held /\ held' = held \ {b}
  /\ IF "release" \in selects
     THEN MouseEvent("release", held', IF pressed = b THEN Name({b}) ELSE 0)
     ELSE UNCHANGED <<event, last_buttons>>
  /\ pressed' = 0
  /\ UNCHANGED <<grabbed, selects, presses>>

(* MouseMoved within the window: it compares buttons too.                  *)
Alone(buttons) == IF \E b \in Buttons : buttons = {b} THEN CHOOSE b \in Buttons : buttons = {b} ELSE 0
Motion ==
  /\ "motion" \in selects \/ ("button motion" \in selects /\ held # {})
  /\ MouseEvent("motion", held, 0)
  /\ pressed' = IF grabbed THEN pressed ELSE Alone(held)
  /\ UNCHANGED <<held, grabbed, selects, presses>>

(* MessageReceived: the wheel is a press and a release, selected or not, *)
(* of a message that says nothing of buttons.                              *)
WheelTurned(b) ==
  /\ presses < MaxPresses /\ presses' = presses + 1
  /\ IF grabbed THEN UNCHANGED <<event, last_buttons>>
     ELSE last_buttons' = {} /\ event' = [type |-> "release", button |-> b, expected |-> b]
  /\ pressed' = IF grabbed THEN pressed ELSE 0
  /\ UNCHANGED <<held, grabbed, selects>>

(* Another window grabs the pointer, or gives it back; the client selects. *)
Grab(on) ==
  /\ grabbed # on /\ grabbed' = on
  /\ UNCHANGED <<held, last_buttons, selects, event, pressed, presses>>

SelectsButtons(types) ==
  /\ selects # types /\ selects' = types
  /\ UNCHANGED <<held, last_buttons, grabbed, event, pressed, presses>>

KeyboardNext ==
  \/ \E b \in Buttons : Press(b) \/ Release(b)
  \/ Motion
  \/ \E b \in Wheel : WheelTurned(b)
  \/ \E on \in BOOLEAN : Grab(on)
  \/ \E s \in SUBSET Selectable : SelectsButtons(s)

KeyboardSpec == KeyboardInit /\ [][KeyboardNext]_buttonVars

-----------------------------------------------------------------------------
(* An event put for a button that is alone names it, and its release names *)
(* the button whose press was put, or a motion with it alone, whatever was *)
(* grabbed or selected in between.  (With two buttons held, or a wheel turned while one is, an    *)
(* event may name another button, or none.)                                *)
ReleaseNamesPress == event.expected # 0 => event.button = event.expected

(* A keycode is the code of its symbol, except that of the space of the    *)
(* table, which has another code as a character; a known symbol is that of *)
(* its code; the keys of a row of modifiers are those that have it.        *)
KeysAgree ==
  /\ \A code \in 1..255 :
       MapXFromLocal(code) # NoSymbol /\ code # Start + Space
         => XKeysymToKeycode(MapXFromLocal(code)) = code
  /\ \A i \in Locals : MapXFromLocal(XKeysymToKeycode(Sym(i))) = Sym(i)
  /\ \A i \in Locals, row \in 1..7 :
       i \in XGetModifierMapping[row] <=> XkbKeysymToModifiers(Sym(i)) = row
  /\ \A first \in 1..255, count \in 1..2 :
       XGetKeyboardMapping(first, count, 255) # <<>>
         => MapXFromLocal(first) = XGetKeyboardMapping(first, count, 255)[1]

(* What XLookupString gives of the event of a key is the text of the key,  *)
(* as far as the buffer and the first zero in it.                          *)
TextIsTyped ==
  \A local \in {0} \cup (Locals \ Modifiers), bytes \in Bytes, size \in 1..4 :
    LET text == XLookupString(FillKeyEvent(local, bytes), size)
    IN  /\ \A i \in DOMAIN text : text[i] = bytes[i] /\ text[i] # 0
        /\ Len(text) = Len(bytes) \/ Len(text) = size \/ bytes[Len(text) + 1] = 0

(* A key that is told as pressed is told as released, and if its text is    *)
(* still the same with the same code; unless it is Tab and the Control key  *)
(* is pressed in between.  (A letter has the code of its text: if Shift is  *)
(* let go first, its release has another code, Keyboard.cpp:270.)           *)
ReleasesFollow ==
  \A local \in {0, Space} \cup Modifiers, raw \in {"Tab", "Function", "other"},
     key \in {"Print", "other"}, c, d \in BOOLEAN, mask \in SUBSET {"KeyPressMask", "KeyReleaseMask"} :
    LET Message(control) ==
          [local |-> local, bytes |-> <<65>>, raw |-> raw, key |-> key, control |-> control]
        down == KeyDown(Message(c), mask)
        up == KeyUp(Message(d), mask)
    IN  down # <<>> /\ ~(raw = "Tab" /\ d) =>
          up # <<>> /\ up[1] = [down[1] EXCEPT !.type = "KeyRelease"]
==============================================================================
