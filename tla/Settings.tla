------------------------------ MODULE Settings ------------------------------
(***************************************************************************)
(* The bytes of _XSETTINGS_SETTINGS (xlib/Settings.cpp), least significant *)
(* first, and a reader of them.  A string is a sequence of bytes.          *)
(***************************************************************************)
EXTENDS Integers, Sequences, SequencesExt

CONSTANT SettingLists      \* sequences of [name, type, value]; the type is 0 or 1

Card(n, width) == [i \in 1..width |-> (n \div 256 ^ (i - 1)) % 256]
Zeros(n) == [i \in 1..n |-> 0]

Padding(len) == ((len + 3) \div 4) * 4 - len

Append_(string, width) == Card(Len(string), width) \o string \o Zeros(Padding(Len(string)))

AppendHeader(type, name) == <<type, 0>> \o Append_(name, 2) \o Card(0, 4)

Added_(s) == AppendHeader(s.type, s.name) \o (IF s.type = 0 THEN Card(s.value, 4) ELSE Append_(s.value, 4))

(* XSettings: the header, then the settings, and their number written over *)
(* the placeholder at the eighth byte.                                     *)
Get(settings) ==
  LET bytes == <<0, 0, 0, 0>> \o Card(1, 4) \o Card(0, 4)
               \o FoldLeft(LAMBDA b, s : b \o Added_(s), <<>>, settings)
  IN  [i \in DOMAIN bytes |-> IF i \in 9..12 THEN Card(Len(settings), 4)[i - 8] ELSE bytes[i]]

(* _x_handle_get_settings: two names, and numbers that depend on the size  *)
(* of the plain font, in twelfths: three more settings from twice on.      *)
Scaled(family, size) ==
  <<[name |-> <<1>>, type |-> 1, value |-> <<104>>], [name |-> <<2>>, type |-> 1, value |-> family],
    [name |-> <<3>>, type |-> 0, value |-> (size * 96 * 1024) \div 12]>>
  \o IF size < 24 THEN <<>>
     ELSE <<[name |-> <<4>>, type |-> 0, value |-> size \div 12],
            [name |-> <<5>>, type |-> 0,
             value |-> ((size - 12 * ((size - 12) \div 12)) * 96 * 1024) \div 12]>>

-----------------------------------------------------------------------------
(* A reader, as the protocol has it: every part starts at a multiple of    *)
(* four bytes.                                                             *)
Number(b, at, width) ==
  FoldLeft(LAMBDA n, i : 256 * n + b[at + width - i], 0, [i \in 1..width |-> i])
Aligned(n) == ((n + 3) \div 4) * 4

RECURSIVE Read(_, _, _)
Read(b, at, n) ==
  IF n = 0 THEN IF at = Len(b) + 1 THEN <<>> ELSE <<"rest">>
  ELSE LET len == Number(b, at + 2, 2)
           value == at + 4 + Aligned(len) + 4
           size == IF b[at] = 0 THEN 0 ELSE Number(b, value, 4)
       IN  <<[name |-> SubSeq(b, at + 4, at + 3 + len), type |-> b[at],
              value |-> IF b[at] = 0 THEN Number(b, value, 4) ELSE SubSeq(b, value + 4, value + 3 + size)]>>
           \o Read(b, value + 4 + Aligned(size), n - 1)

(* What is read of the settings is what was put in, whatever the lengths.  *)
SettingsAreRead ==
  /\ \A l \in SettingLists : Read(Get(l), 13, Number(Get(l), 9, 4)) = l
  /\ \A size \in {9, 12, 15, 24, 30} :
       Read(Get(Scaled(<<83, 97>>, size)), 13, IF size < 24 THEN 3 ELSE 5) = Scaled(<<83, 97>>, size)
==============================================================================
