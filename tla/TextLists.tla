------------------------------ MODULE TextLists ------------------------------
(***************************************************************************)
(* Lists of strings, text properties and their encodings                   *)
(* (xlib/xorg/TextToStr.c, StrToText.c, xlib/Locale.cpp).                   *)
(*                                                                         *)
(* A string is a sequence of characters other than NUL.  In the locale's    *)
(* encoding, one byte each, a character is written as how many bytes it     *)
(* has in UTF-8; Illegal is no character of that encoding.                  *)
(***************************************************************************)
EXTENDS Naturals, SequencesExt

CONSTANTS Lists,        \* lists of strings
          Texts         \* texts in the locale's encoding

NUL == "NUL"
Illegal == 0
Failed == [status |-> FALSE, list |-> <<>>]

RECURSIVE Joined(_)
Joined(list) ==
  IF Len(list) = 1 THEN Head(list) ELSE Head(list) \o <<NUL>> \o Joined(Tail(list))

XStringListToTextProperty(list) ==
  [encoding |-> "STRING", value |-> IF list = <<>> THEN <<>> ELSE Joined(list)]

RECURSIVE Split(_)
Split(value) ==
  LET i == SelectInSeq(value, LAMBDA c : c = NUL)
  IN IF i = 0 THEN <<value>>
     ELSE <<SubSeq(value, 1, i - 1)>> \o Split(SubSeq(value, i + 1, Len(value)))

XTextPropertyToStringList(tp) ==
  IF tp.encoding # "STRING" THEN Failed
  ELSE [status |-> TRUE, list |-> IF tp.value = <<>> THEN <<>> ELSE Split(tp.value)]

(* The encoding is changed when the list could not be joined (Locale.cpp:235).  *)
Xutf8TextListToTextProperty(list) == XStringListToTextProperty(list)
Xutf8TextPropertyToTextList(tp) == XTextPropertyToStringList(tp)

-----------------------------------------------------------------------------
(* convert_to_utf8: out is how many bytes were written, of the room that   *)
(* the buffer had; when it is full it grows.  What iconv refuses is tried   *)
(* again and again.                                                        *)
RECURSIVE Bytes(_, _)
Bytes(text, n) == IF n = 0 THEN 0 ELSE text[n] + Bytes(text, n - 1)
Fitting(text, room) ==
  CHOOSE n \in 0 .. Len(text) :
    /\ Bytes(text, n) <= room /\ \A i \in 1 .. n : text[i] # Illegal
    /\ n = Len(text) \/ text[n + 1] = Illegal \/ Bytes(text, n + 1) > room

Grown(length) == IF length < 64 THEN 128 ELSE (length * 3) \div 2

RECURSIVE Convert(_, _, _)
Convert(text, out, capacity) ==
  LET n == Fitting(text, capacity - out)
      length == out + Bytes(text, n)
      left == SubSeq(text, n + 1, Len(text))
  IN CASE left = <<>> -> [out |-> length, capacity |-> capacity, ends |-> TRUE]
       [] left # <<>> /\ (Head(left) = Illegal \/ Grown(length) = capacity) ->
            [out |-> length, capacity |-> capacity, ends |-> FALSE]
       [] OTHER -> Convert(left, length, Grown(length))

convert_to_utf8(text) == Convert(text, 0, Len(text))

-----------------------------------------------------------------------------
(* A list that was made a text property (StrToText.c) and read back         *)
(* (TextToStr.c) is the same list; but a list of one empty string is read   *)
(* as an empty list, as both have no bytes.                                *)
ListsAreKept == \A list \in Lists : list # << <<>> >> =>
  XTextPropertyToStringList(XStringListToTextProperty(list)) = [status |-> TRUE, list |-> list]

(* Every text of the locale's encoding is converted, whole, however much    *)
(* longer it becomes, within the buffer it was given last; one that is not  *)
(* of this encoding is tried forever (Locale.cpp:41-54).                    *)
TextsAreConverted == \A text \in Texts :
  LET c == convert_to_utf8(text)
  IN /\ c.ends <=> \A i \in DOMAIN text : text[i] # Illegal
     /\ c.ends => c.out = Bytes(text, Len(text)) /\ c.out <= c.capacity
=============================================================================
