------------------------------ MODULE Commands ------------------------------
(***************************************************************************)
(* The command line and geometries of a program: XrmParseCommand           *)
(* (xlib/xorg/ParseCmd.c), XParseGeometry (ParseGeom.c), XGeometry (Geom.c) *)
(* and XWMGeometry (WMGeom.c).                                             *)
(***************************************************************************)
EXTENDS Integers, SequencesExt

CONSTANTS
  Tables,       \* tables of options: sequences of [option, kind, skip]
  Commands,     \* argument lists, without the program's name
  Geometries,   \* [width, height, x, y, xneg, yneg]
  SizeHints,    \* [base, min, max, inc], of one dimension; -1 for none
  DisplaySize

(* Arguments and options are sequences of characters, which are numbers.   *)
Less(a, b) ==        \* strcmp(a, b) < 0
  \/ IsStrictPrefix(a, b)
  \/ \E i \in DOMAIN a \cap DOMAIN b : a[i] < b[i] /\ \A j \in 1 .. i - 1 : a[j] = b[j]

Sticks == {"StickyArg", "IsArg"}

(* One argument is looked up.  s is [matches, found, sorted]: an exact     *)
(* match ends the search, and so does an option after the argument if the  *)
(* table was found to be sorted.                                           *)
RECURSIVE Search(_, _, _, _)
Search(table, arg, i, s) ==
  IF i > Len(table)
  THEN [s EXCEPT !.sorted = IF @ = "Check" THEN "Sorted" ELSE @]
  ELSE LET o == table[i].option
           sorted == IF s.sorted = "Check" /\ i > 1 /\ Less(o, table[i - 1].option)
                     THEN "NotSorted" ELSE s.sorted
           ends == IF sorted = "Check" /\ i = Len(table) THEN "Sorted" ELSE sorted
           t == [s EXCEPT !.sorted = sorted]
       IN CASE IsPrefix(o, arg) /\ (o = arg \/ table[i].kind \in Sticks) ->
                 [matches |-> 1, found |-> i, sorted |-> ends]
            [] IsStrictPrefix(arg, o) ->
                 Search(table, arg, i + 1, [t EXCEPT !.matches = @ + 1, !.found = i])
            [] ~IsPrefix(o, arg) /\ ~IsPrefix(arg, o) /\ Less(arg, o) /\ sorted = "Sorted" -> t
            [] OTHER -> Search(table, arg, i + 1, t)

(* What is left of the arguments: s is [saved, argc, puts, sorted]; a put   *)
(* is an option and the value it was given.                                *)
RECURSIVE Parse(_, _, _)
Parse(table, args, s) ==
  IF args = <<>> THEN s
  ELSE
  LET f == Search(table, Head(args), 1, [matches |-> 0, found |-> 0, sorted |-> s.sorted])
      o == table[f.found]
      t == [s EXCEPT !.sorted = f.sorted]
      Save(n) == Parse(table, SubSeq(args, n + 1, Len(args)),
                       [t EXCEPT !.saved = @ \o SubSeq(args, 1, n)])
      Put(n, v) == Parse(table, SubSeq(args, n + 1, Len(args)),
                         [t EXCEPT !.puts = Append(@, [option |-> f.found, value |-> v]),
                                   !.argc = @ - n])
      Least(m, n) == IF m < n THEN m ELSE n
  IN CASE f.matches # 1 -> Save(1)
       [] f.matches = 1 /\ o.kind = "NoArg" -> Put(1, "value")
       [] f.matches = 1 /\ o.kind = "IsArg" -> Put(1, Head(args))
       [] f.matches = 1 /\ o.kind = "StickyArg" ->
            Put(1, SubSeq(Head(args), Len(o.option) + 1, Len(Head(args))))
       [] f.matches = 1 /\ o.kind \in {"SepArg", "ResArg"} ->
            IF Len(args) > 1 THEN Put(2, args[2]) ELSE Save(1)
       [] f.matches = 1 /\ o.kind = "SkipArg" -> Save(Least(2, Len(args)))
       [] f.matches = 1 /\ o.kind = "SkipLine" -> Save(Len(args))
       [] f.matches = 1 /\ o.kind = "SkipNArgs" -> Save(Least(1 + o.skip, Len(args)))

XrmParseCommand(table, args) ==
  Parse(table, args, [saved |-> <<>>, argc |-> Len(args) + 1, puts |-> <<>>,
                      sorted |-> IF Len(args) + 1 > 2 THEN "Check" ELSE "DontCare"])

-----------------------------------------------------------------------------
(* Geometries are sequences of characters.                                 *)
Digits == <<"0", "1", "2", "3", "4", "5", "6", "7", "8", "9">>
Digit(c) == SelectInSeq(Digits, LAMBDA d : d = c) - 1
RECURSIVE ReadInteger(_, _)
ReadInteger(s, n) ==
  IF s # <<>> /\ Digit(Head(s)) >= 0 THEN ReadInteger(Tail(s), 10 * n + Digit(Head(s)))
  ELSE [value |-> n, rest |-> s]

Signed(s) ==    \* ReadInteger of what may have a sign of its own
  CASE s # <<>> /\ Head(s) = "-" ->
         LET r == ReadInteger(Tail(s), 0) IN [value |-> -r.value, rest |-> r.rest]
    [] s # <<>> /\ Head(s) = "+" -> ReadInteger(Tail(s), 0)
    [] OTHER -> ReadInteger(s, 0)

NoGeometry == [mask |-> {}, width |-> 0, height |-> 0, x |-> 0, y |-> 0]
Starts(s, chars) == s # <<>> /\ Head(s) \in chars

(* Mutant: only what is below zero counts as from the other edge.          *)
OffsetIfLess(s, g, axis) ==
  LET r == Signed(Tail(s))
      v == IF Head(s) = "-" THEN -r.value ELSE r.value
  IN IF r.rest = Tail(s) THEN [g |-> NoGeometry, rest |-> <<>>, ok |-> FALSE]
     ELSE [g |-> [g EXCEPT ![axis] = v, !.mask = @ \cup {axis}
                                          \cup (IF v < 0 THEN {axis \o "neg"} ELSE {})],
           rest |-> r.rest, ok |-> TRUE]

(* One offset, from the sign on.                                           *)
OffsetOf(s, g, axis) ==
  LET r == Signed(Tail(s))
      v == IF Head(s) = "-" THEN -r.value ELSE r.value
  IN IF r.rest = Tail(s) THEN [g |-> NoGeometry, rest |-> <<>>, ok |-> FALSE]
     ELSE [g |-> [g EXCEPT ![axis] = v, !.mask = @ \cup {axis}
                                          \cup (IF Head(s) = "-" THEN {axis \o "neg"} ELSE {})],
           rest |-> r.rest, ok |-> TRUE]

SizeOf(s, g, dim) ==
  LET r == Signed(s)
  IN IF r.rest = s THEN [g |-> NoGeometry, rest |-> <<>>, ok |-> FALSE]
     ELSE [g |-> [g EXCEPT ![dim] = r.value, !.mask = @ \cup {dim}], rest |-> r.rest, ok |-> TRUE]

(* One part after the other, where the text goes on with it.               *)
ReadPart(s, part) ==
  CASE ~s.ok -> s
    [] s.ok /\ part = "width" ->
         IF Starts(s.rest, {"+", "-", "x"}) THEN s ELSE SizeOf(s.rest, s.g, part)
    [] s.ok /\ part = "height" ->
         IF Starts(s.rest, {"x", "X"}) THEN SizeOf(Tail(s.rest), s.g, part) ELSE s
    [] s.ok /\ part = "x" ->
         IF Starts(s.rest, {"+", "-"}) THEN OffsetOf(s.rest, s.g, part) ELSE s
    [] s.ok /\ part = "y" ->
         IF "x" \in s.g.mask /\ Starts(s.rest, {"+", "-"}) THEN OffsetOf(s.rest, s.g, part) ELSE s

XParseGeometry(string) ==
  LET start == IF Starts(string, {"="}) THEN Tail(string) ELSE string
      s == FoldLeft(ReadPart, [g |-> NoGeometry, rest |-> start, ok |-> TRUE],
                    <<"width", "height", "x", "y">>)
  IN IF string = <<>> \/ ~s.ok \/ s.rest # <<>> THEN NoGeometry ELSE s.g

(* One dimension of a window: where it is and how large.  u and d are what *)
(* the user and the program ask for.                                       *)
Place(g, axis, size, extra) ==
  IF (axis \o "neg") \in g.mask THEN DisplaySize + g[axis] - size - extra ELSE g[axis]

XGeometry(u, d, axis, dim, unit, bwidth, add) ==
  LET size == IF dim \in u.mask THEN u[dim] ELSE d[dim]
      extra == 2 * bwidth + add
  IN [size |-> size,
      at |-> IF axis \in u.mask THEN Place(u, axis, size * unit, extra)
             ELSE Place(d, axis, d[dim] * unit, extra)]

XWMGeometry(u, d, axis, dim, hints, bwidth) ==
  LET base == IF hints.base # -1 THEN hints.base ELSE IF hints.min # -1 THEN hints.min ELSE 0
      min == IF hints.min # -1 THEN hints.min ELSE base
      inc == IF hints.inc # -1 THEN hints.inc ELSE 1
      asked == IF dim \in u.mask THEN u[dim] ELSE IF dim \in d.mask THEN d[dim] ELSE 1
      least == IF asked * inc + base < min THEN min ELSE asked * inc + base
      size == IF hints.max # -1 /\ least > hints.max THEN hints.max ELSE least
      from == IF axis \in u.mask THEN u ELSE d
  IN [size |-> size,
      at |-> IF axis \in from.mask THEN Place(from, axis, size, 2 * bwidth) ELSE 0,
      far |-> (axis \o "neg") \in u.mask
              \/ (axis \notin u.mask /\ (axis \o "neg") \in d.mask)]

-----------------------------------------------------------------------------
Found(table, arg) ==
  LET Option(i) == table[i].option
      exact == {i \in DOMAIN table : IsPrefix(Option(i), arg)
                                     /\ (Option(i) = arg \/ table[i].kind \in Sticks)}
      longer == {i \in DOMAIN table : IsStrictPrefix(arg, Option(i))}
  IN IF exact # {} THEN {CHOOSE i \in exact : \A j \in exact : i <= j}
     ELSE IF \E i \in longer : longer = {i} THEN longer ELSE {}
InOrder(table) == \A i \in 2 .. Len(table) : ~Less(table[i].option, table[i - 1].option)

(* XrmParseCommand leaves what it does not know and counts it in argc.      *)
(* Whatever was found before, an argument is that option which it is or    *)
(* begins with, or the only one it abbreviates; a table is taken for a      *)
(* sorted one, which shortens the search (ParseCmd.c:107), only if it is.   *)
CommandsAreParsed == \A table \in Tables, args \in Commands :
  LET p == XrmParseCommand(table, args)
      Answer(arg, sorted) ==
        LET f == Search(table, arg, 1, [matches |-> 0, found |-> 0, sorted |-> sorted])
        IN IF f.matches = 1 THEN {f.found} ELSE {}
  IN /\ p.argc = Len(p.saved) + 1
     /\ p.sorted = "Sorted" => InOrder(table)
     /\ \A i \in DOMAIN args, sorted \in {"DontCare", p.sorted} :
          Answer(args[i], sorted) = Found(table, args[i])

Written(g) ==
  LET Number(n) == IF n < 10 THEN <<Digits[n + 1]>>
                   ELSE <<Digits[(n \div 10) + 1], Digits[(n % 10) + 1]>>
      Offset(v, neg) == IF neg THEN <<"-">> \o Number(-v) ELSE <<"+">> \o Number(v)
  IN Number(g.width) \o <<"x">> \o Number(g.height) \o Offset(g.x, g.xneg) \o Offset(g.y, g.yneg)

Asked(g) ==
  [mask |-> {"width", "height", "x", "y"}
              \cup (IF g.xneg THEN {"xneg"} ELSE {}) \cup (IF g.yneg THEN {"yneg"} ELSE {}),
   width |-> g.width, height |-> g.height, x |-> g.x, y |-> g.y]

(* A geometry that is written and parsed is the same, and "-0" is not "+0": *)
(* it is from the far edge.  A window that XWMGeometry places from the far  *)
(* edge has its border as far from it as was asked, whatever its size was   *)
(* made by the hints, which also bound it; and it says so by its gravity.   *)
GeometriesAreKept ==
  /\ \A g \in Geometries : XParseGeometry(Written(g)) = Asked(g)
  /\ \A u \in {Asked(g) : g \in Geometries}, hints \in SizeHints, bwidth \in {0, 1} :
       LET w == XWMGeometry(u, NoGeometry, "x", "width", hints, bwidth)
       IN /\ w.far <=> "xneg" \in u.mask
          /\ w.far => w.at + w.size + 2 * bwidth = DisplaySize + u.x
          /\ hints.min # -1 /\ hints.min <= hints.max => w.size \in hints.min .. hints.max
          /\ hints.max # -1 => w.size <= hints.max
=============================================================================
