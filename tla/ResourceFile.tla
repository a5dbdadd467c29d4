---------------------------- MODULE ResourceFile ----------------------------
(***************************************************************************)
(* The text of resources: files, lines and specifiers (xlib/xorg/Xrm.c).   *)
(*                                                                         *)
(* A text is a sequence of characters.  NL, TAB, BS and SOH stand for a    *)
(* newline, a tab, a backslash and the control character of code 1; "EOS"  *)
(* is the end of a text, and "include" is one token.  What the parser      *)
(* makes is a sequence of resources, in the order in which they are put:   *)
(* [tight, names, value].                                                  *)
(***************************************************************************)
EXTENDS Naturals, SequencesExt

CONSTANTS
  Files,        \* the texts of the files that can be read, by name
  MaxDepth,     \* MAXDBDEPTH: how deep files include files
  MaxQuarks,    \* QLIST_SIZE
  Values,       \* values of resources
  Specifiers

NL == "NL"   TAB == "TAB"   BS == "BS"   SOH == "SOH"   EOS == "EOS"

At(T, i) == IF i \in DOMAIN T THEN T[i] ELSE EOS
EndOfLine == {NL, EOS}                  \* is_EOL
Space == {" ", TAB}                     \* is_space
Binding == {".", "*"}                   \* is_binding
EndOfQuark == EndOfLine \cup Space \cup Binding \cup {":"}      \* is_EOQ
Octal == {"0", "1", "2", "3", "4", "5", "6", "7"}               \* is_odigit

RECURSIVE Until(_, _, _)
Until(T, i, stops) == IF At(T, i) \in stops \cup {EOS} THEN i ELSE Until(T, i + 1, stops)
RECURSIVE Past(_, _, _)
Past(T, i, skipped) == IF At(T, i) \in skipped THEN Past(T, i + 1, skipped) ELSE i

-----------------------------------------------------------------------------
(* XrmStringToBindingQuarkList: the components of a specifier, and its     *)
(* bindings, of which those before a component count as one.               *)
RECURSIVE Specifier(_, _, _, _, _)
Specifier(S, name, tight, names, bound) ==
  IF S = <<>> THEN [names |-> Append(names, name), tight |-> Append(bound, tight)]
  ELSE LET c == Head(S)
       IN CASE c \notin Binding -> Specifier(Tail(S), Append(name, c), tight, names, bound)
            [] c \in Binding /\ name # <<>> ->
                 Specifier(Tail(S), <<>>, c # "*", Append(names, name), Append(bound, tight))
            [] c \in Binding /\ name = <<>> ->
                 Specifier(Tail(S), <<>>, tight /\ c # "*", names, bound)

XrmStringToBindingQuarkList(S) == Specifier(S, <<>>, TRUE, <<>>, <<>>)

-----------------------------------------------------------------------------
(* GetDatabase.  The left hand side of a line, from i on: its components,  *)
(* bindings and where it ends.  Spaces within a component are part of it,  *)
(* and so is what follows bindings after them.                             *)
RECURSIVE LeftHandSide(_, _, _, _, _)
LeftHandSide(T, i, name, names, tight) ==
  IF At(T, i) \in Binding
  THEN LeftHandSide(T, i + 1, name, names,
         IF At(T, i) = "*" THEN ReplaceAt(tight, Len(tight), FALSE) ELSE tight)
  ELSE LET j == Until(T, i, EndOfQuark)
           k == Past(T, j, Space)
           word == name \o SubSeq(T, i, j - 1)
           more == Append(names, word)
       IN CASE Len(more) > MaxQuarks ->
                 [names |-> <<>>, tight |-> <<>>, at |-> Len(T) + 1]
            [] At(T, j) \in Binding ->
                 LeftHandSide(T, j + 1, <<>>, more, Append(tight, At(T, j) = "."))
            [] At(T, k) \in EndOfLine \cup {":"} ->
                 [names |-> more, tight |-> tight, at |-> k]
            [] OTHER ->
                 LeftHandSide(T, k, word \o SubSeq(T, j, k - 1), names, tight)

(* Where a value begins: after spaces and lines that are continued.        *)
RECURSIVE Begin(_, _)
Begin(T, i) ==
  LET j == Past(T, i, Space)
  IN IF At(T, j) = BS /\ At(T, j + 1) = NL THEN Begin(T, j + 2) ELSE j

Code(digits) == IF digits = <<"0", "0", "1">> THEN SOH ELSE "another"

RECURSIVE RightHandSide(_, _, _)
RightHandSide(T, i, value) ==
  LET c == At(T, i)
      d == At(T, i + 1)
      digits == CHOOSE n \in 0 .. 3 : /\ \A k \in 1 .. n : At(T, i + k) \in Octal
                                      /\ n = 3 \/ At(T, i + n + 1) \notin Octal
      text == SubSeq(T, i + 1, i + digits)
  IN CASE c \in EndOfLine -> [value |-> value, at |-> i]
       [] c \notin EndOfLine \cup {BS} -> RightHandSide(T, i + 1, Append(value, c))
       [] c = BS /\ d = EOS -> [value |-> value, at |-> i + 1]
       [] c = BS /\ d = NL -> RightHandSide(T, i + 2, value)
       [] c = BS /\ d = "n" -> RightHandSide(T, i + 2, Append(value, NL))
       [] c = BS /\ d = BS -> RightHandSide(T, i + 2, Append(value, BS))
       [] OTHER ->
            RightHandSide(T, i + 1 + digits,
              IF digits = 3 THEN Append(value, Code(text)) ELSE value \o text)

RECURSIVE GetDatabase(_, _, _, _, _)

(* A name that does not begin at the root is one beside the file it is in, *)
(* if that was read by a name of a directory.                              *)
GetIncludeFile(base, name, depth) ==
  LET slash == SelectLastInSeq(base, LAMBDA c : c = "/")
      real == IF name # <<>> /\ name[1] = "/" THEN name ELSE SubSeq(base, 1, slash) \o name
  IN IF name = <<>> \/ depth >= MaxDepth \/ real \notin DOMAIN Files THEN <<>>
     ELSE GetDatabase(Files[real], 1, TRUE, real, depth + 1)

(* Line after line, or only one; depth is how many files include this one. *)
GetDatabase(T, i, doall, base, depth) ==
  LET j == Past(T, i, Space)
      Go(k) == IF doall /\ At(T, k) # EOS THEN GetDatabase(T, k + 1, doall, base, depth) ELSE <<>>
      (* a directive *)
      d == Past(T, j + 1, Space)
      open == Past(T, d + 1, Space)
      close == Until(T, open + 1, EndOfLine \cup {"\""})
      included == At(T, d) = "include" /\ At(T, open) = "\"" /\ At(T, close) = "\""
      (* a resource *)
      left == LeftHandSide(T, j, <<>>, <<>>, <<TRUE>>)
      right == RightHandSide(T, Begin(T, left.at + 1), <<>>)
  IN CASE At(T, j) \in EndOfLine -> Go(j)
       [] At(T, j) = "!" -> Go(Until(T, j, EndOfLine))
       [] At(T, j) = "#" ->
            (IF included THEN GetIncludeFile(base, SubSeq(T, open + 1, close - 1), depth) ELSE <<>>)
            \o Go(Until(T, j, EndOfLine))
       [] OTHER ->
            IF At(T, left.at) # ":" THEN Go(left.at)
            ELSE <<[names |-> left.names, tight |-> left.tight, value |-> right.value]>>
                 \o Go(right.at)

XrmPutLineResource(T) == GetDatabase(T, 1, FALSE, <<>>, 0)

-----------------------------------------------------------------------------
(* Databases of what was read: sets of resources, one for each specifier.  *)
(* Where there may be none, a set of at most one database.                 *)
Spec_(r) == [names |-> r.names, tight |-> r.tight]
Over(db, r) == {q \in db : Spec_(q) # Spec_(r)} \cup {r}
PutAll(db, puts) == FoldLeft(Over, db, puts)
CombineDatabase(from, into, override) ==
  LET win == IF override THEN from ELSE into
      lose == IF override THEN into ELSE from
  IN win \cup {r \in lose : \A w \in win : Spec_(w) # Spec_(r)}

XrmGetStringDatabase(T) == PutAll({}, GetDatabase(T, 1, TRUE, <<>>, 0))

(* ReadInFile's result is the text of the file, if there is one.           *)
FileResources(name) == GetDatabase(Files[name], 1, TRUE, name, 0)
XrmGetFileDatabase(name) == IF name \in DOMAIN Files THEN {PutAll({}, FileResources(name))} ELSE {}

(* Put into the target line by line, or into a database of their own that  *)
(* is combined with it, or is the target if there was none.                *)
XrmCombineFileDatabase(name, target, override) ==
  LET there == UNION target
  IN IF name \notin DOMAIN Files THEN [status |-> 0, target |-> target]
     ELSE [status |-> 1,
           target |-> IF override THEN {PutAll(there, FileResources(name))}
                      ELSE {CombineDatabase(PutAll({}, FileResources(name)), there, FALSE)}]

(* The file of the environment over that of the user, or the one of them   *)
(* that there is.                                                          *)
InitDefaults(user, environment) ==
  LET xdb == XrmGetFileDatabase(user)
      userdb == XrmGetFileDatabase(environment)
  IN IF userdb = {} THEN xdb
     ELSE IF xdb = {} THEN userdb
     ELSE {CombineDatabase(UNION userdb, UNION xdb, TRUE)}

-----------------------------------------------------------------------------
(* DumpEntry.  A value that is not a string is a comment, of its type.     *)
PrintBindingQuarkList(r) ==
  FlattenSeq([i \in DOMAIN r.names |->
    (IF ~r.tight[i] THEN <<"*">> ELSE IF i > 1 THEN <<".">> ELSE <<>>) \o r.names[i]])

(* Mutant: spaces at the beginning are not kept.                           *)
DumpedBare(value) ==
  FlattenSeq([i \in DOMAIN value |->
    CASE value[i] = NL -> IF i < Len(value) THEN <<BS, "n", BS, NL>> ELSE <<BS, "n">>
      [] value[i] = BS -> <<BS, BS>>
      [] value[i] = SOH -> <<BS, "0", "0", "1">>
      [] OTHER -> <<value[i]>>])

Dumped(value) ==
  (IF value # <<>> /\ value[1] \in Space THEN <<BS>> ELSE <<>>)
  \o FlattenSeq([i \in DOMAIN value |->
       CASE value[i] = NL -> IF i < Len(value) THEN <<BS, "n", BS, NL>> ELSE <<BS, "n">>
         [] value[i] = BS -> <<BS, BS>>
         [] value[i] = SOH -> <<BS, "0", "0", "1">>
         [] OTHER -> <<value[i]>>])

DumpEntry(r, isString) ==
  (IF isString THEN <<>> ELSE <<"!">>) \o PrintBindingQuarkList(r)
  \o (IF isString THEN <<":", TAB>> ELSE <<"=", "type", ":", TAB>>)
  \o Dumped(r.value) \o <<NL>>

-----------------------------------------------------------------------------
(* A file that was written by XrmPutFileDatabase, of two strings and a      *)
(* value of another type between them, is read back as the two strings,    *)
(* whatever their characters; but for a value of another type with a       *)
(* newline before its end, whose comment ends there (Xrm.c:2047).           *)
DumpsAreRead == \A v, w \in Values :
  LET r == [names |-> <<<<"a">>, <<"b">>>>, tight |-> <<TRUE, FALSE>>, value |-> v]
      s == [names |-> <<<<"c">>>>, tight |-> <<FALSE>>, value |-> w]
      other == [names |-> <<<<"d">>>>, tight |-> <<TRUE>>, value |-> w]
      Dump(o) == DumpEntry(r, TRUE) \o DumpEntry(o, FALSE) \o DumpEntry(s, TRUE)
      broken == \E i \in 1 .. Len(w) - 1 : w[i] = NL
  IN ~broken => XrmGetStringDatabase(Dump(other)) = {r, s}

(* The two parsers of a specifier, one for programs and one for files      *)
(* (Xrm.c:394 and 1235), agree on every specifier without spaces.          *)
SpecifiersAgree == \A S \in Specifiers :
  LET line == XrmPutLineResource(S \o <<":", "v">>)
      spec == XrmStringToBindingQuarkList(S)
  IN line = <<[names |-> spec.names, tight |-> spec.tight, value |-> <<"v">>]>>

(* Files that include each other are read, each MAXDBDEPTH times at most;   *)
(* of a line with too many components, neither it nor the rest of its file. *)
IncludesEnd == \A f \in DOMAIN Files :
  LET puts == GetDatabase(Files[f], 1, TRUE, f, 0)
  IN /\ Len(puts) <= (MaxDepth + 1) * Len(Files[f])
     /\ \A i \in DOMAIN puts : Len(puts[i].names) <= MaxQuarks

(* To combine a file with a database (Xrm.c:1680) is the same as to read it *)
(* into one of its own and merge the two, whichever is to win; a file that  *)
(* is not there changes nothing; and the defaults (GetDflt.c:128) are those *)
(* of the environment's file and, of the user's, what it does not say.      *)
FilesCombine == \A f, g \in DOMAIN Files \cup {<<"nowhere">>} :
  LET read == XrmGetFileDatabase(f)  target == XrmGetFileDatabase(g)
      defaults == InitDefaults(f, g)
  IN /\ \A override \in BOOLEAN :
          XrmCombineFileDatabase(f, target, override) =
            IF read = {} THEN [status |-> 0, target |-> target]
            ELSE [status |-> 1, target |-> {CombineDatabase(UNION read, UNION target, override)}]
     /\ defaults = {} <=> read = {} /\ target = {}
     /\ UNION target \subseteq UNION defaults /\ UNION defaults \subseteq UNION (target \cup read)
     /\ {Spec_(r) : r \in UNION defaults} = {Spec_(r) : r \in UNION (target \cup read)}
=============================================================================
