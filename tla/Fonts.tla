-------------------------------- MODULE Fonts --------------------------------
(***************************************************************************)
(* The table of fonts (xlib/Font.cpp), made when the first display opens   *)
(* and cleared when one closes, and the names fonts are looked up by.      *)
(*                                                                         *)
(* A description is a sequence of 14 fields: foundry, family, weight,      *)
(* slant, set width, style, pixels, decipoints, two resolutions, spacing,  *)
(* average width, character set and encoding.  A family is a sequence of   *)
(* words, with a '-' between them.  A name is a sequence of the words      *)
(* between its '-'s; a number that is a '*' in a name is -1.               *)
(***************************************************************************)
EXTENDS Integers, Sequences, FiniteSets, SequencesExt

CONSTANTS
  Installed,      \* what may be installed: sequences of [family, style, face,
                  \* monospaced, encoding, plain, fixed]; style and face are the sets
                  \* of "Bold" and "Italic" in its name, and of its flags
  FontNames,      \* the names looked up: [dashes, words]
  FontIds,        \* the ids a uint16_t can be: 2^16
  MaxOpens        \* bound: displays opened

ASSUME InstalledAssumption ==
  /\ FontIds \in Nat \ {0, 1}
  /\ \A installed \in Installed :
       /\ Len(installed) \in Nat /\ DOMAIN installed = 1 .. Len(installed)
       /\ Len(installed) < FontIds

VARIABLES
  sFonts,         \* sFonts: of each id, what was installed and its xlfd
  sLastFontID,
  sDefaultFonts,  \* the ids of the default fonts, 0 while there was none
  opens,
  given           \* history: the ids that XLoadFont gave, with what they described
                  \* and how many ids were made since, they themselves included

fontVars == <<sFonts, sLastFontID, sDefaultFonts, opens, given>>

-----------------------------------------------------------------------------
Family == 2
TextFields == {3, 5, 6, 13, 14}
CharFields == {4, 11}
NumberFields == {7, 8, 9, 10, 12}
Wild == [f \in 1..14 |-> IF f = Family THEN <<"*">> ELSE IF f \in NumberFields THEN 0 ELSE "*"]
Lower(s) == IF s = "Sans" THEN "sans" ELSE s            \* BString::ICompare
LowerAll(words) == [i \in DOMAIN words |-> Lower(words[i])]

(* parse_xlfd: a name without '-' is a family; in others, field i is the   *)
(* ith word, and those that are missing are wild.                          *)
ParseXlfd(name) ==
  IF ~name.dashes
  THEN CASE name.words = <<"fixed">> -> [Wild EXCEPT ![Family] = name.words, ![8] = 100]
         [] name.words = <<"9x15">> -> [Wild EXCEPT ![Family] = <<"fixed">>, ![8] = 120]
         [] OTHER -> [Wild EXCEPT ![Family] = name.words]
  ELSE [f \in 1..14 |->
          IF f \notin DOMAIN name.words THEN Wild[f]
          ELSE IF f = Family THEN <<name.words[f]>>
          ELSE IF f \in NumberFields THEN IF name.words[f] = -1 THEN 0 ELSE name.words[f]
          ELSE name.words[f]]

(* create_xlfd.  A font is slanted if its name has it and its flags do not. *)
GetWeight(f) == IF "Bold" \in f.face \cup f.style THEN "bold" ELSE "medium"
GetSlant(f) == IF "Italic" \in f.face \/ "Italic" \notin f.style THEN "r" ELSE "i"
GetSpacing(f) == IF f.monospaced THEN "m" ELSE "p"
GetEncoding(f) ==
  CASE f.encoding = "utf8" -> <<"iso10646", "8">>
    [] f.encoding = "kanji" -> <<"jisx0208.1983", "0">>
    [] f.encoding = "hankaku" -> <<"jisx0201.1976", "0">>
    [] f.encoding \in {"latin", "unknown"} -> <<"iso8859", "1">>

CreateXlfd(f) ==
  <<"TTFont", f.family, GetWeight(f), GetSlant(f), "normal", "", 0, 0, 0, 0,
    GetSpacing(f), 0>> \o GetEncoding(f)

SerializeXlfd(x) == [dashes |-> TRUE, words |-> <<x[1]>> \o x[Family] \o SubSeq(x, 3, 14)]

(* compare_xlfds: the default fonts have other names too.                  *)
CompareXlfds(x, base, id) ==
  /\ \/ x[Family] = <<"*">> \/ LowerAll(x[Family]) = LowerAll(base[Family])
     \/ id = sDefaultFonts.plain /\ x[Family] = <<"Helvetica">>
     \/ id = sDefaultFonts.fixed /\ x[Family] \in {<<"fixed">>, <<"cursor">>}
  /\ \A f \in TextFields : x[f] = "*" \/ base[f] = "*" \/ Lower(x[f]) = Lower(base[f])
  /\ \A f \in CharFields : x[f] = "*" \/ base[f] = "*" \/ x[f] = base[f]
  /\ \A f \in {7, 8} : x[f] = 0 \/ base[f] = 0 \/ x[f] = base[f]

Unsized(x) == [x EXCEPT ![7] = 0, ![8] = 0]
PointSize(x) == IF x[8] \div 10 # 0 THEN x[8] \div 10 ELSE (x[7] * 3) \div 4

Matching(x) == {id \in DOMAIN sFonts : CompareXlfds(x, sFonts[id].xlfd, id)}
ById(ids) == SetToSortSeq(ids, <)

(* XLoadFont gives the id and the size, or no id: none either if the first *)
(* font that matches has the id 0; XListFontsWithInfo the names of the     *)
(* first.                                                                  *)
LoadFont(name) ==
  LET x == ParseXlfd(name)
      ids == Matching(Unsized(x))
  IN  IF ids = {} \/ 0 \in ids THEN [id |-> 0, size |-> 0]
      ELSE [id |-> CHOOSE id \in ids : \A other \in ids : id <= other, size |-> PointSize(x)]

XListFonts(pattern, maxNames) ==
  LET ids == ById(Matching(Unsized(ParseXlfd(pattern))))
      Listed(id) == SerializeXlfd(sFonts[id].xlfd)
  IN  [i \in 1 .. (IF Len(ids) < maxNames THEN Len(ids) ELSE maxNames) |-> Listed(ids[i])]

(* XCreateFontSet: the first of a list of names that there is.             *)
XCreateFontSet(names) ==
  LET found == SelectSeq(names, LAMBDA n : LoadFont(n).id # 0)
  IN  IF found = <<>> THEN [id |-> 0, size |-> 0] ELSE LoadFont(Head(found))

(* _bfont_from_font: the font to draw with, or the plain one for an id     *)
(* that is gone; size 0 is the size of the plain font.                     *)
Default == [family |-> <<"default">>, style |-> {}, size |-> 0]
BFontFromFont(font) ==
  IF font.id \notin DOMAIN sFonts THEN Default
  ELSE [family |-> sFonts[font.id].xlfd[Family], style |-> sFonts[font.id].font.style,
        size |-> font.size]

NULL == [fid |-> [id |-> 0, size |-> 0], bfont |-> Default]
XQueryFont(font) ==
  IF font.id \notin DOMAIN sFonts THEN NULL ELSE [fid |-> font, bfont |-> BFontFromFont(font)]
XLoadQueryFont(name) == XQueryFont(LoadFont(name))

(* The names of the fonts of a set are made, but not given back.           *)
XGetFontProperty(struct) == SerializeXlfd(sFonts[struct.fid.id].xlfd)
XFontsOfFontSet(set) == [structs |-> <<XQueryFont(set)>>, names |-> <<>>]

-----------------------------------------------------------------------------
FontsInit ==
  /\ sFonts = <<>> /\ sLastFontID = 1
  /\ sDefaultFonts = [plain |-> 0, fixed |-> 0]
  /\ opens = 0 /\ given = {}

(* _x_init_font, with what is installed by then; ids come round.           *)
InitFont(installed) ==
  LET id(i) == (sLastFontID + i - 1) % FontIds
      at(k) == ((k - sLastFontID) % FontIds) + 1
      LastOf(P(_), was) == LET S == {i \in DOMAIN installed : P(i)}
                         IN  IF S = {} THEN was ELSE id(CHOOSE i \in S : \A j \in S : j <= i)
  IN  /\ opens < MaxOpens /\ opens' = opens + 1
      /\ IF sFonts # <<>> THEN UNCHANGED <<sFonts, sLastFontID, sDefaultFonts, given>>
         ELSE /\ sFonts' = [k \in {id(i) : i \in DOMAIN installed} |->
                              [font |-> installed[at(k)], xlfd |-> CreateXlfd(installed[at(k)])]]
              /\ sLastFontID' = (sLastFontID + Len(installed)) % FontIds
              /\ sDefaultFonts' =
                   [plain |-> LastOf(LAMBDA i : installed[i].plain, sDefaultFonts.plain),
                    fixed |-> LastOf(LAMBDA i : installed[i].fixed /\ ~installed[i].plain,
                                   sDefaultFonts.fixed)]
              /\ given' = {[id |-> g.id, font |-> g.font, since |-> g.since + Len(installed)] :
                           g \in given}

(* Mutant: ids start again.                                                *)
FinalizeFontAnew ==
  /\ sFonts # <<>> /\ sFonts' = <<>> /\ sLastFontID' = 1
  /\ UNCHANGED <<sDefaultFonts, opens, given>>

(* _x_finalize_font, when a display is closed: ids go on from where they   *)
(* were.                                                                   *)
FinalizeFont ==
  /\ sFonts # <<>> /\ sFonts' = <<>>
  /\ UNCHANGED <<sLastFontID, sDefaultFonts, opens, given>>

XLoadFont(name) ==
  LET id == LoadFont(name).id IN
  /\ id # 0
  /\ given' = given \cup {[id |-> id, font |-> sFonts[id],
                           since |-> IF id < sLastFontID THEN sLastFontID - id
                                     ELSE sLastFontID - id + FontIds]}
  /\ UNCHANGED <<sFonts, sLastFontID, sDefaultFonts, opens>>

FontsNext ==
  \/ \E i \in Installed : InitFont(i)
  \/ FinalizeFont
  \/ \E n \in FontNames : XLoadFont(n)

FontsSpec == FontsInit /\ [][FontsNext]_fontVars

-----------------------------------------------------------------------------
(* A Font names the font it was given for, or none, though displays were   *)
(* closed and fonts installed in between: never another one, until the ids *)
(* have come round to its own.                                             *)
FontsStayTheirs ==
  \A g \in given : g.since <= FontIds /\ g.id \in DOMAIN sFonts => sFonts[g.id] = g.font

(* The name of a font, as listed and as its property, loads it, or an      *)
(* earlier one that is listed under the same name but for case, in the size *)
(* that is asked for; the first name listed for a pattern is that of the    *)
(* font it loads; sets skip what is not there.  (Families with a '-' are    *)
(* not found by name, and when ids have come round nothing is whose first   *)
(* match has the id 0.)                                                    *)
FontsAreFound ==
  0 \notin DOMAIN sFonts =>
  /\ \A id \in DOMAIN sFonts :
       LET is == sFonts[id].xlfd
           name == XGetFontProperty(XFontsOfFontSet([id |-> id, size |-> 0]).structs[1])
           load == XLoadQueryFont(name)
           sized == XLoadQueryFont([name EXCEPT !.words[8] = 140])
       IN  Len(is[Family]) = 1 =>
             /\ load # NULL /\ load.fid.id <= id /\ load.fid.size = 0
             /\ LowerAll(load.bfont.family) = LowerAll(is[Family])
             /\ \A f \in 1..14 \ {Family} : sFonts[load.fid.id].xlfd[f] = is[f]
             /\ sized.bfont = [load.bfont EXCEPT !.size = 14]
  /\ \A n \in FontNames :
       LET names == XListFonts(n, 2)
       IN  IF LoadFont(n).id = 0 THEN names = <<>> /\ XLoadQueryFont(n) = NULL
           ELSE /\ names # <<>> /\ Head(names) = XGetFontProperty(XLoadQueryFont(n))
                /\ \A m \in FontNames :
                     XCreateFontSet(<<m, n>>) = LoadFont(IF LoadFont(m).id = 0 THEN n ELSE m)

(* What is asked for by weight is drawn so: a font that is found as medium  *)
(* has no "Bold" in its name, and one found as bold has it or is made bold. *)
(* An italic one, by its flags, is found as an upright one (Font.cpp:150),  *)
(* and where nothing is found, a font with the id 0 is.                     *)
WeightsAreDrawn ==
  0 \notin DOMAIN sFonts =>
  \A id \in DOMAIN sFonts, weight \in {"medium", "bold"} :
    LET pattern == [dashes |-> TRUE, words |-> <<"*", sFonts[id].xlfd[Family][1], weight>>]
        found == XLoadQueryFont(pattern)
        bold == "Bold" \in sFonts[found.fid.id].font.face \cup found.bfont.style
    IN  found # NULL => bold = (weight = "bold")
==============================================================================
