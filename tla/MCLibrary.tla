------------------------------ MODULE MCLibrary ------------------------------
(* The parts of the library that the client calls and that keep to         *)
(* themselves: one of them is used in each behaviour.                      *)
EXTENDS Resources, ResourceFile, Stores, Regions, TextLists, Commands, Fonts,
        Settings, Pictures, Quarks

Parts == {"quarks", "resources", "contexts", "defaults", "regions", "texts", "images", "fonts", "drawing"}

Init ==
  /\ part \in Parts
  /\ IF part = "resources" THEN ResourcesInit
     ELSE db = [d \in Databases |-> <<>>] /\ used = {} /\ puts = 0
          /\ kept = [d \in Databases |-> {}]
  /\ ContextsInit /\ DefaultsInit /\ RegionsInit /\ FontsInit /\ DrawingInit
  /\ QuarksInit

Next ==
  /\ UNCHANGED part
  /\ \/ /\ part = "resources" /\ ResourcesNext
        /\ UNCHANGED <<contextVars, defaultsVars, regionVars, fontVars, drawingVars, quarkVars>>
     \/ /\ part = "contexts" /\ ContextsNext
        /\ UNCHANGED <<resourceVars, defaultsVars, regionVars, fontVars, drawingVars, quarkVars>>
     \/ /\ part = "defaults" /\ DefaultsNext
        /\ UNCHANGED <<resourceVars, contextVars, regionVars, fontVars, drawingVars, quarkVars>>
     \/ /\ part = "regions" /\ RegionsNext
        /\ UNCHANGED <<resourceVars, contextVars, defaultsVars, fontVars, drawingVars, quarkVars>>
     \/ /\ part = "fonts" /\ FontsNext
        /\ UNCHANGED <<resourceVars, contextVars, defaultsVars, regionVars, drawingVars, quarkVars>>
     \/ /\ part = "drawing" /\ DrawingNext
        /\ UNCHANGED <<resourceVars, contextVars, defaultsVars, regionVars, fontVars, quarkVars>>
     \/ /\ part = "quarks" /\ QuarksNext
        /\ UNCHANGED <<resourceVars, contextVars, defaultsVars, regionVars, fontVars, drawingVars>>

Spec == Init /\ [][Next]_<<part, resourceVars, contextVars, defaultsVars, regionVars,
                          fontVars, drawingVars, quarkVars>>

-----------------------------------------------------------------------------
(* A database holds what was put into it and merged with it, in the order  *)
(* that the searches of its tables rely on.                                *)
DatabasesAreKept == ResourcesAreKept /\ ChainsInOrder

(* What is asked of a database is answered alike by all that answer it:    *)
(* XrmQGetResource finds the best match, a list for a search gives the     *)
(* same as a search without one, and an enumeration visits what matches.   *)
QueriesAgree == GetFindsBest /\ SearchListAgrees /\ EnumeratesMatching

(* What is converted to text, and what is parsed, is what it was: resource *)
(* files, specifiers, lists of strings, texts of other encodings and the   *)
(* settings of the desktop.                                                *)
TextsAreKept ==
  part = "texts" => /\ DumpsAreRead /\ SpecifiersAgree /\ IncludesEnd /\ FilesCombine
                    /\ ListsAreKept /\ TextsAreConverted /\ SettingsAreRead

(* The command line, geometries and the names of fonts are what they say.  *)
NamesAreParsed ==
  /\ part = "texts" => CommandsAreParsed /\ GeometriesAreKept
  /\ part = "fonts" => FontsAreFound /\ WeightsAreDrawn

-----------------------------------------------------------------------------
(* Quarks: the names 1 and 2, their class 3, "?" 4; a resource 5, its class 6. *)
Bound(tight, quarks) == [tight |-> tight, quarks |-> quarks]
Tight(q) == Bound([i \in DOMAIN q |-> TRUE], q)
Loose(q) == Bound([i \in DOMAIN q |-> FALSE], q)

MCSpecs ==
  {Tight(<<5>>), Loose(<<5>>), Tight(<<4, 5>>), Loose(<<4, 5>>), Loose(<<3, 1, 5>>)}
  \cup {Bound(t, <<q, 5>>) : t \in [1 .. 2 -> BOOLEAN], q \in {1, 3}}
  \cup {Bound(t, <<1, 1, 5>>) : t \in {b \in [1 .. 3 -> BOOLEAN] : b[2] \/ b[3]}}

MCQueries == {[names |-> n, classes |-> [i \in DOMAIN n |-> IF n[i] = 5 THEN 6 ELSE 3]] :
                n \in {<<5>>, <<1, 5>>, <<2, 5>>, <<1, 2, 5>>, <<1, 1, 5>>, <<2, 1, 1, 5>>}}

MCLoads == {[specs |-> <<>>, puts |-> 3],
            [specs |-> <<Tight(<<1, 5>>), Tight(<<2, 5>>), Tight(<<6, 5>>), Loose(<<2, 2, 5>>)>>, puts |-> 1],
            [specs |-> <<Tight(<<1>>), Loose(<<2>>), Tight(<<3>>), Loose(<<5>>)>>, puts |-> 1]}

(* Texts: what is special in values, and in specifiers; a file that        *)
(* includes itself and one with too many components.                       *)
MCValues == BoundedSeq({"x", " ", NL, BS, "n", "1", SOH}, 3)
MCSpecifiers == BoundedSeq({"a", "b", ".", "*"}, 4)
MCFiles ==
  (<<"/", "d", "/", "self">> :>
     <<"a", ":", "x", NL, "#", "include", " ", "\"", "self", "\"", NL, "b", " ", ":", BS, NL, "y">>) @@
  (<<"/", "d", "/", "more">> :>
     <<"b", ":", "z", NL, "#", "include", "\"", "/", "one", "\"", NL, "*", "a", ":", "x">>) @@
  (<<"/", "one">> :> <<"!", NL, "b", ":", "y", NL, "a", ":", "z", NL, "#", "include", " ", "\"", "self", "\"">>) @@
  (<<"long">> :>
     <<"b", ":", "x", NL, "a", ".", "a", ".", "a", ".", "a", ".", "a", ":", "x", NL, "b", ":", "y">>)

MCKeys == [rid : 0 .. 2, context : 0 .. 1]

MCLists == BoundedSeq(BoundedSeq({"a", "b"}, 2), 3)
MCTexts == {[i \in 1 .. n |-> k] : n \in {0, 1, 50, 130, 200}, k \in {1, 2, 3}}
           \cup {<<1, 2, 0, 1>>, <<0>>}

MCBits == {[y \in 1 .. 2 |-> [x \in 1 .. w |-> IF (x + y * k) % 3 = 0 THEN 1 ELSE 0]] :
             w \in {1, 2, 7, 8, 9, 10, 15, 16, 17, 24, 25, 32}, k \in {1, 2}} \cup {<< <<1, 0, 1>> >>}
MCMemories == {<<>>, [i \in 1 .. 64 |-> (85 * i) % 256]}

MCTables ==
  LET Option(o, k) == [option |-> o, kind |-> k, skip |-> 1]
  IN {<<Option(<<1>>, "NoArg"), Option(<<1, 2>>, "SepArg"), Option(<<1, 2, 3>>, "IsArg"),
        Option(<<2, 1>>, "StickyArg"), Option(<<3, 3>>, "SkipNArgs")>>,
      <<Option(<<2>>, "ResArg"), Option(<<1, 1>>, "StickyArg"), Option(<<3, 1>>, "SkipArg"),
        Option(<<1, 2, 2>>, "NoArg"), Option(<<3>>, "SkipLine")>>}
MCCommands == BoundedSeq({<<1>>, <<1, 2>>, <<2>>, <<1, 2, 3>>, <<2, 1, 1>>, <<3>>, <<3, 3>>}, 3)

MCGeometries == [width : {1, 20}, height : {3}, x : {0, 12}, y : {0, 7}, xneg : {FALSE}, yneg : {FALSE}]
                \cup [width : {1, 20}, height : {3}, x : {0, -12}, y : {0, -7}, xneg : {TRUE}, yneg : BOOLEAN \ {FALSE}]
                \cup [width : {1, 20}, height : {3}, x : {0, -12}, y : {7}, xneg : {TRUE}, yneg : {FALSE}]
MCSizeHints == [base : {-1, 2}, min : {-1, 4}, max : {-1, 10, 30}, inc : {-1, 3}]

(* A font with two words in its name, fonts whose names and flags are not  *)
(* the same, and ones that were installed between two displays.            *)
Font_(family, style, face, plain, fixed) ==
  [family |-> family, style |-> style, face |-> face, monospaced |-> fixed, plain |-> plain,
   fixed |-> fixed, encoding |-> IF plain THEN "utf8" ELSE IF fixed THEN "latin" ELSE "hankaku"]
MCInstalled ==
  LET sans == Font_(<<"Sans">>, {}, {}, TRUE, FALSE)
      bold == Font_(<<"Sans">>, {"Bold"}, {"Bold"}, FALSE, FALSE)
      heavy == Font_(<<"sans">>, {}, {"Bold"}, FALSE, FALSE)
      mono == Font_(<<"Mono">>, {"Italic"}, {"Italic"}, FALSE, TRUE)
      bits == Font_(<<"Old", "Bits">>, {"Italic"}, {}, FALSE, FALSE)
  IN  {<<sans, bold, mono>>, <<bits, sans, mono>>, <<mono>>, <<heavy, mono, bold, bits>>}
MCFontNames ==
  {[dashes |-> FALSE, words |-> <<n>>] : n \in {"fixed", "9x15", "Helvetica", "sans", "Nowhere"}}
  \cup {[dashes |-> TRUE, words |-> w] :
          w \in {<<"*", "*", "bold">>, <<"*", "Sans", "*", "*", "*", "*", 16, -1>>,
                 <<"*", "Sans", "*", "*", "*", "*", -1, 140>>, <<"*", "Old", "Bits">>}}

MCSettings == BoundedSeq({[name |-> <<65>>, type |-> 0, value |-> 70000], [name |-> <<65, 66, 67, 68>>, type |-> 1, value |-> <<120>>],
                          [name |-> <<65, 66>>, type |-> 1, value |-> <<>>], [name |-> <<67, 68, 69>>, type |-> 1, value |-> <<1, 2, 3, 4>>]}, 3)

MCPoints == BoundedSeq({<<0, 0>>, <<1, -2>>, <<5, 3>>, <<32767, 1>>}, 3)
MCCopies == [x : {-1, 0, 1, 2}, y : {-1, 0, 2}, width : 1 .. 4, height : 1 .. 3]

MCTrees ==
  LET Window(parent, x, y, size, hidden) ==
        [parent |-> parent, x |-> x, y |-> y, width |-> size, height |-> size, hidden |-> hidden]
  IN  {<<Window(0, 3, 4, 9, h), Window(1, 1, 1, 4, i), Window(1, 2, 2, 4, FALSE), Window(g, 1, -1, 3, FALSE),
         Window(0, -2, 0, 2, FALSE)>> : h, i \in BOOLEAN, g \in 1 .. 3}
MCPointers == (-3 .. 8) \X {-1, 0, 2, 5, 6, 7}
=============================================================================
