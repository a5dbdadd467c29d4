------------------------------ MODULE Resources ------------------------------
(***************************************************************************)
(* Resource databases (xlib/xorg/Xrm.c).                                   *)
(*                                                                         *)
(* A database is a tree of hash tables.  A table of nodes has, for each    *)
(* component name, up to four children: more nodes or the values below it, *)
(* and each of them tightly or loosely bound.  Children with one name form *)
(* a run in their bucket's chain whose order every search relies on.       *)
(*                                                                         *)
(* Quarks are numbers, as the buckets depend on them; 0 is NULLQUARK.  A   *)
(* database is the list of its top-level tables (db->table and its next);  *)
(* an empty list is also the database nobody has made yet.                 *)
(***************************************************************************)
EXTENDS Naturals, FiniteSets, SequencesExt

CONSTANTS
  Specs,        \* the resources that are put: [tight, quarks], two sequences
  Queries,      \* what is looked up: [names, classes], two sequences
  XrmQANY,      \* the quark of "?"
  Loads,        \* what "into" may hold at first: [specs, puts], a sequence of
                \* specs, and how many more puts follow
  NoValue

ASSUME SpecsAssumption ==
  \A s \in Specs : /\ s.quarks \in Seq(Nat \ {0}) /\ Len(s.quarks) > 0
                   /\ s.tight \in [DOMAIN s.quarks -> BOOLEAN]
ASSUME NoValueAssumption == NoValue \notin Nat

VARIABLES
  db,           \* two databases: "into", and "from" which is merged into it
  used,         \* resourceQuarks: the quarks that ever named a value
  puts,         \* bound: puts still to come; each puts a value of its own
  kept          \* history: [spec, value], what each database was given

resourceVars == <<db, used, puts, kept>>

Databases == {"into", "from"}

-----------------------------------------------------------------------------
(* Tables.  A value's entry is [name, tight, value].                       *)
Table(leaf, name, tight, loose, any, entry) ==
  [leaf |-> leaf, name |-> name, tight |-> tight, hasloose |-> loose,
   hasany |-> any, entries |-> 1, buckets |-> [i \in {0} |-> <<entry>>]]

Size(t) == Cardinality(DOMAIN t.buckets)
Hash(t, q) == q % Size(t)
Chain(t, q) == t.buckets[Hash(t, q)]
WithChain(t, q, chain) == [t EXCEPT !.buckets[Hash(t, q)] = chain]

Names(chain, i, q) == i <= Len(chain) /\ chain[i].name = q
FirstOf(chain, q) ==
  LET i == SelectInSeq(chain, LAMBDA e : e.name = q)
  IN IF i = 0 THEN Len(chain) + 1 ELSE i

(* Where a child is, or else where it belongs.                             *)
Slot(chain, q, leaf, tight) ==
  LET i == FirstOf(chain, q)
      Is(k) == Names(chain, k, q) /\ chain[k].leaf = leaf
      Node(k) == leaf /\ Names(chain, k, q) /\ ~chain[k].leaf
      j == i + (IF Node(i) THEN IF Node(i + 1) THEN 2 ELSE 1 ELSE 0)
      k == IF Is(j) /\ ~tight /\ chain[j].tight THEN j + 1 ELSE j
  IN [at |-> k, found |-> Is(k) /\ (tight => chain[k].tight)]

ValueSlot(chain, q, tight) ==
  LET i == FirstOf(chain, q)
      k == IF Names(chain, i, q) /\ ~tight /\ chain[i].tight THEN i + 1 ELSE i
  IN [at |-> k, found |-> Names(chain, k, q) /\ chain[k].tight = tight]

(* The entries of each name move together, in front of what is there.      *)
RECURSIVE Moved(_, _)
Moved(chain, t) ==
  IF chain = <<>> THEN t
  ELSE LET q == Head(chain).name
           run == SelectSeq(chain, LAMBDA e : e.name = q)
       IN Moved(SubSeq(chain, Len(run) + 1, Len(chain)),
                WithChain(t, q, run \o Chain(t, q)))

RECURSIVE Enough(_, _)
Enough(n, size) == IF n > 4 * size /\ size < 256 THEN Enough(n, 2 * size) ELSE size

GrowTable(t) ==
  IF t.entries <= 4 * Size(t) THEN t
  ELSE LET empty == [t EXCEPT !.buckets = [i \in 0 .. Enough(t.entries, Size(t)) - 1 |-> <<>>]]
           all == [i \in 1 .. Size(t) |-> t.buckets[i - 1]]
       IN FoldLeft(LAMBDA m, chain : Moved(chain, m), empty, all)

(* Mutant: the table is not told of its first loose entry.                 *)
AddedUnseen(t, q, at, entry, tight, any) ==
  GrowTable([WithChain(t, q, InsertAt(Chain(t, q), at, entry)) EXCEPT
               !.entries = @ + 1, !.hasany = @ \/ any])

Added(t, q, at, entry, tight, any) ==
  GrowTable([WithChain(t, q, InsertAt(Chain(t, q), at, entry)) EXCEPT
               !.entries = @ + 1, !.hasloose = @ \/ ~tight, !.hasany = @ \/ any])

(* PutEntry: what is not there yet is made, down to the value.             *)
RECURSIVE NewTable(_, _, _, _)
NewTable(name, tight, s, v) ==
  LET q == Head(s.quarks)  b == Head(s.tight)
      below == [tight |-> Tail(s.tight), quarks |-> Tail(s.quarks)]
  IN IF Len(s.quarks) = 1
     THEN Table(TRUE, name, tight, ~b, FALSE, [name |-> q, tight |-> b, value |-> v])
     ELSE Table(FALSE, name, tight, ~b, q = XrmQANY, NewTable(q, b, below, v))

RECURSIVE PutIn(_, _, _)
PutIn(t, s, v) ==
  LET q == Head(s.quarks)  b == Head(s.tight)
      below == [tight |-> Tail(s.tight), quarks |-> Tail(s.quarks)]
      chain == Chain(t, q)
  IN IF t.leaf
     THEN LET at == ValueSlot(chain, q, b)
              e == [name |-> q, tight |-> b, value |-> v]
          IN IF at.found THEN WithChain(t, q, ReplaceAt(chain, at.at, e))
             ELSE Added(t, q, at.at, e, b, FALSE)
     ELSE LET at == Slot(chain, q, Len(s.quarks) = 2, b)
          IN IF at.found
             THEN WithChain(t, q, ReplaceAt(chain, at.at, PutIn(chain[at.at], below, v)))
             ELSE Added(t, q, at.at, NewTable(q, b, below, v), b, q = XrmQANY)

(* The table of nodes, if any, comes first at the top, then that of values.*)
PutEntry(tops, s, v) ==
  LET leaf == Len(s.quarks) = 1
      i == IF leaf /\ tops # <<>> /\ ~tops[1].leaf THEN 2 ELSE 1
  IN IF i > Len(tops) \/ tops[i].leaf # leaf
     THEN InsertAt(tops, i, NewTable(0, TRUE, s, v))
     ELSE ReplaceAt(tops, i, PutIn(tops[i], s, v))

-----------------------------------------------------------------------------
(* Merging.  One after the other the entries of a chain are put in place,  *)
(* at before the entry of the other table they are compared with; a match  *)
(* is decided by override, or by merging two tables.                       *)
RECURSIVE MergeTables(_, _, _)
RECURSIVE MergeChain(_, _, _, _, _)

Earlier(t, f) ==      \* t comes before f in a run
  IF "leaf" \in DOMAIN f
  THEN (f.leaf /\ ~t.leaf) \/ (~f.tight /\ t.tight /\ (f.leaf \/ ~t.leaf))
  ELSE ~f.tight /\ t.tight

Same(t, f) ==
  f.tight = t.tight /\ ("leaf" \in DOMAIN f => f.leaf = t.leaf)

(* Mutant: what was there stays.                                           *)
MergedInto(t, f, override) ==
  IF "leaf" \in DOMAIN f THEN MergeTables(f, t, override) ELSE t

Merged(t, f, override) ==
  IF "leaf" \in DOMAIN f THEN MergeTables(f, t, override)
  ELSE IF override THEN f ELSE t

MergeChain(chain, t, q, at, override) ==
  IF chain = <<>> THEN t
  ELSE LET f == Head(chain)
           here == Chain(t, q)
           Next(u) == MergeChain(Tail(chain), u, q, at + 1, override)
           in == [WithChain(t, q, InsertAt(here, at, f)) EXCEPT !.entries = @ + 1]
       IN CASE Names(here, at, f.name) /\ Earlier(here[at], f) ->
                 MergeChain(chain, t, q, at + 1, override)
            [] Names(here, at, f.name) /\ ~Earlier(here[at], f) ->
                 IF Same(here[at], f)
                 THEN Next(WithChain(t, q, ReplaceAt(here, at, Merged(here[at], f, override))))
                 ELSE Next(in)
            [] ~Names(here, at, f.name) /\ f.name = q -> Next(in)
            [] OTHER -> MergeChain(chain, t, f.name, FirstOf(Chain(t, f.name), f.name), override)

MergeTables(from, into, override) ==
  LET t == [into EXCEPT !.hasloose = @ \/ from.hasloose, !.hasany = @ \/ from.hasany]
      chains == [i \in 1 .. Size(from) |-> from.buckets[i - 1]]
      All(m, chain) ==
        IF chain = <<>> THEN m
        ELSE LET q == Head(chain).name
             IN MergeChain(chain, m, q, FirstOf(Chain(m, q), q), override)
  IN GrowTable(FoldLeft(All, t, chains))

Combined(from, into, override) ==
  LET Of(tops, leaf) == SelectSeq(tops, LAMBDA t : t.leaf = leaf)
      Both(leaf) == IF Of(from, leaf) # <<>> /\ Of(into, leaf) # <<>>
                    THEN <<MergeTables(Of(from, leaf)[1], Of(into, leaf)[1], override)>>
                    ELSE Of(into, leaf) \o Of(from, leaf)
  IN Both(FALSE) \o Both(TRUE)

-----------------------------------------------------------------------------
(* Walking down.  A visit is a table of values, the path to it, and whether *)
(* only its loose values may match.  mode is "search" for the searches,     *)
(* "one" or "all" for enumerations of one level or all levels below.        *)
Visit(path, t, loose) ==
  [path |-> Append(path, <<t.name, t.tight>>), table |-> t, loose |-> loose]
AllChildren(t) == FlattenSeq([i \in 1 .. Size(t) |-> t.buckets[i - 1]])

(* NFIND: where a name's run starts, or its values in it; 0 for nowhere.    *)
NFind(chain, q, leaf) ==
  LET i == FirstOf(chain, q)
      Node(k) == k <= Len(chain) /\ ~chain[k].leaf
      j == IF leaf /\ Node(i) THEN IF Node(i + 1) THEN i + 2 ELSE i + 1 ELSE i
  IN IF Names(chain, j, q) THEN j ELSE 0

RECURSIVE EnumAllNTable(_, _)
EnumAllNTable(t, path) ==
  LET below == Append(path, <<t.name, t.tight>>)
      At(c) == IF c.leaf THEN <<Visit(below, c, FALSE)>> ELSE EnumAllNTable(c, below)
  IN FlattenSeq([i \in DOMAIN AllChildren(t) |-> At(AllChildren(t)[i])])

(* chain begins with the table of nodes to search; names is what is left   *)
(* of the levels above the value.                                          *)
RECURSIVE Walk(_, _, _, _, _)
Walk(chain, names, classes, path, mode) ==
  LET t == Head(chain)
      n == Len(names)
      here == Append(path, <<t.name, t.tight>>)
      bilevel == mode = "all" /\ n = 1
      From(s, i) == SubSeq(s, i, Len(s))
      (* one child's visits, after level i is matched *)
      Child(c, k, i, leaf) ==
        CASE c[k].leaf # leaf -> IF bilevel \/ c[k].hasloose THEN <<Visit(here, c[k], i < n)>> ELSE <<>>
          [] c[k].leaf /\ leaf -> <<Visit(here, c[k], FALSE)>>
          [] OTHER -> Walk(From(c, k), From(names, i + 1), From(classes, i + 1), here, mode)
      (* GTIGHTLOOSE: the places of a name's children at the first level *)
      TightLoose(c, k, leaf, next) ==
        IF c[k].leaf = leaf
        THEN (IF ~leaf /\ ~c[k].tight /\ next /\ c[k + 1].tight THEN <<k + 1>> ELSE <<>>)
             \o <<k>>
             \o (IF c[k].tight /\ next /\ c[k + 1].leaf = leaf THEN <<k + 1>> ELSE <<>>)
        ELSE IF c[k].tight /\ next THEN <<k, k + 1>> ELSE <<k>>
      (* GLOOSE: that of its loose one, at the levels below *)
      Loose(c, k, next) == IF ~c[k].tight THEN <<k>> ELSE IF next THEN <<k + 1>> ELSE <<>>
      Children(i, q) ==
        LET c == Chain(t, q)
            leaf == mode # "all" /\ i = n
            At(k) == LET next == Names(c, k + 1, q)
                     IN IF k = 0 THEN <<>>
                        ELSE IF i = 1 THEN TightLoose(c, k, leaf, next) ELSE Loose(c, k, next)
        IN FoldLeft(LAMBDA s, k : s \o Child(c, k, i, leaf), <<>>,
                    SelectSeq(At(NFind(c, q, leaf)), LAMBDA k : c[k].leaf \/ ~leaf))
      Level(i) ==
        FoldLeft(LAMBDA s, q : s \o Children(i, q), <<>>,
                 <<names[i], classes[i]>> \o (IF t.hasany THEN <<XrmQANY>> ELSE <<>>))
      (* every loose child that no name here will find *)
      Others ==
        LET c == AllChildren(t)
            First(k) == /\ ~c[k].tight /\ c[k].name \notin {names[1], classes[1]}
                        /\ \A j \in 1 .. k - 1 : c[j].tight \/ c[j].name # c[k].name
            At(k) == IF ~First(k) THEN <<>>
                     ELSE IF c[k].leaf THEN <<Visit(here, c[k], FALSE)>>
                     ELSE Walk(From(c, k), <<>>, <<>>, here, mode)
        IN FlattenSeq([k \in DOMAIN c |-> At(k)])
      (* the values beside this table *)
      j == CASE Len(chain) = 1 -> 0
             [] Len(chain) > 1 /\ chain[2].leaf -> IF chain[2].tight /\ ~t.tight THEN 3 ELSE 2
             [] Len(chain) > 1 /\ ~chain[2].leaf -> IF Len(chain) > 2 /\ chain[3].tight THEN 3 ELSE 0
      Beside(k) == IF n = 0 \/ chain[k].hasloose THEN <<Visit(path, chain[k], n > 0)>> ELSE <<>>
      Leaves ==
        IF j = 0 \/ ~Names(chain, j, t.name) THEN <<>>
        ELSE Beside(j) \o (IF j = 2 /\ chain[2].tight /\ Names(chain, 3, t.name)
                           THEN Beside(3) ELSE <<>>)
  IN (IF n = 0 THEN EnumAllNTable(t, path)
      ELSE (IF mode = "all" /\ t.hasloose THEN Others ELSE <<>>)
           \o FlattenSeq([i \in 1 .. (IF t.hasloose THEN n ELSE 1) |-> Level(i)]))
     \o Leaves

Tops(tops, names, classes, mode) ==
  IF tops = <<>> THEN <<>>
  ELSE IF names = <<>> /\ mode # "all"
  THEN IF Last(tops).leaf THEN <<Visit(<<>>, Last(tops), FALSE)>> ELSE <<>>
  ELSE IF ~tops[1].leaf THEN Walk(tops, names, classes, <<>>, mode)
  ELSE IF mode # "search" \/ tops[1].hasloose
  THEN <<Visit(<<>>, tops[1], names # <<>>)>> ELSE <<>>

(* The value of a table for a name, tight before loose, or of a class.     *)
ValueOf(t, q, loose) ==
  LET c == Chain(t, q)
      i == FirstOf(c, q)
      k == IF loose /\ Names(c, i, q) /\ c[i].tight THEN i + 1 ELSE i
  IN IF Names(c, k, q) THEN c[k].value ELSE NoValue
OrElse(x, y) == IF x # NoValue THEN x ELSE y

RECURSIVE FirstValue(_, _, _)
FirstValue(visits, name, class) ==
  IF visits = <<>> THEN NoValue
  ELSE LET v == Head(visits)
       IN OrElse(ValueOf(v.table, name, v.loose),
            OrElse(ValueOf(v.table, class, v.loose), FirstValue(Tail(visits), name, class)))

XrmQGetResource(tops, names, classes) ==
  FirstValue(Tops(tops, Front(names), Front(classes), "search"), Last(names), Last(classes))

(* The list of tables to search, without a table twice in a row; a loose   *)
(* one takes two places of the list, whose last is for the end.            *)
RECURSIVE SearchList(_, _, _)
SearchList(visits, list, room) ==
  IF visits = <<>> THEN [fits |-> TRUE, list |-> list]
  ELSE LET v == Head(visits)
       IN IF list # <<>> /\ Last(list).path = v.path THEN SearchList(Tail(visits), list, room)
          ELSE IF room < (IF v.loose THEN 2 ELSE 1) THEN [fits |-> FALSE, list |-> list]
          ELSE SearchList(Tail(visits), Append(list, v), room - (IF v.loose THEN 2 ELSE 1))

XrmQGetSearchList(tops, names, classes, listLength) ==
  IF listLength = 0 THEN [fits |-> FALSE, list |-> <<>>]
  ELSE SearchList(Tops(tops, names, classes, "search"), <<>>, listLength - 1)

XrmQGetSearchResource(list, name, class) ==
  LET Used(q, other) == IF q \in used THEN q ELSE other
  IN IF {name, class} \cap used = {} THEN NoValue
     ELSE FirstValue(list, Used(name, class), Used(class, name))

(* Each resource an enumeration calls its procedure for.                   *)
XrmEnumerateDatabase(tops, names, classes, mode) ==
  LET Entries(v) ==
        LET path == Tail(v.path)
            all == AllChildren(v.table)
            some == SelectSeq(all, LAMBDA e : v.loose => ~e.tight)
            Spec(e) == [quarks |-> Append([i \in DOMAIN path |-> path[i][1]], e.name),
                        tight |-> Append([i \in DOMAIN path |-> path[i][2]], e.tight)]
        IN [i \in DOMAIN some |-> [spec |-> Spec(some[i]), value |-> some[i].value]]
      visits == Tops(tops, names, classes, mode)
  IN FlattenSeq([i \in DOMAIN visits |-> Entries(visits[i])])

-----------------------------------------------------------------------------
Overridden(given, s, v) == {g \in given : g.spec # s} \cup {[spec |-> s, value |-> v]}

Put(state, s) ==
  [tops |-> PutEntry(state.tops, s, state.value),
   given |-> Overridden(state.given, s, state.value), value |-> state.value + 1]
Loaded(load) ==
  FoldLeft(Put, [tops |-> <<>>, given |-> {}, value |-> load.puts + 1], load.specs)

ResourcesInit == \E load \in Loads :
  LET l == Loaded(load)
  IN /\ db = [d \in Databases |-> IF d = "into" THEN l.tops ELSE <<>>]
     /\ kept = [d \in Databases |-> IF d = "into" THEN l.given ELSE {}]
     /\ used = {Last(s.quarks) : s \in ToSet(load.specs)}
     /\ puts = load.puts

XrmQPutResource(d, s) ==
  /\ puts > 0
  /\ db' = [db EXCEPT ![d] = PutEntry(@, s, puts)]
  /\ used' = used \cup {Last(s.quarks)}
  /\ kept' = [kept EXCEPT ![d] = Overridden(@, s, puts)]
  /\ puts' = puts - 1

XrmCombineDatabase(override) ==
  LET specs(d) == {g.spec : g \in kept[d]}
      wins == IF override THEN "from" ELSE "into"
      loses == IF override THEN "into" ELSE "from"
  IN /\ db["from"] # <<>>
     /\ db' = [into |-> Combined(db["from"], db["into"], override), from |-> <<>>]
     /\ kept' = [into |-> kept[wins] \cup {g \in kept[loses] : g.spec \notin specs(wins)},
                 from |-> {}]
     /\ UNCHANGED <<used, puts>>

XrmDestroyDatabase(d) ==
  /\ db[d] # <<>>
  /\ db' = [db EXCEPT ![d] = <<>>]
  /\ kept' = [kept EXCEPT ![d] = {}]
  /\ UNCHANGED <<used, puts>>

ResourcesNext ==
  \/ \E d \in Databases, s \in Specs : XrmQPutResource(d, s)
  \/ \E override \in BOOLEAN : XrmCombineDatabase(override)
  \/ \E d \in Databases : XrmDestroyDatabase(d)

-----------------------------------------------------------------------------
(* The properties are those of "into"; "from" is another until it is merged. *)
(*                                                                         *)
(* What the documentation of the file says of the tables (Xrm.c:101-107):  *)
(* entries of one name are contiguous, nodes before values and tight before *)
(* loose; and what the searches rely on besides: an entry is in the bucket  *)
(* of its name, and hasloose, hasany and entries are what they are of.      *)
RECURSIVE TableOK(_)
TableOK(t) ==
  LET Rank(e) == (IF ~t.leaf /\ e.leaf THEN 2 ELSE 0) + (IF e.tight THEN 0 ELSE 1)
      all == ToSet(AllChildren(t))
  IN /\ \A h \in DOMAIN t.buckets :
          LET c == t.buckets[h]
          IN /\ \A i \in DOMAIN c : c[i].name % Size(t) = h
             /\ \A i, j \in DOMAIN c : i < j /\ c[i].name = c[j].name =>
                  /\ Rank(c[i]) < Rank(c[j])
                  /\ \A k \in i .. j : c[k].name = c[i].name
     /\ t.entries = Len(AllChildren(t))
     /\ t.hasloose <=> \E e \in all : ~e.tight
     /\ ~t.leaf => /\ t.hasany <=> \E e \in all : e.name = XrmQANY
                   /\ \A e \in all : e.entries > 0 /\ TableOK(e)

ChainsInOrder ==
  /\ \A i \in DOMAIN db["into"] : db["into"][i].name = 0 /\ TableOK(db["into"][i])
  /\ Len(db["into"]) = 2 => ~db["into"][1].leaf /\ db["into"][2].leaf
  /\ Len(db["into"]) <= 2

(* An enumeration of the whole database (Xrm.c:1956) tells of each resource *)
(* that was put and not overridden, once, with its bindings and the value   *)
(* put last, whatever was put and merged in whatever order.                 *)
ResourcesAreKept ==
  LET all == XrmEnumerateDatabase(db["into"], <<>>, <<>>, "all")
  IN ToSet(all) = kept["into"] /\ Len(all) = Cardinality(kept["into"])

(* Matches: the ways a resource matches names and classes, each as a rank   *)
(* per level: a name before a class before "?", a component before one that *)
(* is left out, tight before loose, decided from the left.                  *)
RECURSIVE Matches(_, _, _, _)
Matches(tight, quarks, names, classes) ==
  IF quarks = <<>> \/ names = <<>>
  THEN IF quarks = <<>> /\ names = <<>> THEN {<<>>} ELSE {}
  ELSE LET q == Head(quarks)
           binding == IF Head(tight) THEN 0 ELSE 1
           level == IF Head(names) \in {q, 0} THEN 0
                    ELSE IF q = Head(classes) THEN 2
                    ELSE IF q = XrmQANY /\ Len(quarks) > 1 THEN 4 ELSE 6
       IN (IF level = 6 THEN {}
           ELSE {<<level + binding>> \o m :
                   m \in Matches(Tail(tight), Tail(quarks), Tail(names), Tail(classes))})
          \cup (IF binding = 0 THEN {}
                ELSE {<<6>> \o m : m \in Matches(tight, quarks, Tail(names), Tail(classes))})

Better(a, b) == \E i \in DOMAIN a : a[i] < b[i] /\ \A j \in 1 .. i - 1 : a[j] = b[j]

Best(given, names, classes) ==
  LET ways == UNION {{[rank |-> m, value |-> g.value] :
                 m \in Matches(g.spec.tight, g.spec.quarks, names, classes)} : g \in given}
  IN IF ways = {} THEN NoValue
     ELSE (CHOOSE w \in ways : \A o \in ways : ~Better(o.rank, w.rank)).value

(* GLOOSE steps over the tight nodes of a name and takes what follows for   *)
(* loose (Xrm.c:2134, and 1845 in enumerations).  If a name has tight nodes *)
(* and no loose ones, what follows are its tight values.                    *)
RECURSIVE MistakesTight(_)
MistakesTight(t) ==
  LET c == AllChildren(t)
  IN /\ ~t.leaf
     /\ \/ /\ t.hasloose
           /\ \E k \in 1 .. Len(c) - 1 : /\ c[k].name = c[k + 1].name
                                        /\ c[k].tight /\ ~c[k].leaf
                                        /\ c[k + 1].tight /\ c[k + 1].leaf
        \/ \E k \in DOMAIN c : MistakesTight(c[k])
Sound(tops) == ~\E i \in DOMAIN tops : MistakesTight(tops[i])

(* XrmQGetResource, which walks the tables and stops at the first value,    *)
(* finds the value of the resource that matches best of all that were put.  *)
GetFindsBest == \A query \in Queries : Sound(db["into"]) =>
  XrmQGetResource(db["into"], query.names, query.classes)
    = Best(kept["into"], query.names, query.classes)

(* A search list that fits gives for every name the answer a search from    *)
(* the top gives (Xrm.c:70-75), although it leaves out tables and skips     *)
(* quarks that never named a value.                                         *)
SearchListAgrees == \A query \in Queries, length \in {3, 8} :
  LET names == Front(query.names)  classes == Front(query.classes)
      search == XrmQGetSearchList(db["into"], names, classes, length)
  IN search.fits =>
       XrmQGetSearchResource(search.list, Last(query.names), Last(query.classes))
         = XrmQGetResource(db["into"], query.names, query.classes)

(* An enumeration below a prefix tells only of resources that match some    *)
(* completion of it, and with one level of each that does (Xrm.c:1956).     *)
(* With all levels it tells of each below a prefix of one component; below  *)
(* a longer one it misses some: below a.b, as "*a.r", which matches a.b.a.r.*)
EnumeratesMatching == \A query \in Queries : Sound(db["into"]) =>
  LET names == Front(query.names)  classes == Front(query.classes)
      told(mode) == ToSet(XrmEnumerateDatabase(db["into"], names, classes, mode))
      completed(k) ==     \* 0 is a name that anything matches
        LET free == [i \in 1 .. k |-> 0]
        IN {g \in kept["into"] :
              Matches(g.spec.tight, g.spec.quarks, names \o free, classes \o free) # {}}
      all == UNION {completed(k) : k \in 1 .. 3}
  IN /\ told("one") = completed(1)
     /\ told("all") \subseteq all
     /\ Len(names) <= 1 => told("all") = all
=============================================================================
