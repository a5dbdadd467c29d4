---------------------------- MODULE WindowsProofs ----------------------------
(***************************************************************************)
(* The tree of windows stays a tree, and restacking, reparenting, mapping  *)
(* and destruction do to it and tell of it what they should, for any       *)
(* number of windows.                                                      *)
(*                                                                         *)
(* TreeOK is not inductive as it stands: that nothing outside is left      *)
(* pointing into a destroyed subtree needs that a window is not below      *)
(* itself.  Acyclic says so by a rank that grows from parent to child.     *)
(* By that rank the functions that recur over the tree are what their      *)
(* definitions say: Hidden goes up, Deleted and Visibility go down it.     *)
(***************************************************************************)
EXTENDS Windows, SequenceLemmas, WellFoundedInduction, FiniteSetTheorems, TLAPS

Ranked(rank) == \A w \in drawables : parent[w] # None => rank[parent[w]] < rank[w]
Acyclic == \E rank \in [Ids -> Nat] : Ranked(rank)

Inv == TypeOK /\ TreeOK /\ Acyclic

-----------------------------------------------------------------------------
(* Without(s, w) is s less w.                                              *)
LEMMA WithoutIs ==
  ASSUME NEW S, NEW s \in Seq(S), IsInjective(s), NEW w \in S
  PROVE  /\ Without(s, w) \in Seq(S)
         /\ IsInjective(Without(s, w))
         /\ \A x \in S : Contains(Without(s, w), x) <=> Contains(s, x) /\ x # w
<1>1. CASE ~Contains(s, w)  BY <1>1 DEF Without
<1>2. CASE Contains(s, w)
  <2> DEFINE i == CHOOSE j \in DOMAIN s : s[j] = w
  <2>1. \E j \in DOMAIN s : s[j] = w  BY <1>2, ContainsIs
  <2>2. i \in DOMAIN s /\ s[i] = w  BY <2>1
  <2>3. Without(s, w) = RemoveAt(s, i)  BY <1>2 DEF Without
  <2> HIDE DEF i
  <2> QED  BY <2>2, <2>3, RemoveAtIs, RemoveAtContains
<1> QED  BY <1>1, <1>2

(* Below(w) has w, is closed, and all of it but w hangs below it.          *)
LEMMA BelowIs ==
  ASSUME NEW w \in drawables
  PROVE  /\ Below(w) \subseteq drawables
         /\ w \in Below(w)
         /\ \A x \in drawables : parent[x] \in Below(w) => x \in Below(w)
         /\ \A x \in Below(w) : x # w => parent[x] \in Below(w)
<1>1. Below(w) \subseteq drawables /\ w \in Below(w)  BY DEF Below
<1>2. ASSUME NEW x \in drawables, parent[x] \in Below(w) PROVE x \in Below(w)
  <2> SUFFICES ASSUME NEW S \in SUBSET drawables, w \in S, Closed(S) PROVE x \in S
    BY DEF Below
  <2>1. parent[x] \in S  BY <1>2 DEF Below
  <2> QED  BY <2>1 DEF Closed
<1>3. ASSUME NEW x \in Below(w), x # w, parent[x] \notin Below(w) PROVE FALSE
  <2> DEFINE T == Below(w) \ {x}
  <2>1. T \in SUBSET drawables /\ w \in T  BY <1>1, <1>3
  <2>2. Closed(T)  BY <1>2, <1>3 DEF Closed
  <2>3. x \in T  BY <2>1, <2>2 DEF Below
  <2> QED  BY <2>3
<1> QED  BY <1>1, <1>2, <1>3

(* What is closed and has w has all that is below w.                       *)
LEMMA BelowIsLeast ==
  ASSUME NEW w \in drawables, NEW S \in SUBSET drawables, w \in S, Closed(S)
  PROVE  Below(w) \subseteq S
BY DEF Below

(* No window is below itself.                                              *)
LEMMA NotBelowItself ==
  ASSUME TypeOK, NEW rank \in [Ids -> Nat], Ranked(rank), NEW w \in drawables
  PROVE  /\ parent[w] \notin Below(w)
         /\ parent[w] # w
         /\ \A x \in Below(w) : rank[x] >= rank[w]
<1> DEFINE T == {x \in Below(w) : rank[x] >= rank[w]}
<1>0. drawables \subseteq Ids /\ Ids \subseteq Nat /\ None \notin Ids
  BY BoundsAssumption, NoneAssumption DEF TypeOK, Ids
<1>1. T \in SUBSET drawables /\ w \in T  BY <1>0, BelowIs
<1>2. Closed(T)
  <2> SUFFICES ASSUME NEW x \in drawables, parent[x] \in T PROVE x \in T
    BY DEF Closed
  <2>1. x \in Below(w)  BY BelowIs
  <2>2. parent[x] \in drawables /\ parent[x] # None  BY <1>0, <1>1
  <2>3. rank[parent[x]] < rank[x]  BY <2>2 DEF Ranked
  <2>4. rank[parent[x]] \in Nat /\ rank[x] \in Nat /\ rank[w] \in Nat  BY <1>0, <2>2
  <2> QED  BY <2>1, <2>3, <2>4
<1>3. Below(w) \subseteq T  BY <1>1, <1>2, BelowIsLeast
<1>4. ASSUME parent[w] \in drawables PROVE parent[w] \notin Below(w)
  <2>1. rank[parent[w]] < rank[w]  BY <1>0, <1>4 DEF Ranked
  <2>2. rank[parent[w]] \in Nat /\ rank[w] \in Nat  BY <1>0, <1>4
  <2> QED  BY <2>1, <2>2, <1>3
<1>5. parent[w] \notin Below(w)  BY <1>4, BelowIs
<1> QED  BY <1>3, <1>5, BelowIs

-----------------------------------------------------------------------------
LEMMA InvInit == Init => Inv
<1> SUFFICES ASSUME Init PROVE Inv  OBVIOUS
<1>1. TypeOK
  BY BoundsAssumption, MasksAssumption DEF Init, TypeOK, Ids
<1>2. TreeOK  BY DEF Init, TreeOK, ParentsAgree, ListedOnce, BWindowOrParent
<1>3. Acyclic
  <2>1. [w \in Ids |-> 0] \in [Ids -> Nat] /\ Ranked([w \in Ids |-> 0])  BY DEF Init, Ranked
  <2> QED  BY <2>1 DEF Acyclic
<1> QED  BY <1>1, <1>2, <1>3 DEF Inv

(* Steps that leave the tree alone need only keep the types, and who has a *)
(* BWindow.                                                                *)
LEMMA SameTree ==
  ASSUME Inv, UNCHANGED <<last, tree>>,
         hides' \in [Ids -> 0 .. MaxHides], bwindow' \in [Ids -> {"none", "hidden", "shown"}],
         mask' \in [Ids -> Masks],
         \A w \in Ids : bwindow'[w] = "none" <=> bwindow[w] = "none",
         \A w \in Ids \ drawables : hides'[w] = 0 /\ mask'[w] = {}
  PROVE  Inv'
<1>0. drawables \subseteq Ids  BY BoundsAssumption DEF Inv, TypeOK, Ids
<1>1. TypeOK'  BY DEF Inv, TypeOK, tree
<1>2. TreeOK'  BY <1>0 DEF Inv, TreeOK, ParentsAgree, ListedOnce, BWindowOrParent, tree
<1>3. Acyclic'  BY DEF Inv, Acyclic, Ranked, tree
<1> QED  BY <1>1, <1>2, <1>3 DEF Inv

LEMMA ShowStep ==
  ASSUME Inv, NEW S, S \subseteq drawables, UNCHANGED <<last, tree, mask>>, Show(S) \/ Hide(S)
  PROVE  Inv'
<1>1. /\ hides' \in [Ids -> 0 .. MaxHides] /\ bwindow' \in [Ids -> {"none", "hidden", "shown"}]
      /\ \A w \in Ids : bwindow'[w] = "none" <=> bwindow[w] = "none"
      /\ \A w \in Ids \ drawables : hides'[w] = 0
  <2>1. CASE Show(S)  BY <2>1, BoundsAssumption DEF Inv, TypeOK, Show
  <2>2. CASE Hide(S)
    <3>1. 1 \in 0 .. MaxHides  BY BoundsAssumption
    <3>2. hides' \in [Ids -> 0 .. MaxHides]  BY <2>2, <3>1 DEF Inv, TypeOK, Hide
    <3>3. bwindow' \in [Ids -> {"none", "hidden", "shown"}]  BY <2>2 DEF Inv, TypeOK, Hide
    <3>4. \A w \in Ids : bwindow'[w] = "none" <=> bwindow[w] = "none"
      BY <2>2 DEF Inv, TypeOK, Hide
    <3>5. \A w \in Ids \ drawables : hides'[w] = 0  BY <2>2 DEF Inv, TypeOK, Hide
    <3> QED  BY <3>2, <3>3, <3>4, <3>5
  <2> QED  BY <2>1, <2>2
<1> QED  BY <1>1, SameTree DEF Inv, TypeOK

LEMMA QuietStep ==
  ASSUME Inv, UNCHANGED <<last, tree, shown, mask>>
  PROVE  Inv'
BY SameTree DEF Inv, TypeOK, shown, tree

-----------------------------------------------------------------------------
(* What is used of the invariant wherever the tree changes.                *)
LEMMA TreeFacts ==
  ASSUME Inv
  PROVE  /\ drawables \subseteq Ids /\ Ids \subseteq Nat /\ None \notin Ids
         /\ last + 1 \notin drawables
         /\ \A x \in drawables : parent[x] \in drawables \cup {None}
         /\ \A p \in drawables : children[p] \in Seq(drawables) /\ IsInjective(children[p])
BY BoundsAssumption, NoneAssumption DEF Inv, TypeOK, TreeOK, ListedOnce, Ids

(* A new window is nobody's parent, and last among its parent's children.  *)
LEMMA CreateStep ==
  ASSUME Inv, NEW p \in drawables \cup {None}, NEW m \in Masks, XCreateWindow(p, m)
  PROVE  Inv'
<1> DEFINE w == last + 1
<1>0. /\ drawables \subseteq Ids /\ Ids \subseteq Nat /\ None \notin Ids
      /\ w \notin drawables
      /\ \A x \in drawables : parent[x] \in drawables \cup {None}
      /\ \A x \in drawables : children[x] \in Seq(drawables) /\ IsInjective(children[x])
  BY TreeFacts
<1>1. /\ w \in Ids /\ last' = w /\ last' \in 0 .. MaxWindows
      /\ drawables' = drawables \cup {w} /\ drawables' \subseteq 1 .. last'
      /\ parent' = [parent EXCEPT ![w] = p]
      /\ mask' = [mask EXCEPT ![w] = m]
      /\ parent \in [Ids -> drawables \cup {None}]
      /\ children \in [Ids -> Seq(drawables)]
      /\ children[w] = <<>>
  <2>1. last \in Nat /\ last + 1 \in 1 .. MaxWindows
    BY BoundsAssumption DEF XCreateWindow, Inv, TypeOK
  <2>2. last' = w /\ drawables' = drawables \cup {w} /\ drawables \subseteq 1 .. last
    BY DEF XCreateWindow, Inv, TypeOK
  <2>3. w \in Ids /\ last' \in 0 .. MaxWindows /\ drawables' \subseteq 1 .. last'
    BY <2>1, <2>2 DEF Ids
  <2>4. parent' = [parent EXCEPT ![w] = p] /\ mask' = [mask EXCEPT ![w] = m]
    BY DEF XCreateWindow
  <2>5. /\ parent \in [Ids -> drawables \cup {None}] /\ children \in [Ids -> Seq(drawables)]
        /\ children[w] = <<>>
    BY <1>0, <2>3 DEF Inv, TypeOK
  <2> QED  BY <2>2, <2>3, <2>4, <2>5
<1>2. \/ p = None /\ bwindow' = [bwindow EXCEPT ![w] = "hidden"]
         /\ children' = children /\ hides' = hides
      \/ p \in drawables /\ bwindow' = bwindow
         /\ children' = [children EXCEPT ![p] = Append(@, w)] /\ hides' = [hides EXCEPT ![w] = 1]
  BY DEF XCreateWindow
<1> HIDE DEF w
<1>3. ASSUME NEW x \in drawables
      PROVE  ~Contains(children[x], w) /\ children[x] \in Seq(drawables')
  BY <1>0, <1>1 DEF Contains
<1>4. ASSUME p \in drawables
      PROVE  /\ Append(children[p], w) \in Seq(drawables')
             /\ IsInjective(Append(children[p], w))
             /\ \A x \in drawables' :
                  Contains(Append(children[p], w), x) <=> Contains(children[p], x) \/ x = w
  BY <1>0, <1>1, <1>3, <1>4, AppendContains
<1>5. TypeOK'
  <2>1. children' \in [Ids -> Seq(drawables')]
    <3>1. \A x \in Ids : children[x] \in Seq(drawables')  BY <1>1
    <3> QED  BY <1>1, <1>2, <1>4, <3>1
  <2>2. parent' \in [Ids -> drawables' \cup {None}]  BY <1>1
  <2>3. hides' \in [Ids -> 0 .. MaxHides]
    <3>1. 1 \in 0 .. MaxHides  BY BoundsAssumption
    <3> QED  BY <1>1, <1>2, <3>1 DEF Inv, TypeOK
  <2>4. bwindow' \in [Ids -> {"none", "hidden", "shown"}]  BY <1>1, <1>2 DEF Inv, TypeOK
  <2>5. mask' \in [Ids -> Masks]  BY <1>1 DEF Inv, TypeOK
  <2>6. \A x \in Ids \ drawables' : /\ parent'[x] = None /\ children'[x] = <<>>
                                    /\ bwindow'[x] = "none" /\ hides'[x] = 0 /\ mask'[x] = {}
    BY <1>0, <1>1, <1>2 DEF Inv, TypeOK
  <2> QED  BY <1>1, <2>1, <2>2, <2>3, <2>4, <2>5, <2>6 DEF TypeOK
<1>6. ParentsAgree'
  <2> SUFFICES ASSUME NEW q \in drawables', NEW x \in drawables'
               PROVE  parent'[x] = q <=> Contains(children'[q], x)
    BY DEF ParentsAgree
  <2>1. CASE q = w
    <3>1. children'[q] = <<>>  BY <2>1, <1>0, <1>1, <1>2
    <3>2. parent'[x] # w  BY <1>0, <1>1
    <3> QED  BY <2>1, <3>1, <3>2 DEF Contains
  <2>2. CASE q \in drawables
    <3>1. CASE x = w
      <4>1. parent'[x] = p  BY <3>1, <1>1
      <4>2. CASE q = p
        <5>1. p \in drawables /\ q \in drawables' /\ children'[q] = Append(children[p], w)
          BY <4>2, <2>2, <1>0, <1>1, <1>2
        <5>2. Contains(children'[q], w)
          BY <5>1, <1>4, <3>1
        <5> QED
          BY <4>1, <4>2, <3>1, <5>2
      <4>3. CASE q # p
        <5>1. children'[q] = children[q]  BY <4>3, <2>2, <1>0, <1>1, <1>2
        <5> QED  BY <5>1, <4>1, <4>3, <3>1, <2>2, <1>3
      <4> QED  BY <4>2, <4>3
    <3>2. CASE x \in drawables
      <4>1. parent'[x] = parent[x]  BY <3>2, <1>0, <1>1
      <4>2. Contains(children'[q], x) <=> Contains(children[q], x)
        BY <2>2, <3>2, <1>0, <1>1, <1>2, <1>4
      <4>3. parent[x] = q <=> Contains(children[q], x)
        BY <2>2, <3>2 DEF Inv, TreeOK, ParentsAgree
      <4> QED  BY <4>1, <4>2, <4>3
    <3> QED  BY <3>1, <3>2, <1>1
  <2> QED  BY <2>1, <2>2, <1>1
<1>7. ListedOnce'
  <2> SUFFICES ASSUME NEW q \in drawables' PROVE IsInjective(children'[q])
    BY DEF ListedOnce
  <2>1. CASE q = w  BY <2>1, <1>0, <1>1, <1>2 DEF IsInjective
  <2>2. CASE q \in drawables  BY <2>2, <1>0, <1>1, <1>2, <1>4
  <2> QED  BY <2>1, <2>2, <1>1
<1>8. BWindowOrParent'
  <2>1. bwindow[w] = "none" /\ bwindow \in [Ids -> {"none", "hidden", "shown"}]
    BY <1>0, <1>1 DEF Inv, TypeOK
  <2>2. ASSUME NEW x \in drawables
        PROVE  bwindow'[x] = "none" <=> parent'[x] # None
    <3>1. bwindow[x] = "none" <=> parent[x] # None
      BY DEF Inv, TreeOK, BWindowOrParent
    <3>2. x # w /\ bwindow'[x] = bwindow[x] /\ parent'[x] = parent[x]
      BY <1>0, <1>1, <1>2, <2>1
    <3> QED  BY <3>1, <3>2
  <2>3. bwindow'[w] = "none" <=> parent'[w] # None  BY <1>0, <1>1, <1>2, <2>1
  <2> QED  BY <1>1, <2>2, <2>3 DEF BWindowOrParent
<1>9. Acyclic'
  <2>1. PICK rank \in [Ids -> Nat] : Ranked(rank)  BY DEF Inv, Acyclic
  <2> DEFINE new == [rank EXCEPT ![w] = IF p = None THEN 0 ELSE rank[p] + 1]
  <2>a. (IF p = None THEN 0 ELSE rank[p] + 1) \in Nat  BY <1>0
  <2>2. new \in [Ids -> Nat]  BY <2>a
  <2>3. ASSUME NEW x \in drawables', parent'[x] # None PROVE new[parent'[x]] < new[x]
    <3>1. CASE x = w  BY <3>1, <2>1, <2>3, <1>0, <1>1
    <3>2. CASE x \in drawables
      <4>1. parent'[x] = parent[x] /\ parent[x] \in drawables  BY <3>2, <2>3, <1>0, <1>1
      <4>2. rank[parent[x]] < rank[x]  BY <3>2, <4>1, <2>1, <1>0 DEF Ranked
      <4> QED  BY <3>2, <4>1, <4>2, <1>0, <1>1
    <3> QED  BY <3>1, <3>2, <1>1
  <2> HIDE DEF new
  <2> QED  BY <2>2, <2>3 DEF Acyclic, Ranked
<1> QED  BY <1>5, <1>6, <1>7, <1>8, <1>9 DEF Inv, TreeOK

-----------------------------------------------------------------------------
(* Deleting S is sound if no window outside S has its parent in S and the  *)
(* lists of children lose exactly S.                                       *)
LEMMA DeleteStep ==
  ASSUME Inv, NEW S \in SUBSET drawables, Delete(S),
         children' \in [Ids -> Seq(drawables)],
         \A x \in Ids \ (drawables \ S) : children'[x] = <<>>,
         \A q \in drawables \ S : /\ IsInjective(children'[q])
                                  /\ \A x \in drawables :
                                       Contains(children'[q], x) <=> Contains(children[q], x) /\ x \notin S,
         \A x \in drawables \ S : parent[x] \notin S
  PROVE  Inv'
<1>0. /\ drawables \subseteq Ids /\ Ids \subseteq Nat /\ None \notin Ids
      /\ \A x \in drawables : parent[x] \in drawables \cup {None}
  BY TreeFacts
<1>1. /\ drawables' = drawables \ S
      /\ parent' = [x \in Ids |-> IF x \in S THEN None ELSE parent[x]]
      /\ last' = last
  BY DEF Delete
<1>2. TypeOK'
  <2>1. children' \in [Ids -> Seq(drawables')]
    <3> SUFFICES ASSUME NEW x \in Ids PROVE children'[x] \in Seq(drawables')
      OBVIOUS
    <3>1. CASE x \in drawables \ S
      <4>1. \A y \in drawables : Contains(children'[x], y) => y \in drawables'
        BY <3>1, <1>1
      <4> QED  BY <4>1, SeqOver
    <3>2. CASE x \notin drawables \ S  BY <3>2
    <3> QED  BY <3>1, <3>2
  <2>2. parent' \in [Ids -> drawables' \cup {None}]
    <3> SUFFICES ASSUME NEW x \in Ids PROVE parent'[x] \in drawables' \cup {None}
      BY <1>1
    <3>1. CASE x \in S  BY <3>1, <1>1
    <3>2. CASE x \in drawables \ S  BY <3>2, <1>0, <1>1
    <3>3. CASE x \notin drawables  BY <3>3, <1>1 DEF Inv, TypeOK
    <3> QED  BY <3>1, <3>2, <3>3
  <2>3. hides' \in [Ids -> 0 .. MaxHides]  BY BoundsAssumption DEF Delete, Inv, TypeOK
  <2>4. bwindow' \in [Ids -> {"none", "hidden", "shown"}]  BY DEF Delete, Inv, TypeOK
  <2>5. mask' \in [Ids -> Masks]  BY MasksAssumption DEF Delete, Inv, TypeOK
  <2>6. \A x \in Ids \ drawables' : /\ parent'[x] = None /\ children'[x] = <<>>
                                    /\ bwindow'[x] = "none" /\ hides'[x] = 0 /\ mask'[x] = {}
    BY <1>1 DEF Delete, Inv, TypeOK
  <2>7. last' \in 0 .. MaxWindows /\ drawables' \subseteq 1 .. last'  BY <1>1 DEF Inv, TypeOK
  <2> QED  BY <2>1, <2>2, <2>3, <2>4, <2>5, <2>6, <2>7 DEF TypeOK
<1>3. ParentsAgree'
  <2> SUFFICES ASSUME NEW q \in drawables \ S, NEW x \in drawables \ S
               PROVE  parent'[x] = q <=> Contains(children'[q], x)
    BY <1>1 DEF ParentsAgree
  <2>1. parent'[x] = parent[x]  BY <1>0, <1>1
  <2>2. parent[x] = q <=> Contains(children[q], x)  BY DEF Inv, TreeOK, ParentsAgree
  <2> QED  BY <2>1, <2>2
<1>4. ListedOnce'  BY <1>1 DEF ListedOnce
<1>5. BWindowOrParent'
  <2> SUFFICES ASSUME NEW x \in drawables \ S PROVE bwindow'[x] = "none" <=> parent'[x] # None
    BY <1>1 DEF BWindowOrParent
  <2>1. parent'[x] = parent[x] /\ bwindow'[x] = bwindow[x]  BY <1>0, <1>1 DEF Delete
  <2> QED  BY <2>1 DEF Inv, TreeOK, BWindowOrParent
<1>6. Acyclic'
  <2>1. PICK rank \in [Ids -> Nat] : Ranked(rank)  BY DEF Inv, Acyclic
  <2>2. ASSUME NEW x \in drawables', parent'[x] # None PROVE rank[parent'[x]] < rank[x]
    <3>1. x \in drawables /\ parent'[x] = parent[x]  BY <1>0, <1>1
    <3> QED  BY <3>1, <2>1, <2>2 DEF Ranked
  <2> QED  BY <2>2 DEF Acyclic, Ranked
<1> QED  BY <1>2, <1>3, <1>4, <1>5, <1>6 DEF Inv, TreeOK

(* A window taken out of its parent's list.                                *)
LEMMA DetachedIs ==
  ASSUME Inv, NEW w \in drawables
  PROVE  /\ Detached(w) \in [Ids -> Seq(drawables)]
         /\ \A x \in Ids \ drawables : Detached(w)[x] = <<>>
         /\ \A q \in drawables : /\ IsInjective(Detached(w)[q])
                                 /\ \A x \in drawables :
                                      Contains(Detached(w)[q], x) <=> Contains(children[q], x) /\ x # w
<1>0. /\ drawables \subseteq Ids /\ None \notin Ids
      /\ parent[w] \in drawables \cup {None}
      /\ \A q \in drawables : children[q] \in Seq(drawables) /\ IsInjective(children[q])
      /\ children \in [Ids -> Seq(drawables)]
      /\ \A x \in Ids \ drawables : children[x] = <<>>
  BY TreeFacts DEF Inv, TypeOK
<1>1. \A q \in drawables : Contains(children[q], w) => q = parent[w]
  BY DEF Inv, TreeOK, ParentsAgree
<1>2. CASE parent[w] = None  BY <1>0, <1>1, <1>2 DEF Detached
<1>3. CASE parent[w] \in drawables
  <2>1. Detached(w) = [children EXCEPT ![parent[w]] = Without(@, w)]
    BY <1>0, <1>3 DEF Detached
  <2>2. /\ Without(children[parent[w]], w) \in Seq(drawables)
        /\ IsInjective(Without(children[parent[w]], w))
        /\ \A x \in drawables : Contains(Without(children[parent[w]], w), x)
                                <=> Contains(children[parent[w]], x) /\ x # w
    BY <1>0, <1>3, WithoutIs
  <2>3. Detached(w) \in [Ids -> Seq(drawables)]  BY <2>1, <2>2, <1>0, <1>3
  <2>4. \A x \in Ids \ drawables : Detached(w)[x] = <<>>  BY <2>1, <1>0, <1>3
  <2>5. ASSUME NEW q \in drawables
        PROVE  /\ IsInjective(Detached(w)[q])
               /\ \A x \in drawables :
                    Contains(Detached(w)[q], x) <=> Contains(children[q], x) /\ x # w
    <3>1. CASE q = parent[w]  BY <3>1, <2>1, <2>2, <1>0
    <3>2. CASE q # parent[w]  BY <3>2, <2>1, <1>0, <1>1
    <3> QED  BY <3>1, <3>2
  <2> QED  BY <2>3, <2>4, <2>5
<1> QED  BY <1>0, <1>2, <1>3

LEMMA DestroyStep ==
  ASSUME Inv, NEW w \in drawables, XDestroyWindow(w)
  PROVE  Inv'
<1>0. /\ Below(w) \subseteq drawables /\ w \in Below(w)
      /\ \A x \in drawables : parent[x] \in Below(w) => x \in Below(w)
      /\ \A x \in Below(w) : x # w => parent[x] \in Below(w)
  BY BelowIs
<1>1. /\ Detached(w) \in [Ids -> Seq(drawables)]
      /\ \A x \in Ids \ drawables : Detached(w)[x] = <<>>
      /\ \A q \in drawables : /\ IsInjective(Detached(w)[q])
                              /\ \A x \in drawables :
                                   Contains(Detached(w)[q], x) <=> Contains(children[q], x) /\ x # w
  BY DetachedIs
<1>2. /\ Delete(Below(w))
      /\ children' = [x \in Ids |-> IF x \in Below(w) THEN <<>> ELSE Detached(w)[x]]
  BY DEF XDestroyWindow
<1>3. drawables \subseteq Ids  BY TreeFacts
<1>4. ASSUME NEW q \in drawables \ Below(w)
      PROVE  /\ IsInjective(children'[q])
             /\ \A x \in drawables :
                  Contains(children'[q], x) <=> Contains(children[q], x) /\ x \notin Below(w)
  <2>1. children'[q] = Detached(w)[q]  BY <1>2, <1>3
  <2>2. ASSUME NEW x \in drawables, Contains(children[q], x), x # w PROVE x \notin Below(w)
    <3>1. parent[x] = q  BY <2>2 DEF Inv, TreeOK, ParentsAgree
    <3> QED  BY <3>1, <2>2, <1>0
  <2> QED  BY <2>1, <2>2, <1>0, <1>1
<1>5. children' \in [Ids -> Seq(drawables)]  BY <1>1, <1>2
<1>6. \A x \in Ids \ (drawables \ Below(w)) : children'[x] = <<>>  BY <1>1, <1>2
<1> QED  BY <1>0, <1>2, <1>4, <1>5, <1>6, DeleteStep

LEMMA DestroySubwindowsStep ==
  ASSUME Inv, NEW w \in drawables, XDestroySubwindows(w)
  PROVE  Inv'
<1> DEFINE S == Below(w) \ {w}
<1>0. /\ Below(w) \subseteq drawables /\ w \in Below(w)
      /\ \A x \in drawables : parent[x] \in Below(w) => x \in Below(w)
      /\ \A x \in Below(w) : x # w => parent[x] \in Below(w)
  BY BelowIs
<1>1. parent[w] \notin Below(w) /\ parent[w] # w
  <2>1. PICK rank \in [Ids -> Nat] : Ranked(rank)  BY DEF Inv, Acyclic
  <2> QED  BY <2>1, NotBelowItself DEF Inv
<1>2. /\ Delete(S)
      /\ children' = [x \in Ids |-> IF x \in Below(w) THEN <<>> ELSE children[x]]
  BY DEF XDestroySubwindows
<1>3. /\ drawables \subseteq Ids
      /\ \A q \in drawables : children[q] \in Seq(drawables) /\ IsInjective(children[q])
  BY TreeFacts
<1>4. ASSUME NEW q \in drawables \ S
      PROVE  /\ IsInjective(children'[q])
             /\ \A x \in drawables :
                  Contains(children'[q], x) <=> Contains(children[q], x) /\ x \notin S
  <2>1. \A x \in drawables : Contains(children[q], x) <=> parent[x] = q
    BY DEF Inv, TreeOK, ParentsAgree
  <2>2. CASE q = w
    <3>1. children'[q] = <<>>  BY <2>2, <1>0, <1>2, <1>3
    <3>2. \A x \in drawables : parent[x] = w => x \in S  BY <1>0, <1>1
    <3> QED  BY <3>1, <3>2, <2>1, <2>2 DEF IsInjective, Contains
  <2>3. CASE q # w
    <3>1. children'[q] = children[q]  BY <2>3, <1>2, <1>3
    <3>2. \A x \in drawables : parent[x] = q => x \notin S  BY <2>3, <1>0
    <3> QED  BY <3>1, <3>2, <2>1, <1>3
  <2> QED  BY <2>2, <2>3
<1>5. children' \in [Ids -> Seq(drawables)]  BY <1>2 DEF Inv, TypeOK
<1>6. \A x \in Ids \ (drawables \ S) : children'[x] = <<>>  BY <1>2 DEF Inv, TypeOK
<1>7. \A x \in drawables \ S : parent[x] \notin S  BY <1>0, <1>1
<1> QED  BY <1>0, <1>2, <1>4, <1>5, <1>6, <1>7, DeleteStep

-----------------------------------------------------------------------------
(* Restacking a child permutes its parent's list.                          *)
LEMMA RestackedIs ==
  ASSUME Inv, NEW w \in drawables, parent[w] # None, NEW sibling \in Siblings(w) \cup {None},
         NEW mode \in {"Above", "Below"}
  PROVE  /\ Restacked(w, sibling, mode) \in Seq(drawables)
         /\ IsInjective(Restacked(w, sibling, mode))
         /\ \A x \in drawables :
              Contains(Restacked(w, sibling, mode), x) <=> Contains(children[parent[w]], x)
<1> DEFINE s == children[parent[w]]
           others == Without(s, w)
           next == CHOOSE i \in DOMAIN others : others[i] = sibling
<1>0. /\ parent[w] \in drawables
      /\ s \in Seq(drawables) /\ IsInjective(s)
      /\ None \notin drawables
  BY TreeFacts
<1>1. Contains(s, w)  BY <1>0 DEF Inv, TreeOK, ParentsAgree
<1>2. /\ others \in Seq(drawables) /\ IsInjective(others)
      /\ \A x \in drawables : Contains(others, x) <=> Contains(s, x) /\ x # w
  BY <1>0, WithoutIs
<1>3. ASSUME sibling # None
      PROVE  next \in 1 .. Len(others) /\ next + 1 \in 1 .. (Len(others) + 1)
             /\ next \in 1 .. (Len(others) + 1)
  <2>1. sibling \in drawables /\ sibling # w /\ Contains(s, sibling)
    BY <1>0, <1>3, ContainsIs DEF Siblings, ToSet
  <2>2. Contains(others, sibling)  BY <2>1, <1>2
  <2>3. \E i \in DOMAIN others : others[i] = sibling  BY <2>2, <1>2, ContainsIs
  <2>4. next \in DOMAIN others  BY <2>3
  <2>5. Len(others) \in Nat /\ DOMAIN others = 1 .. Len(others)  BY <1>2
  <2> HIDE DEF next, others
  <2> QED  BY <2>4, <2>5
<1> DEFINE r == Restacked(w, sibling, mode)
<1>4. \/ r = Append(others, w)
      \/ r = <<w>> \o others
      \/ sibling # None /\ r = InsertAt(others, next + 1, w)
      \/ sibling # None /\ r = InsertAt(others, next, w)
  BY DEF Restacked, Before
<1> HIDE DEF r, others, next, s
<1>5. ~Contains(others, w)  BY <1>2
<1>6. /\ r \in Seq(drawables) /\ IsInjective(r)
      /\ \A x \in drawables : Contains(r, x) <=> Contains(others, x) \/ x = w
  <2>1. CASE r = Append(others, w)  BY <2>1, <1>2, <1>5, AppendContains
  <2>2. CASE r = <<w>> \o others  BY <2>2, <1>2, <1>5, PrependContains
  <2>3. CASE sibling # None /\ r = InsertAt(others, next + 1, w)
    BY <2>3, <1>2, <1>3, <1>5, InsertAtContains, InsertAtIs
  <2>4. CASE sibling # None /\ r = InsertAt(others, next, w)
    BY <2>4, <1>2, <1>3, <1>5, InsertAtContains, InsertAtIs
  <2> QED  BY <1>4, <2>1, <2>2, <2>3, <2>4
<1> QED  BY <1>1, <1>2, <1>6 DEF r, s

(* A step that permutes the lists of children and may show or hide.        *)
LEMMA PermuteStep ==
  ASSUME Inv, UNCHANGED <<last, drawables, parent, mask>>,
         children' \in [Ids -> Seq(drawables)],
         \A x \in Ids \ drawables : children'[x] = <<>>,
         \A q \in drawables : /\ IsInjective(children'[q])
                              /\ \A x \in drawables : Contains(children'[q], x) <=> Contains(children[q], x),
         hides' \in [Ids -> 0 .. MaxHides], bwindow' \in [Ids -> {"none", "hidden", "shown"}],
         \A x \in Ids : bwindow'[x] = "none" <=> bwindow[x] = "none",
         \A x \in Ids \ drawables : hides'[x] = 0
  PROVE  Inv'
<1>0. drawables \subseteq Ids  BY TreeFacts
<1>1. TypeOK'  BY DEF Inv, TypeOK
<1>2. TreeOK'  BY <1>0 DEF Inv, TreeOK, ParentsAgree, ListedOnce, BWindowOrParent
<1>3. Acyclic'  BY DEF Inv, Acyclic, Ranked
<1> QED  BY <1>1, <1>2, <1>3 DEF Inv

LEMMA RestackListStep ==
  ASSUME Inv, NEW w \in drawables, parent[w] # None, NEW sibling \in Siblings(w) \cup {None},
         NEW mode \in {"Above", "Below"},
         children' = [children EXCEPT ![parent[w]] = Restacked(w, sibling, mode)]
  PROVE  /\ children' \in [Ids -> Seq(drawables)]
         /\ \A x \in Ids \ drawables : children'[x] = <<>>
         /\ \A q \in drawables : /\ IsInjective(children'[q])
                                 /\ \A x \in drawables : Contains(children'[q], x) <=> Contains(children[q], x)
<1>0. /\ parent[w] \in drawables /\ drawables \subseteq Ids
      /\ \A q \in drawables : children[q] \in Seq(drawables) /\ IsInjective(children[q])
      /\ children \in [Ids -> Seq(drawables)]
      /\ \A x \in Ids \ drawables : children[x] = <<>>
  BY TreeFacts DEF Inv, TypeOK
<1>1. /\ Restacked(w, sibling, mode) \in Seq(drawables)
      /\ IsInjective(Restacked(w, sibling, mode))
      /\ \A x \in drawables :
           Contains(Restacked(w, sibling, mode), x) <=> Contains(children[parent[w]], x)
  BY RestackedIs
<1>2. \A q \in drawables : children'[q] = IF q = parent[w] THEN Restacked(w, sibling, mode)
                                          ELSE children[q]
  BY <1>0
<1> QED  BY <1>0, <1>1, <1>2

LEMMA RestackStep ==
  ASSUME Inv, NEW w \in drawables, NEW sibling \in drawables \cup {None},
         NEW mode \in {"Above", "Below"}, Restack(w, sibling, mode)
  PROVE  Inv'
<1>1. /\ parent[w] # None /\ sibling \in Siblings(w) \cup {None}
      /\ children' = [children EXCEPT ![parent[w]] = Restacked(w, sibling, mode)]
      /\ UNCHANGED <<last, drawables, parent, mask, hides, bwindow>>
  BY DEF Restack, shown
<1>2. /\ children' \in [Ids -> Seq(drawables)]
      /\ \A x \in Ids \ drawables : children'[x] = <<>>
      /\ \A q \in drawables : /\ IsInjective(children'[q])
                              /\ \A x \in drawables : Contains(children'[q], x) <=> Contains(children[q], x)
  BY <1>1, RestackListStep
<1>3. /\ hides' \in [Ids -> 0 .. MaxHides] /\ bwindow' \in [Ids -> {"none", "hidden", "shown"}]
      /\ \A x \in Ids : bwindow'[x] = "none" <=> bwindow[x] = "none"
      /\ \A x \in Ids \ drawables : hides'[x] = 0
  BY <1>1 DEF Inv, TypeOK
<1> QED  BY <1>1, <1>2, <1>3, PermuteStep

LEMMA MapRaisedStep ==
  ASSUME Inv, NEW w \in drawables, XMapRaised(w)
  PROVE  Inv'
<1>1. Show({w}) /\ UNCHANGED <<last, drawables, parent, mask>>  BY DEF XMapRaised
<1>2. /\ hides' \in [Ids -> 0 .. MaxHides] /\ bwindow' \in [Ids -> {"none", "hidden", "shown"}]
      /\ \A x \in Ids : bwindow'[x] = "none" <=> bwindow[x] = "none"
      /\ \A x \in Ids \ drawables : hides'[x] = 0
  BY <1>1, BoundsAssumption DEF Inv, TypeOK, Show
<1>3. /\ children' \in [Ids -> Seq(drawables)]
      /\ \A x \in Ids \ drawables : children'[x] = <<>>
      /\ \A q \in drawables : /\ IsInjective(children'[q])
                              /\ \A x \in drawables : Contains(children'[q], x) <=> Contains(children[q], x)
  <2>1. CASE parent[w] = None  BY <2>1, TreeFacts DEF XMapRaised, Inv, TypeOK
  <2>2. CASE parent[w] # None
    <3>1. children' = [children EXCEPT ![parent[w]] = Restacked(w, None, "Above")]
      BY <2>2 DEF XMapRaised
    <3> QED  BY <2>2, <3>1, RestackListStep
  <2> QED  BY <2>1, <2>2
<1> QED  BY <1>1, <1>2, <1>3, PermuteStep

-----------------------------------------------------------------------------
(* Moving w, with what is below it, to the root or below a window p that   *)
(* is not below w: the ranks below w are raised above p's.                 *)
LEMMA MoveStep ==
  ASSUME Inv, NEW w \in drawables, NEW p \in (drawables \ Below(w)) \cup {None},
         UNCHANGED <<last, drawables, mask>>,
         parent' = [parent EXCEPT ![w] = p],
         children' = IF p = None THEN Detached(w) ELSE [Detached(w) EXCEPT ![p] = Append(@, w)],
         hides' \in [Ids -> 0 .. MaxHides], bwindow' \in [Ids -> {"none", "hidden", "shown"}],
         bwindow'[w] = "none" <=> p # None,
         \A x \in Ids \ {w} : bwindow'[x] = bwindow[x],
         \A x \in Ids \ drawables : hides'[x] = 0
  PROVE  Inv'
<1>0. /\ drawables \subseteq Ids /\ None \notin Ids
      /\ \A x \in drawables : parent[x] \in drawables \cup {None}
      /\ parent \in [Ids -> drawables \cup {None}]
      /\ p \in drawables => p \in Ids
  BY TreeFacts DEF Inv, TypeOK
<1>1. /\ Detached(w) \in [Ids -> Seq(drawables)]
      /\ \A x \in Ids \ drawables : Detached(w)[x] = <<>>
      /\ \A q \in drawables : /\ IsInjective(Detached(w)[q])
                              /\ \A x \in drawables :
                                   Contains(Detached(w)[q], x) <=> Contains(children[q], x) /\ x # w
  BY DetachedIs
<1>2. /\ children' \in [Ids -> Seq(drawables)]
      /\ \A x \in Ids \ drawables : children'[x] = <<>>
      /\ \A q \in drawables : /\ IsInjective(children'[q])
                              /\ \A x \in drawables :
                                   Contains(children'[q], x) <=>
                                     (Contains(children[q], x) /\ x # w) \/ (q = p /\ x = w)
  <2>1. CASE p = None  BY <2>1, <1>0, <1>1
  <2>2. CASE p \in drawables
    <3>1. children' = [Detached(w) EXCEPT ![p] = Append(@, w)]  BY <2>2, <1>0
    <3>2. /\ Append(Detached(w)[p], w) \in Seq(drawables)
          /\ IsInjective(Append(Detached(w)[p], w))
          /\ \A x \in drawables :
               Contains(Append(Detached(w)[p], w), x) <=> Contains(Detached(w)[p], x) \/ x = w
      <4>1. Detached(w)[p] \in Seq(drawables) /\ ~Contains(Detached(w)[p], w)
        BY <2>2, <1>0, <1>1
      <4> QED  BY <2>2, <4>1, <1>1, AppendContains
    <3>3. \A q \in Ids : children'[q] = IF q = p THEN Append(Detached(w)[p], w) ELSE Detached(w)[q]
      BY <3>1, <1>1
    <3>4. children' \in [Ids -> Seq(drawables)]  BY <3>1, <3>2, <1>1
    <3>5. \A x \in Ids \ drawables : children'[x] = <<>>  BY <2>2, <3>3, <1>1
    <3>6. ASSUME NEW q \in drawables
          PROVE  /\ IsInjective(children'[q])
                 /\ \A x \in drawables :
                      Contains(children'[q], x) <=>
                        (Contains(children[q], x) /\ x # w) \/ (q = p /\ x = w)
      <4>1. CASE q = p  BY <4>1, <2>2, <3>2, <3>3, <1>0, <1>1
      <4>2. CASE q # p  BY <4>2, <3>3, <1>0, <1>1
      <4> QED  BY <4>1, <4>2
    <3> QED  BY <3>4, <3>5, <3>6
  <2> QED  BY <2>1, <2>2
<1>3. TypeOK'
  <2>1. parent' \in [Ids -> drawables \cup {None}]  BY <1>0
  <2>2. \A x \in Ids \ drawables : parent'[x] = None /\ bwindow'[x] = "none"
    BY <1>0 DEF Inv, TypeOK
  <2> QED  BY <2>1, <2>2, <1>2 DEF Inv, TypeOK
<1>4. ParentsAgree'
  <2> SUFFICES ASSUME NEW q \in drawables, NEW x \in drawables
               PROVE  parent'[x] = q <=> Contains(children'[q], x)
    BY DEF ParentsAgree
  <2>1. parent'[x] = IF x = w THEN p ELSE parent[x]  BY <1>0
  <2>2. parent[x] = q <=> Contains(children[q], x)  BY DEF Inv, TreeOK, ParentsAgree
  <2> QED  BY <2>1, <2>2, <1>2
<1>5. ListedOnce'  BY <1>2 DEF ListedOnce
<1>6. BWindowOrParent'
  <2> SUFFICES ASSUME NEW x \in drawables PROVE bwindow'[x] = "none" <=> parent'[x] # None
    BY DEF BWindowOrParent
  <2>1. CASE x = w  BY <2>1, <1>0
  <2>2. CASE x # w  BY <2>2, <1>0 DEF Inv, TreeOK, BWindowOrParent
  <2> QED  BY <2>1, <2>2
<1>7. Acyclic'
  <2>1. PICK rank \in [Ids -> Nat] : Ranked(rank)  BY DEF Inv, Acyclic
  <2> DEFINE up == IF p = None THEN 0 ELSE rank[p] + 1
             new == [x \in Ids |-> IF x \in Below(w) THEN rank[x] + up ELSE rank[x]]
  <2>2. up \in Nat /\ (p # None => rank[p] \in Nat /\ rank[p] < up)  BY <1>0
  <2>3. /\ w \in Below(w)
        /\ \A x \in drawables : parent[x] \in Below(w) => x \in Below(w)
        /\ \A x \in Below(w) : x # w => parent[x] \in Below(w)
    BY BelowIs
  <2> HIDE DEF up
  <2>4. new \in [Ids -> Nat]  BY <2>2
  <2>5. ASSUME NEW x \in drawables, parent'[x] # None PROVE new[parent'[x]] < new[x]
    <3>1. CASE x = w
      <4>1. parent'[x] = p /\ p \in drawables \ Below(w)  BY <3>1, <2>5, <1>0
      <4>2. new[p] = rank[p] /\ new[x] = rank[x] + up  BY <3>1, <4>1, <1>0, <2>3
      <4>3. rank[x] \in Nat  BY <1>0
      <4> QED  BY <4>1, <4>2, <4>3, <2>2, <1>0
    <3>2. CASE x # w
      <4>1. parent'[x] = parent[x] /\ parent[x] \in drawables  BY <3>2, <2>5, <1>0
      <4>2. rank[parent[x]] < rank[x]  BY <4>1, <2>1, <1>0 DEF Ranked
      <4>3. parent[x] \in Below(w) <=> x \in Below(w)  BY <3>2, <2>3
      <4>4. rank[x] \in Nat /\ rank[parent[x]] \in Nat  BY <4>1, <1>0
      <4>5. new[x] - rank[x] = new[parent[x]] - rank[parent[x]]
        BY <4>1, <4>3, <4>4, <1>0, <2>2
      <4>6. new[x] \in Nat /\ new[parent[x]] \in Nat  BY <4>1, <1>0, <2>4
      <4> QED  BY <4>1, <4>2, <4>4, <4>5, <4>6
    <3> QED  BY <3>1, <3>2
  <2> HIDE DEF new
  <2> QED  BY <2>4, <2>5 DEF Acyclic, Ranked
<1> QED  BY <1>3, <1>4, <1>5, <1>6, <1>7 DEF Inv, TreeOK

LEMMA ReparentStep ==
  ASSUME Inv, NEW w \in drawables, NEW p \in drawables \cup {None}, XReparentWindow(w, p)
  PROVE  Inv'
<1>0. drawables \subseteq Ids /\ None \notin Ids  BY TreeFacts
<1>1. CASE p = None /\ ReparentNowhere(w)  BY <1>1, QuietStep DEF ReparentNowhere
<1>2. CASE ReparentToSame(w)  BY <1>2, QuietStep DEF ReparentToSame
<1>3. CASE p = None /\ ReparentToRoot(w)
  <2>1. /\ UNCHANGED <<last, drawables, mask, hides>>
        /\ children' = Detached(w)
        /\ parent' = [parent EXCEPT ![w] = None]
        /\ bwindow' = [bwindow EXCEPT ![w] = IF Hidden[w] THEN "hidden" ELSE "shown"]
    BY <1>3 DEF ReparentToRoot
  <2>2. /\ bwindow' \in [Ids -> {"none", "hidden", "shown"}]
        /\ bwindow'[w] # "none"
        /\ \A x \in Ids \ {w} : bwindow'[x] = bwindow[x]
        /\ hides' \in [Ids -> 0 .. MaxHides]
        /\ \A x \in Ids \ drawables : hides'[x] = 0
    BY <2>1, <1>0 DEF Inv, TypeOK
  <2> QED  BY <1>3, <2>1, <2>2, MoveStep
<1>4. CASE p \in drawables \ Below(w) /\ ReparentTo(w, p)
  <2>1. /\ UNCHANGED <<last, drawables, mask>>
        /\ children' = [Detached(w) EXCEPT ![p] = Append(@, w)]
        /\ parent' = [parent EXCEPT ![w] = p]
        /\ bwindow' = [bwindow EXCEPT ![w] = "none"]
        /\ hides' = [hides EXCEPT ![w] = IF Hidden[w] THEN @ + 1 ELSE @]
        /\ Hidden[w] => hides[w] < MaxHides
    BY <1>4, BoundsAssumption, TreeFacts DEF ReparentTo, MayHide, Inv, TypeOK
  <2>2. /\ bwindow' \in [Ids -> {"none", "hidden", "shown"}]
        /\ bwindow'[w] = "none"
        /\ \A x \in Ids \ {w} : bwindow'[x] = bwindow[x]
    BY <2>1, <1>0 DEF Inv, TypeOK
  <2>3. /\ hides' \in [Ids -> 0 .. MaxHides]
        /\ \A x \in Ids \ drawables : hides'[x] = 0
    <3>1. hides[w] \in 0 .. MaxHides /\ MaxHides \in Nat  BY <1>0, BoundsAssumption DEF Inv, TypeOK
    <3>2. (IF Hidden[w] THEN hides[w] + 1 ELSE hides[w]) \in 0 .. MaxHides  BY <2>1, <3>1
    <3> QED  BY <2>1, <3>2, <1>0 DEF Inv, TypeOK
  <2>4. p # None  BY <1>0, <1>4
  <2> QED  BY <1>4, <2>1, <2>2, <2>3, <2>4, MoveStep
<1> QED  BY <1>1, <1>2, <1>3, <1>4 DEF XReparentWindow

-----------------------------------------------------------------------------
(* The children a call goes through are windows.                           *)
LEMMA ChildrenAreWindows ==
  ASSUME Inv, NEW w \in drawables
  PROVE  ToSet(children[w]) \subseteq drawables /\ ToSet(Reverse(children[w])) \subseteq drawables
<1>1. children[w] \in Seq(drawables)  BY TreeFacts
<1>2. ToSet(children[w]) \subseteq drawables  BY <1>1 DEF ToSet
<1>3. \A i \in 1 .. Len(children[w]) : Reverse(children[w])[i] \in drawables
  BY <1>1 DEF Reverse
<1>4. DOMAIN Reverse(children[w]) = 1 .. Len(children[w])  BY DEF Reverse
<1> QED  BY <1>2, <1>3, <1>4 DEF ToSet

LEMMA InvStep == Inv /\ [Next]_vars => Inv'
<1> SUFFICES ASSUME Inv, [Next]_vars PROVE Inv'  OBVIOUS
<1>1. ASSUME NEW p \in drawables \cup {None}, NEW m \in Masks, XCreateWindow(p, m) PROVE Inv'
  BY <1>1, CreateStep
<1>2. ASSUME NEW w \in drawables, XDestroyWindow(w) PROVE Inv'  BY <1>2, DestroyStep
<1>3. ASSUME NEW w \in drawables, XDestroySubwindows(w) PROVE Inv'
  BY <1>3, DestroySubwindowsStep
<1>4. ASSUME NEW w \in drawables, XMapWindow(w) \/ XUnmapWindow(w) PROVE Inv'
  <2>1. UNCHANGED <<last, tree, mask>> /\ (Show({w}) \/ Hide({w}))
    BY <1>4 DEF XMapWindow, XUnmapWindow
  <2> QED  BY <2>1, ShowStep
<1>5. ASSUME NEW w \in drawables, XMapSubwindows(w) \/ XUnmapSubwindows(w) PROVE Inv'
  <2>1. CASE XMapSubwindows(w)
    <3>1. UNCHANGED <<last, tree, mask>> /\ Show(ToSet(Reverse(children[w])))
      BY <2>1 DEF XMapSubwindows
    <3> QED  BY <3>1, ChildrenAreWindows, ShowStep
  <2>2. CASE XUnmapSubwindows(w)
    <3>1. UNCHANGED <<last, tree, mask>> /\ Hide(ToSet(children[w]))
      BY <2>2 DEF XUnmapSubwindows
    <3> QED  BY <3>1, ChildrenAreWindows, ShowStep
  <2> QED  BY <1>5, <2>1, <2>2
<1>6. ASSUME NEW w \in drawables, XMapRaised(w) PROVE Inv'  BY <1>6, MapRaisedStep
<1>7. ASSUME NEW w \in drawables, NEW p \in drawables \cup {None}, XReparentWindow(w, p) PROVE Inv'
  BY <1>7, ReparentStep
<1>8. ASSUME NEW w \in drawables, NEW x \in drawables \cup {None}, NEW mode \in {"Above", "Below"},
             Restack(w, x, mode)
      PROVE  Inv'
  BY <1>8, RestackStep
<1>9. ASSUME NEW w \in drawables, NEW m \in Masks, XSelectInput(w, m) PROVE Inv'
  <2>1. UNCHANGED <<last, tree, hides, bwindow>> /\ mask' = [mask EXCEPT ![w] = m]
    BY <1>9 DEF XSelectInput, shown
  <2>2. /\ mask' \in [Ids -> Masks] /\ \A x \in Ids \ drawables : mask'[x] = {}
        /\ hides' \in [Ids -> 0 .. MaxHides] /\ bwindow' \in [Ids -> {"none", "hidden", "shown"}]
        /\ \A x \in Ids \ drawables : hides'[x] = 0
    BY <2>1 DEF Inv, TypeOK
  <2> QED  BY <2>1, <2>2, SameTree
<1>10. ASSUME NEW w \in drawables, QuitRequested(w) PROVE Inv'
  <2>1. UNCHANGED <<last, tree, hides, mask>>  BY <1>10 DEF QuitRequested
  <2>2. /\ bwindow' \in [Ids -> {"none", "hidden", "shown"}]
        /\ \A x \in Ids : bwindow'[x] = "none" <=> bwindow[x] = "none"
    BY <1>10 DEF QuitRequested, Inv, TypeOK
  <2>3. /\ mask' \in [Ids -> Masks] /\ hides' \in [Ids -> 0 .. MaxHides]
        /\ \A x \in Ids \ drawables : hides'[x] = 0 /\ mask'[x] = {}
    BY <2>1 DEF Inv, TypeOK
  <2> QED  BY <2>1, <2>2, <2>3, SameTree
<1>11. CASE UNCHANGED vars
  <2>1. UNCHANGED <<last, tree, shown, mask>>  BY <1>11 DEF vars, tree, shown
  <2> QED  BY <2>1, QuietStep
<1> QED
  BY <1>1, <1>2, <1>3, <1>4, <1>5, <1>6, <1>7, <1>8, <1>9, <1>10, <1>11 DEF Next

LEMMA Invariant == Spec => []Inv
BY InvInit, InvStep, PTL DEF Spec

(* The registry, the view tree and the show counts keep their types: the   *)
(* children listed and the parents pointed to are in the registry, and     *)
(* nothing is left of a destroyed window.                                  *)
THEOREM TypeCorrect == Spec => []TypeOK
<1>1. Inv => TypeOK  BY DEF Inv
<1> QED  BY <1>1, Invariant, PTL

(* Whatever is created, reparented, restacked and destroyed, parents and   *)
(* lists of children agree, and a window has either a BWindow or a parent. *)
THEOREM WindowsFormATree == Spec => []TreeOK
<1>1. Inv => TreeOK  BY DEF Inv
<1> QED  BY <1>1, Invariant, PTL

-----------------------------------------------------------------------------
(* What is below a window below q is below q.                              *)
LEMMA BelowBelow ==
  ASSUME NEW q \in drawables, NEW a \in Below(q)
  PROVE  Below(a) \subseteq Below(q)
<1>1. a \in drawables /\ Below(q) \subseteq drawables  BY BelowIs
<1>2. Closed(Below(q))  BY BelowIs DEF Closed
<1> QED  BY <1>1, <1>2, BelowIsLeast

(* Of the windows w is below, one of least rank has no parent.             *)
LEMMA InvImpliesInSomeBWindow == Inv => InSomeBWindow
<1> SUFFICES ASSUME Inv, NEW w \in drawables
             PROVE  \E r \in drawables : bwindow[r] # "none" /\ w \in Below(r)
  BY DEF InSomeBWindow
<1>0. /\ drawables \subseteq Ids /\ None \notin Ids
      /\ \A x \in drawables : parent[x] \in drawables \cup {None}
  BY TreeFacts
<1>1. PICK rank \in [Ids -> Nat] : Ranked(rank)  BY DEF Inv, Acyclic
<1> DEFINE above == {a \in drawables : w \in Below(a)}
           ranks == {rank[a] : a \in above}
<1>2. ranks \subseteq Nat /\ ranks # {}
  <2>1. w \in above  BY BelowIs
  <2> QED  BY <2>1, <1>0
<1>3. PICK n \in ranks : \A m \in ranks : ~(<<m, n>> \in OpToRel(<, Nat))
  <2> HIDE DEF ranks
  <2> QED  BY <1>2, WFMin, NatLessThanWellFounded
<1>4. \A m \in ranks : ~(m < n)  BY <1>2, <1>3 DEF OpToRel
<1>5. PICK r \in above : rank[r] = n  OBVIOUS
<1>6. parent[r] = None
  <2> SUFFICES ASSUME parent[r] # None PROVE FALSE  OBVIOUS
  <2>1. parent[r] \in drawables /\ rank[parent[r]] < rank[r]  BY <1>0, <1>1 DEF Ranked
  <2>2. r \in Below(parent[r])  BY <2>1, BelowIs
  <2>3. w \in Below(parent[r])  BY <2>1, <2>2, BelowBelow
  <2>4. rank[parent[r]] \in ranks  BY <2>1, <2>3
  <2> QED  BY <2>1, <2>4, <1>4, <1>5
<1>7. bwindow[r] # "none"  BY <1>6 DEF Inv, TreeOK, BWindowOrParent
<1> QED  BY <1>7

(* Every window there is hangs in some BWindow: its Window() is never null *)
(* and no window is below itself.                                          *)
THEOREM WindowsHang == Spec => []InSomeBWindow
BY Invariant, InvImpliesInSomeBWindow, PTL

-----------------------------------------------------------------------------
(* The place of an element in a list that repeats nothing.                 *)
At(q, y) == CHOOSE i \in DOMAIN q : q[i] = y

LEMMA AtIs ==
  ASSUME NEW S, NEW q \in Seq(S), IsInjective(q), NEW i \in DOMAIN q
  PROVE  At(q, q[i]) = i
<1>1. \A j \in DOMAIN q : q[j] = q[i] => j = i  BY DEF IsInjective
<1> QED  BY <1>1 DEF At

LEMMA AtFinds ==
  ASSUME NEW S, NEW q \in Seq(S), NEW y, Contains(q, y)
  PROVE  At(q, y) \in DOMAIN q /\ q[At(q, y)] = y
<1>1. \E i \in DOMAIN q : q[i] = y  BY ContainsIs
<1> QED  BY <1>1 DEF At

(* Those that stay keep their order when one is taken out...               *)
LEMMA WithoutKeepsOrder ==
  ASSUME NEW S, NEW s \in Seq(S), IsInjective(s), NEW w \in S, Contains(s, w),
         NEW y \in S, NEW z \in S, Contains(s, y), Contains(s, z), y # w, z # w, At(s, y) < At(s, z)
  PROVE  At(Without(s, w), y) < At(Without(s, w), z)
<1> DEFINE i == At(s, w)
           o == Without(s, w)
           a == At(s, y)
           b == At(s, z)
<1>1. /\ i \in DOMAIN s /\ s[i] = w
      /\ a \in DOMAIN s /\ s[a] = y
      /\ b \in DOMAIN s /\ s[b] = z
  BY AtFinds
<1>2. o = RemoveAt(s, i)
  BY DEF Without, At
<1>3. o \in Seq(S) /\ IsInjective(o)
  BY WithoutIs
<1>4. Len(s) \in Nat /\ DOMAIN s = 1 .. Len(s)
  OBVIOUS
<1> HIDE DEF i, o, a, b
<1>5. /\ DOMAIN o = 1 .. (Len(s) - 1)
      /\ \A k \in 1 .. (Len(s) - 1) : o[k] = s[IF k < i THEN k ELSE k + 1]
  BY <1>1, <1>2, RemoveAtIs
<1>6. a # i /\ b # i /\ a < b
  BY <1>1 DEF a, b
<1> DEFINE p == IF a < i THEN a ELSE a - 1
           q == IF b < i THEN b ELSE b - 1
<1>7. p \in DOMAIN o /\ q \in DOMAIN o /\ o[p] = s[a] /\ o[q] = s[b] /\ p < q
  <2>1. i \in 1 .. Len(s) /\ a \in 1 .. Len(s) /\ b \in 1 .. Len(s)
    BY <1>1, <1>4
  <2>2. p \in 1 .. (Len(s) - 1) /\ q \in 1 .. (Len(s) - 1) /\ p < q
    BY <1>4, <1>6, <2>1
  <2>3. (IF p < i THEN p ELSE p + 1) = a /\ (IF q < i THEN q ELSE q + 1) = b
    BY <1>6, <2>1
  <2> HIDE DEF p, q
  <2>4. o[p] = s[a] /\ o[q] = s[b]
    BY <1>5, <2>2, <2>3
  <2> QED
    BY <1>5, <2>2, <2>4
<1> HIDE DEF p, q
<1>8. At(o, o[p]) = p /\ At(o, o[q]) = q
  BY <1>3, <1>7, AtIs
<1> QED
  BY <1>1, <1>7, <1>8 DEF o

(* ...and when one is put in, which is where it was put.                   *)
LEMMA InsertKeepsOrder ==
  ASSUME NEW S, NEW o \in Seq(S), IsInjective(o), NEW w \in S, ~Contains(o, w),
         NEW at \in 1 .. (Len(o) + 1)
  PROVE  LET t == InsertAt(o, at, w)
         IN  /\ At(t, w) = at
             /\ \A k \in DOMAIN o : At(t, o[k]) = IF k < at THEN k ELSE k + 1
             /\ \A y, z \in S : Contains(o, y) /\ Contains(o, z) /\ At(o, y) < At(o, z) =>
                                  At(t, y) < At(t, z)
<1> DEFINE t == InsertAt(o, at, w)
<1>1. Len(o) \in Nat /\ DOMAIN o = 1 .. Len(o)
  OBVIOUS
<1>2. /\ t \in Seq(S) /\ DOMAIN t = 1 .. (Len(o) + 1)
      /\ \A k \in 1 .. (Len(o) + 1) : t[k] = IF k < at THEN o[k] ELSE IF k = at THEN w ELSE o[k - 1]
  <2>1. t \in Seq(S)
    BY InsertAtIs
  <2>2. DOMAIN t = 1 .. (Len(o) + 1)
    BY InsertAtIs
  <2>3. \A k \in 1 .. (Len(o) + 1) : t[k] = IF k < at THEN o[k] ELSE IF k = at THEN w ELSE o[k - 1]
    BY InsertAtIs
  <2> QED
    BY <2>1, <2>2, <2>3
<1>3. IsInjective(t)
  BY InsertAtContains
<1> HIDE DEF t
<1>4. At(t, w) = at
  <2>1. at \in DOMAIN t /\ t[at] = w
    BY <1>1, <1>2
  <2> QED
    BY <1>2, <1>3, <2>1, AtIs
<1>5. ASSUME NEW k \in DOMAIN o
      PROVE  At(t, o[k]) = IF k < at THEN k ELSE k + 1
  <2> DEFINE p == IF k < at THEN k ELSE k + 1
  <2>1. p \in 1 .. (Len(o) + 1) /\ t[p] = o[k]
    BY <1>1, <1>2
  <2> HIDE DEF p
  <2>2. At(t, t[p]) = p
    BY <1>2, <1>3, <2>1, AtIs
  <2> QED
    BY <2>1, <2>2 DEF p
<1>6. ASSUME NEW y \in S, NEW z \in S, Contains(o, y), Contains(o, z), At(o, y) < At(o, z)
      PROVE  At(t, y) < At(t, z)
  <2> DEFINE a == At(o, y)
             b == At(o, z)
  <2>1. a \in DOMAIN o /\ o[a] = y /\ b \in DOMAIN o /\ o[b] = z
    BY <1>6, AtFinds
  <2>2. a < b
    BY <1>6
  <2> HIDE DEF a, b
  <2>3. /\ At(t, y) = IF a < at THEN a ELSE a + 1
        /\ At(t, z) = IF b < at THEN b ELSE b + 1
    BY <1>5, <2>1
  <2> QED
    BY <1>1, <2>1, <2>2, <2>3
<1> QED
  BY <1>4, <1>5, <1>6 DEF t

(* At either end is a place to insert at, too.                             *)
LEMMA EndsAreInserts ==
  ASSUME NEW S, NEW o \in Seq(S), NEW w \in S
  PROVE  /\ Len(o) + 1 \in 1 .. (Len(o) + 1) /\ 1 \in 1 .. (Len(o) + 1)
         /\ Append(o, w) = InsertAt(o, Len(o) + 1, w)
         /\ <<w>> \o o = InsertAt(o, 1, w)
<1>1. Len(o) \in Nat /\ Len(o) + 1 \in 1 .. (Len(o) + 1) /\ 1 \in 1 .. (Len(o) + 1)
  OBVIOUS
<1> DEFINE top == InsertAt(o, Len(o) + 1, w)
           bottom == InsertAt(o, 1, w)
<1>2. /\ top \in Seq(S) /\ Len(top) = Len(o) + 1
      /\ \A k \in 1 .. (Len(o) + 1) :
           top[k] = IF k < Len(o) + 1 THEN o[k] ELSE IF k = Len(o) + 1 THEN w ELSE o[k - 1]
  BY <1>1, InsertAtIs
<1>3. /\ bottom \in Seq(S) /\ Len(bottom) = Len(o) + 1
      /\ \A k \in 1 .. (Len(o) + 1) : bottom[k] = IF k < 1 THEN o[k] ELSE IF k = 1 THEN w ELSE o[k - 1]
  BY <1>1, InsertAtIs
<1> HIDE DEF top, bottom
<1>4. Append(o, w) = top
  <2>1. /\ Append(o, w) \in Seq(S) /\ Len(Append(o, w)) = Len(o) + 1
        /\ \A k \in 1 .. (Len(o) + 1) : Append(o, w)[k] = IF k < Len(o) + 1 THEN o[k] ELSE w
    BY <1>1
  <2> QED
    BY <1>1, <1>2, <2>1
<1>5. <<w>> \o o = bottom
  <2>1. /\ <<w>> \o o \in Seq(S) /\ Len(<<w>> \o o) = Len(o) + 1
        /\ \A k \in 1 .. (Len(o) + 1) : (<<w>> \o o)[k] = IF k = 1 THEN w ELSE o[k - 1]
    BY PrependIs
  <2> QED
    BY <1>1, <1>3, <2>1
<1> QED
  BY <1>1, <1>4, <1>5 DEF top, bottom

(* Restacking is one of each.                                              *)
LEMMA RestackKeepsOrder ==
  ASSUME Inv, NEW w \in drawables, parent[w] # None, NEW x \in Siblings(w) \cup {None},
         NEW mode \in {"Above", "Below"},
         children' = [children EXCEPT ![parent[w]] = Restacked(w, x, mode)]
  PROVE  IsMoved(w, x, mode)
<1> DEFINE s == children[parent[w]]
           o == Without(s, w)
           t == children'[parent[w]]
           k == At(o, x)
           at == IF x = None THEN IF mode = "Above" THEN Len(o) + 1 ELSE 1
                 ELSE IF mode = "Above" THEN k + 1 ELSE k
<1>1. /\ parent[w] \in drawables
      /\ t = Restacked(w, x, mode)
      /\ s \in Seq(drawables) /\ IsInjective(s)
  <2>1. children \in [Ids -> Seq(drawables)] /\ parent[w] \in drawables /\ parent[w] \in Ids
    BY TreeFacts DEF Inv, TypeOK
  <2> QED
    BY <2>1, TreeFacts
<1>2. Contains(s, w) /\ (x # None => Contains(s, x) /\ x # w)
  <2>1. Contains(s, w)
    BY <1>1 DEF Inv, TreeOK, ParentsAgree
  <2> QED
    BY <1>1, <2>1, ContainsIs DEF Siblings, ToSet
<1>3. /\ o \in Seq(drawables) /\ IsInjective(o)
      /\ \A y \in drawables : Contains(o, y) <=> Contains(s, y) /\ y # w
  BY <1>1, WithoutIs
<1>4. /\ t = InsertAt(o, at, w)
      /\ x # None => k \in DOMAIN o /\ o[k] = x
  <2>1. CASE x = None
    BY <1>1, <1>3, <2>1, EndsAreInserts DEF Restacked
  <2>2. CASE x # None
    <3>1. t = InsertAt(o, at, w)
      BY <1>1, <2>2 DEF Restacked, Before, At
    <3>2. x \in drawables
      BY <1>1, <1>2, <2>2, ContainsIs
    <3> QED
      BY <1>2, <1>3, <2>2, <3>1, <3>2, AtFinds
  <2> QED
    BY <2>1, <2>2
<1>5. /\ Len(o) \in Nat /\ at \in 1 .. (Len(o) + 1)
      /\ x # None => /\ k \in Int
                     /\ IF mode = "Above" THEN at = k + 1 /\ k < at ELSE at = k /\ ~(k < at)
  <2>1. Len(o) \in Nat /\ (x # None => k \in 1 .. Len(o))
    BY <1>3, <1>4
  <2> HIDE DEF o, k
  <2> QED
    BY <2>1
<1>6. /\ \A y : Contains(t, y) <=> Contains(s, y)
      /\ Len(t) = Len(o) + 1 /\ Len(s) = Len(o) + 1
  <2>1. t \in Seq(drawables) /\ \A y \in drawables : Contains(t, y) <=> Contains(s, y)
    BY <1>1, RestackedIs
  <2>2. \A y : Contains(t, y) \/ Contains(s, y) => y \in drawables
    BY <1>1, <2>1, ContainsIs
  <2>3. Len(t) = Len(o) + 1
    BY <1>3, <1>4, <1>5, InsertAtIs
  <2>4. Len(s) = Len(o) + 1
    <3>1. At(s, w) \in DOMAIN s
      BY <1>1, <1>2, AtFinds
    <3>2. o = RemoveAt(s, At(s, w))
      BY <1>2 DEF Without, At
    <3>3. Len(s) \in Nat /\ Len(o) = Len(s) - 1
      BY <1>1, <3>1, <3>2, RemoveAtIs
    <3> QED
      BY <3>3
  <2> QED
    BY <2>1, <2>2, <2>3, <2>4
<1>7. /\ At(t, w) = at
      /\ x # None => At(t, o[k]) = IF k < at THEN k ELSE k + 1
      /\ \A y, z \in drawables : Contains(o, y) /\ Contains(o, z) /\ At(o, y) < At(o, z) =>
                                   At(t, y) < At(t, z)
  <2>1. ~Contains(o, w)
    BY <1>3
  <2> HIDE DEF o, k, at, t
  <2> QED
    BY <1>3, <1>4, <1>5, <2>1, InsertKeepsOrder
<1>8. ToSet(t) = ToSet(s)
  <2>1. t \in Seq(drawables)
    BY <1>1, RestackedIs
  <2>2. /\ \A y : y \in ToSet(s) <=> Contains(s, y)
        /\ \A y : y \in ToSet(t) <=> Contains(t, y)
    BY <1>1, <2>1 DEF Contains, ToSet
  <2> QED
    BY <1>6, <2>2
<1>9. ASSUME NEW y \in ToSet(s) \ {w}, NEW z \in ToSet(s) \ {w}, At(s, y) < At(s, z)
      PROVE  At(t, y) < At(t, z)
  <2> HIDE DEF t, o, k, at
  <2>1. Contains(s, y) /\ Contains(s, z) /\ y # w /\ z # w
    BY <1>1, <1>9 DEF ToSet, Contains
  <2>2. y \in drawables /\ z \in drawables
    BY <1>1, <2>1, ContainsIs
  <2> HIDE DEF s
  <2> USE DEF o
  <2>3. At(o, y) < At(o, z)
    BY <1>1, <1>2, <1>9, <2>1, <2>2, WithoutKeepsOrder
  <2> HIDE DEF o
  <2> QED
    BY <1>3, <1>7, <2>1, <2>2, <2>3
<1>10. At(t, w) = IF x = None THEN IF mode = "Above" THEN Len(t) ELSE 1
                  ELSE IF mode = "Above" THEN At(t, x) + 1 ELSE At(t, x) - 1
  <2>1. CASE x = None
    BY <1>6, <1>7, <2>1
  <2>2. CASE x # None
    <3>1. At(t, x) = IF k < at THEN k ELSE k + 1
      BY <1>4, <1>7, <2>2
    <3> HIDE DEF t, o, k, at
    <3> QED
      BY <1>5, <1>7, <2>2, <3>1
  <2> QED
    BY <2>1, <2>2
<1> QED
  BY <1>6, <1>8, <1>9, <1>10 DEF IsMoved, At

(* Restacking puts a window next to its sibling on the side that is asked  *)
(* for, or above or below all others, as XMapRaised does; and the others   *)
(* keep their order: whatever has become of the list of children           *)
(* (Window.cpp:289-330, 656-663).                                          *)
THEOREM RestackingMovesOne == Spec => RestackMovesOne
<1>1. ASSUME Inv, NEW w \in drawables, parent[w] # None
      PROVE  /\ \A x \in Siblings(w) \cup {None}, mode \in {"Above", "Below"} :
                  Restack(w, x, mode) => IsMoved(w, x, mode)
             /\ XMapRaised(w) => IsMoved(w, None, "Above")
  <2>1. ASSUME NEW x \in Siblings(w) \cup {None}, NEW mode \in {"Above", "Below"},
               Restack(w, x, mode)
        PROVE  IsMoved(w, x, mode)
    <3>1. children' = [children EXCEPT ![parent[w]] = Restacked(w, x, mode)]
      BY <2>1 DEF Restack
    <3> QED
      BY <1>1, <3>1, RestackKeepsOrder
  <2>2. ASSUME XMapRaised(w)
        PROVE  IsMoved(w, None, "Above")
    <3>1. children' = [children EXCEPT ![parent[w]] = Restacked(w, None, "Above")]
      BY <1>1, <2>2 DEF XMapRaised
    <3> QED
      BY <1>1, <3>1, RestackKeepsOrder
  <2> QED
    BY <2>1, <2>2
<1>2. Inv => \A w \in drawables : parent[w] # None /\ UNCHANGED <<drawables, parent, mask>> =>
               /\ \A x \in Siblings(w) \cup {None}, mode \in {"Above", "Below"} :
                    Restack(w, x, mode) => IsMoved(w, x, mode)
               /\ XMapRaised(w) => IsMoved(w, None, "Above")
  BY <1>1
<1> QED
  BY <1>2, Invariant, PTL DEF RestackMovesOne

-----------------------------------------------------------------------------
(* Hidden is the function its definition says it is: w is hidden if w, or  *)
(* what it is in, is.  All that w is in are the least set that has w and,  *)
(* with a window, its parent.                                              *)
LEMMA HiddenExists ==
  ASSUME NEW I, NEW none, none \notin I, NEW p \in [I -> I \cup {none}], NEW high \in [I -> BOOLEAN], NEW low \in [I -> BOOLEAN]
  PROVE  \E h \in [I -> BOOLEAN] :
           \A w \in I : h[w] = (high[w] \/ IF p[w] = none THEN low[w] ELSE h[p[w]])
<1> DEFINE Upward(S) == \A x \in S : p[x] # none => p[x] \in S
           Up(w) == {x \in I : \A S \in SUBSET I : w \in S /\ Upward(S) => x \in S}
           h == [w \in I |-> \E x \in Up(w) : high[x] \/ (p[x] = none /\ low[x])]
<1>1. ASSUME NEW w \in I
      PROVE  /\ w \in Up(w)
             /\ p[w] = none => Up(w) = {w}
             /\ p[w] # none => p[w] \in I /\ Up(w) = {w} \cup Up(p[w])
  <2>1. w \in Up(w)
    OBVIOUS
  <2>2. ASSUME p[w] = none
        PROVE  Up(w) \subseteq {w}
    <3>1. {w} \in SUBSET I /\ Upward({w})
      BY <2>2
    <3> QED
      BY <3>1
  <2>3. ASSUME p[w] # none
        PROVE  p[w] \in I /\ Up(w) = {w} \cup Up(p[w])
    <3>1. p[w] \in I
      BY <2>3
    <3>2. Upward(Up(p[w])) /\ p[w] \in Up(p[w])
      BY <3>1
    <3>3. {w} \cup Up(p[w]) \in SUBSET I /\ Upward({w} \cup Up(p[w]))
      BY <3>2
    <3>4. Up(w) \subseteq {w} \cup Up(p[w])
      BY <3>3
    <3>5. Up(p[w]) \subseteq Up(w)
      BY <2>3
    <3> QED
      BY <2>1, <3>1, <3>4, <3>5
  <2> QED
    BY <2>1, <2>2, <2>3
<1>2. ASSUME NEW w \in I
      PROVE  h[w] = (high[w] \/ IF p[w] = none THEN low[w] ELSE h[p[w]])
  <2> HIDE DEF Up
  <2>1. CASE p[w] = none
    <3>1. h[w] <=> high[w] \/ low[w]
      BY <1>1, <2>1
    <3> QED
      BY <3>1, <2>1
  <2>2. CASE p[w] # none
    BY <1>1, <2>2
  <2> QED
    BY <2>1, <2>2
<1> HIDE DEF Up
<1>3. h \in [I -> BOOLEAN]
  OBVIOUS
<1> QED
  BY <1>2, <1>3

(* What the definition of Hidden says.                                     *)
HiddenOK ==
  /\ Hidden \in [Ids -> BOOLEAN]
  /\ \A w \in Ids : Hidden[w] =
       (hides[w] > 0 \/ IF parent[w] = None THEN bwindow[w] # "shown" ELSE Hidden[parent[w]])

LEMMA HiddenIs == TypeOK => HiddenOK
<1> SUFFICES ASSUME TypeOK
             PROVE  HiddenOK
  OBVIOUS
<1> DEFINE high == [w \in Ids |-> hides[w] > 0]
           low == [w \in Ids |-> bwindow[w] # "shown"]
<1>1. drawables \subseteq Ids
  BY BoundsAssumption DEF TypeOK, Ids
<1>2. parent \in [Ids -> Ids \cup {None}] /\ None \notin Ids
  BY <1>1, NoneAssumption DEF TypeOK
<1>3. high \in [Ids -> BOOLEAN] /\ low \in [Ids -> BOOLEAN]
  OBVIOUS
<1>4. PICK h \in [Ids -> BOOLEAN] :
        \A w \in Ids : h[w] = (high[w] \/ IF parent[w] = None THEN low[w] ELSE h[parent[w]])
  <2> HIDE DEF high, low
  <2> QED
    BY <1>2, <1>3, HiddenExists
<1>5. h = [w \in Ids |-> hides[w] > 0 \/
             IF parent[w] = None THEN bwindow[w] # "shown" ELSE h[parent[w]]]
  BY <1>4
<1>6. Hidden = [w \in Ids |-> hides[w] > 0 \/
                  IF parent[w] = None THEN bwindow[w] # "shown" ELSE Hidden[parent[w]]]
  BY <1>5 DEF Hidden
<1> QED
  BY <1>6 DEF HiddenOK

(* What a window has if its parent does, and the first of a branch does,   *)
(* all have: there would be one of least rank that has not.                *)
LEMMA FromTheTop ==
  ASSUME Inv, NEW f, NEW g, NEW S \in SUBSET drawables,
         \A x \in S : \/ f[x] = g[x]
                     \/ /\ parent[x] \in S
                        /\ f[parent[x]] = g[parent[x]] => f[x] = g[x]
  PROVE  \A x \in S : f[x] = g[x]
<1> SUFFICES ASSUME NEW y \in S, f[y] # g[y]
             PROVE  FALSE
  OBVIOUS
<1>1. drawables \subseteq Ids /\ None \notin drawables
  BY TreeFacts
<1>2. PICK rank \in [Ids -> Nat] : Ranked(rank)
  BY DEF Inv, Acyclic
<1> DEFINE ranks == {rank[x] : x \in {z \in S : f[z] # g[z]}}
<1>3. ranks \subseteq Nat /\ ranks # {}
  BY <1>1
<1>4. PICK n \in ranks : \A m \in ranks : ~(<<m, n>> \in OpToRel(<, Nat))
  <2> HIDE DEF ranks
  <2> QED
    BY <1>3, WFMin, NatLessThanWellFounded
<1>5. PICK x \in S : f[x] # g[x] /\ rank[x] = n
  OBVIOUS
<1>6. parent[x] \in S /\ f[parent[x]] # g[parent[x]] /\ parent[x] # None
  BY <1>1, <1>5
<1>7. rank[parent[x]] < n /\ rank[parent[x]] \in ranks
  BY <1>1, <1>2, <1>5, <1>6 DEF Ranked
<1> QED
  BY <1>3, <1>4, <1>7 DEF OpToRel

(* A window that is moved below p, or to the root, and not hidden there,   *)
(* takes all below it along as it was.                                     *)
LEMMA MoveKeepsMapped ==
  ASSUME Inv, TypeOK', NEW w \in drawables, NEW p \in (drawables \ Below(w)) \cup {None},
         ~Hidden[w], p = None \/ ~Hidden[p],
         UNCHANGED <<drawables, hides>>,
         parent' = [parent EXCEPT ![w] = p],
         bwindow' = [bwindow EXCEPT ![w] = IF p = None THEN "shown" ELSE "none"]
  PROVE  \A x \in Below(w) : Hidden'[x] = Hidden[x]
<1>1. /\ drawables \subseteq Ids /\ None \notin Ids
      /\ \A x \in drawables : parent[x] \in drawables \cup {None}
      /\ parent \in [Ids -> drawables \cup {None}]
      /\ hides \in [Ids -> 0 .. MaxHides]
      /\ bwindow \in [Ids -> {"none", "hidden", "shown"}]
  BY TreeFacts DEF Inv, TypeOK
<1>2. /\ Below(w) \subseteq drawables /\ w \in Below(w)
      /\ \A x \in drawables : parent[x] \in Below(w) => x \in Below(w)
      /\ \A x \in Below(w) : x # w => parent[x] \in Below(w)
  BY BelowIs
<1>3. HiddenOK
  BY HiddenIs DEF Inv
<1>4. HiddenOK'
  <2>1. TypeOK'
    OBVIOUS
  <2> QED
    BY <2>1, HiddenIs, PTL
<1>5. \A x \in drawables \ {w} :
        hides'[x] = hides[x] /\ parent'[x] = parent[x] /\ bwindow'[x] = bwindow[x]
  BY <1>1
<1>6. \A x \in drawables \ Below(w) : Hidden'[x] = Hidden[x]
  <2> DEFINE S == drawables \ Below(w)
  <2>1. ASSUME NEW x \in S
        PROVE  \/ Hidden'[x] = Hidden[x]
               \/ /\ parent[x] \in S
                  /\ Hidden'[parent[x]] = Hidden[parent[x]] => Hidden'[x] = Hidden[x]
    BY <1>1, <1>2, <1>3, <1>4, <1>5 DEF HiddenOK
  <2>2. S \in SUBSET drawables
    OBVIOUS
  <2> HIDE DEF S
  <2>3. \A x \in S : Hidden'[x] = Hidden[x]
    BY <2>1, <2>2, FromTheTop
  <2> QED
    BY <2>3 DEF S
<1>7. Hidden'[w] = Hidden[w]
  <2>1. hides[w] = 0 /\ hides'[w] = 0 /\ parent'[w] = p
    BY <1>1, <1>3 DEF HiddenOK
  <2>2. CASE p = None
    BY <1>1, <1>3, <1>4, <2>1, <2>2 DEF HiddenOK
  <2>3. CASE p # None
    BY <1>1, <1>3, <1>4, <1>6, <2>1, <2>3 DEF HiddenOK
  <2> QED
    BY <2>2, <2>3
<1>8. ASSUME NEW x \in Below(w)
      PROVE  \/ Hidden'[x] = Hidden[x]
             \/ /\ parent[x] \in Below(w)
                /\ Hidden'[parent[x]] = Hidden[parent[x]] => Hidden'[x] = Hidden[x]
  BY <1>1, <1>2, <1>3, <1>4, <1>5, <1>7 DEF HiddenOK
<1> QED
  BY <1>2, <1>8, FromTheTop

(* A window that is viewable, and all below it, stay so when it is         *)
(* reparented to one that is, or to the root: XReparentWindow maps again   *)
(* what it unmapped (Window.cpp:461-524), whatever the tree.               *)
THEOREM ReparentingKeepsMapped == Spec => ReparentKeepsMapped
<1>1. ASSUME Inv, NEW w \in drawables, NEW p \in drawables \cup {None},
             ~Hidden[w], p = None \/ ~Hidden[p], XReparentWindow(w, p)
      PROVE  \A x \in Below(w) : Hidden'[x] = Hidden[x]
  <2>1. CASE UNCHANGED <<tree, shown>>
    <3>1. Hidden' = Hidden
      BY <2>1 DEF Hidden, tree, shown
    <3> QED
      BY <3>1
  <2>2. TypeOK'
    BY <1>1, ReparentStep DEF Inv
  <2>3. CASE p = None /\ ReparentToRoot(w)
    BY <1>1, <2>2, <2>3, MoveKeepsMapped DEF ReparentToRoot
  <2>4. CASE p \in drawables \ Below(w) /\ ReparentTo(w, p)
    <3>1. p # None
      BY <1>1, <2>4, TreeFacts
    <3>2. hides' = hides
      BY <1>1, <2>4 DEF ReparentTo, Inv, TypeOK
    <3> QED
      BY <1>1, <2>2, <2>4, <3>1, <3>2, MoveKeepsMapped DEF ReparentTo
  <2> QED
    BY <1>1, <2>1, <2>3, <2>4 DEF XReparentWindow, ReparentNowhere, ReparentToSame
<1>2. Inv => \A w \in drawables, p \in drawables \cup {None} :
               parent'[w] = p /\ ~Hidden[w] /\ (p = None \/ ~Hidden[p]) /\ XReparentWindow(w, p) =>
                 \A x \in Below(w) : Hidden[x]' = Hidden[x]
  BY <1>1
<1> QED
  BY <1>2, Invariant, PTL DEF ReparentKeepsMapped

-----------------------------------------------------------------------------
(* Counted from the bottom, a window is higher than its children.          *)
Rising(height) == \A x \in Ids : \A i \in DOMAIN children[x] : height[children[x][i]] < height[x]

(* The children listed for a window are those whose parent it is, each     *)
(* once.                                                                   *)
LEMMA ChildrenAre ==
  ASSUME Inv
  PROVE  /\ children \in [Ids -> Seq(Ids)]
         /\ \A x \in Ids \ drawables : children[x] = <<>>
         /\ \A x \in drawables : /\ children[x] \in Seq(drawables)
                                 /\ DOMAIN children[x] = 1 .. Len(children[x])
                                 /\ Len(children[x]) \in Nat
         /\ \A x \in drawables : \A i \in DOMAIN children[x] :
              children[x][i] \in drawables /\ parent[children[x][i]] = x
         /\ \A x \in drawables : \A i, j \in DOMAIN children[x] :
              i # j => children[x][i] # children[x][j]
         /\ \A x, y \in drawables : parent[y] = x => \E i \in DOMAIN children[x] : children[x][i] = y
<1>1. drawables \subseteq Ids /\ \A p \in drawables : children[p] \in Seq(drawables) /\ IsInjective(children[p])
  BY TreeFacts
<1>2. children \in [Ids -> Seq(Ids)] /\ \A x \in Ids \ drawables : children[x] = <<>>
  <2>1. children \in [Ids -> Seq(drawables)] /\ \A x \in Ids \ drawables : children[x] = <<>>
    BY DEF Inv, TypeOK
  <2>2. ASSUME NEW s \in Seq(drawables)
        PROVE  s \in Seq(Ids)
    BY <1>1
  <2> QED
    BY <2>1, <2>2
<1>3. ASSUME NEW x \in drawables
      PROVE  /\ DOMAIN children[x] = 1 .. Len(children[x]) /\ Len(children[x]) \in Nat
             /\ \A i \in DOMAIN children[x] : children[x][i] \in drawables
  BY <1>1
<1>4. \A x, y \in drawables : parent[y] = x <=> \E i \in DOMAIN children[x] : children[x][i] = y
  BY <1>1, ContainsIs DEF Inv, TreeOK, ParentsAgree
<1>5. \A x \in drawables : \A i \in DOMAIN children[x] : parent[children[x][i]] = x
  BY <1>3, <1>4
<1>6. \A x \in drawables : \A i, j \in DOMAIN children[x] :
        i # j => children[x][i] # children[x][j]
  BY <1>1 DEF IsInjective
<1> QED
  BY <1>1, <1>2, <1>3, <1>4, <1>5, <1>6

(* The tree is finite: windows have such heights, and those a bound.       *)
LEMMA Heights ==
  ASSUME Inv
  PROVE  \E height \in [Ids -> Nat], top \in Nat :
           (\A x \in Ids : height[x] <= top) /\ Rising(height)
<1>1. PICK rank \in [Ids -> Nat] : Ranked(rank)
  BY DEF Inv, Acyclic
<1>2. PICK top \in Nat : \A x \in Ids : rank[x] <= top
  BY BoundsAssumption, Bounded DEF Ids
<1> DEFINE height == [x \in Ids |-> top - rank[x]]
<1>3. height \in [Ids -> Nat] /\ \A x \in Ids : height[x] <= top
  BY <1>2
<1>4. ASSUME NEW x \in Ids, NEW i \in DOMAIN children[x]
      PROVE  height[children[x][i]] < height[x]
  <2>1. x \in drawables
    <3>1. DOMAIN <<>> = {}
      OBVIOUS
    <3> QED
      BY <1>4, <3>1, ChildrenAre
  <2>2. children[x][i] \in drawables /\ parent[children[x][i]] = x
    BY <2>1, ChildrenAre
  <2>3. children[x][i] \in Ids /\ x # None
    BY <2>1, <2>2, TreeFacts
  <2>4. rank[x] < rank[children[x][i]]
    BY <1>1, <2>2, <2>3 DEF Ranked
  <2> QED
    BY <1>2, <2>3, <2>4
<1> HIDE DEF height
<1> QED
  BY <1>3, <1>4 DEF Rising

(* Those below a window are it and those below its children; those below   *)
(* two children of one window are not the same.                            *)
LEMMA BelowChildren ==
  ASSUME Inv, NEW w \in drawables
  PROVE  Below(w) = {w} \cup UNION {Below(children[w][i]) : i \in DOMAIN children[w]}
<1> DEFINE S == {w} \cup UNION {Below(children[w][i]) : i \in DOMAIN children[w]}
<1>1. \A i \in DOMAIN children[w] : children[w][i] \in drawables /\ parent[children[w][i]] = w
  BY ChildrenAre
<1>2. S \subseteq Below(w)
  <2>1. \A i \in DOMAIN children[w] : children[w][i] \in Below(w)
    BY <1>1, BelowIs
  <2>2. \A i \in DOMAIN children[w] : Below(children[w][i]) \subseteq Below(w)
    BY <2>1, BelowBelow
  <2>3. w \in Below(w)
    BY BelowIs
  <2> QED
    BY <2>2, <2>3
<1>3. S \in SUBSET drawables
  BY <1>2, BelowIs
<1>4. Closed(S)
  <2> SUFFICES ASSUME NEW x \in drawables, parent[x] \in S
               PROVE  x \in S
    BY DEF Closed
  <2>1. CASE parent[x] = w
    <3>1. PICK i \in DOMAIN children[w] : children[w][i] = x
      BY <2>1, ChildrenAre
    <3>2. x \in Below(x)
      BY BelowIs
    <3> QED
      BY <3>1, <3>2
  <2>2. CASE parent[x] # w
    <3>1. PICK i \in DOMAIN children[w] : parent[x] \in Below(children[w][i])
      BY <2>2
    <3>2. x \in Below(children[w][i])
      BY <1>1, <3>1, BelowIs
    <3> QED
      BY <3>2
  <2> QED
    BY <2>1, <2>2
<1>5. Below(w) \subseteq S
  <2> HIDE DEF S
  <2>1. w \in S
    BY DEF S
  <2> QED
    BY <1>3, <1>4, <2>1, BelowIsLeast
<1> QED
  BY <1>2, <1>5

LEMMA BranchesApart ==
  ASSUME Inv, NEW a \in drawables, NEW b \in drawables, a # b, parent[a] = parent[b]
  PROVE  Below(a) \cap Below(b) = {}
<1>1. parent[a] \notin Below(a) /\ parent[b] \notin Below(b)
  BY NotBelowItself DEF Inv, Acyclic
<1> DEFINE T == Below(a) \ Below(b)
<1>2. a \in T
  BY <1>1, BelowIs
<1>3. T \in SUBSET drawables
  BY BelowIs
<1>4. Closed(T)
  BY <1>1, BelowIs DEF Closed
<1>5. Below(a) \subseteq T
  <2> HIDE DEF T
  <2> QED
    BY <1>2, <1>3, <1>4, BelowIsLeast
<1> QED
  BY <1>5

(* What a window has if its children have, all have.                       *)
LEMMA FromTheBottom ==
  ASSUME Inv, NEW G,
         \A x \in drawables : (\A i \in DOMAIN children[x] : children[x][i] \in G) => x \in G
  PROVE  drawables \subseteq G
<1> SUFFICES ASSUME NEW y \in drawables, y \notin G
             PROVE  FALSE
  OBVIOUS
<1>1. PICK height \in [Ids -> Nat] : Rising(height)
  BY Heights
<1>2. drawables \subseteq Ids
  BY TreeFacts
<1> DEFINE heights == {height[x] : x \in drawables \ G}
<1>3. heights \subseteq Nat /\ heights # {}
  BY <1>2
<1>4. PICK n \in heights : \A m \in heights : ~(<<m, n>> \in OpToRel(<, Nat))
  <2> HIDE DEF heights
  <2> QED
    BY <1>3, WFMin, NatLessThanWellFounded
<1>5. PICK x \in drawables \ G : height[x] = n
  OBVIOUS
<1>6. PICK i \in DOMAIN children[x] : children[x][i] \notin G
  BY <1>5
<1>7. children[x][i] \in drawables /\ height[children[x][i]] < height[x]
  BY <1>1, <1>2, <1>5, ChildrenAre DEF Rising
<1> QED
  BY <1>3, <1>4, <1>5, <1>6, <1>7 DEF OpToRel

(* Deleted is the function its definition says it is.                      *)
LEMMA DeletedIs ==
  ASSUME Inv
  PROVE  \A w \in Ids : Deleted[w] =
           FlattenSeq([i \in DOMAIN children[w] |-> Deleted[children[w][i]]]) \o <<w>>
<1>1. FiniteTree(Ids, children)
  BY Heights, ChildrenAre DEF FiniteTree, Rising
<1> DEFINE before == [x \in Ids |-> <<>>]
           after == [x \in Ids |-> <<x>>]
           nowhere == {}
           Children(f, x) == ChildrenSay(children, f, x)
<1>2. before \in [Ids -> Seq(Ids)] /\ after \in [Ids -> Seq(Ids)]
  BY SingletonIs
<1>3. children \in [Ids -> Seq(Ids)]
  BY ChildrenAre
<1>4. PICK f \in [Ids -> Seq(Ids)] : \A x \in Ids :
        f[x] = IF x \in nowhere THEN <<>> ELSE before[x] \o ChildrenSay(children, f, x) \o after[x]
  <2>1. nowhere \in SUBSET Ids
    OBVIOUS
  <2> HIDE DEF before, after, nowhere
  <2>2. PICK f : Says(Ids, Ids, children, nowhere, before, after, f)
    BY <1>1, <1>2, <2>1, SaidExists
  <2> QED
    BY <2>2 DEF Says
<1>5. ASSUME NEW x \in Ids
      PROVE  f[x] = Children(f, x) \o <<x>>
  <2> DEFINE ss == [i \in DOMAIN children[x] |-> f[children[x][i]]]
  <2>1. ss \in Seq(Seq(Ids))
    <3>1. children[x] \in Seq(Ids)
      BY <1>3
    <3>2. DOMAIN children[x] = 1 .. Len(children[x]) /\ Len(children[x]) \in Nat
      BY <3>1
    <3>3. \A i \in DOMAIN children[x] : f[children[x][i]] \in Seq(Ids)
      BY <1>4, <3>1
    <3> QED
      BY <3>2, <3>3
  <2>2. FlattenSeq(ss) \in Seq(Ids)
    <3> HIDE DEF ss
    <3> QED
      BY <2>1, FlattenIs
  <2>3. <<>> \o FlattenSeq(ss) = FlattenSeq(ss)
    BY <2>2, ConcatNone
  <2>4. f[x] = (<<>> \o FlattenSeq(ss)) \o <<x>>
    BY <1>4 DEF ChildrenSay
  <2> QED
    BY <2>3, <2>4 DEF ChildrenSay
<1>6. f = [w \in Ids |-> FlattenSeq([i \in DOMAIN children[w] |-> f[children[w][i]]]) \o <<w>>]
  <2>1. f = [w \in Ids |-> f[w]]
    BY <1>4
  <2>2. \A w \in Ids : f[w] = FlattenSeq([i \in DOMAIN children[w] |-> f[children[w][i]]]) \o <<w>>
    BY <1>5 DEF ChildrenSay
  <2> QED
    BY <2>1, <2>2
<1>7. Deleted = [w \in Ids |-> FlattenSeq([i \in DOMAIN children[w] |-> Deleted[children[w][i]]]) \o <<w>>]
  BY <1>6 DEF Deleted
<1> QED
  BY <1>7

(* First those below, then what they are below.                            *)
Upward == {p \in drawables \X drawables : p[2] \notin Below(p[1])}

(* Deleted lists what is below a window, none before all below it.         *)
LEMMA DeletedAre ==
  ASSUME Inv, NEW w \in drawables
  PROVE  /\ Deleted[w] \in Seq(drawables)
         /\ ToSet(Deleted[w]) = Below(w)
         /\ Ordered(Deleted[w], Upward)
<1> DEFINE G == {x \in drawables : /\ Deleted[x] \in Seq(drawables)
                                   /\ ToSet(Deleted[x]) = Below(x)
                                   /\ Ordered(Deleted[x], Upward)}
<1>1. ASSUME NEW x \in drawables, \A i \in DOMAIN children[x] : children[x][i] \in G
      PROVE  x \in G
  <2> DEFINE ss == [i \in DOMAIN children[x] |-> Deleted[children[x][i]]]
  <2>1. Deleted[x] = FlattenSeq(ss) \o <<x>>
    BY DeletedIs, TreeFacts
  <2>2. /\ DOMAIN ss = DOMAIN children[x]
        /\ DOMAIN ss = 1 .. Len(children[x]) /\ Len(children[x]) \in Nat
        /\ \A i \in DOMAIN ss : children[x][i] \in drawables /\ parent[children[x][i]] = x
        /\ \A i, j \in DOMAIN ss : i # j => children[x][i] # children[x][j]
    BY ChildrenAre
  <2>3. \A i \in DOMAIN ss : /\ ss[i] \in Seq(drawables)
                             /\ ToSet(ss[i]) = Below(children[x][i])
                             /\ Ordered(ss[i], Upward)
    BY <1>1
  <2>4. ss \in Seq(Seq(drawables))
    <3>1. DOMAIN children[x] = 1 .. Len(children[x]) /\ Len(children[x]) \in Nat
      BY ChildrenAre
    <3>2. \A i \in DOMAIN children[x] : Deleted[children[x][i]] \in Seq(drawables)
      BY <1>1
    <3> QED
      BY <3>1, <3>2
  <2> HIDE DEF ss
  <2>5. /\ FlattenSeq(ss) \in Seq(drawables)
        /\ ToSet(FlattenSeq(ss)) = UNION {Below(children[x][i]) : i \in DOMAIN children[x]}
    <3>1. UNION {ToSet(ss[i]) : i \in DOMAIN ss} = UNION {Below(children[x][i]) : i \in DOMAIN children[x]}
      BY <2>2, <2>3
    <3> QED
      BY <2>4, <3>1, FlattenIs
  <2>6. Ordered(FlattenSeq(ss), Upward)
    <3>1. ASSUME NEW i \in DOMAIN ss, NEW j \in DOMAIN ss, i < j,
                 NEW a \in ToSet(ss[i]), NEW b \in ToSet(ss[j])
          PROVE  <<a, b>> \in Upward
      <4>1. i # j
        BY <2>2, <3>1
      <4>2. Below(children[x][i]) \cap Below(children[x][j]) = {}
        BY <2>2, <4>1, BranchesApart
      <4>3. a \in Below(children[x][i]) /\ b \in Below(children[x][j])
        BY <2>3
      <4>4. Below(a) \subseteq Below(children[x][i])
        BY <2>2, <4>3, BelowBelow
      <4>5. a \in drawables /\ b \in drawables
        BY <2>2, <4>3, BelowIs
      <4> QED
        BY <4>2, <4>3, <4>4, <4>5 DEF Upward
    <3>2. \A i, j \in DOMAIN ss : i < j =>
            \A a \in ToSet(ss[i]), b \in ToSet(ss[j]) : <<a, b>> \in Upward
      BY <3>1
    <3> QED
      BY <2>3, <2>4, <3>2, FlattenIs
  <2>7. /\ <<x>> \in Seq(drawables) /\ ToSet(<<x>>) = {x} /\ Ordered(<<x>>, Upward)
    BY SingletonIs
  <2>8. ASSUME NEW a \in ToSet(FlattenSeq(ss))
        PROVE  <<a, x>> \in Upward
    <3>1. PICK i \in DOMAIN children[x] : a \in Below(children[x][i])
      BY <2>5
    <3>2. children[x][i] \in drawables /\ parent[children[x][i]] = x
      BY <2>2, <3>1
    <3>3. x \notin Below(children[x][i])
      BY <3>2, NotBelowItself DEF Inv, Acyclic
    <3>4. a \in drawables /\ Below(a) \subseteq Below(children[x][i])
      BY <3>1, <3>2, BelowBelow, BelowIs
    <3> QED
      BY <3>3, <3>4 DEF Upward
  <2>9. /\ Deleted[x] \in Seq(drawables)
        /\ ToSet(Deleted[x]) = {x} \cup UNION {Below(children[x][i]) : i \in DOMAIN children[x]}
        /\ Ordered(Deleted[x], Upward)
    <3> DEFINE s == FlattenSeq(ss)
               t == <<x>>
    <3>1. \A a \in ToSet(s), b \in ToSet(t) : <<a, b>> \in Upward
      BY <2>7, <2>8
    <3> HIDE DEF s, t
    <3>2. s \in Seq(drawables) /\ t \in Seq(drawables) /\ Ordered(s, Upward) /\ Ordered(t, Upward)
      BY <2>5, <2>6, <2>7 DEF s, t
    <3>3. /\ s \o t \in Seq(drawables)
          /\ ToSet(s \o t) = ToSet(s) \cup ToSet(t)
          /\ Ordered(s \o t, Upward)
      BY <3>1, <3>2, ConcatIs
    <3> QED
      BY <2>1, <2>5, <2>7, <3>3 DEF s, t
  <2> QED
    BY <2>9, BelowChildren
<1>2. drawables \subseteq G
  <2> HIDE DEF G
  <2> QED
    BY <1>1, FromTheBottom
<1> QED
  BY <1>2

-----------------------------------------------------------------------------
(* The events of a type about windows, and those for which it is told      *)
(* first of what is below.                                                 *)
Events(type) == [type : {type}, event : drawables, window : drawables]
UpwardTold == {p \in Events("DestroyNotify") \X Events("DestroyNotify") :
                <<p[1].window, p[2].window>> \in Upward}

(* A notification is one event or none, and about its window.              *)
LEMMA NotifyIs ==
  ASSUME Inv, NEW w \in drawables, NEW type
  PROVE  /\ Notify(type, w) \in Seq(Events(type))
         /\ \A e \in ToSet(Notify(type, w)) : e.window = w
         /\ \A R : Ordered(Notify(type, w), R)
         /\ "StructureNotify" \in mask[w] => Event(type, w, w) \in ToSet(Notify(type, w))
<1>1. parent[w] \in drawables \cup {None} /\ None \notin drawables
  BY TreeFacts
<1>2. \A r \in drawables : Event(type, r, w) \in Events(type) /\ Event(type, r, w).window = w
  BY DEF Events, Event
<1>3. CASE "StructureNotify" \in mask[w]
  <2>1. Notify(type, w) = <<Event(type, w, w)>>
    BY <1>3 DEF Notify
  <2> QED
    BY <1>2, <2>1, SingletonIs
<1>4. CASE "StructureNotify" \notin mask[w] /\ parent[w] # None /\ "SubstructureNotify" \in mask[parent[w]]
  <2>1. Notify(type, w) = <<Event(type, parent[w], w)>>
    BY <1>4 DEF Notify
  <2> QED
    BY <1>1, <1>2, <1>4, <2>1, SingletonIs
<1>5. CASE "StructureNotify" \notin mask[w] /\ ~(parent[w] # None /\ "SubstructureNotify" \in mask[parent[w]])
  <2>1. Notify(type, w) = <<>>
    BY <1>5 DEF Notify
  <2> QED
    BY <1>2, <1>5, <2>1, SingletonIs
<1> QED
  BY <1>3, <1>4, <1>5

(* The events of a destruction.                                            *)
Destroyed == Events("DestroyNotify")

(* s tells of windows of S, of each that selected it, upward.              *)
Tells(s, S) ==
  /\ s \in Seq(Destroyed)
  /\ Ordered(s, UpwardTold)
  /\ \A e \in ToSet(s) : e.window \in S
  /\ \A x \in S : "StructureNotify" \in mask[x] => Event("DestroyNotify", x, x) \in ToSet(s)

(* What tells of sets one after the other, each upward of those before it, *)
(* tells of them all.                                                      *)
LEMMA TellsOneByOne ==
  ASSUME Inv, NEW n \in Nat, NEW ss, ss = [i \in 1 .. n |-> ss[i]], NEW S \in [1 .. n -> SUBSET drawables],
         \A i \in 1 .. n : Tells(ss[i], S[i]),
         \A i, j \in 1 .. n : i < j => \A a \in S[i], b \in S[j] : <<a, b>> \in Upward
  PROVE  Tells(FlattenSeq(ss), UNION {S[i] : i \in 1 .. n})
<1>1. DOMAIN ss = 1 .. n
  OBVIOUS
<1>2. \A i \in 1 .. n : /\ ss[i] \in Seq(Destroyed) /\ Ordered(ss[i], UpwardTold)
                        /\ \A e \in ToSet(ss[i]) : e.window \in S[i]
  BY DEF Tells
<1>3. ss \in Seq(Seq(Destroyed))
  BY <1>1, <1>2
<1>4. ASSUME NEW i \in DOMAIN ss, NEW j \in DOMAIN ss, i < j,
             NEW a \in ToSet(ss[i]), NEW b \in ToSet(ss[j])
      PROVE  <<a, b>> \in UpwardTold
  <2>1. a \in Destroyed /\ b \in Destroyed
    <3>1. ToSet(ss[i]) \subseteq Destroyed /\ ToSet(ss[j]) \subseteq Destroyed
      BY <1>1, <1>2 DEF ToSet
    <3> QED
      BY <3>1
  <2>2. <<a.window, b.window>> \in Upward
    BY <1>1, <1>2, <1>4
  <2> QED
    BY <2>1, <2>2 DEF UpwardTold, Destroyed
<1>5. \A i, j \in DOMAIN ss : i < j => \A a \in ToSet(ss[i]), b \in ToSet(ss[j]) : <<a, b>> \in UpwardTold
  BY <1>4
<1>6. /\ FlattenSeq(ss) \in Seq(Destroyed)
      /\ ToSet(FlattenSeq(ss)) = UNION {ToSet(ss[i]) : i \in 1 .. n}
      /\ Ordered(FlattenSeq(ss), UpwardTold)
  BY <1>1, <1>2, <1>3, <1>5, FlattenIs
<1>7. \A e \in ToSet(FlattenSeq(ss)) : e.window \in UNION {S[i] : i \in 1 .. n}
  BY <1>2, <1>6
<1>8. ASSUME NEW i \in 1 .. n, NEW x \in S[i], "StructureNotify" \in mask[x]
      PROVE  Event("DestroyNotify", x, x) \in ToSet(FlattenSeq(ss))
  <2>1. Event("DestroyNotify", x, x) \in ToSet(ss[i])
    BY <1>8 DEF Tells
  <2> QED
    BY <1>6, <2>1
<1> QED
  BY <1>6, <1>7, <1>8 DEF Tells

(* A destroyed window tells of all below it.                               *)
LEMMA DestroyNotifiesAre ==
  ASSUME Inv, NEW w \in drawables
  PROVE  Tells(DestroyNotifies(w), Below(w))
<1> DEFINE D == Deleted[w]
           ss == [i \in DOMAIN D |-> Notify("DestroyNotify", D[i])]
           S == [i \in DOMAIN D |-> {D[i]}]
<1>1. /\ D \in Seq(drawables) /\ DOMAIN D = 1 .. Len(D) /\ Len(D) \in Nat
      /\ ToSet(D) = Below(w) /\ Ordered(D, Upward)
  BY DeletedAre
<1>2. DestroyNotifies(w) = FlattenSeq(ss)
  BY DEF DestroyNotifies
<1> HIDE DEF D
<1>3. \A i \in DOMAIN D : D[i] \in drawables
  BY <1>1
<1>4. ASSUME NEW i \in 1 .. Len(D)
      PROVE  Tells(ss[i], S[i])
  <2>1. D[i] \in drawables /\ ss[i] = Notify("DestroyNotify", D[i]) /\ S[i] = {D[i]}
    BY <1>1, <1>3
  <2> HIDE DEF ss, S
  <2> QED
    BY <2>1, NotifyIs DEF Tells, Destroyed
<1>5. S \in [1 .. Len(D) -> SUBSET drawables] /\ ss = [i \in 1 .. Len(D) |-> ss[i]]
  BY <1>1, <1>3
<1>6. \A i, j \in 1 .. Len(D) : i < j => \A a \in S[i], b \in S[j] : <<a, b>> \in Upward
  BY <1>1 DEF Ordered
<1>7. UNION {S[i] : i \in 1 .. Len(D)} = Below(w)
  BY <1>1 DEF ToSet
<1> HIDE DEF ss, S
<1>8. Tells(FlattenSeq(ss), UNION {S[i] : i \in 1 .. Len(D)})
  BY <1>1, <1>4, <1>5, <1>6, TellsOneByOne
<1> QED
  BY <1>2, <1>7, <1>8

(* So do its children, one after the other.                                *)
LEMMA DestroySubwindowsTells ==
  ASSUME Inv, NEW w \in drawables
  PROVE  Tells(FlattenSeq([i \in DOMAIN children[w] |-> DestroyNotifies(children[w][i])]), Below(w) \ {w})
<1> DEFINE C == children[w]
           ss == [i \in DOMAIN C |-> DestroyNotifies(C[i])]
           S == [i \in DOMAIN C |-> Below(C[i])]
<1>1. /\ DOMAIN C = 1 .. Len(C) /\ Len(C) \in Nat
      /\ \A i \in DOMAIN C : C[i] \in drawables /\ parent[C[i]] = w
      /\ \A i, j \in DOMAIN C : i # j => C[i] # C[j]
  BY ChildrenAre
<1>2. \A i \in DOMAIN C : w \notin Below(C[i])
  BY <1>1, NotBelowItself DEF Inv, Acyclic
<1>3. Below(w) \ {w} = UNION {S[i] : i \in 1 .. Len(C)}
  <2>1. Below(w) = {w} \cup UNION {Below(C[i]) : i \in DOMAIN C}
    BY BelowChildren
  <2> HIDE DEF C
  <2> QED
    BY <1>1, <1>2, <2>1
<1> HIDE DEF C
<1>4. ASSUME NEW i \in 1 .. Len(C)
      PROVE  Tells(ss[i], S[i])
  BY <1>1, DestroyNotifiesAre
<1>5. S \in [1 .. Len(C) -> SUBSET drawables] /\ ss = [i \in 1 .. Len(C) |-> ss[i]]
  BY <1>1, BelowIs
<1>6. ASSUME NEW i \in 1 .. Len(C), NEW j \in 1 .. Len(C), i < j, NEW a \in S[i], NEW b \in S[j]
      PROVE  <<a, b>> \in Upward
  <2>1. /\ a \in Below(C[i]) /\ b \in Below(C[j])
        /\ C[i] \in drawables /\ C[j] \in drawables /\ parent[C[i]] = parent[C[j]] /\ C[i] # C[j]
    BY <1>1, <1>6
  <2>2. a \in drawables /\ b \in drawables /\ Below(a) \subseteq Below(C[i])
    BY <2>1, BelowIs, BelowBelow
  <2>3. Below(C[i]) \cap Below(C[j]) = {}
    BY <2>1, BranchesApart
  <2> QED
    BY <2>1, <2>2, <2>3 DEF Upward
<1> HIDE DEF ss, S
<1>7. Tells(FlattenSeq(ss), UNION {S[i] : i \in 1 .. Len(C)})
  BY <1>1, <1>4, <1>5, <1>6, TellsOneByOne
<1> QED
  BY <1>3, <1>7 DEF ss, C

-----------------------------------------------------------------------------
(* The events that are not of a destruction.                               *)
Others == [type : {"CreateNotify", "MapNotify", "UnmapNotify", "ReparentNotify",
                   "VisibilityNotify", "ClientMessage"}, event : Ids, window : Ids]

(* told is what XWindow::visibility(was) tells from each window down.      *)
Telling(told, was) ==
  \A x \in Ids : told[x] = IF Hidden[x]' = was THEN <<>>
                           ELSE VisibilityOf(x) \o ChildrenSay(children, told, x)

(* A window is told of its own visibility, if it asked.                    *)
LEMMA VisibilityOfIs ==
  ASSUME Inv, NEW w \in Ids
  PROVE  /\ VisibilityOf(w) \in Seq(Others)
         /\ \A e \in ToSet(VisibilityOf(w)) : e = Event("VisibilityNotify", w, w)
         /\ \A R : Ordered(VisibilityOf(w), R)
         /\ "VisibilityChange" \in mask[w] => Event("VisibilityNotify", w, w) \in ToSet(VisibilityOf(w))
<1>1. Event("VisibilityNotify", w, w) \in Others
  BY DEF Event, Others
<1> QED
  BY <1>1, SingletonIs DEF VisibilityOf

(* Visibility is the function its definition says it is.                   *)
LEMMA VisibilityIs ==
  ASSUME Inv, NEW was
  PROVE  \E told : Telling(told, was) /\ \A w \in Ids : Visibility(w, was) = told[w]
<1> DEFINE E == Others
           before == [x \in Ids |-> VisibilityOf(x)]
           after == [x \in Ids |-> <<>>]
           stop == {x \in Ids : Hidden[x]' = was}
<1>1. FiniteTree(Ids, children)
  BY Heights, ChildrenAre DEF FiniteTree, Rising
<1>2. before \in [Ids -> Seq(E)] /\ after \in [Ids -> Seq(E)] /\ stop \in SUBSET Ids
  <2>1. after \in [Ids -> Seq(E)]
    OBVIOUS
  <2>2. before \in [Ids -> Seq(E)]
    BY VisibilityOfIs
  <2> QED
    BY <2>1, <2>2
<1>3. PICK f : Says(E, Ids, children, stop, before, after, f)
  <2> HIDE DEF before, after, stop, E
  <2> QED
    BY <1>1, <1>2, SaidExists
<1>4. ASSUME NEW x \in Ids
      PROVE  f[x] = IF Hidden[x]' = was THEN <<>>
                    ELSE VisibilityOf(x) \o ChildrenSay(children, f, x)
  <2> DEFINE ss == [i \in DOMAIN children[x] |-> f[children[x][i]]]
  <2>1. ss \in Seq(Seq(E))
    <3>1. children[x] \in Seq(Ids)
      BY ChildrenAre
    <3>2. DOMAIN children[x] = 1 .. Len(children[x]) /\ Len(children[x]) \in Nat
      BY <3>1
    <3>3. \A i \in DOMAIN children[x] : f[children[x][i]] \in Seq(E)
      <4>1. f \in [Ids -> Seq(E)]
        BY <1>3 DEF Says
      <4>2. \A i \in DOMAIN children[x] : children[x][i] \in Ids
        BY <3>1
      <4> HIDE DEF E
      <4> QED
        BY <4>1, <4>2
    <3> HIDE DEF E
    <3> QED
      BY <3>2, <3>3
  <2>2. FlattenSeq(ss) \in Seq(E)
    <3> HIDE DEF ss, E
    <3> QED
      BY <2>1, FlattenIs
  <2>3. VisibilityOf(x) \o FlattenSeq(ss) \in Seq(E)
    <3>1. VisibilityOf(x) \in Seq(E)
      BY VisibilityOfIs
    <3> HIDE DEF ss, E
    <3> QED
      BY <2>2, <3>1, ConcatIs
  <2>4. (VisibilityOf(x) \o FlattenSeq(ss)) \o <<>> = VisibilityOf(x) \o FlattenSeq(ss)
    <3> HIDE DEF ss, E
    <3> QED
      BY <2>3, ConcatNone
  <2>5. FlattenSeq(ss) = ChildrenSay(children, f, x)
    BY DEF ChildrenSay
  <2>6. before[x] = VisibilityOf(x) /\ after[x] = <<>> /\ (x \in stop <=> Hidden[x]' = was)
    OBVIOUS
  <2>7. f[x] = IF x \in stop THEN <<>> ELSE before[x] \o ChildrenSay(children, f, x) \o after[x]
    BY <1>3 DEF Says
  <2> HIDE DEF ss, E, before, after, stop
  <2> QED
    BY <2>4, <2>5, <2>6, <2>7
<1>5. f = [x \in Ids |->
             IF Hidden[x]' = was THEN <<>>
             ELSE VisibilityOf(x) \o FlattenSeq([i \in DOMAIN children[x] |-> f[children[x][i]]])]
  <2>1. f = [x \in Ids |-> f[x]]
    BY <1>3 DEF Says
  <2>2. \A x \in Ids : f[x] = IF Hidden[x]' = was THEN <<>>
             ELSE VisibilityOf(x) \o FlattenSeq([i \in DOMAIN children[x] |-> f[children[x][i]]])
    BY <1>4 DEF ChildrenSay
  <2> QED
    BY <2>1, <2>2
<1> DEFINE told[x \in Ids] ==
             IF Hidden[x]' = was THEN <<>>
             ELSE VisibilityOf(x) \o FlattenSeq([i \in DOMAIN children[x] |-> told[children[x][i]]])
<1>6. told = [x \in Ids |->
             IF Hidden[x]' = was THEN <<>>
             ELSE VisibilityOf(x) \o FlattenSeq([i \in DOMAIN children[x] |-> told[children[x][i]]])]
  <2> HIDE DEF VisibilityOf
  <2> QED
    BY <1>5
<1>7. \A w \in Ids : Visibility(w, was) = told[w]
  BY DEF Visibility
<1>8. Telling(told, was)
  <2> HIDE DEF told
  <2> QED
    BY <1>6 DEF Telling, ChildrenSay
<1> HIDE DEF told
<1> QED
  BY <1>7, <1>8

(* Of two events of visibility, they are not the same.                     *)
Differ == {p \in Others \X Others : p[1].type = "VisibilityNotify" => p[1] # p[2]}

(* s tells, of the windows of S, each at most once, and each of All.       *)
Shows(s, S, All) ==
  /\ s \in Seq(Others)
  /\ Ordered(s, Differ)
  /\ \A e \in ToSet(s) : e.type = "VisibilityNotify" => \E x \in S : e = Event("VisibilityNotify", x, x)
  /\ \A x \in All : "VisibilityChange" \in mask[x] => Event("VisibilityNotify", x, x) \in ToSet(s)

(* Those below w that are reached without meeting one that is as it was.   *)
Reached(w, was) == {y \in Below(w) : \A z \in Below(w) : y \in Below(z) => Hidden[z]' # was}

(* What shows disjoint sets, one after the other or both, shows them all.  *)
Branches(n, ss, S, All) ==
  /\ ss = [i \in 1 .. n |-> ss[i]]
  /\ \A i \in 1 .. n : Shows(ss[i], S[i], All[i])
  /\ \A i, j \in 1 .. n : i < j => S[i] \cap S[j] = {}

LEMMA ShowsOneByOne ==
  ASSUME Inv, NEW n \in Nat, NEW ss, NEW S, NEW All, Branches(n, ss, S, All)
  PROVE  Shows(FlattenSeq(ss), UNION {S[i] : i \in 1 .. n}, UNION {All[i] : i \in 1 .. n})
<1>1. DOMAIN ss = 1 .. n
  BY DEF Branches
<1>2. \A i \in 1 .. n : /\ ss[i] \in Seq(Others) /\ Ordered(ss[i], Differ)
                        /\ \A e \in ToSet(ss[i]) : e.type = "VisibilityNotify" => \E x \in S[i] : e = Event("VisibilityNotify", x, x)
  BY DEF Shows, Branches
<1>3. ss \in Seq(Seq(Others))
  <2>1. ss = [i \in 1 .. n |-> ss[i]] /\ \A i \in 1 .. n : ss[i] \in Seq(Others)
    BY <1>2 DEF Branches
  <2> QED
    BY <2>1
<1>4. ASSUME NEW i \in DOMAIN ss, NEW j \in DOMAIN ss, i < j,
             NEW a \in ToSet(ss[i]), NEW b \in ToSet(ss[j])
      PROVE  <<a, b>> \in Differ
  <2>1. a \in Others /\ b \in Others
    <3>1. ToSet(ss[i]) \subseteq Others /\ ToSet(ss[j]) \subseteq Others
      BY <1>1, <1>2 DEF ToSet
    <3> QED
      BY <3>1
  <2> SUFFICES ASSUME a.type = "VisibilityNotify", a = b
               PROVE  FALSE
    BY <2>1 DEF Differ
  <2>2. PICK x \in S[i], y \in S[j] :
          a = Event("VisibilityNotify", x, x) /\ b = Event("VisibilityNotify", y, y)
    <3>1. i \in 1 .. n /\ j \in 1 .. n /\ b.type = "VisibilityNotify"
      BY <1>1
    <3>2. PICK x \in S[i] : a = Event("VisibilityNotify", x, x)
      BY <1>2, <3>1
    <3>3. PICK y \in S[j] : b = Event("VisibilityNotify", y, y)
      BY <1>2, <3>1
    <3> QED
      BY <3>2, <3>3
  <2>3. x # y
    BY <1>1, <1>4, <2>2 DEF Branches
  <2>4. Event("VisibilityNotify", x, x).window = x /\ Event("VisibilityNotify", y, y).window = y
    BY DEF Event
  <2> QED
    BY <2>2, <2>3, <2>4
<1>5. \A i, j \in DOMAIN ss : i < j => \A a \in ToSet(ss[i]), b \in ToSet(ss[j]) : <<a, b>> \in Differ
  BY <1>4
<1>6. /\ FlattenSeq(ss) \in Seq(Others)
      /\ ToSet(FlattenSeq(ss)) = UNION {ToSet(ss[i]) : i \in 1 .. n}
      /\ Ordered(FlattenSeq(ss), Differ)
  <2>1. \A i \in DOMAIN ss : Ordered(ss[i], Differ)
    BY <1>1, <1>2
  <2>2. Ordered(FlattenSeq(ss), Differ)
    BY <1>3, <1>5, <2>1, FlattenIs
  <2>3. ToSet(FlattenSeq(ss)) = UNION {ToSet(ss[i]) : i \in DOMAIN ss}
    BY <1>3, FlattenIs
  <2>4. FlattenSeq(ss) \in Seq(Others)
    BY <1>3, FlattenIs
  <2> QED
    BY <1>1, <2>2, <2>3, <2>4
<1>7. ASSUME NEW e \in ToSet(FlattenSeq(ss)), e.type = "VisibilityNotify"
      PROVE  \E x \in UNION {S[i] : i \in 1 .. n} : e = Event("VisibilityNotify", x, x)
  <2>1. PICK i \in 1 .. n : e \in ToSet(ss[i])
    BY <1>6
  <2>2. PICK x \in S[i] : e = Event("VisibilityNotify", x, x)
    BY <1>2, <1>7, <2>1
  <2> QED
    BY <2>2
<1>8. ASSUME NEW i \in 1 .. n, NEW x \in All[i], "VisibilityChange" \in mask[x]
      PROVE  Event("VisibilityNotify", x, x) \in ToSet(FlattenSeq(ss))
  <2>1. Event("VisibilityNotify", x, x) \in ToSet(ss[i])
    BY <1>8 DEF Shows, Branches
  <2> QED
    BY <1>6, <2>1
<1> QED
  <2> DEFINE s == FlattenSeq(ss)
             T == UNION {S[i] : i \in 1 .. n}
             U == UNION {All[i] : i \in 1 .. n}
  <2>1. \A x \in U : "VisibilityChange" \in mask[x] => Event("VisibilityNotify", x, x) \in ToSet(s)
    BY <1>8
  <2>2. \A e \in ToSet(s) : e.type = "VisibilityNotify" => \E x \in T : e = Event("VisibilityNotify", x, x)
    BY <1>7
  <2>3. s \in Seq(Others) /\ Ordered(s, Differ)
    BY <1>6
  <2> HIDE DEF s, T, U
  <2>4. Shows(s, T, U)
    BY <2>1, <2>2, <2>3 DEF Shows
  <2> QED
    BY <2>4 DEF s, T, U

LEMMA ShowsBoth ==
  ASSUME Inv, NEW s, NEW t, NEW S, NEW T, NEW AllS, NEW AllT,
         Shows(s, S, AllS), Shows(t, T, AllT), S \cap T = {}
  PROVE  Shows(s \o t, S \cup T, AllS \cup AllT)
<1>1. /\ s \in Seq(Others) /\ t \in Seq(Others) /\ Ordered(s, Differ) /\ Ordered(t, Differ)
      /\ ToSet(s) \subseteq Others /\ ToSet(t) \subseteq Others
  BY DEF Shows, ToSet
<1>2. ASSUME NEW a \in ToSet(s), NEW b \in ToSet(t)
      PROVE  <<a, b>> \in Differ
  <2> SUFFICES ASSUME a.type = "VisibilityNotify", a = b
               PROVE  FALSE
    BY <1>1 DEF Differ
  <2>1. PICK x \in S, y \in T : a = Event("VisibilityNotify", x, x) /\ b = Event("VisibilityNotify", y, y)
    BY DEF Shows
  <2>2. Event("VisibilityNotify", x, x).window = x /\ Event("VisibilityNotify", y, y).window = y
    BY DEF Event
  <2> QED
    BY <2>1, <2>2
<1>3. /\ s \o t \in Seq(Others) /\ Ordered(s \o t, Differ)
      /\ ToSet(s \o t) = ToSet(s) \cup ToSet(t)
  BY <1>1, <1>2, ConcatIs
<1>4. \A e \in ToSet(s \o t) : e.type = "VisibilityNotify" => \E x \in S \cup T : e = Event("VisibilityNotify", x, x)
  BY <1>3 DEF Shows
<1>5. \A x \in AllS \cup AllT : "VisibilityChange" \in mask[x] => Event("VisibilityNotify", x, x) \in ToSet(s \o t)
  BY <1>3 DEF Shows
<1> QED
  BY <1>3, <1>4, <1>5 DEF Shows

(* XWindow::visibility tells each window it reaches that asked, once.      *)
LEMMA VisibilityShows ==
  ASSUME Inv, NEW w \in drawables, NEW was
  PROVE  Shows(Visibility(w, was), Below(w), Reached(w, was))
<1>1. PICK told : Telling(told, was) /\ \A x \in Ids : Visibility(x, was) = told[x]
  BY VisibilityIs
<1>2. drawables \subseteq Ids
  BY TreeFacts
<1> DEFINE G == {x \in drawables : Shows(told[x], Below(x), Reached(x, was))}
<1>3. ASSUME NEW x \in drawables, \A i \in DOMAIN children[x] : children[x][i] \in G
      PROVE  x \in G
  <2>1. CASE Hidden[x]' = was
    <3>1. told[x] = <<>>
      BY <1>1, <1>2, <2>1 DEF Telling
    <3>2. Reached(x, was) = {}
      BY <2>1, BelowIs DEF Reached
    <3>3. <<>> \in Seq(Others) /\ ToSet(<<>>) = {} /\ Ordered(<<>>, Differ)
      BY DEF ToSet, Ordered
    <3> QED
      BY <3>1, <3>2, <3>3 DEF Shows
  <2>2. CASE Hidden[x]' # was
    <3> DEFINE C == children[x]
               ss == [i \in DOMAIN C |-> told[C[i]]]
               S == [i \in DOMAIN C |-> Below(C[i])]
               All == [i \in DOMAIN C |-> Reached(C[i], was)]
    <3>1. told[x] = VisibilityOf(x) \o FlattenSeq(ss)
      BY <1>1, <1>2, <2>2 DEF Telling, ChildrenSay
    <3>2. /\ DOMAIN C = 1 .. Len(C) /\ Len(C) \in Nat
          /\ \A i \in DOMAIN C : C[i] \in drawables /\ parent[C[i]] = x
          /\ \A i, j \in DOMAIN C : i # j => C[i] # C[j]
      BY ChildrenAre
    <3>3. Below(x) = {x} \cup UNION {Below(C[i]) : i \in DOMAIN C}
      BY BelowChildren
    <3>4. \A i \in DOMAIN C : Shows(told[C[i]], Below(C[i]), Reached(C[i], was))
      BY <1>3
    <3> HIDE DEF C
    <3>5. \A i, j \in 1 .. Len(C) : i < j => S[i] \cap S[j] = {}
      <4> SUFFICES ASSUME NEW i \in 1 .. Len(C), NEW j \in 1 .. Len(C), i < j
                   PROVE  Below(C[i]) \cap Below(C[j]) = {}
        BY <3>2
      <4>1. C[i] \in drawables /\ C[j] \in drawables /\ parent[C[i]] = parent[C[j]] /\ C[i] # C[j]
        BY <3>2
      <4> QED
        BY <4>1, BranchesApart
    <3>6. \A i \in 1 .. Len(C) : Shows(ss[i], S[i], All[i])
      BY <3>2, <3>4
    <3>7. ss = [i \in 1 .. Len(C) |-> ss[i]]
      BY <3>2
    <3>8. Below(x) = {x} \cup UNION {S[i] : i \in 1 .. Len(C)}
      BY <3>2, <3>3
    <3>9. x \notin UNION {S[i] : i \in 1 .. Len(C)}
      BY <3>2, NotBelowItself DEF Inv, Acyclic
    <3>10. Reached(x, was) \subseteq {x} \cup UNION {All[i] : i \in 1 .. Len(C)}
      <4> SUFFICES ASSUME NEW y \in Reached(x, was), y # x
                   PROVE  y \in UNION {All[i] : i \in 1 .. Len(C)}
        OBVIOUS
      <4>1. PICK i \in DOMAIN C : y \in Below(C[i])
        BY <3>3 DEF Reached
      <4>2. Below(C[i]) \subseteq Below(x)
        BY <3>3
      <4>3. y \in Reached(C[i], was)
        BY <4>1, <4>2 DEF Reached
      <4> QED
        BY <3>2, <4>3
    <3> HIDE DEF ss, S, All
    <3>11. Shows(FlattenSeq(ss), UNION {S[i] : i \in 1 .. Len(C)}, UNION {All[i] : i \in 1 .. Len(C)})
      <4>1. Branches(Len(C), ss, S, All)
        BY <3>5, <3>6, <3>7 DEF Branches
      <4> QED
        BY <3>2, <4>1, ShowsOneByOne
    <3>12. Shows(VisibilityOf(x), {x}, {x})
      BY <1>2, VisibilityOfIs DEF Shows
    <3>13. Shows(told[x], {x} \cup UNION {S[i] : i \in 1 .. Len(C)}, {x} \cup UNION {All[i] : i \in 1 .. Len(C)})
      BY <3>1, <3>9, <3>11, <3>12, ShowsBoth
    <3> QED
      BY <3>8, <3>10, <3>13 DEF Shows
  <2> QED
    BY <2>1, <2>2
<1>4. drawables \subseteq G
  <2> HIDE DEF G
  <2> QED
    BY <1>3, FromTheBottom
<1> QED
  BY <1>1, <1>2, <1>4

(* Where the windows of S alone are shown or hidden, a window that changes *)
(* is below one of them, and is reached from there.                        *)
LEMMA ChangedIsReached ==
  ASSUME Inv, HiddenOK', UNCHANGED <<drawables, parent>>, NEW S \in SUBSET drawables,
         \A x \in drawables \ S : hides'[x] = hides[x] /\ bwindow'[x] = bwindow[x],
         \A a, b \in S : a # b => Below(a) \cap Below(b) = {},
         NEW x \in drawables, Hidden[x]' # Hidden[x]
  PROVE  \E c \in S : x \in Reached(c, Hidden[c])
<1>1. /\ drawables \subseteq Ids /\ None \notin Ids
      /\ \A y \in drawables : parent[y] \in drawables \cup {None}
  BY TreeFacts
<1>2. HiddenOK
  BY HiddenIs DEF Inv
<1>3. \A y \in drawables : Hidden[y] \in BOOLEAN /\ Hidden'[y] \in BOOLEAN
  BY <1>1, <1>2 DEF HiddenOK
<1>4. \A y \in drawables : parent'[y] = parent[y]
  OBVIOUS
<1>5. ASSUME NEW z \in drawables, NEW y \in Below(z), Hidden'[y] # Hidden[y],
             \A u \in Below(z) : u # z => hides'[u] = hides[u] /\ bwindow'[u] = bwindow[u]
      PROVE  Hidden'[z] # Hidden[z]
  <2> SUFFICES ASSUME Hidden'[z] = Hidden[z]
               PROVE  \A u \in Below(z) : Hidden'[u] = Hidden[u]
    BY <1>5
  <2>1. /\ Below(z) \in SUBSET drawables
        /\ \A u \in Below(z) : u # z => parent[u] \in Below(z)
    BY BelowIs
  <2>2. ASSUME NEW u \in Below(z)
        PROVE  \/ Hidden'[u] = Hidden[u]
               \/ /\ parent[u] \in Below(z)
                  /\ Hidden'[parent[u]] = Hidden[parent[u]] => Hidden'[u] = Hidden[u]
    <3>1. CASE u = z
      BY <3>1
    <3>2. CASE u # z
      BY <1>1, <1>2, <1>4, <1>5, <2>1, <3>2 DEF HiddenOK
    <3> QED
      BY <3>1, <3>2
  <2> QED
    BY <2>1, <2>2, FromTheTop
<1>6. ASSUME NEW z \in drawables, NEW y \in Below(z)
      PROVE  (Hidden[z] => Hidden[y]) /\ (Hidden'[z] => Hidden'[y])
  <2>1. ASSUME Hidden[z]
        PROVE  Hidden[y]
    <3> DEFINE T == {u \in drawables : Hidden[u]}
    <3>1. T \in SUBSET drawables /\ z \in T /\ Closed(T)
      BY <1>1, <1>2, <2>1 DEF HiddenOK, Closed
    <3> HIDE DEF T
    <3>2. Below(z) \subseteq T
      BY <3>1, BelowIsLeast
    <3> QED
      BY <3>2 DEF T
  <2>2. ASSUME Hidden'[z]
        PROVE  Hidden'[y]
    <3> DEFINE T == {u \in drawables : Hidden'[u]}
    <3>1. T \in SUBSET drawables /\ z \in T /\ Closed(T)
      BY <1>1, <1>4, <2>2 DEF HiddenOK, Closed
    <3> HIDE DEF T
    <3>2. Below(z) \subseteq T
      BY <3>1, BelowIsLeast
    <3> QED
      BY <3>2 DEF T
  <2> QED
    BY <2>1, <2>2
<1>7. \E c \in S : x \in Below(c)
  <2> DEFINE T == {y \in drawables : \A c \in S : y \notin Below(c)}
  <2>1. ASSUME NEW y \in T
        PROVE  \/ Hidden'[y] = Hidden[y]
               \/ /\ parent[y] \in T
                  /\ Hidden'[parent[y]] = Hidden[parent[y]] => Hidden'[y] = Hidden[y]
    <3>1. y \in drawables \ S
      BY BelowIs
    <3>2. parent[y] # None => parent[y] \in T
      BY <1>1, BelowIs
    <3> QED
      BY <1>1, <1>2, <1>4, <3>1, <3>2 DEF HiddenOK
  <2>2. T \in SUBSET drawables
    OBVIOUS
  <2> HIDE DEF T
  <2>3. \A y \in T : Hidden'[y] = Hidden[y]
    BY <2>1, <2>2, FromTheTop
  <2> QED
    BY <2>3 DEF T
<1>8. PICK c \in S : x \in Below(c)
  BY <1>7
<1>9. \A u \in Below(c) : u # c => hides'[u] = hides[u] /\ bwindow'[u] = bwindow[u]
  BY BelowIs
<1>10. Hidden'[c] # Hidden[c]
  BY <1>5, <1>8, <1>9
<1>11. ASSUME NEW z \in Below(c), x \in Below(z)
       PROVE  Hidden'[z] # Hidden[c]
  <2>1. z \in drawables /\ c \in drawables
    BY BelowIs
  <2>2. Hidden'[z] # Hidden[z]
    <3>1. Below(z) \subseteq Below(c)
      BY BelowBelow
    <3>2. \A u \in Below(z) : u # z => u # c
      BY <2>1, <1>11, <3>1, BelowIs, NotBelowItself DEF Inv, Acyclic
    <3> QED
      BY <1>5, <1>9, <1>11, <2>1, <3>1, <3>2
  <2>3. (Hidden[c] => Hidden[z]) /\ (Hidden'[c] => Hidden'[z])
    BY <1>6, <2>1
  <2> QED
    BY <1>3, <1>10, <2>1, <2>2, <2>3
<1> QED
  BY <1>8, <1>11 DEF Reached

(* After a step Hidden is the function its definition says it is, too.     *)
LEMMA HiddenNext == TypeOK' => HiddenOK'
BY HiddenIs, PTL

(* A notification of another type says nothing of visibility.              *)
LEMMA NotifyShows ==
  ASSUME Inv, NEW w \in drawables, NEW type \in {"MapNotify", "UnmapNotify", "ReparentNotify"}
  PROVE  Shows(Notify(type, w), {}, {})
<1>1. /\ Notify(type, w) \in Seq(Events(type))
      /\ Ordered(Notify(type, w), Differ)
  BY NotifyIs
<1>2. Events(type) \subseteq Others
  BY TreeFacts DEF Events, Others
<1>3. Notify(type, w) \in Seq(Others)
  BY <1>1, <1>2
<1>4. ASSUME NEW e \in ToSet(Notify(type, w))
      PROVE  e.type # "VisibilityNotify"
  <2>1. ToSet(Notify(type, w)) \subseteq Events(type)
    BY <1>1 DEF ToSet
  <2> QED
    BY <2>1 DEF Events
<1> QED
  BY <1>1, <1>3, <1>4 DEF Shows

(* What the call that maps or unmaps w tells, was being what was hidden.   *)
Mapping(type, w, v) == Notify(type, w) \o Visibility(w, v)

LEMMA MappingShows ==
  ASSUME Inv, NEW w \in drawables, NEW type \in {"MapNotify", "UnmapNotify"}, NEW v
  PROVE  Shows(Mapping(type, w, v), Below(w), Reached(w, v))
<1>1. Shows(Notify(type, w), {}, {})
  BY NotifyShows
<1>2. Shows(Visibility(w, v), Below(w), Reached(w, v))
  BY VisibilityShows
<1>3. Shows(Notify(type, w) \o Visibility(w, v), {} \cup Below(w), {} \cup Reached(w, v))
  BY <1>1, <1>2, ShowsBoth
<1>4. {} \cup Below(w) = Below(w) /\ {} \cup Reached(w, v) = Reached(w, v)
  OBVIOUS
<1> QED
  BY <1>3, <1>4 DEF Mapping

(* The same for the windows of C in turn, what is below them, and what is  *)
(* reached from them.                                                      *)
MappingAll(type, C, was) == FlattenSeq([i \in DOMAIN C |-> Mapping(type, C[i], was[C[i]])])
BelowAll(C) == UNION {Below(C[i]) : i \in DOMAIN C}
ReachedAll(C, was) == UNION {Reached(C[i], was[C[i]]) : i \in DOMAIN C}

LEMMA MappingAllShows ==
  ASSUME Inv, NEW w \in drawables, NEW type \in {"MapNotify", "UnmapNotify"}, NEW was,
         NEW C \in Seq(drawables), IsInjective(C), \A i \in DOMAIN C : parent[C[i]] = w
  PROVE  Shows(MappingAll(type, C, was), BelowAll(C), ReachedAll(C, was))
<1> DEFINE ss == [i \in DOMAIN C |-> Mapping(type, C[i], was[C[i]])]
           S == [i \in DOMAIN C |-> Below(C[i])]
           All == [i \in DOMAIN C |-> Reached(C[i], was[C[i]])]
<1>1. /\ DOMAIN C = 1 .. Len(C) /\ Len(C) \in Nat
      /\ \A i \in DOMAIN C : C[i] \in drawables
      /\ \A i, j \in DOMAIN C : i # j => C[i] # C[j]
  BY DEF IsInjective
<1>2. \A i \in 1 .. Len(C) : Shows(ss[i], S[i], All[i])
  BY <1>1, MappingShows
<1>3. ss = [i \in 1 .. Len(C) |-> ss[i]]
  BY <1>1
<1>4. \A i, j \in 1 .. Len(C) : i < j => S[i] \cap S[j] = {}
  <2> SUFFICES ASSUME NEW i \in 1 .. Len(C), NEW j \in 1 .. Len(C), i < j
               PROVE  Below(C[i]) \cap Below(C[j]) = {}
    BY <1>1
  <2>1. C[i] \in drawables /\ C[j] \in drawables /\ parent[C[i]] = parent[C[j]] /\ C[i] # C[j]
    BY <1>1
  <2> QED
    BY <2>1, BranchesApart
<1>5. /\ UNION {S[i] : i \in 1 .. Len(C)} = BelowAll(C)
      /\ UNION {All[i] : i \in 1 .. Len(C)} = ReachedAll(C, was)
      /\ FlattenSeq(ss) = MappingAll(type, C, was)
  BY <1>1 DEF BelowAll, ReachedAll, MappingAll
<1> HIDE DEF ss, S, All
<1>6. Shows(FlattenSeq(ss), UNION {S[i] : i \in 1 .. Len(C)}, UNION {All[i] : i \in 1 .. Len(C)})
  <2>1. Branches(Len(C), ss, S, All)
    BY <1>2, <1>3, <1>4 DEF Branches
  <2> QED
    BY <1>1, <2>1, ShowsOneByOne
<1> QED
  BY <1>5, <1>6

(* XMapSubwindows and XUnmapSubwindows send that.                          *)
LEMMA MapSubwindowsSent ==
  ASSUME NEW w, XMapSubwindows(w), NEW C, C = Reverse(children[w]),
         NEW was, \A i \in DOMAIN C : was[C[i]] = Hidden[C[i]]
  PROVE  sent' = MappingAll("MapNotify", C, was)
<1> DEFINE order == Reverse(children[w])
<1>1. sent' = FlattenSeq([i \in DOMAIN order |-> Notify("MapNotify", order[i]) \o Visibility(order[i], Hidden[order[i]])])
  BY DEF XMapSubwindows
<1>2. ASSUME NEW i \in DOMAIN C
      PROVE  Visibility(order[i], Hidden[order[i]]) = Visibility(C[i], was[C[i]])
  <2>1. was[C[i]] = Hidden[order[i]] /\ order[i] = C[i]
    OBVIOUS
  <2> HIDE DEF order
  <2>2. Visibility(order[i], Hidden[order[i]]) = Visibility(order[i], was[C[i]])
    BY <2>1 DEF Visibility
  <2>3. Visibility(order[i], was[C[i]]) = Visibility(C[i], was[C[i]])
    BY <2>1
  <2> QED
    BY <2>2, <2>3
<1> QED
  BY <1>1, <1>2 DEF Mapping, MappingAll

LEMMA UnmapSubwindowsSent ==
  ASSUME NEW w, XUnmapSubwindows(w), NEW C, C = children[w],
         NEW was, \A i \in DOMAIN C : was[C[i]] = Hidden[C[i]]
  PROVE  sent' = MappingAll("UnmapNotify", C, was)
<1> DEFINE order == children[w]
<1>1. sent' = FlattenSeq([i \in DOMAIN order |-> Notify("UnmapNotify", order[i]) \o Visibility(order[i], Hidden[order[i]])])
  BY DEF XUnmapSubwindows
<1>2. ASSUME NEW i \in DOMAIN C
      PROVE  Visibility(order[i], Hidden[order[i]]) = Visibility(C[i], was[C[i]])
  <2>1. was[C[i]] = Hidden[order[i]] /\ order[i] = C[i]
    OBVIOUS
  <2> HIDE DEF order
  <2>2. Visibility(order[i], Hidden[order[i]]) = Visibility(order[i], was[C[i]])
    BY <2>1 DEF Visibility
  <2>3. Visibility(order[i], was[C[i]]) = Visibility(C[i], was[C[i]])
    BY <2>1
  <2> QED
    BY <2>2, <2>3
<1> QED
  BY <1>1, <1>2 DEF Mapping, MappingAll

(* The windows of S alone are shown, or hidden, no two in one branch, and  *)
(* all that is reached from them is told.                                  *)
Told(S, was) ==
  /\ \A a, b \in S : a # b => Below(a) \cap Below(b) = {}
  /\ UNCHANGED <<drawables, parent>>
  /\ Show(S) \/ Hide(S)
  /\ \E T : Shows(sent', T, UNION {Reached(c, was[c]) : c \in S})

(* Each call that maps or unmaps shows or hides some windows, no two in    *)
(* one branch, and tells what it reaches from them.                        *)
LEMMA MappingTells ==
  ASSUME Inv, NEW was, was = [x \in drawables |-> Hidden[x]], NEW w \in drawables,
         \/ XMapWindow(w) \/ XUnmapWindow(w) \/ XMapRaised(w)
         \/ XMapSubwindows(w) \/ XUnmapSubwindows(w)
  PROVE  \E S \in SUBSET drawables : Told(S, was)
<1>1. CASE XMapWindow(w) \/ XUnmapWindow(w) \/ XMapRaised(w)
  <2>1. UNCHANGED <<drawables, parent>> /\ (Show({w}) \/ Hide({w}))
    BY <1>1 DEF XMapWindow, XUnmapWindow, XMapRaised, tree
  <2>2. PICK type \in {"MapNotify", "UnmapNotify"} : sent' = Mapping(type, w, was[w])
    <3>1. Visibility(w, Hidden[w]) = Visibility(w, was[w])
      <4>1. was[w] = Hidden[w]
        OBVIOUS
      <4> QED
        BY <4>1 DEF Visibility
    <3> QED
      BY <1>1, <3>1 DEF XMapWindow, XUnmapWindow, XMapRaised, Mapping
  <2>3. Shows(sent', Below(w), Reached(w, was[w]))
    BY <2>2, MappingShows
  <2>4. UNION {Reached(c, was[c]) : c \in {w}} = Reached(w, was[w])
    OBVIOUS
  <2>5. {w} \in SUBSET drawables /\ \A a, b \in {w} : a # b => Below(a) \cap Below(b) = {}
    OBVIOUS
  <2> QED
    BY <2>1, <2>3, <2>4, <2>5 DEF Told
<1>2. ASSUME NEW C \in Seq(drawables), IsInjective(C), ToSet(C) = ToSet(children[w]),
             NEW type \in {"MapNotify", "UnmapNotify"}, UNCHANGED <<drawables, parent>>,
             Show(ToSet(C)) \/ Hide(ToSet(C)),
             sent' = MappingAll(type, C, was)
      PROVE  \E S \in SUBSET drawables : Told(S, was)
  <2>1. \A x \in ToSet(children[w]) : x \in drawables /\ parent[x] = w
    BY ChildrenAre DEF ToSet
  <2>2. \A i \in DOMAIN C : parent[C[i]] = w
    BY <1>2, <2>1 DEF ToSet
  <2>3. Shows(sent', BelowAll(C), ReachedAll(C, was))
    BY <1>2, <2>2, MappingAllShows
  <2>4. UNION {Reached(c, was[c]) : c \in ToSet(C)} = ReachedAll(C, was)
    BY DEF ToSet, ReachedAll
  <2>5. ToSet(C) \in SUBSET drawables /\ \A a, b \in ToSet(C) : a # b => Below(a) \cap Below(b) = {}
    BY <1>2, <2>1, BranchesApart
  <2> QED
    BY <1>2, <2>3, <2>4, <2>5 DEF Told
<1>3. CASE XMapSubwindows(w)
  <2>1. PICK C : C = Reverse(children[w])
    OBVIOUS
  <2>2. C \in Seq(drawables) /\ IsInjective(C) /\ ToSet(C) = ToSet(children[w])
    BY <2>1, TreeFacts, ReverseIs
  <2>3. \A i \in DOMAIN C : was[C[i]] = Hidden[C[i]]
    BY <2>2
  <2>4. sent' = MappingAll("MapNotify", C, was)
    BY <1>3, <2>1, <2>3, MapSubwindowsSent
  <2>5. UNCHANGED <<drawables, parent>> /\ Show(ToSet(C))
    BY <1>3, <2>1 DEF XMapSubwindows, tree
  <2> QED
    BY <1>2, <2>2, <2>4, <2>5
<1>4. CASE XUnmapSubwindows(w)
  <2>1. PICK C : C = children[w]
    OBVIOUS
  <2>2. C \in Seq(drawables) /\ IsInjective(C) /\ ToSet(C) = ToSet(children[w])
    BY <2>1, TreeFacts
  <2>3. \A i \in DOMAIN C : was[C[i]] = Hidden[C[i]]
    BY <2>2
  <2>4. sent' = MappingAll("UnmapNotify", C, was)
    BY <1>4, <2>1, <2>3, UnmapSubwindowsSent
  <2>5. UNCHANGED <<drawables, parent>> /\ Hide(ToSet(C))
    BY <1>4, <2>1 DEF XUnmapSubwindows, tree
  <2> QED
    BY <1>2, <2>2, <2>4, <2>5
<1> QED
  BY <1>1, <1>3, <1>4

(* Showing or hiding some windows leaves the others.                       *)
LEMMA ShowLeaves ==
  ASSUME Inv, NEW S \in SUBSET drawables, Show(S) \/ Hide(S)
  PROVE  \A x \in drawables \ S : hides'[x] = hides[x] /\ bwindow'[x] = bwindow[x]
BY TreeFacts DEF Show, Hide

(* Mapping and unmapping, of a window or of all children of one, tells     *)
(* each window whose visibility changes that asked for it, once            *)
(* (Window.cpp:547-656 and XWindow::visibility, Drawables.cpp:425-447),    *)
(* whatever the tree.                                                      *)
THEOREM MappingIsTold == Spec => VisibilityIsTold
<1>1. ASSUME Inv, Inv', NEW v \in drawables,
             \/ XMapWindow(v) \/ XUnmapWindow(v) \/ XMapRaised(v)
             \/ XMapSubwindows(v) \/ XUnmapSubwindows(v),
             NEW w \in drawables, Hidden[w]' # Hidden[w], "VisibilityChange" \in mask[w]
      PROVE  \E i \in DOMAIN sent' :
               /\ sent'[i] = Event("VisibilityNotify", w, w)
               /\ \A j \in DOMAIN sent' : sent'[j] = sent'[i] => j = i
  <2>1. PICK was : was = [x \in drawables |-> Hidden[x]]
    OBVIOUS
  <2>2. PICK S \in SUBSET drawables : Told(S, was)
    BY <1>1, <2>1, MappingTells
  <2>3. \E c \in S : w \in Reached(c, was[c])
    <3>1. HiddenOK'
      BY <1>1, HiddenNext DEF Inv
    <3>2. \A x \in drawables \ S : hides'[x] = hides[x] /\ bwindow'[x] = bwindow[x]
      BY <1>1, <2>2, ShowLeaves DEF Told
    <3>3. PICK c \in S : w \in Reached(c, Hidden[c])
      BY <1>1, <2>2, <3>1, <3>2, ChangedIsReached DEF Told
    <3>4. was[c] = Hidden[c]
      BY <2>1
    <3> QED
      BY <3>3, <3>4 DEF Reached
  <2>4. PICK T : Shows(sent', T, UNION {Reached(c, was[c]) : c \in S})
    BY <2>2 DEF Told
  <2>5. /\ sent' \in Seq(Others) /\ Ordered(sent', Differ)
        /\ Event("VisibilityNotify", w, w) \in ToSet(sent')
    BY <1>1, <2>3, <2>4 DEF Shows
  <2>6. PICK i \in DOMAIN sent' : sent'[i] = Event("VisibilityNotify", w, w)
    BY <2>5 DEF ToSet
  <2>7. sent'[i].type = "VisibilityNotify"
    BY <2>6 DEF Event
  <2>8. ASSUME NEW j \in DOMAIN sent', sent'[j] = sent'[i], j # i
        PROVE  FALSE
    <3>1. i \in Nat /\ j \in Nat
      BY <2>5
    <3>2. i < j \/ j < i
      BY <2>8, <3>1
    <3>3. <<sent'[i], sent'[j]>> \in Differ \/ <<sent'[j], sent'[i]>> \in Differ
      BY <2>5, <3>2 DEF Ordered
    <3> QED
      BY <2>7, <2>8, <3>3 DEF Differ
  <2> QED
    BY <2>6, <2>8
<1>2. Inv /\ [Next]_vars =>
        ((\E w \in drawables : \/ XMapWindow(w) \/ XUnmapWindow(w) \/ XMapRaised(w)
                               \/ XMapSubwindows(w) \/ XUnmapSubwindows(w)) =>
           \A w \in drawables :
             Hidden[w]' # Hidden[w] /\ "VisibilityChange" \in mask[w] =>
               \E i \in DOMAIN sent' :
                 /\ sent'[i] = Event("VisibilityNotify", w, w)
                 /\ \A j \in DOMAIN sent' : sent'[j] = sent'[i] => j = i)
  BY <1>1, InvStep
<1> QED
  BY <1>2, Invariant, PTL DEF VisibilityIsTold, Spec

-----------------------------------------------------------------------------
(* What the other calls tell of is no destruction.                         *)
LEMMA NoneIsTold == <<>> \in Seq(Others)
OBVIOUS

(* A set of one element, or none, as a list.                               *)
LEMMA SeqOfOne ==
  ASSUME NEW S, NEW e \in S
  PROVE  SetToSeq({e}) \in Seq(S) /\ SetToSeq({}) \in Seq(S)
<1>1. Cardinality({e}) = 1 /\ Cardinality({}) = 0
  BY FS_Singleton, FS_EmptySet
<1>2. SetToSeq({e}) \in Seq(S)
  <2> DEFINE f == CHOOSE f \in [1 .. 1 -> {e}] : IsInjective(f)
  <2>1. SetToSeq({e}) = f
    BY <1>1 DEF SetToSeq
  <2>2. [i \in 1 .. 1 |-> e] \in [1 .. 1 -> {e}] /\ IsInjective([i \in 1 .. 1 |-> e])
    BY DEF IsInjective
  <2>3. f \in [1 .. 1 -> {e}]
    BY <2>2
  <2> HIDE DEF f
  <2>4. 1 \in Nat /\ f \in [1 .. 1 -> S]
    BY <2>3
  <2>5. f \in Seq(S)
    BY <2>4, SeqDef
  <2> QED
    BY <2>1, <2>5
<1>3. SetToSeq({}) \in Seq(S)
  <2> DEFINE f == CHOOSE f \in [1 .. 0 -> {}] : IsInjective(f)
  <2>1. SetToSeq({}) = f
    BY <1>1 DEF SetToSeq
  <2>2. [i \in 1 .. 0 |-> e] \in [1 .. 0 -> {}] /\ IsInjective([i \in 1 .. 0 |-> e])
    BY DEF IsInjective
  <2>3. f \in [1 .. 0 -> {}]
    BY <2>2
  <2> HIDE DEF f
  <2>4. 0 \in Nat /\ f \in [1 .. 0 -> S]
    BY <2>3
  <2>5. f \in Seq(S)
    BY <2>4, SeqDef
  <2> QED
    BY <2>1, <2>5
<1> QED
  BY <1>2, <1>3

(* XReparentWindow destroys nothing and tells of no destruction.           *)
LEMMA ReparentTells ==
  ASSUME Inv, NEW w \in drawables, NEW p \in drawables \cup {None}, XReparentWindow(w, p)
  PROVE  sent' \in Seq(Others) /\ drawables' = drawables
<1>1. drawables \subseteq Ids /\ \A x \in drawables : parent[x] \in drawables \cup {None}
  BY TreeFacts
<1>2. ASSUME NEW r \in drawables, NEW type \in {"ReparentNotify", "MapNotify"}
      PROVE  Event(type, r, w) \in Others
  BY <1>1 DEF Event, Others
<1>3. ASSUME NEW q \in drawables \cup {None}
      PROVE  ReparentNotify(w, q) \in Seq(Others)
  <2> DEFINE to == IF "StructureNotify" \in mask[w] THEN {w}
                   ELSE IF parent[w] # None /\ "SubstructureNotify" \in mask[parent[w]] THEN {parent[w]}
                   ELSE IF q # None /\ "SubstructureNotify" \in mask[q] THEN {q}
                   ELSE {}
  <2>1. to = {} \/ \E r \in drawables : to = {r}
    BY <1>1
  <2>2. ReparentNotify(w, q) = SetToSeq({Event("ReparentNotify", r, w) : r \in to})
    BY DEF ReparentNotify
  <2> HIDE DEF to
  <2>3. CASE to = {}
    <3>1. {Event("ReparentNotify", r, w) : r \in to} = {}
      BY <2>3
    <3> QED
      BY <1>2, <2>2, <3>1, SeqOfOne
  <2>4. CASE \E r \in drawables : to = {r}
    <3>1. PICK r \in drawables : to = {r}
      BY <2>4
    <3>2. {Event("ReparentNotify", x, w) : x \in to} = {Event("ReparentNotify", r, w)}
      BY <3>1
    <3> QED
      BY <1>2, <2>2, <3>2, SeqOfOne
  <2> QED
    BY <2>1, <2>3, <2>4
<1>4. ASSUME NEW q \in drawables \cup {None}
      PROVE  Remap(w, q) \in Seq(Others)
  <2>1. Remap(w, q) = <<>> \/ \E r \in drawables : Remap(w, q) = <<Event("MapNotify", r, w)>>
    BY DEF Remap
  <2> QED
    BY <1>2, <2>1, SingletonIs
<1>5. Visibility(w, TRUE) \in Seq(Others)
  BY VisibilityShows DEF Shows
<1>6. \A s, t \in Seq(Others) : s \o t \in Seq(Others)
  BY ConcatIs
<1>7. parent[w] \in drawables \cup {None} /\ None \in drawables \cup {None} /\ <<>> \in Seq(Others)
  BY <1>1
<1>8. ASSUME NEW q \in drawables \cup {None}
      PROVE  /\ ReparentNotify(w, q) \o (IF Hidden[w] THEN <<>> ELSE Remap(w, q) \o Visibility(w, TRUE)) \in Seq(Others)
             /\ ReparentNotify(w, q) \o (IF Hidden[w] THEN <<>> ELSE Remap(w, q)) \in Seq(Others)
  <2>1. ReparentNotify(w, q) \in Seq(Others) /\ Remap(w, q) \in Seq(Others)
    BY <1>3, <1>4
  <2>2. Remap(w, q) \o Visibility(w, TRUE) \in Seq(Others)
    BY <1>5, <1>6, <2>1
  <2> QED
    BY <1>6, <1>7, <2>1, <2>2
<1>9. CASE p = None /\ ReparentNowhere(w)
  BY <1>7, <1>9 DEF ReparentNowhere, tree
<1>10. CASE p = None /\ ReparentToRoot(w)
  BY <1>7, <1>8, <1>10 DEF ReparentToRoot
<1>11. CASE p \in drawables /\ ReparentTo(w, p)
  BY <1>8, <1>11 DEF ReparentTo
<1>12. CASE p \in drawables /\ ReparentToSame(w)
  BY <1>7, <1>8, <1>12 DEF ReparentToSame, tree
<1> QED
  BY <1>9, <1>10, <1>11, <1>12 DEF XReparentWindow

(* What the property says of a step.                                       *)
DestructionIsTold ==
  LET gone == drawables \ drawables'
      told == {i \in DOMAIN sent' : sent'[i].type = "DestroyNotify"}
  IN  /\ \A w \in gone : "StructureNotify" \in mask[w] =>
           \E i \in told : sent'[i] = Event("DestroyNotify", w, w)
      /\ \A i, j \in told : i < j =>
           sent'[j].window \notin Below(sent'[i].window)
      /\ \A w \in gone : Below(w) \subseteq gone

(* The property holds of a step that destroys nothing and tells of none,   *)
(* and of one that tells of what it destroys upward.                       *)
LEMMA NothingDestroyed ==
  ASSUME sent' \in Seq(Others), drawables \subseteq drawables'
  PROVE  DestructionIsTold
<1>1. drawables \ drawables' = {}
  OBVIOUS
<1>2. \A i \in DOMAIN sent' : sent'[i].type # "DestroyNotify"
  <2>1. \A i \in DOMAIN sent' : sent'[i] \in Others
    OBVIOUS
  <2> QED
    BY <2>1 DEF Others
<1> QED
  BY <1>1, <1>2 DEF DestructionIsTold

LEMMA DestructionTells ==
  ASSUME Inv, NEW S \in SUBSET drawables, drawables' = drawables \ S, Tells(sent', S),
         \A x \in S : Below(x) \subseteq S
  PROVE  DestructionIsTold
<1>1. drawables \ drawables' = S
  OBVIOUS
<1>2. sent' \in Seq(Destroyed) /\ Ordered(sent', UpwardTold)
  BY DEF Tells
<1>3. ASSUME NEW x \in S, "StructureNotify" \in mask[x]
      PROVE  \E i \in DOMAIN sent' : /\ sent'[i].type = "DestroyNotify"
                                     /\ sent'[i] = Event("DestroyNotify", x, x)
  <2>1. Event("DestroyNotify", x, x) \in ToSet(sent')
    BY <1>3 DEF Tells
  <2>2. PICK i \in DOMAIN sent' : sent'[i] = Event("DestroyNotify", x, x)
    BY <2>1 DEF ToSet
  <2>3. Event("DestroyNotify", x, x).type = "DestroyNotify"
    BY DEF Event
  <2> QED
    BY <2>2, <2>3
<1>4. ASSUME NEW i \in DOMAIN sent', NEW j \in DOMAIN sent', i < j
      PROVE  sent'[j].window \notin Below(sent'[i].window)
  <2>1. <<sent'[i], sent'[j]>> \in UpwardTold
    BY <1>2, <1>4 DEF Ordered
  <2> QED
    BY <2>1 DEF UpwardTold, Upward
<1> QED
  BY <1>1, <1>3, <1>4 DEF DestructionIsTold

(* A call that destroys tells of each window destroyed, those below first; *)
(* no other tells of a destruction.                                        *)
LEMMA EachStepTells == Inv /\ Next => DestructionIsTold
<1> SUFFICES ASSUME Inv, Next
             PROVE  DestructionIsTold
  OBVIOUS
<1>1. ASSUME NEW w \in drawables, XDestroyWindow(w)
      PROVE  DestructionIsTold
  <2>1. drawables' = drawables \ Below(w) /\ Tells(sent', Below(w))
    BY <1>1, DestroyNotifiesAre DEF XDestroyWindow, Delete
  <2>2. Below(w) \in SUBSET drawables /\ \A x \in Below(w) : Below(x) \subseteq Below(w)
    BY BelowIs, BelowBelow
  <2> QED
    BY <2>1, <2>2, DestructionTells
<1>2. ASSUME NEW w \in drawables, XDestroySubwindows(w)
      PROVE  DestructionIsTold
  <2> DEFINE S == Below(w) \ {w}
  <2>1. drawables' = drawables \ S /\ Tells(sent', S)
    BY <1>2, DestroySubwindowsTells DEF XDestroySubwindows, Delete
  <2>2. S \in SUBSET drawables
    BY BelowIs
  <2>3. ASSUME NEW x \in S
        PROVE  Below(x) \subseteq S
    <3>1. PICK i \in DOMAIN children[w] : x \in Below(children[w][i])
      BY BelowChildren
    <3>2. children[w][i] \in drawables /\ parent[children[w][i]] = w
      BY ChildrenAre
    <3>3. w \notin Below(children[w][i])
      BY <3>2, NotBelowItself DEF Inv, Acyclic
    <3>4. Below(x) \subseteq Below(children[w][i])
      BY <3>1, <3>2, BelowBelow
    <3>5. Below(children[w][i]) \subseteq Below(w)
      BY BelowChildren
    <3> QED
      BY <3>3, <3>4, <3>5
  <2> HIDE DEF S
  <2> QED
    BY <2>1, <2>2, <2>3, DestructionTells
<1>3. ASSUME NEW w \in drawables,
             \/ XMapWindow(w) \/ XUnmapWindow(w) \/ XMapRaised(w)
             \/ XMapSubwindows(w) \/ XUnmapSubwindows(w)
      PROVE  DestructionIsTold
  <2>1. PICK was : was = [x \in drawables |-> Hidden[x]]
    OBVIOUS
  <2>2. PICK S \in SUBSET drawables : Told(S, was)
    BY <1>3, <2>1, MappingTells
  <2>3. sent' \in Seq(Others) /\ drawables' = drawables
    BY <2>2 DEF Told, Shows
  <2> QED
    BY <2>3, NothingDestroyed
<1>4. ASSUME NEW w \in drawables, NEW p \in drawables \cup {None}, XReparentWindow(w, p)
      PROVE  DestructionIsTold
  BY <1>4, ReparentTells, NothingDestroyed
<1>5. ASSUME NEW p \in drawables \cup {None}, NEW m \in Masks, XCreateWindow(p, m)
      PROVE  DestructionIsTold
  <2>1. drawables \subseteq drawables'
    BY <1>5 DEF XCreateWindow
  <2>2. last + 1 \in Ids
    BY <1>5, BoundsAssumption DEF XCreateWindow, Inv, TypeOK, Ids
  <2>3. p \in drawables => Event("CreateNotify", p, last + 1) \in Others
    BY <2>2, TreeFacts DEF Event, Others
  <2>4. sent' = <<>> \/ (p \in drawables /\ sent' = <<Event("CreateNotify", p, last + 1)>>)
    BY <1>5 DEF XCreateWindow
  <2>5. sent' \in Seq(Others)
    <3>1. CASE sent' = <<>>
      BY <3>1, NoneIsTold
    <3>2. CASE p \in drawables /\ sent' = <<Event("CreateNotify", p, last + 1)>>
      <4>1. PICK e \in Others : e = Event("CreateNotify", p, last + 1)
        BY <2>3, <3>2
      <4>2. <<e>> \in Seq(Others)
        BY SingletonIs
      <4> QED
        BY <3>2, <4>1, <4>2
    <3> QED
      BY <2>4, <3>1, <3>2
  <2> QED
    BY <2>1, <2>5, NothingDestroyed
<1>6. ASSUME NEW w \in drawables, QuitRequested(w)
      PROVE  DestructionIsTold
  <2>1. drawables' = drawables
    BY <1>6 DEF QuitRequested, tree
  <2>2. Event("ClientMessage", w, w) \in Others
    BY TreeFacts DEF Event, Others
  <2>3. sent' = <<>> \/ sent' = <<Event("ClientMessage", w, w)>>
    BY <1>6 DEF QuitRequested
  <2>4. sent' \in Seq(Others)
    BY <2>2, <2>3, NoneIsTold, SingletonIs
  <2> QED
    BY <2>1, <2>4, NothingDestroyed
<1>7. ASSUME NEW w \in drawables, NEW x, NEW mode, Restack(w, x, mode)
      PROVE  DestructionIsTold
  BY <1>7, NoneIsTold, NothingDestroyed DEF Restack
<1>8. ASSUME NEW w \in drawables, NEW m, XSelectInput(w, m)
      PROVE  DestructionIsTold
  BY <1>8, NoneIsTold, NothingDestroyed DEF XSelectInput, tree
<1> QED
  BY <1>1, <1>2, <1>3, <1>4, <1>5, <1>6, <1>7, <1>8 DEF Next

(* Destruction is told to every window that selected it, those below a     *)
(* window before it, and takes all that is below along (~XWindow,          *)
(* Drawables.cpp:328-355), whatever the tree.                              *)
THEOREM DestroyingIsTold == Spec => DestroyIsTold
<1>1. Inv /\ Next =>
        LET gone == drawables \ drawables'
             told == {i \in DOMAIN sent' : sent'[i].type = "DestroyNotify"}
         IN  /\ \A w \in gone : "StructureNotify" \in mask[w] =>
                  \E i \in told : sent'[i] = Event("DestroyNotify", w, w)
             /\ \A i, j \in told : i < j =>
                  sent'[j].window \notin Below(sent'[i].window)
             /\ \A w \in gone : Below(w) \subseteq gone
  BY EachStepTells DEF DestructionIsTold
<1> QED
  BY <1>1, Invariant, PTL DEF Spec, DestroyIsTold
=============================================================================
