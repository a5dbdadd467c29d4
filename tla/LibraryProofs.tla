---------------------------- MODULE LibraryProofs ----------------------------
(***************************************************************************)
(* What is proved of the parts of the library that keep to themselves, for *)
(* every value of their constants.                                         *)
(*                                                                         *)
(* Regions (RegionsInv): they are what set algebra makes of them, and what *)
(* is asked of them agrees with that.                                      *)
(* Fonts (FontsInv): an id names no other font until ids have come round.  *)
(* Defaults (DefaultsInv): what the program made is not destroyed with the *)
(* database of the defaults.                                               *)
(* Contexts (ContextsInv): the table of pointers holds what was saved,     *)
(* however it grew and shrank.                                             *)
(* Drawing and places (DrawingInv, and facts about functions): the bitmap  *)
(* that images go through holds them; what is exposed is told once, what   *)
(* is relative adds up, and what is asked of windows agrees.               *)
(* Images, bitmaps, cursors and colors (facts about functions): what is    *)
(* read of them is what was written.                                       *)
(* Quarks (QuarkInv, StringInv): two strings never share a quark, however  *)
(* many threads make them, and a single-threaded application is given one  *)
(* quark for each string.                                                  *)
(***************************************************************************)
EXTENDS Regions, Fonts, Stores, Pictures, Quarks, SequenceLemmas, FiniteSetTheorems

(* A set of numbers has a least one, and one that is bounded a largest.    *)
LEMMA LeastOf ==
  ASSUME NEW S, S \subseteq Nat, S # {}
  PROVE  \E m \in S : \A n \in S : m <= n
<1> DEFINE R == OpToRel(<, Nat)
<1>1. PICK m \in S : \A n \in S : ~(<<n, m>> \in R)
  <2>1. IsWellFoundedOn(R, Nat)
    BY NatLessThanWellFounded
  <2> HIDE DEF R
  <2> QED
    BY <2>1, WFMin
<1>2. ASSUME NEW n \in S
      PROVE  m <= n
  <2>1. n \in Nat /\ m \in Nat
    OBVIOUS
  <2>2. n < m => <<n, m>> \in R
    BY <2>1 DEF OpToRel
  <2>3. ~(<<n, m>> \in R)
    BY <1>1
  <2> HIDE DEF R
  <2> QED
    BY <2>1, <2>2, <2>3
<1> QED
  BY <1>2

LEMMA MostOf ==
  ASSUME NEW b \in Nat, NEW S, S \subseteq 0 .. b, S # {}
  PROVE  \E m \in S : \A n \in S : m >= n
<1> DEFINE T == {b - n : n \in S}
<1>1. T \subseteq Nat /\ T # {}
  <2>1. \A n \in S : n \in 0 .. b
    OBVIOUS
  <2>2. \A n \in S : b - n \in Nat
    BY <2>1
  <2> QED
    BY <2>2
<1>2. PICK t \in T : \A u \in T : t <= u
  <2> HIDE DEF T
  <2> QED
    BY <1>1, LeastOf
<1>3. PICK m \in S : t = b - m
  OBVIOUS
<1>4. ASSUME NEW n \in S
      PROVE  m >= n
  <2>1. b - n \in T
    OBVIOUS
  <2>2. b - m <= b - n
    BY <1>2, <1>3, <2>1
  <2> QED
    BY <2>2
<1> QED
  BY <1>4

(* A finite set is listed, each of its elements once.                      *)
LEMMA SetToSeqIs ==
  ASSUME NEW S, IsFiniteSet(S)
  PROVE  /\ Cardinality(S) \in Nat
         /\ SetToSeq(S) \in [1 .. Cardinality(S) -> S]
         /\ \A i, j \in 1 .. Cardinality(S) : SetToSeq(S)[i] = SetToSeq(S)[j] => i = j
         /\ \A x \in S : \E i \in 1 .. Cardinality(S) : SetToSeq(S)[i] = x
<1>1. Cardinality(S) \in Nat /\ ExistsBijection(1 .. Cardinality(S), S)
  BY FS_CardinalityType
<1>2. \E f \in [1 .. Cardinality(S) -> S] : IsInjective(f)
  BY <1>1 DEF ExistsBijection, Bijection, Injection, IsInjective
<1> DEFINE s == SetToSeq(S)
<1>3. s \in [1 .. Cardinality(S) -> S] /\ IsInjective(s)
  BY <1>2 DEF SetToSeq
<1> HIDE DEF s
<1>4. s \in Injection(1 .. Cardinality(S), S)
  BY <1>3 DEF Injection, IsInjective
<1>5. Cardinality(1 .. Cardinality(S)) = Cardinality(S)
  BY <1>1, FS_Interval
<1>6. s \in Surjection(1 .. Cardinality(S), S)
  BY <1>4, <1>5, FS_Injection
<1>7. \A x \in S : \E i \in 1 .. Cardinality(S) : s[i] = x
  BY <1>6 DEF Surjection
<1> QED
  BY <1>1, <1>3, <1>7 DEF IsInjective, s

(* A set of numbers is listed in their order.                              *)
Ascends(s, S) == /\ s \in [1 .. Cardinality(S) -> S]
                 /\ \A i, j \in 1 .. Cardinality(S) : i < j => s[i] < s[j]

(* There is such a list.                                                   *)
LEMMA AscendingExists ==
  ASSUME NEW n \in Nat, NEW S \in SUBSET (1 .. n)
  PROVE  IsFiniteSet(S) /\ Cardinality(S) \in Nat /\ \E s : Ascends(s, S)
<1>0. \A m \in Nat : \A T \in SUBSET (1 .. m) : IsFiniteSet(T) /\ Cardinality(T) \in Nat
  <2> SUFFICES ASSUME NEW m \in Nat, NEW T \in SUBSET (1 .. m)
               PROVE  IsFiniteSet(T) /\ Cardinality(T) \in Nat
    OBVIOUS
  <2>1. IsFiniteSet(1 .. m)
    BY FS_Interval
  <2>2. IsFiniteSet(T)
    BY <2>1, FS_Subset
  <2> QED
    BY <2>2, FS_CardinalityType
<1> DEFINE G == {m \in Nat : \A T \in SUBSET (1 .. m) : \E s : Ascends(s, T)}
<1>1. 0 \in G
  <2> SUFFICES ASSUME NEW T \in SUBSET (1 .. 0)
               PROVE  \E s : Ascends(s, T)
    OBVIOUS
  <2>1. T = {} /\ Cardinality({}) = 0
    BY FS_EmptySet
  <2>2. Ascends([i \in 1 .. 0 |-> i], T)
    BY <2>1 DEF Ascends
  <2> QED
    BY <2>2
<1>2. ASSUME NEW m \in Nat, m \in G
      PROVE  m + 1 \in G
  <2> SUFFICES ASSUME NEW T \in SUBSET (1 .. m + 1)
               PROVE  \E s : Ascends(s, T)
    OBVIOUS
  <2>1. CASE m + 1 \notin T
    <3>1. T \in SUBSET (1 .. m)
      BY <2>1
    <3> QED
      BY <1>2, <3>1
  <2>2. CASE m + 1 \in T
    <3> DEFINE U == T \ {m + 1}
               k == Cardinality(U)
    <3>1. U \in SUBSET (1 .. m)
      OBVIOUS
    <3>2. PICK u : Ascends(u, U)
      <4> HIDE DEF U
      <4> QED
        BY <1>2, <3>1
    <3>3. k \in Nat /\ Cardinality(T) = k + 1
      <4>1. m + 1 \in Nat /\ IsFiniteSet(T) /\ Cardinality(T) \in Nat
        BY <1>0
      <4>2. k = Cardinality(T) - 1
        BY <2>2, <4>1, FS_RemoveElement
      <4>3. k \in Nat
        <5> HIDE DEF U
        <5> QED
          BY <1>0, <3>1
      <4> HIDE DEF k
      <4> QED
        BY <4>1, <4>2, <4>3
    <3>4. /\ u \in [1 .. k -> U]
          /\ \A i, j \in 1 .. k : i < j => u[i] < u[j]
      BY <3>2 DEF Ascends
    <3> DEFINE s == [i \in 1 .. k + 1 |-> IF i = k + 1 THEN m + 1 ELSE u[i]]
    <3>5. s \in [1 .. k + 1 -> T]
      <4>1. \A i \in 1 .. k + 1 : i # k + 1 => u[i] \in T
        <5>1. \A i \in 1 .. k + 1 : i # k + 1 => i \in 1 .. k
          BY <3>3
        <5>2. \A i \in 1 .. k : u[i] \in U
          BY <3>4
        <5> HIDE DEF k
        <5> QED
          BY <5>1, <5>2
      <4> QED
        BY <2>2, <4>1
    <3>6. ASSUME NEW i \in 1 .. k + 1, NEW j \in 1 .. k + 1, i < j
          PROVE  s[i] < s[j]
      <4>1. i \in 1 .. k /\ s[i] = u[i] /\ u[i] \in 1 .. m
        <5>1. i \in 1 .. k
          BY <3>3, <3>6
        <5>2. s[i] = u[i] /\ u[i] \in U
          <6> HIDE DEF k, U
          <6> QED
            BY <3>3, <3>4, <5>1
        <5>3. u[i] \in 1 .. m
          BY <3>1, <5>2
        <5> QED
          BY <5>1, <5>2, <5>3
      <4>2. CASE j = k + 1
        <5>1. s[j] = m + 1
          BY <4>2
        <5> HIDE DEF s
        <5> QED
          BY <4>1, <5>1
      <4>3. CASE j # k + 1
        <5>1. j \in 1 .. k /\ s[j] = u[j]
          BY <3>3, <4>3
        <5> HIDE DEF s, k
        <5> QED
          BY <3>4, <3>6, <4>1, <5>1
      <4> QED
        BY <4>2, <4>3
    <3>7. Ascends(s, T)
      <4> HIDE DEF s, k
      <4> QED
        BY <3>3, <3>5, <3>6 DEF Ascends
    <3> HIDE DEF s
    <3> QED
      BY <3>7
  <2> QED
    BY <2>1, <2>2
<1>3. n \in G
  <2> HIDE DEF G
  <2> QED
    BY <1>1, <1>2, UpFrom0
<1> QED
  BY <1>0, <1>3

(* The frame of points that there are is the least rectangle around them.  *)
LEMMA FrameIs ==
  ASSUME NEW points \in SUBSET Points, points # {}
  PROVE  LET f == Frame(points)
         IN  /\ f.x \in Int /\ f.y \in Int /\ f.width \in Int /\ f.height \in Int
             /\ \A p \in points : /\ f.x <= p[1] /\ p[1] <= f.x + f.width - 1
                                  /\ f.y <= p[2] /\ p[2] <= f.y + f.height - 1
             /\ \E p \in points : p[1] = f.x
             /\ \E p \in points : p[1] = f.x + f.width - 1
             /\ \E p \in points : p[2] = f.y
             /\ \E p \in points : p[2] = f.y + f.height - 1
<1> DEFINE xs == {p[1] : p \in points}
           ys == {p[2] : p \in points}
           Least(s) == CHOOSE m \in s : \A n \in s : m <= n
           Most(s) == CHOOSE m \in s : \A n \in s : m >= n
           left == Least(xs)
           right == Most(xs)
           top == Least(ys)
           bottom == Most(ys)
<1>1. Wide - 1 \in Nat /\ High - 1 \in Nat /\ xs \subseteq 0 .. Wide - 1 /\ ys \subseteq 0 .. High - 1
      /\ xs # {} /\ ys # {}
  BY GridAssumption DEF Points
<1>2. /\ Frame(points).x = left /\ Frame(points).width = right - left + 1
      /\ Frame(points).y = top /\ Frame(points).height = bottom - top + 1
  BY DEF Frame
<1>3. \A p \in points : p[1] \in xs /\ p[2] \in ys
  OBVIOUS
<1>4. \A x \in xs : \E p \in points : p[1] = x
  OBVIOUS
<1>5. \A y \in ys : \E p \in points : p[2] = y
  OBVIOUS
<1> HIDE DEF xs, ys
<1>15. (\A x \in xs : x \in Nat) /\ (\A y \in ys : y \in Nat)
  BY <1>1
<1>16. xs \subseteq Nat /\ ys \subseteq Nat
  BY <1>15
<1>6. left \in xs /\ \A n \in xs : left <= n
  <2>1. \E m \in xs : \A n \in xs : m <= n
    BY <1>1, <1>16, LeastOf
  <2> QED
    BY <2>1
<1>7. top \in ys /\ \A n \in ys : top <= n
  <2>1. \E m \in ys : \A n \in ys : m <= n
    BY <1>1, <1>16, LeastOf
  <2> QED
    BY <2>1
<1>8. right \in xs /\ \A n \in xs : right >= n
  <2>1. \E m \in xs : \A n \in xs : m >= n
    BY <1>1, MostOf
  <2> QED
    BY <2>1
<1>9. bottom \in ys /\ \A n \in ys : bottom >= n
  <2>1. \E m \in ys : \A n \in ys : m >= n
    BY <1>1, MostOf
  <2> QED
    BY <2>1
<1> HIDE DEF left, right, top, bottom
<1>10. left \in Int /\ right \in Int /\ top \in Int /\ bottom \in Int
  BY <1>1, <1>6, <1>7, <1>8, <1>9
<1>11. \A p \in points : p[1] \in Int /\ p[2] \in Int
  BY <1>3, <1>15
<1>12. Frame(points).x + Frame(points).width - 1 = right /\ Frame(points).y + Frame(points).height - 1 = bottom
  BY <1>2, <1>10
<1>13. \A p \in points : left <= p[1] /\ p[1] <= right /\ top <= p[2] /\ p[2] <= bottom
  BY <1>3, <1>6, <1>7, <1>8, <1>9, <1>10, <1>11
<1>14. /\ \E p \in points : p[1] = left
       /\ \E p \in points : p[1] = right
       /\ \E p \in points : p[2] = top
       /\ \E p \in points : p[2] = bottom
  BY <1>4, <1>5, <1>6, <1>7, <1>8, <1>9
<1> QED
  BY <1>2, <1>10, <1>12, <1>13, <1>14

(* Regions are made of the points of the grid, as they should be unless a  *)
(* result was its second source.                                           *)
RegionsInv ==
  /\ regions \in [RegionNames -> SUBSET Points]
  /\ ideal \in [RegionNames -> SUBSET Points]
  /\ aliased \in BOOLEAN
  /\ ~aliased => regions = ideal

(* Combinations, rectangles and offsets keep it.                            *)
LEMMA NextKeepsRegions == RegionsInv /\ [RegionsNext]_regionVars => RegionsInv'
<1> SUFFICES ASSUME RegionsInv, [RegionsNext]_regionVars
             PROVE  RegionsInv'
  OBVIOUS
<1> USE DEF RegionsInv
<1>1. ASSUME NEW op \in Ops, NEW a \in RegionNames, NEW b \in RegionNames, NEW res \in RegionNames,
             ~aliased, Combine(op, a, b, res)
      PROVE  RegionsInv'
  <2> DEFINE second == IF b = res THEN regions[a] ELSE regions[b]
  <2>1. /\ regions' = [regions EXCEPT ![res] = Of(op, regions[a], second)]
        /\ ideal' = [ideal EXCEPT ![res] = Of(op, ideal[a], ideal[b])]
        /\ aliased' = (aliased \/ (b = res /\ a # b))
    BY <1>1 DEF Combine
  <2>2. \A s, t \in SUBSET Points : Of(op, s, t) \in SUBSET Points
    BY DEF Ops, Of
  <2>3. second \in SUBSET Points /\ aliased' \in BOOLEAN
    BY <2>1
  <2>4. ~aliased' => second = regions[b]
    BY <2>1
  <2> HIDE DEF second
  <2>5. Of(op, regions[a], second) \in SUBSET Points /\ Of(op, ideal[a], ideal[b]) \in SUBSET Points
    BY <2>2, <2>3
  <2>6. ~aliased' => regions' = ideal'
    BY <1>1, <2>1, <2>4
  <2> QED
    BY <2>1, <2>3, <2>5, <2>6
<1>2. ASSUME NEW rect \in Rects, NEW src \in RegionNames, NEW res \in RegionNames,
             ~aliased, XUnionRectWithRegion(rect, src, res)
      PROVE  RegionsInv'
  BY <1>2 DEF XUnionRectWithRegion
<1>3. ASSUME NEW r \in RegionNames, NEW dx \in {-1, 0, 1}, NEW dy \in {-1, 0, 1},
             ~aliased, XOffsetRegion(r, dx, dy)
      PROVE  RegionsInv'
  BY <1>3 DEF XOffsetRegion
<1>4. CASE UNCHANGED regionVars
  BY <1>4 DEF regionVars
<1> QED
  BY <1>1, <1>2, <1>3, <1>4 DEF RegionsNext

(* What XRectInRegion and XClipBox say of a region is true of its points.  *)
LEMMA AnswersAreTrue ==
  ASSUME RegionsInv
  PROVE  RegionsAreSets
<1> SUFFICES ASSUME ~aliased
             PROVE  RegionsAreSets
  BY DEF RegionsAreSets
<1>1. regions = ideal /\ \A r \in RegionNames : regions[r] \in SUBSET Points
  BY DEF RegionsInv
<1>2. ASSUME NEW rect \in Rects
      PROVE  /\ rect.x \in Int /\ rect.y \in Int /\ rect.width \in Int /\ rect.height \in Int
             /\ rect.width >= 1 /\ rect.height >= 1
  BY GridAssumption DEF Rects
<1>3. ASSUME NEW r \in RegionNames, NEW rect \in Rects
      PROVE  LET answer == XRectInRegion(r, rect)
             IN /\ (answer = "RectangleOut") <=> PointsOf(rect) \cap ideal[r] = {}
                /\ PointsOf(rect) \subseteq ideal[r] /\ rect.width > 1 /\ rect.height > 1 =>
                     answer = "RectangleIn"
  <2> DEFINE common == PointsOf(rect) \cap regions[r]
             f == Frame(common)
             large == f.width > 1 /\ f.height > 1
  <2>1. XRectInRegion(r, rect) = IF common = {} THEN "RectangleOut"
                                 ELSE IF large THEN "RectangleIn" ELSE "RectanglePart"
    BY DEF XRectInRegion
  <2>2. ASSUME PointsOf(rect) \subseteq regions[r], rect.width > 1, rect.height > 1
        PROVE  common # {} /\ large
    <3> DEFINE p == <<rect.x, rect.y>>
               q == <<rect.x + 1, rect.y + 1>>
    <3>1. p \in common /\ q \in common
      BY <1>2, <2>2 DEF PointsOf
    <3>2. common \in SUBSET Points /\ common # {}
      BY <1>1, <3>1
    <3>3. /\ f.x \in Int /\ f.y \in Int /\ f.width \in Int /\ f.height \in Int
          /\ \A n \in common : /\ f.x <= n[1] /\ n[1] <= f.x + f.width - 1
                               /\ f.y <= n[2] /\ n[2] <= f.y + f.height - 1
      <4> HIDE DEF common
      <4> QED
        BY <3>2, FrameIs
    <3>4. f.x <= p[1] /\ q[1] <= f.x + f.width - 1 /\ f.y <= p[2] /\ q[2] <= f.y + f.height - 1
      BY <3>1, <3>3
    <3>5. p[1] = rect.x /\ p[2] = rect.y /\ q[1] = rect.x + 1 /\ q[2] = rect.y + 1
      OBVIOUS
    <3> HIDE DEF f, p, q
    <3>6. f.width > 1 /\ f.height > 1
      BY <1>2, <3>3, <3>4, <3>5
    <3> QED
      BY <3>2, <3>6
  <2> HIDE DEF large
  <2>3. PointsOf(rect) \cap ideal[r] = common
    BY <1>1
  <2> HIDE DEF common
  <2> QED
    BY <1>1, <2>1, <2>2, <2>3
<1>4. ASSUME NEW r \in RegionNames, ~XEmptyRegion(r)
      PROVE  /\ regions[r] \subseteq PointsOf(XClipBox(r))
             /\ \A rect \in Rects : ideal[r] \subseteq PointsOf(rect) =>
                  PointsOf(XClipBox(r)) \subseteq PointsOf(rect)
  <2> DEFINE f == Frame(regions[r])
  <2>1. regions[r] \in SUBSET Points /\ regions[r] # {} /\ XClipBox(r) = f
    BY <1>1, <1>4 DEF XEmptyRegion, XClipBox
  <2>2. /\ f.x \in Int /\ f.y \in Int /\ f.width \in Int /\ f.height \in Int
        /\ \A p \in regions[r] : /\ f.x <= p[1] /\ p[1] <= f.x + f.width - 1
                                 /\ f.y <= p[2] /\ p[2] <= f.y + f.height - 1
        /\ \E p \in regions[r] : p[1] = f.x
        /\ \E p \in regions[r] : p[1] = f.x + f.width - 1
        /\ \E p \in regions[r] : p[2] = f.y
        /\ \E p \in regions[r] : p[2] = f.y + f.height - 1
    BY <2>1, FrameIs
  <2> HIDE DEF f
  <2>3. PointsOf(f) = (f.x .. f.x + f.width - 1) \X (f.y .. f.y + f.height - 1)
    BY DEF PointsOf
  <2>4. ASSUME NEW p \in regions[r]
        PROVE  p \in PointsOf(f)
    <3>1. p \in Points
      BY <2>1
    <3>2. p = <<p[1], p[2]>> /\ p[1] \in Int /\ p[2] \in Int
      BY <3>1 DEF Points
    <3>3. p[1] \in f.x .. f.x + f.width - 1 /\ p[2] \in f.y .. f.y + f.height - 1
      BY <2>2, <3>2
    <3> QED
      BY <2>3, <3>2, <3>3
  <2>5. ASSUME NEW rect \in Rects, regions[r] \subseteq PointsOf(rect)
        PROVE  PointsOf(f) \subseteq PointsOf(rect)
    <3>1. \A p \in regions[r] : /\ rect.x <= p[1] /\ p[1] <= rect.x + rect.width - 1
                                /\ rect.y <= p[2] /\ p[2] <= rect.y + rect.height - 1
      BY <1>2, <2>5 DEF PointsOf
    <3>2. /\ rect.x <= f.x /\ f.x + f.width - 1 <= rect.x + rect.width - 1
          /\ rect.y <= f.y /\ f.y + f.height - 1 <= rect.y + rect.height - 1
      BY <2>2, <3>1
    <3> QED
      BY <1>2, <2>2, <3>2 DEF PointsOf
  <2> QED
    BY <1>1, <2>1, <2>4, <2>5
<1> QED
  BY <1>1, <1>3, <1>4 DEF RegionsAreSets

(* Regions are what set algebra makes of them, and their frames and what   *)
(* lies in them are told truly, on a grid of any size, as long as no       *)
(* result is its second source (Region.cpp:18-134).                        *)
THEOREM RegionsAreAlwaysSets == RegionsSpec => []RegionsAreSets
<1>1. RegionsInit => RegionsInv
  BY DEF RegionsInit, RegionsInv
<1> QED
  BY <1>1, NextKeepsRegions, AnswersAreTrue, PTL DEF RegionsSpec

-----------------------------------------------------------------------------
(* Ids, as they come round.                                                *)
LEMMA IdsComeRound ==
  ASSUME NEW n \in Nat, NEW a \in 0 .. n - 1
  PROVE  a % n = a /\ (a + n) % n = a /\ (a - n) % n = a
OBVIOUS

(* The id that is the ith from one that is next.                           *)
After(id, i) == IF id + i < FontIds THEN id + i ELSE id + i - FontIds

LEMMA AfterIs ==
  ASSUME NEW id \in 0 .. FontIds - 1, NEW i \in 0 .. FontIds
  PROVE  (id + i) % FontIds = After(id, i) /\ After(id, i) \in 0 .. FontIds - 1
<1>1. FontIds \in Nat
  BY InstalledAssumption
<1>2. CASE id + i < FontIds
  <2>1. id + i \in 0 .. FontIds - 1
    BY <1>1, <1>2
  <2>2. (id + i) % FontIds = id + i
    BY <1>1, <2>1, IdsComeRound
  <2> QED
    BY <1>2, <2>1, <2>2 DEF After
<1>3. CASE ~(id + i < FontIds)
  <2> DEFINE a == id + i - FontIds
  <2>1. a \in 0 .. FontIds - 1 /\ a + FontIds = id + i
    BY <1>1, <1>3
  <2>2. After(id, i) = a
    BY <1>3 DEF After
  <2> HIDE DEF a
  <2>3. (a + FontIds) % FontIds = a
    BY <1>1, <2>1, IdsComeRound
  <2> QED
    BY <2>1, <2>2, <2>3
<1> QED
  BY <1>2, <1>3

LEMMA AfterAdds ==
  ASSUME NEW id \in 0 .. FontIds - 1, NEW i \in Nat \ {0}, NEW n \in Nat, i + n <= FontIds
  PROVE  /\ After(After(id, i), n) = After(id, i + n)
         /\ \A k \in 0 .. n - 1 : After(After(id, i), k) # id
BY InstalledAssumption DEF After

(* The ids in use are the last that were made, fewer than come round; one  *)
(* that was given is as far behind the next as ids were made since, until  *)
(* they have come round to it.                                             *)
FontsInv ==
  /\ sLastFontID \in 0 .. FontIds - 1
  /\ DOMAIN sFonts \subseteq 0 .. FontIds - 1
  /\ \A g \in given : /\ g.id \in 0 .. FontIds - 1 /\ g.since \in Nat \ {0}
                      /\ g.since <= FontIds => sLastFontID = After(g.id, g.since)
  /\ FontsStayTheirs

(* What a name loads is a font in the table.                               *)
LEMMA LoadedIsThere ==
  ASSUME FontsInv, NEW name, LoadFont(name).id # 0
  PROVE  LoadFont(name).id \in DOMAIN sFonts
<1> DEFINE x == ParseXlfd(name)
           ids == Matching(Unsized(x))
           least == CHOOSE id \in ids : \A other \in ids : id <= other
<1>1. ids # {} /\ LoadFont(name).id = least
  <2> HIDE DEF x, ids, least
  <2>1. LoadFont(name) = IF ids = {} \/ 0 \in ids THEN [id |-> 0, size |-> 0] ELSE [id |-> least, size |-> PointSize(x)]
    BY DEF LoadFont, x, ids, least
  <2> QED
    BY <2>1
<1>2. ids \subseteq DOMAIN sFonts
  BY DEF Matching
<1>3. ids \subseteq Nat
  BY <1>2 DEF FontsInv
<1> HIDE DEF ids
<1>4. least \in ids
  BY <1>1, <1>3, LeastOf
<1> QED
  BY <1>1, <1>2, <1>4

LEMMA NextKeepsFonts == FontsInv /\ [FontsNext]_fontVars => FontsInv'
<1> SUFFICES ASSUME FontsInv, [FontsNext]_fontVars
             PROVE  FontsInv'
  OBVIOUS
<1> USE DEF FontsInv, FontsStayTheirs
<1>1. ASSUME NEW installed \in Installed, InitFont(installed)
      PROVE  FontsInv'
  <2>1. CASE sFonts # <<>>
    BY <1>1, <2>1 DEF InitFont
  <2>2. CASE sFonts = <<>>
    <3> DEFINE n == Len(installed)
    <3>1. n \in Nat /\ DOMAIN installed = 1 .. n /\ n < FontIds /\ FontIds \in Nat
      BY InstalledAssumption
    <3>2. /\ sLastFontID' = (sLastFontID + n) % FontIds
          /\ given' = {[id |-> g.id, font |-> g.font, since |-> g.since + n] : g \in given}
          /\ DOMAIN sFonts' = {(sLastFontID + i - 1) % FontIds : i \in DOMAIN installed}
      BY <1>1, <2>2 DEF InitFont
    <3> HIDE DEF n
    <3>3. \A k \in 0 .. n : /\ (sLastFontID + k) % FontIds = After(sLastFontID, k)
                            /\ After(sLastFontID, k) \in 0 .. FontIds - 1
      <4>1. \A k \in 0 .. n : k \in 0 .. FontIds
        BY <3>1
      <4> QED
        BY <4>1, AfterIs
    <3>4. sLastFontID' = After(sLastFontID, n)
      BY <3>1, <3>2, <3>3
    <3>5. ASSUME NEW id \in DOMAIN sFonts'
          PROVE  \E k \in 0 .. n - 1 : id = After(sLastFontID, k)
      <4>1. PICK i \in 1 .. n : id = (sLastFontID + i - 1) % FontIds
        BY <3>1, <3>2
      <4>2. i - 1 \in 0 .. n - 1 /\ i - 1 \in 0 .. n /\ sLastFontID + i - 1 = sLastFontID + (i - 1)
        BY <3>1
      <4> QED
        BY <4>1, <4>2, <3>3
    <3>6. sLastFontID' \in 0 .. FontIds - 1 /\ DOMAIN sFonts' \subseteq 0 .. FontIds - 1
      BY <3>1, <3>3, <3>4, <3>5
    <3>7. ASSUME NEW h \in given'
          PROVE  /\ h.id \in 0 .. FontIds - 1 /\ h.since \in Nat \ {0}
                 /\ h.since <= FontIds => /\ sLastFontID' = After(h.id, h.since)
                                          /\ h.id \notin DOMAIN sFonts'
      <4>1. PICK g \in given : h = [id |-> g.id, font |-> g.font, since |-> g.since + n]
        BY <3>2
      <4>2. h.id = g.id /\ h.since = g.since + n
        BY <4>1
      <4> DEFINE was == g.since
      <4>0. /\ g.id \in 0 .. FontIds - 1 /\ g.since \in Nat \ {0}
            /\ g.since <= FontIds => sLastFontID = After(g.id, g.since)
        BY <4>1
      <4> HIDE DEF was
      <4>3. h.since = was + n /\ h.since \in Nat \ {0}
        BY <3>1, <4>0, <4>2 DEF was
      <4>4. ASSUME h.since <= FontIds
            PROVE  /\ sLastFontID' = After(h.id, h.since)
                   /\ \A k \in 0 .. n - 1 : After(sLastFontID, k) # h.id
        <5>1. was + n <= FontIds /\ was <= FontIds
          BY <3>1, <4>0, <4>3, <4>4 DEF was
        <5>2. sLastFontID = After(h.id, was)
          BY <4>0, <4>2, <5>1 DEF was
        <5>3. was \in Nat \ {0} /\ h.id \in 0 .. FontIds - 1
          BY <4>0, <4>2 DEF was
        <5> QED
          BY <3>1, <3>4, <4>3, <5>1, <5>2, <5>3, AfterAdds
      <4> QED
        BY <3>5, <4>0, <4>2, <4>3, <4>4
    <3> QED
      BY <3>6, <3>7
  <2> QED
    BY <2>1, <2>2
<1>2. CASE FinalizeFont
  <2>1. DOMAIN sFonts' = {} /\ sLastFontID' = sLastFontID /\ given' = given
    BY <1>2 DEF FinalizeFont
  <2> QED
    BY <2>1
<1>3. ASSUME NEW name \in FontNames, XLoadFont(name)
      PROVE  FontsInv'
  <2> DEFINE id == LoadFont(name).id
             since == IF id < sLastFontID THEN sLastFontID - id ELSE sLastFontID - id + FontIds
  <2>1. id \in DOMAIN sFonts
    BY <1>3, LoadedIsThere DEF XLoadFont
  <2>2. /\ given' = given \cup {[id |-> id, font |-> sFonts[id], since |-> since]}
        /\ UNCHANGED <<sFonts, sLastFontID>>
    BY <1>3 DEF XLoadFont
  <2> HIDE DEF id
  <2>3. id \in 0 .. FontIds - 1 /\ FontIds \in Nat
    BY <2>1, InstalledAssumption
  <2>4. /\ since \in Nat \ {0} /\ since <= FontIds
        /\ sLastFontID = After(id, since)
    BY <2>3 DEF After
  <2> HIDE DEF since
  <2> QED
    BY <2>1, <2>2, <2>3, <2>4
<1>4. CASE UNCHANGED fontVars
  BY <1>4 DEF fontVars
<1> QED
  BY <1>1, <1>2, <1>3, <1>4 DEF FontsNext

(* Fonts are not mistaken for others that were installed since: ids go on  *)
(* from where they were when the table was cleared (Font.cpp:86-129,       *)
(* 362-384).  An id is safe until 2^16 were made from it on, for           *)
(* sLastFontID is a uint16_t and comes round (Font.cpp:47, 111); for any   *)
(* width of it, and whatever is installed.                                 *)
THEOREM FontsKeepTheirIds == FontsSpec => []FontsStayTheirs
<1>1. FontsInit => FontsInv
  BY InstalledAssumption DEF FontsInit, FontsInv, FontsStayTheirs
<1>2. FontsInv => FontsStayTheirs
  BY DEF FontsInv
<1> QED
  BY <1>1, <1>2, NextKeepsFonts, PTL DEF FontsSpec

-----------------------------------------------------------------------------
(* Until XGetDefault has missed, the flag is set for a database of its own *)
(* just while the display has it.                                          *)
DefaultsInv ==
  /\ rmdb \in Own \cup {NoDatabase, "implicit"}
  /\ ~missed => (dfltRMDB <=> rmdb = "implicit")
  /\ OwnDatabasesStay

LEMMA NextKeepsDefaults == DefaultsInv /\ [DefaultsNext]_defaultsVars => DefaultsInv'
<1> SUFFICES ASSUME DefaultsInv, [DefaultsNext]_defaultsVars
             PROVE  DefaultsInv'
  OBVIOUS
<1> USE OwnAssumption DEF DefaultsInv, OwnDatabasesStay
<1>1. ASSUME NEW found \in BOOLEAN, XGetDefault(found)
      PROVE  DefaultsInv'
  BY <1>1 DEF XGetDefault
<1>2. ASSUME NEW d \in Own \cup {NoDatabase}, XrmSetDatabase(d)
      PROVE  DefaultsInv'
  <2>1. CASE rmdb # NoDatabase /\ dfltRMDB
    BY <1>2, <2>1 DEF XrmSetDatabase
  <2>2. CASE ~(rmdb # NoDatabase /\ dfltRMDB)
    BY <1>2, <2>2 DEF XrmSetDatabase
  <2> QED
    BY <2>1, <2>2
<1>3. ASSUME NEW d \in Own, Make(d)
      PROVE  DefaultsInv'
  BY <1>3 DEF Make
<1>4. ASSUME NEW d \in Own, Destroy(d)
      PROVE  DefaultsInv'
  BY <1>4 DEF Destroy
<1>5. CASE UNCHANGED defaultsVars
  BY <1>5 DEF defaultsVars
<1> QED
  BY <1>1, <1>2, <1>3, <1>4, <1>5 DEF DefaultsNext

(* XrmSetDatabase destroys what XGetDefault made, and no database that the *)
(* program made, as long as XGetDefault found files (Xrm.c:347-359,        *)
(* GetDflt.c:217-220).                                                     *)
THEOREM ProgramsKeepTheirs == DefaultsSpec => []OwnDatabasesStay
<1>1. DefaultsInit => DefaultsInv
  BY OwnAssumption DEF DefaultsInit, DefaultsInv, OwnDatabasesStay
<1>2. DefaultsInv => OwnDatabasesStay
  BY DEF DefaultsInv
<1> QED
  BY <1>1, <1>2, NextKeepsDefaults, PTL DEF DefaultsSpec

(* A list without repetition has as many places as elements.               *)
LEMMA LenIs ==
  ASSUME NEW S, NEW s \in Seq(S), \A i, j \in DOMAIN s : s[i] = s[j] => i = j
  PROVE  IsFiniteSet(ToSet(s)) /\ Cardinality(ToSet(s)) = Len(s)
<1>1. Len(s) \in Nat /\ DOMAIN s = 1 .. Len(s) /\ s \in [1 .. Len(s) -> S]
  OBVIOUS
<1>2. ToSet(s) = {s[i] : i \in 1 .. Len(s)}
  BY <1>1 DEF ToSet
<1>3. s \in [1 .. Len(s) -> ToSet(s)]
  BY <1>1, <1>2
<1>4. s \in Bijection(1 .. Len(s), ToSet(s))
  <2>1. s \in Injection(1 .. Len(s), ToSet(s))
    BY <1>1, <1>3 DEF Injection, IsInjective
  <2>2. s \in Surjection(1 .. Len(s), ToSet(s))
    BY <1>2, <1>3 DEF Surjection
  <2> QED
    BY <2>1, <2>2 DEF Bijection
<1>5. ExistsBijection(1 .. Len(s), ToSet(s))
  BY <1>4 DEF ExistsBijection
<1>6. IsFiniteSet(1 .. Len(s)) /\ Cardinality(1 .. Len(s)) = Len(s)
  <2>1. 1 \in Int /\ Len(s) \in Int
    BY <1>1
  <2> QED
    BY <1>1, <2>1, FS_Interval
<1> QED
  BY <1>5, <1>6, FS_Bijection
-----------------------------------------------------------------------------
(* Contexts.  The entries of the table are what was saved, each in the     *)
(* chain of its key; a table that is resized has the same entries.         *)
Entry == [key : Keys, data : Pointers]

(* Entries of different keys.                                              *)
Differ == {p \in Entry \X Entry : p[1].key # p[2].key}

EntriesOf(t) == UNION {ToSet(t[h]) : h \in DOMAIN t}
SavedEntries == {[key |-> k, data |-> saved[k]] : k \in {k \in Keys : saved[k] # NoPointer}}

(* Each entry is in the chain of its key, and no two have the same.        *)
InPlace(chain, h, size) == \A e \in ToSet(chain) : HashTo(e.key, size) = h
Filed(t) ==
  /\ t \in Seq(Seq(Entry)) /\ Len(t) # 0
  /\ \A h \in DOMAIN t : InPlace(t[h], h, Len(t)) /\ Ordered(t[h], Differ)

ContextsInv ==
  /\ Filed(table)
  /\ saved \in [Keys -> Pointers \cup {NoPointer}]
  /\ EntriesOf(table) = SavedEntries
  /\ IsFiniteSet(SavedEntries) /\ numentries = Cardinality(SavedEntries)

LEMMA HashIn ==
  ASSUME NEW k \in Keys, NEW size \in Nat \ {0}
  PROVE  HashTo(k, size) \in 1 .. size
<1>1. k.rid \in Nat /\ k.context \in Nat
  BY ContextsAssumption
<1> DEFINE n == 2 * k.rid + k.context
<1>2. n \in Nat
  BY <1>1
<1>3. n % size \in 0 .. size - 1
  <2> HIDE DEF n
  <2> QED
    BY <1>2
<1> QED
  BY <1>3 DEF HashTo

LEMMA ChainsAre ==
  ASSUME NEW t, Filed(t)
  PROVE  /\ Len(t) \in Nat \ {0} /\ DOMAIN t = 1 .. Len(t)
         /\ \A h \in DOMAIN t : t[h] \in Seq(Entry) /\ ToSet(t[h]) \subseteq Entry
         /\ EntriesOf(t) \subseteq Entry
         /\ \A e \in EntriesOf(t) : /\ HashTo(e.key, Len(t)) \in DOMAIN t
                                    /\ e \in ToSet(t[HashTo(e.key, Len(t))])
<1>1. /\ Len(t) \in Nat \ {0} /\ DOMAIN t = 1 .. Len(t)
      /\ \A h \in DOMAIN t : t[h] \in Seq(Entry)
  BY DEF Filed
<1>2. \A h \in DOMAIN t : ToSet(t[h]) \subseteq Entry
  BY <1>1 DEF ToSet
<1>3. ASSUME NEW e \in EntriesOf(t)
      PROVE  HashTo(e.key, Len(t)) \in DOMAIN t /\ e \in ToSet(t[HashTo(e.key, Len(t))])
  <2>1. PICK h \in DOMAIN t : e \in ToSet(t[h])
    BY DEF EntriesOf
  <2>2. HashTo(e.key, Len(t)) = h
    BY <2>1 DEF Filed, InPlace
  <2> QED
    BY <2>1, <2>2
<1> QED
  BY <1>1, <1>2, <1>3 DEF EntriesOf

(* Another chain in the place of one.                                      *)
LEMMA FiledChange ==
  ASSUME NEW t, Filed(t), NEW h \in DOMAIN t, NEW c \in Seq(Entry),
         InPlace(c, h, Len(t)), Ordered(c, Differ)
  PROVE  /\ Filed([t EXCEPT ![h] = c]) /\ Len([t EXCEPT ![h] = c]) = Len(t)
         /\ EntriesOf([t EXCEPT ![h] = c]) = (EntriesOf(t) \ ToSet(t[h])) \cup ToSet(c)
<1> DEFINE u == [t EXCEPT ![h] = c]
<1>1. t \in Seq(Seq(Entry)) /\ Len(t) \in Nat \ {0} /\ DOMAIN t = 1 .. Len(t)
  BY DEF Filed
<1>2. /\ u \in Seq(Seq(Entry)) /\ Len(u) = Len(t) /\ DOMAIN u = DOMAIN t
      /\ u[h] = c /\ \A g \in DOMAIN t : g # h => u[g] = t[g]
  BY <1>1
<1> HIDE DEF u
<1>3. Filed(u)
  BY <1>1, <1>2 DEF Filed
<1>4. ASSUME NEW e \in EntriesOf(u)
      PROVE  e \in (EntriesOf(t) \ ToSet(t[h])) \cup ToSet(c)
  <2>1. PICK g \in DOMAIN t : e \in ToSet(u[g])
    BY <1>2 DEF EntriesOf
  <2>2. CASE g = h
    BY <1>2, <2>1, <2>2
  <2>3. CASE g # h
    <3>1. e \in ToSet(t[g])
      BY <1>2, <2>1, <2>3
    <3>2. HashTo(e.key, Len(t)) = g
      BY <3>1 DEF Filed, InPlace
    <3>3. e \notin ToSet(t[h])
      BY <2>3, <3>2 DEF Filed, InPlace
    <3> QED
      BY <3>1, <3>3 DEF EntriesOf
  <2> QED
    BY <2>2, <2>3
<1>5. ASSUME NEW e \in EntriesOf(t), e \notin ToSet(t[h])
      PROVE  e \in EntriesOf(u)
  <2>1. PICK g \in DOMAIN t : e \in ToSet(t[g])
    BY DEF EntriesOf
  <2>2. g # h
    BY <1>5, <2>1
  <2> QED
    BY <1>2, <2>1, <2>2 DEF EntriesOf
<1>6. ToSet(c) \subseteq EntriesOf(u)
  BY <1>2 DEF EntriesOf
<1>7. EntriesOf(u) = (EntriesOf(t) \ ToSet(t[h])) \cup ToSet(c)
  BY <1>4, <1>5, <1>6
<1> QED
  BY <1>2, <1>3, <1>7 DEF u

(* A new entry at the head of its chain.                                   *)
LEMMA FiledPut ==
  ASSUME NEW t, Filed(t), NEW e \in Entry, \A x \in EntriesOf(t) : x.key # e.key
  PROVE  LET h == HashTo(e.key, Len(t))
             u == [t EXCEPT ![h] = <<e>> \o @]
         IN  /\ h \in DOMAIN t
             /\ Filed(u) /\ Len(u) = Len(t) /\ EntriesOf(u) = EntriesOf(t) \cup {e}
<1> DEFINE h == HashTo(e.key, Len(t))
           c == <<e>> \o t[h]
<1>1. /\ Len(t) \in Nat \ {0} /\ DOMAIN t = 1 .. Len(t)
      /\ \A g \in DOMAIN t : t[g] \in Seq(Entry) /\ ToSet(t[g]) \subseteq Entry
  BY ChainsAre
<1>2. h \in DOMAIN t
  <2>1. e.key \in Keys
    BY DEF Entry
  <2> QED
    BY <1>1, <2>1, HashIn
<1>3. /\ <<e>> \in Seq(Entry) /\ ToSet(<<e>>) = {e} /\ Ordered(<<e>>, Differ)
  BY SingletonIs
<1>4. t[h] \in Seq(Entry) /\ Ordered(t[h], Differ) /\ ToSet(t[h]) \subseteq EntriesOf(t)
      /\ InPlace(t[h], h, Len(t))
  BY <1>1, <1>2 DEF Filed, EntriesOf
<1>5. \A x \in ToSet(<<e>>), y \in ToSet(t[h]) : <<x, y>> \in Differ
  BY <1>1, <1>2, <1>3, <1>4 DEF Differ
<1>6. c \in Seq(Entry) /\ ToSet(c) = {e} \cup ToSet(t[h]) /\ Ordered(c, Differ)
  <2> HIDE DEF h
  <2>1. c \in Seq(Entry) /\ ToSet(c) = ToSet(<<e>>) \cup ToSet(t[h])
    BY <1>3, <1>4, ConcatIs
  <2>2. Ordered(c, Differ)
    BY <1>3, <1>4, <1>5, ConcatIs
  <2> QED
    BY <1>3, <2>1, <2>2
<1>7. InPlace(c, h, Len(t))
  BY <1>4, <1>6 DEF InPlace
<1>8. [t EXCEPT ![h] = <<e>> \o @] = [t EXCEPT ![h] = c]
  OBVIOUS
<1> HIDE DEF h, c
<1>9. /\ Filed([t EXCEPT ![h] = c]) /\ Len([t EXCEPT ![h] = c]) = Len(t)
      /\ EntriesOf([t EXCEPT ![h] = c]) = (EntriesOf(t) \ ToSet(t[h])) \cup ToSet(c)
  BY <1>2, <1>6, <1>7, FiledChange
<1>10. (EntriesOf(t) \ ToSet(t[h])) \cup ToSet(c) = EntriesOf(t) \cup {e}
  BY <1>4, <1>6
<1> QED
  BY <1>2, <1>8, <1>9, <1>10 DEF h

(* A table of empty chains.                                                *)
LEMMA FiledEmpty ==
  ASSUME NEW size \in Nat \ {0}
  PROVE  LET t == [h \in 1 .. size |-> <<>>]
         IN  Filed(t) /\ Len(t) = size /\ EntriesOf(t) = {}
<1> DEFINE t == [h \in 1 .. size |-> <<>>]
<1>1. <<>> \in Seq(Entry) /\ ToSet(<<>>) = {} /\ Ordered(<<>>, Differ)
  <2>1. DOMAIN <<>> = {} /\ <<>> \in Seq(Entry)
    OBVIOUS
  <2> QED
    BY <2>1 DEF ToSet, Ordered
<1>2. t \in Seq(Seq(Entry)) /\ Len(t) = size /\ DOMAIN t = 1 .. size
      /\ \A h \in 1 .. size : t[h] = <<>>
  BY <1>1
<1> HIDE DEF t
<1>3. Filed(t) /\ EntriesOf(t) = {}
  BY <1>1, <1>2 DEF Filed, InPlace, EntriesOf
<1> QED
  BY <1>2, <1>3 DEF t

LEMMA DoubledIs == ASSUME NEW n \in Nat PROVE Doubled(n) \in Nat \ {0}
<1> DEFINE Next_(size) == IF 2 * size < n THEN 2 * size ELSE size
           i[times \in 0 .. n] == IF times = 0 THEN INITHASHMASK + 1 ELSE Next_(i[times - 1])
           V == Nat \ {0}
           step == [times \in 1 .. n |-> [size \in V |-> Next_(size)]]
<1>1. INITHASHMASK + 1 \in V
  BY ContextsAssumption
<1>2. step \in [1 .. n -> [V -> V]]
  OBVIOUS
<1>3. PICK f \in [0 .. n -> V] :
        \A m \in 0 .. n : f[m] = IF m = 0 THEN INITHASHMASK + 1 ELSE step[m][f[m - 1]]
  <2> DEFINE first == INITHASHMASK + 1
  <2>1. first \in V
    BY <1>1
  <2> HIDE DEF first, step, V
  <2>2. \E f : IsRun(f, V, first, n, step)
    BY <1>2, <2>1, RunExists
  <2> QED
    BY <2>2 DEF first, IsRun
<1>4. \A m \in 0 .. n : f[m] = IF m = 0 THEN INITHASHMASK + 1 ELSE Next_(f[m - 1])
  <2> SUFFICES ASSUME NEW m \in 0 .. n
               PROVE  f[m] = IF m = 0 THEN INITHASHMASK + 1 ELSE Next_(f[m - 1])
    OBVIOUS
  <2>1. CASE m = 0
    BY <1>3, <2>1
  <2>2. CASE m # 0
    <3>1. m \in 1 .. n /\ m - 1 \in 0 .. n
      BY <2>2
    <3>2. f[m - 1] \in V
      BY <3>1
    <3>3. step[m][f[m - 1]] = Next_(f[m - 1])
      BY <3>1, <3>2
    <3> QED
      BY <1>3, <2>2, <3>3
  <2> QED
    BY <2>1, <2>2
<1>5. f = [times \in 0 .. n |-> IF times = 0 THEN INITHASHMASK + 1 ELSE Next_(f[times - 1])]
  <2> HIDE DEF Next_
  <2> QED
    BY <1>4
<1>6. i = [times \in 0 .. n |-> IF times = 0 THEN INITHASHMASK + 1 ELSE Next_(i[times - 1])]
  <2> HIDE DEF Next_
  <2> QED
    BY <1>5
<1>7. Doubled(n) = i[n]
  BY DEF Doubled
<1> HIDE DEF i
<1> DEFINE G == {m \in Nat : m > n \/ i[m] \in V}
<1>8. 0 \in G
  BY <1>1, <1>6
<1>9. ASSUME NEW m \in Nat, m \in G
      PROVE  m + 1 \in G
  <2>1. CASE m + 1 > n
    BY <2>1
  <2>2. CASE ~(m + 1 > n)
    <3>1. i[m] \in V /\ m + 1 \in 0 .. n /\ m + 1 # 0 /\ (m + 1) - 1 = m
      BY <1>9, <2>2
    <3>2. i[m + 1] = Next_(i[m])
      <4> HIDE DEF Next_
      <4> QED
        BY <1>6, <3>1
    <3>3. Next_(i[m]) \in V
      BY <3>1
    <3> QED
      BY <3>2, <3>3
  <2> QED
    BY <2>1, <2>2
<1>10. n \in G
  <2> HIDE DEF G
  <2> QED
    BY <1>8, <1>9, UpFrom0
<1> QED
  BY <1>7, <1>10

(* All entries of a table, in the order that ResizeTable visits them.      *)
LEMMA FlatIs ==
  ASSUME NEW t, Filed(t)
  PROVE  /\ FlattenSeq(t) \in Seq(Entry) /\ ToSet(FlattenSeq(t)) = EntriesOf(t)
         /\ Ordered(FlattenSeq(t), Differ)
<1>1. t \in Seq(Seq(Entry)) /\ \A h \in DOMAIN t : ToSet(t[h]) \subseteq Entry
  BY ChainsAre DEF Filed
<1>2. \A h \in DOMAIN t : Ordered(t[h], Differ)
  BY DEF Filed
<1>3. ASSUME NEW g \in DOMAIN t, NEW h \in DOMAIN t, g < h,
             NEW x \in ToSet(t[g]), NEW y \in ToSet(t[h])
      PROVE  <<x, y>> \in Differ
  <2>1. HashTo(x.key, Len(t)) = g /\ HashTo(y.key, Len(t)) = h
    BY DEF Filed, InPlace
  <2>2. g \in Int /\ h \in Int
    BY ChainsAre
  <2>3. x.key # y.key
    BY <1>3, <2>1, <2>2
  <2> QED
    BY <1>1, <2>3 DEF Differ
<1>4. FlattenSeq(t) \in Seq(Entry) /\ ToSet(FlattenSeq(t)) = EntriesOf(t)
  BY <1>1, FlattenIs DEF EntriesOf
<1>5. Ordered(FlattenSeq(t), Differ)
  <2> QED
    BY <1>1, <1>2, <1>3, FlattenIs
<1> QED
  BY <1>4, <1>5

(* No entry is lost, repeated or misplaced when a table is resized.        *)
LEMMA ResizeIs ==
  ASSUME NEW t, Filed(t), NEW n \in Nat
  PROVE  Filed(ResizeTable(t, n)) /\ EntriesOf(ResizeTable(t, n)) = EntriesOf(t)
<1> DEFINE size == Doubled(n)
           entries == FlattenSeq(t)
           last == Len(entries)
           empty == [h \in 1 .. size |-> <<>>]
           Move(u, e) == [u EXCEPT ![HashTo(e.key, size)] = <<e>> \o @]
           moved[i \in 0 .. last] == IF i = 0 THEN empty ELSE Move(moved[i - 1], entries[i])
           V == {u \in Seq(Seq(Entry)) : Len(u) = size}
           step == [i \in 1 .. last |-> [u \in V |-> Move(u, entries[i])]]
<1>1. size \in Nat \ {0}
  BY DoubledIs
<1>2. Filed(empty) /\ Len(empty) = size /\ EntriesOf(empty) = {} /\ empty \in V
  <2> HIDE DEF size
  <2> QED
    BY <1>1, FiledEmpty DEF Filed
<1>3. entries \in Seq(Entry) /\ ToSet(entries) = EntriesOf(t) /\ Ordered(entries, Differ)
  BY FlatIs
<1>4. last \in Nat /\ DOMAIN entries = 1 .. last /\ \A i \in 1 .. last : entries[i] \in Entry
  BY <1>3
<1>5. \A u \in V, e \in Entry : Move(u, e) \in V
  <2> SUFFICES ASSUME NEW u \in V, NEW e \in Entry
               PROVE  Move(u, e) \in V
    OBVIOUS
  <2> DEFINE h == HashTo(e.key, size)
             c == <<e>> \o u[h]
  <2>1. h \in 1 .. size
    <3>1. e.key \in Keys
      BY DEF Entry
    <3> HIDE DEF size
    <3> QED
      BY <1>1, <3>1, HashIn
  <2>2. u \in Seq(Seq(Entry)) /\ Len(u) = size /\ DOMAIN u = 1 .. size
    BY <1>1
  <2>3. u[h] \in Seq(Entry)
    BY <2>1, <2>2
  <2>4. c \in Seq(Entry)
    <3> HIDE DEF h
    <3>1. <<e>> \in Seq(Entry)
      OBVIOUS
    <3> QED
      BY <2>3, <3>1, ConcatIs
  <2>5. Move(u, e) = [u EXCEPT ![h] = c]
    OBVIOUS
  <2> HIDE DEF h, c, size
  <2>6. [u EXCEPT ![h] = c] \in Seq(Seq(Entry)) /\ Len([u EXCEPT ![h] = c]) = size
    BY <2>1, <2>2, <2>4
  <2> QED
    BY <2>5, <2>6
<1>6. step \in [1 .. last -> [V -> V]]
  <2> HIDE DEF V, Move, entries, last
  <2>1. \A i \in 1 .. last : [u \in V |-> Move(u, entries[i])] \in [V -> V]
    BY <1>4, <1>5
  <2> QED
    BY <2>1
<1>7. PICK f \in [0 .. last -> V] :
        \A i \in 0 .. last : f[i] = IF i = 0 THEN empty ELSE step[i][f[i - 1]]
  <2>1. empty \in V /\ last \in Nat
    BY <1>2, <1>4
  <2> HIDE DEF step, V, empty, last
  <2>2. \E f : IsRun(f, V, empty, last, step)
    BY <1>6, <2>1, RunExists
  <2> QED
    BY <2>2 DEF IsRun
<1> HIDE DEF empty, size, entries, last, V, Move
<1>8. \A i \in 0 .. last : f[i] = IF i = 0 THEN empty ELSE Move(f[i - 1], entries[i])
  <2> SUFFICES ASSUME NEW i \in 0 .. last
               PROVE  f[i] = IF i = 0 THEN empty ELSE Move(f[i - 1], entries[i])
    OBVIOUS
  <2>1. CASE i = 0
    BY <1>7, <2>1
  <2>2. CASE i # 0
    <3>1. i \in 1 .. last /\ i - 1 \in 0 .. last
      BY <1>4, <2>2
    <3>2. step[i][f[i - 1]] = Move(f[i - 1], entries[i])
      BY <1>7, <3>1
    <3> QED
      BY <1>7, <2>2, <3>2
  <2> QED
    BY <2>1, <2>2
<1>9. f = [i \in 0 .. last |-> IF i = 0 THEN empty ELSE Move(f[i - 1], entries[i])]
  BY <1>7, <1>8
<1>10. moved = [i \in 0 .. last |-> IF i = 0 THEN empty ELSE Move(moved[i - 1], entries[i])]
  BY <1>9
<1>11. ResizeTable(t, n) = moved[last]
  BY DEF ResizeTable, moved, last, entries, Move, empty, size
<1> HIDE DEF moved
<1> DEFINE Until(i) == {entries[j] : j \in 1 .. i}
           Moved(i) == /\ Filed(moved[i]) /\ Len(moved[i]) = size
                       /\ EntriesOf(moved[i]) = Until(i)
           G == {i \in Nat : i > last \/ Moved(i)}
<1>12. 0 \in G
  <2>1. moved[0] = empty /\ Until(0) = {}
    BY <1>4, <1>10
  <2> QED
    BY <1>2, <2>1
<1>13. ASSUME NEW i \in Nat, i \in G
       PROVE  i + 1 \in G
  <2>1. CASE i + 1 > last
    BY <2>1
  <2>2. CASE ~(i + 1 > last)
    <3> DEFINE e == entries[i + 1]
               u == moved[i]
    <3>1. Moved(i) /\ i + 1 \in 0 .. last /\ i + 1 \in 1 .. last /\ (i + 1) - 1 = i /\ i + 1 # 0
      <4>1. ~(i > last)
        BY <1>4, <2>2
      <4>2. Moved(i)
        BY <1>13, <4>1
      <4> HIDE DEF Moved
      <4> QED
        BY <1>4, <2>2, <4>2
    <3>2. moved[i + 1] = Move(u, e)
      <4> HIDE DEF Moved
      <4> QED
        BY <1>10, <3>1
    <3>3. e \in Entry
      <4> HIDE DEF Moved
      <4> QED
        BY <1>4, <3>1
    <3>4. \A x \in EntriesOf(u) : x.key # e.key
      <4> SUFFICES ASSUME NEW j \in 1 .. i
                   PROVE  entries[j].key # e.key
        BY <3>1
      <4> HIDE DEF Moved
      <4>1. j \in DOMAIN entries /\ i + 1 \in DOMAIN entries /\ j < i + 1
        BY <1>4, <3>1
      <4>2. <<entries[j], e>> \in Differ
        BY <1>3, <4>1 DEF Ordered
      <4> QED
        BY <4>2 DEF Differ
    <3>5. Filed(u) /\ Len(u) = size /\ EntriesOf(u) = Until(i)
      BY <3>1
    <3> HIDE DEF e, u, Moved
    <3>6. Filed(Move(u, e)) /\ Len(Move(u, e)) = size /\ EntriesOf(Move(u, e)) = EntriesOf(u) \cup {e}
      BY <3>3, <3>4, <3>5, FiledPut DEF Move
    <3>7. Until(i) \cup {e} = Until(i + 1)
      <4>1. 1 .. i + 1 = (1 .. i) \cup {i + 1}
        OBVIOUS
      <4> QED
        BY <4>1 DEF e
    <3>8. Moved(i + 1)
      <4>1. EntriesOf(Move(u, e)) = Until(i + 1)
        BY <3>5, <3>6, <3>7
      <4> HIDE DEF Until
      <4> QED
        BY <3>2, <3>6, <4>1 DEF Moved
    <3> HIDE DEF Until
    <3> QED
      BY <3>8
  <2> QED
    BY <2>1, <2>2
<1>14. Moved(last)
  <2>1. last \in G
    <3> HIDE DEF G
    <3> QED
      BY <1>4, <1>12, <1>13, UpFrom0
  <2> HIDE DEF Moved
  <2> QED
    BY <1>4, <2>1
<1>15. Until(last) = EntriesOf(t)
  BY <1>3, <1>4 DEF ToSet
<1> QED
  BY <1>11, <1>14, <1>15

(* Places of a chain hold entries of different keys.                       *)
LEMMA DifferIs ==
  ASSUME NEW c \in Seq(Entry), Ordered(c, Differ), NEW i \in DOMAIN c, NEW j \in DOMAIN c,
         c[i].key = c[j].key
  PROVE  i = j
<1>1. i \in Int /\ j \in Int
  OBVIOUS
<1>2. ASSUME NEW a \in DOMAIN c, NEW b \in DOMAIN c, a < b
      PROVE  c[a].key # c[b].key
  <2>1. <<c[a], c[b]>> \in Differ
    BY <1>2 DEF Ordered
  <2> QED
    BY <2>1 DEF Differ
<1>3. i < j \/ j < i \/ i = j
  BY <1>1
<1> QED
  BY <1>2, <1>3

LEMMA ReplaceOne ==
  ASSUME NEW c \in Seq(Entry), Ordered(c, Differ), NEW i \in DOMAIN c,
         NEW e \in Entry, e.key = c[i].key
  PROVE  LET d == [c EXCEPT ![i] = e]
         IN  /\ d \in Seq(Entry) /\ Ordered(d, Differ)
             /\ ToSet(d) = (ToSet(c) \ {c[i]}) \cup {e}
<1> DEFINE d == [c EXCEPT ![i] = e]
<1>1. /\ d \in Seq(Entry) /\ DOMAIN d = DOMAIN c /\ d[i] = e
      /\ \A j \in DOMAIN c : j # i => d[j] = c[j]
      /\ \A j \in DOMAIN c : c[j] \in Entry
  OBVIOUS
<1> HIDE DEF d
<1>2. \A j \in DOMAIN c : d[j] \in Entry /\ d[j].key = c[j].key
  BY <1>1
<1>3. Ordered(d, Differ)
  <2> SUFFICES ASSUME NEW a \in DOMAIN c, NEW b \in DOMAIN c, a < b
               PROVE  <<d[a], d[b]>> \in Differ
    BY <1>1 DEF Ordered
  <2>1. <<c[a], c[b]>> \in Differ
    BY DEF Ordered
  <2>2. c[a].key # c[b].key
    BY <2>1 DEF Differ
  <2> QED
    BY <1>2, <2>2 DEF Differ
<1>4. \A j \in DOMAIN c : j # i => c[j] # c[i]
  BY DifferIs
<1>5. ToSet(d) \subseteq (ToSet(c) \ {c[i]}) \cup {e}
  BY <1>1, <1>4 DEF ToSet
<1>6. (ToSet(c) \ {c[i]}) \cup {e} \subseteq ToSet(d)
  <2>1. e \in ToSet(d)
    BY <1>1 DEF ToSet
  <2>2. ASSUME NEW x \in ToSet(c), x # c[i]
        PROVE  x \in ToSet(d)
    <3>1. PICK j \in DOMAIN c : x = c[j]
      BY DEF ToSet
    <3>2. j # i
      BY <2>2, <3>1
    <3> QED
      BY <1>1, <3>1, <3>2 DEF ToSet
  <2> QED
    BY <2>1, <2>2
<1>7. ToSet(d) = (ToSet(c) \ {c[i]}) \cup {e}
  BY <1>5, <1>6
<1> QED
  BY <1>1, <1>3, <1>7 DEF d

LEMMA RemoveOne ==
  ASSUME NEW c \in Seq(Entry), Ordered(c, Differ), NEW i \in DOMAIN c
  PROVE  /\ RemoveAt(c, i) \in Seq(Entry) /\ Ordered(RemoveAt(c, i), Differ)
         /\ ToSet(RemoveAt(c, i)) = ToSet(c) \ {c[i]}
<1> DEFINE d == RemoveAt(c, i)
           From(k) == IF k < i THEN k ELSE k + 1
<1>1. /\ d \in Seq(Entry) /\ DOMAIN d = 1 .. Len(c) - 1
      /\ \A k \in 1 .. Len(c) - 1 : d[k] = c[From(k)]
  BY RemoveAtIs
<1>2. Len(c) \in Nat /\ DOMAIN c = 1 .. Len(c)
  OBVIOUS
<1> HIDE DEF d
<1>3. /\ \A k \in DOMAIN d : From(k) \in DOMAIN c /\ From(k) # i
      /\ \A a, b \in DOMAIN d : a < b => From(a) < From(b)
      /\ \A j \in DOMAIN c : j # i => \E k \in DOMAIN d : From(k) = j
  <2>1. \A k \in DOMAIN d : From(k) \in DOMAIN c /\ From(k) # i
    BY <1>1, <1>2
  <2>2. \A a, b \in DOMAIN d : a < b => From(a) < From(b)
    BY <1>1, <1>2
  <2>3. ASSUME NEW j \in DOMAIN c, j # i
        PROVE  \E k \in DOMAIN d : From(k) = j
    <3>1. CASE j < i
      <4>1. j \in DOMAIN d /\ From(j) = j
        BY <1>1, <1>2, <3>1
      <4> QED
        BY <4>1
    <3>2. CASE j > i
      <4>1. j - 1 \in DOMAIN d /\ From(j - 1) = j
        BY <1>1, <1>2, <3>2
      <4> HIDE DEF From
      <4> QED
        BY <4>1
    <3> QED
      BY <1>2, <2>3, <3>1, <3>2
  <2> HIDE DEF From
  <2> QED
    BY <2>1, <2>2, <2>3
<1> HIDE DEF From
<1>4. Ordered(d, Differ)
  <2> SUFFICES ASSUME NEW a \in DOMAIN d, NEW b \in DOMAIN d, a < b
               PROVE  <<d[a], d[b]>> \in Differ
    BY DEF Ordered
  <2>1. d[a] = c[From(a)] /\ d[b] = c[From(b)]
    BY <1>1
  <2> QED
    BY <1>3, <2>1 DEF Ordered
<1>5. \A j \in DOMAIN c : j # i => c[j] # c[i]
  BY DifferIs
<1>6. ASSUME NEW x \in ToSet(d)
      PROVE  x \in ToSet(c) \ {c[i]}
  <2>1. PICK k \in DOMAIN d : x = d[k]
    BY DEF ToSet
  <2>2. x = c[From(k)]
    BY <1>1, <2>1
  <2> QED
    BY <1>3, <1>5, <2>2 DEF ToSet
<1>7. ASSUME NEW x \in ToSet(c), x # c[i]
      PROVE  x \in ToSet(d)
  <2>1. PICK j \in DOMAIN c : x = c[j]
    BY DEF ToSet
  <2>2. PICK k \in DOMAIN d : From(k) = j
    BY <1>3, <1>7, <2>1
  <2>3. d[k] = x
    BY <1>1, <2>1, <2>2
  <2> QED
    BY <2>3 DEF ToSet
<1>8. ToSet(d) = ToSet(c) \ {c[i]}
  BY <1>6, <1>7
<1> QED
  BY <1>1, <1>4, <1>8 DEF d

(* Where the search of a chain ends.                                       *)
LEMMA WhereIs ==
  ASSUME ContextsInv, NEW k \in Keys
  PROVE  LET h == ContextHash(k)
             i == Where(k)
         IN  /\ h \in DOMAIN table
             /\ i = 0 => saved[k] = NoPointer /\ \A e \in EntriesOf(table) : e.key # k
             /\ i # 0 => /\ saved[k] # NoPointer /\ i \in DOMAIN table[h]
                         /\ table[h][i] = [key |-> k, data |-> saved[k]]
<1> DEFINE h == ContextHash(k)
           c == table[h]
           I == {i \in 1 .. Len(c) : c[i].key = k}
<1>1. /\ Filed(table) /\ Len(table) \in Nat \ {0} /\ DOMAIN table = 1 .. Len(table)
      /\ \A g \in DOMAIN table : table[g] \in Seq(Entry) /\ ToSet(table[g]) \subseteq Entry
      /\ \A e \in EntriesOf(table) : e \in ToSet(table[HashTo(e.key, Len(table))])
  BY ChainsAre DEF ContextsInv
<1>2. h \in DOMAIN table
  BY <1>1, HashIn DEF ContextHash
<1>3. c \in Seq(Entry) /\ DOMAIN c = 1 .. Len(c) /\ ToSet(c) \subseteq EntriesOf(table)
  BY <1>1, <1>2 DEF EntriesOf
<1>4. EntriesOf(table) = SavedEntries /\ NoPointer \notin Pointers
      /\ saved \in [Keys -> Pointers \cup {NoPointer}]
  BY ContextsAssumption DEF ContextsInv
<1>5. Where(k) = IF I # {} THEN Min(I) ELSE 0
  BY DEF Where, SelectInSeq
<1>6. CASE I = {}
  <2>1. ASSUME NEW e \in EntriesOf(table)
        PROVE  e.key # k
    <3> SUFFICES ASSUME e.key = k
                 PROVE  FALSE
      OBVIOUS
    <3>1. e \in ToSet(c)
      BY <1>1 DEF ContextHash
    <3>2. PICK i \in DOMAIN c : e = c[i]
      BY <3>1 DEF ToSet
    <3>3. i \in I
      BY <1>3, <3>2
    <3> QED
      BY <1>6, <3>3
  <2>2. saved[k] = NoPointer
    <3> SUFFICES ASSUME saved[k] # NoPointer
                 PROVE  FALSE
      OBVIOUS
    <3>1. [key |-> k, data |-> saved[k]] \in SavedEntries
      BY DEF SavedEntries
    <3> QED
      BY <1>4, <2>1, <3>1
  <2>3. Where(k) = 0
    BY <1>5, <1>6
  <2> QED
    BY <1>2, <2>1, <2>2, <2>3
<1>7. CASE I # {}
  <2> DEFINE i == Where(k)
  <2>1. i \in I
    <3>1. I \subseteq Nat
      BY <1>3
    <3> HIDE DEF I
    <3>2. \E m \in I : \A n \in I : m <= n
      BY <1>7, <3>1, LeastOf
    <3>3. Min(I) \in I
      BY <3>2 DEF Min
    <3> QED
      BY <1>5, <1>7, <3>3
  <2>2. i \in DOMAIN c /\ c[i].key = k /\ i # 0
    BY <1>3, <2>1
  <2> HIDE DEF i, I
  <2>3. c[i] \in EntriesOf(table)
    BY <1>3, <2>2 DEF ToSet
  <2>4. c[i] = [key |-> k, data |-> saved[k]] /\ saved[k] # NoPointer
    <3>1. c[i] \in SavedEntries
      BY <1>4, <2>3
    <3>2. PICK m \in Keys : saved[m] # NoPointer /\ c[i] = [key |-> m, data |-> saved[m]]
      BY <3>1 DEF SavedEntries
    <3>3. m = k
      BY <2>2, <3>2
    <3> QED
      BY <3>2, <3>3
  <2> QED
    BY <1>2, <2>2, <2>4 DEF i
<1> QED
  BY <1>6, <1>7

LEMMA InitKeepsContexts == ContextsInit => ContextsInv
<1> SUFFICES ASSUME ContextsInit
             PROVE  ContextsInv
  OBVIOUS
<1> DEFINE size == INITHASHMASK + 1
<1>1. size \in Nat \ {0}
  BY ContextsAssumption
<1>2. table = [h \in 1 .. size |-> <<>>]
  BY DEF ContextsInit
<1> HIDE DEF size
<1>3. Filed(table) /\ EntriesOf(table) = {}
  BY <1>1, <1>2, FiledEmpty
<1>4. saved = [k \in Keys |-> NoPointer] /\ numentries = 0
  BY DEF ContextsInit
<1>5. SavedEntries = {}
  BY <1>4 DEF SavedEntries
<1>6. IsFiniteSet({}) /\ Cardinality({}) = 0
  BY FS_EmptySet
<1> QED
  BY <1>3, <1>4, <1>5, <1>6 DEF ContextsInv

(* What is saved, but for one key.                                         *)
LEMMA SavedEntriesBut ==
  ASSUME NEW k \in Keys, NEW d \in Pointers \cup {NoPointer},
         saved \in [Keys -> Pointers \cup {NoPointer}], saved' = [saved EXCEPT ![k] = d]
  PROVE  /\ saved' \in [Keys -> Pointers \cup {NoPointer}]
         /\ SavedEntries' = (SavedEntries \ {[key |-> k, data |-> saved[k]]})
                            \cup (IF d = NoPointer THEN {} ELSE {[key |-> k, data |-> d]})
<1>1. saved'[k] = d /\ \A m \in Keys : m # k => saved'[m] = saved[m]
  OBVIOUS
<1>2. saved' \in [Keys -> Pointers \cup {NoPointer}]
  OBVIOUS
<1>3. ASSUME NEW e
      PROVE  e \in SavedEntries' <=>
               \/ e \in SavedEntries /\ e # [key |-> k, data |-> saved[k]]
               \/ d # NoPointer /\ e = [key |-> k, data |-> d]
  <2>1. e \in SavedEntries' <=> \E m \in Keys : saved'[m] # NoPointer /\ e = [key |-> m, data |-> saved'[m]]
    BY DEF SavedEntries
  <2>2. e \in SavedEntries <=> \E m \in Keys : saved[m] # NoPointer /\ e = [key |-> m, data |-> saved[m]]
    BY DEF SavedEntries
  <2>3. \A m \in Keys : [key |-> m, data |-> saved[m]] = [key |-> k, data |-> saved[k]] => m = k
    OBVIOUS
  <2> QED
    BY <1>1, <2>1, <2>2, <2>3
<1> QED
  BY <1>2, <1>3

(* The count of entries, with one more and with one less.                  *)
LEMMA CountIs ==
  ASSUME ContextsInv
  PROVE  /\ numentries \in Nat
         /\ \A e : /\ IsFiniteSet(SavedEntries \cup {e}) /\ IsFiniteSet(SavedEntries \ {e})
                   /\ e \notin SavedEntries => Cardinality(SavedEntries \cup {e}) = numentries + 1
                   /\ e \in SavedEntries => Cardinality(SavedEntries \ {e}) = numentries - 1
<1>1. IsFiniteSet(SavedEntries) /\ numentries = Cardinality(SavedEntries)
  BY DEF ContextsInv
<1>2. numentries \in Nat
  BY <1>1, FS_CardinalityType
<1> QED
  BY <1>1, <1>2, FS_AddElement, FS_RemoveElement

LEMMA SaveKeeps ==
  ASSUME ContextsInv, NEW k \in Keys, NEW data \in Pointers, XSaveContext(k, data)
  PROVE  ContextsInv'
<1> DEFINE h == ContextHash(k)
           i == Where(k)
           e == [key |-> k, data |-> data]
           old == [key |-> k, data |-> saved[k]]
<1>1. /\ h \in DOMAIN table
      /\ i = 0 => saved[k] = NoPointer /\ \A x \in EntriesOf(table) : x.key # k
      /\ i # 0 => saved[k] # NoPointer /\ i \in DOMAIN table[h] /\ table[h][i] = old
  BY WhereIs
<1>2. /\ Filed(table) /\ EntriesOf(table) = SavedEntries
      /\ saved \in [Keys -> Pointers \cup {NoPointer}]
      /\ IsFiniteSet(SavedEntries) /\ numentries = Cardinality(SavedEntries)
  BY DEF ContextsInv
<1>3. e \in Entry /\ e.key = k
  BY DEF Entry
<1>4. /\ saved' \in [Keys -> Pointers \cup {NoPointer}]
      /\ SavedEntries' = (SavedEntries \ {old}) \cup {e}
  <2>1. saved' = [saved EXCEPT ![k] = data]
    BY DEF XSaveContext
  <2>2. data # NoPointer
    BY ContextsAssumption
  <2> QED
    BY <1>2, <2>1, <2>2, SavedEntriesBut
<1>5. CASE i # 0
  <2> DEFINE c == [table[h] EXCEPT ![i] = e]
  <2>1. numentries' = numentries /\ table' = [table EXCEPT ![h][i].data = data]
    BY <1>5 DEF XSaveContext
  <2>2. [old EXCEPT !.data = data] = e
    OBVIOUS
  <2>3. table' = [table EXCEPT ![h] = c]
    <3> HIDE DEF e, old, h, i
    <3>1. table' = [table EXCEPT ![h] = [table[h] EXCEPT ![i] = [table[h][i] EXCEPT !.data = data]]]
      BY <2>1, Zenon
    <3>2. [table[h][i] EXCEPT !.data = data] = e
      BY <1>1, <1>5, <2>2
    <3> QED
      BY <3>1, <3>2
  <2>4. table[h] \in Seq(Entry) /\ Ordered(table[h], Differ) /\ InPlace(table[h], h, Len(table))
        /\ ToSet(table[h]) \subseteq EntriesOf(table)
    BY <1>1, <1>2, ChainsAre DEF Filed, EntriesOf
  <2>5. c \in Seq(Entry) /\ Ordered(c, Differ) /\ ToSet(c) = (ToSet(table[h]) \ {old}) \cup {e}
    <3>1. e.key = table[h][i].key
      BY <1>1, <1>5
    <3>2. i \in DOMAIN table[h] /\ table[h][i] = old
      BY <1>1, <1>5
    <3> HIDE DEF e, old, h, i
    <3> QED
      BY <1>3, <2>4, <3>1, <3>2, ReplaceOne
  <2>6. InPlace(c, h, Len(table))
    BY <1>3, <2>4, <2>5 DEF InPlace, ContextHash
  <2> HIDE DEF c, h
  <2>7. /\ Filed(table')
        /\ EntriesOf(table') = (EntriesOf(table) \ ToSet(table[h])) \cup ToSet(c)
    <3>1. /\ Filed([table EXCEPT ![h] = c])
          /\ EntriesOf([table EXCEPT ![h] = c]) = (EntriesOf(table) \ ToSet(table[h])) \cup ToSet(c)
      <4> HIDE DEF e, old, i
      <4> QED
        BY <1>1, <1>2, <2>5, <2>6, FiledChange
    <3> QED
      BY <2>3, <3>1, Zenon
  <2>8. old \in ToSet(table[h]) /\ (e # old => e \notin SavedEntries)
    <3>1. old \in ToSet(table[h])
      BY <1>1, <1>5 DEF ToSet
    <3>2. \A x \in SavedEntries : x.key = k => x = old
      BY DEF SavedEntries
    <3> QED
      BY <1>3, <3>1, <3>2
  <2>9. EntriesOf(table') = SavedEntries'
    <3>1. ToSet(c) = (ToSet(table[h]) \ {old}) \cup {e}
      BY <2>5
    <3> HIDE DEF e, old
    <3> QED
      BY <1>2, <1>4, <2>4, <2>7, <2>8, <3>1
  <2>10. IsFiniteSet(SavedEntries') /\ Cardinality(SavedEntries') = Cardinality(SavedEntries)
    <3>1. CASE e = old
      <4> HIDE DEF e, old
      <4>1. SavedEntries' = SavedEntries
        BY <1>2, <1>4, <2>4, <2>8, <3>1
      <4> QED
        BY <1>2, <4>1
    <3>2. CASE e # old
      <4> HIDE DEF e, old
      <4>1. e \notin SavedEntries \ {old} /\ old \in SavedEntries
        BY <1>2, <2>4, <2>8, <3>2
      <4>2. IsFiniteSet(SavedEntries \ {old}) /\ Cardinality(SavedEntries \ {old}) = numentries - 1
        BY <4>1, CountIs
      <4>3. /\ IsFiniteSet((SavedEntries \ {old}) \cup {e})
            /\ Cardinality((SavedEntries \ {old}) \cup {e}) = Cardinality(SavedEntries \ {old}) + 1
        BY <4>1, <4>2, FS_AddElement
      <4>4. numentries \in Nat
        BY CountIs
      <4> QED
        BY <1>2, <1>4, <4>2, <4>3, <4>4
    <3> QED
      BY <3>1, <3>2
  <2> QED
    BY <1>2, <1>4, <2>1, <2>7, <2>9, <2>10 DEF ContextsInv
<1>6. CASE i = 0
  <2> DEFINE new == [table EXCEPT ![h] = <<e>> \o @]
             n == numentries + 1
  <2>1. numentries' = n /\ table' = IF n > 4 * Mask THEN ResizeTable(new, n) ELSE new
    BY <1>6 DEF XSaveContext
  <2>2. Filed(new) /\ EntriesOf(new) = EntriesOf(table) \cup {e}
    <3>1. h = HashTo(e.key, Len(table))
      BY DEF ContextHash
    <3>2. \A x \in EntriesOf(table) : x.key # e.key
      BY <1>1, <1>6
    <3> HIDE DEF h, e
    <3> QED
      BY <1>2, <1>3, <3>1, <3>2, FiledPut
  <2>3. n \in Nat
    BY CountIs
  <2> HIDE DEF new, n
  <2>4. Filed(table') /\ EntriesOf(table') = EntriesOf(new)
    BY <2>1, <2>2, <2>3, ResizeIs
  <2>5. e \notin SavedEntries /\ old \notin SavedEntries
    BY <1>1, <1>2, <1>6
  <2>6. SavedEntries' = SavedEntries \cup {e}
    BY <1>4, <2>5
  <2>7. IsFiniteSet(SavedEntries') /\ Cardinality(SavedEntries') = n
    BY <2>5, <2>6, CountIs DEF n
  <2> QED
    BY <1>2, <1>4, <2>1, <2>2, <2>4, <2>6, <2>7 DEF ContextsInv
<1> QED
  BY <1>5, <1>6

LEMMA DeleteKeeps ==
  ASSUME ContextsInv, NEW k \in Keys, XDeleteContext(k)
  PROVE  ContextsInv'
<1> DEFINE h == ContextHash(k)
           i == Where(k)
           old == [key |-> k, data |-> saved[k]]
           c == RemoveAt(table[h], i)
           new == [table EXCEPT ![h] = RemoveAt(@, i)]
           n == numentries - 1
<1>1. i # 0 /\ saved' = [saved EXCEPT ![k] = NoPointer] /\ numentries' = n
      /\ table' = IF n < Mask /\ Mask > INITHASHMASK THEN ResizeTable(new, n) ELSE new
  BY DEF XDeleteContext
<1>2. h \in DOMAIN table /\ saved[k] # NoPointer /\ i \in DOMAIN table[h] /\ table[h][i] = old
  BY <1>1, WhereIs
<1>3. /\ Filed(table) /\ EntriesOf(table) = SavedEntries
      /\ saved \in [Keys -> Pointers \cup {NoPointer}]
  BY DEF ContextsInv
<1>4. /\ saved' \in [Keys -> Pointers \cup {NoPointer}]
      /\ SavedEntries' = SavedEntries \ {old}
  BY <1>1, <1>3, SavedEntriesBut
<1>5. table[h] \in Seq(Entry) /\ Ordered(table[h], Differ) /\ InPlace(table[h], h, Len(table))
      /\ ToSet(table[h]) \subseteq EntriesOf(table)
  BY <1>2, <1>3, ChainsAre DEF Filed, EntriesOf
<1>6. c \in Seq(Entry) /\ Ordered(c, Differ) /\ ToSet(c) = ToSet(table[h]) \ {old}
  <2> HIDE DEF h, i, old
  <2> QED
    BY <1>2, <1>5, RemoveOne
<1>7. InPlace(c, h, Len(table))
  BY <1>5, <1>6 DEF InPlace
<1>8. new = [table EXCEPT ![h] = c]
  OBVIOUS
<1>9. old \in ToSet(table[h])
  BY <1>2 DEF ToSet
<1> HIDE DEF c, h, i, old, new
<1>10. Filed(new) /\ EntriesOf(new) = (EntriesOf(table) \ ToSet(table[h])) \cup ToSet(c)
  <2>1. /\ Filed([table EXCEPT ![h] = c])
        /\ EntriesOf([table EXCEPT ![h] = c]) = (EntriesOf(table) \ ToSet(table[h])) \cup ToSet(c)
    BY <1>2, <1>3, <1>6, <1>7, FiledChange
  <2> QED
    BY <1>8, <2>1, Zenon
<1>11. EntriesOf(new) = SavedEntries' /\ old \in SavedEntries
  BY <1>3, <1>4, <1>5, <1>6, <1>9, <1>10
<1>12. IsFiniteSet(SavedEntries') /\ Cardinality(SavedEntries') = n
  BY <1>4, <1>11, CountIs
<1>13. n \in Nat
  BY <1>12, FS_CardinalityType
<1> HIDE DEF n
<1>14. Filed(table') /\ EntriesOf(table') = EntriesOf(new)
  BY <1>1, <1>10, <1>13, ResizeIs
<1> QED
  BY <1>1, <1>4, <1>11, <1>12, <1>14 DEF ContextsInv

LEMMA NextKeepsContexts == ContextsInv /\ [ContextsNext]_contextVars => ContextsInv'
<1> SUFFICES ASSUME ContextsInv, [ContextsNext]_contextVars
             PROVE  ContextsInv'
  OBVIOUS
<1>1. CASE \E k \in Keys, data \in Pointers : XSaveContext(k, data)
  BY <1>1, SaveKeeps
<1>2. CASE \E k \in Keys : XDeleteContext(k)
  BY <1>2, DeleteKeeps
<1>3. CASE UNCHANGED contextVars
  BY <1>3 DEF contextVars, ContextsInv, SavedEntries
<1> QED
  BY <1>1, <1>2, <1>3 DEF ContextsNext

LEMMA ContextsAgree == ContextsInv => FindsWhatWasSaved
<1> SUFFICES ASSUME ContextsInv
             PROVE  FindsWhatWasSaved
  OBVIOUS
<1>1. \A k \in Keys : XFindContext(k) = saved[k]
  <2> SUFFICES ASSUME NEW k \in Keys
               PROVE  XFindContext(k) = saved[k]
    OBVIOUS
  <2> DEFINE h == ContextHash(k)
             i == Where(k)
  <2>1. /\ i = 0 => saved[k] = NoPointer
        /\ i # 0 => table[h][i] = [key |-> k, data |-> saved[k]]
    BY WhereIs
  <2>2. XFindContext(k) = IF i = 0 THEN NoPointer ELSE table[h][i].data
    BY DEF XFindContext
  <2> HIDE DEF h, i
  <2> QED
    BY <2>1, <2>2
<1>2. numentries = Len(FlattenSeq(table))
  <2> DEFINE all == FlattenSeq(table)
  <2>1. Filed(table) /\ EntriesOf(table) = SavedEntries /\ numentries = Cardinality(SavedEntries)
    BY DEF ContextsInv
  <2>2. all \in Seq(Entry) /\ ToSet(all) = SavedEntries /\ Ordered(all, Differ)
    BY <2>1, FlatIs
  <2> HIDE DEF all
  <2>3. \A i, j \in DOMAIN all : all[i] = all[j] => i = j
    BY <2>2, DifferIs
  <2>4. Cardinality(ToSet(all)) = Len(all)
    BY <2>2, <2>3, LenIs
  <2> QED
    BY <2>1, <2>2, <2>4 DEF all
<1> QED
  BY <1>1, <1>2 DEF FindsWhatWasSaved

(* What XSaveContext was given last is found by XFindContext until         *)
(* XDeleteContext, for any keys and pointers, whatever sizes the table has *)
(* gone through (Context.c:105).                                           *)
THEOREM ContextsAreFound == ContextsSpec => []FindsWhatWasSaved
<1>1. ContextsInv /\ [ContextsNext]_contextVars => ContextsInv'
  BY NextKeepsContexts
<1> QED
  BY <1>1, InitKeepsContexts, ContextsAgree, PTL DEF ContextsSpec

(* Neither the entries of a context table nor the databases of the program *)
(* are lost to what the library keeps for itself (Context.c:105,           *)
(* Xrm.c:353): a call of one kind leaves the other's state alone.          *)
THEOREM OwnEntriesAlwaysStay == ContextsSpec /\ DefaultsSpec => []OwnEntriesStay
<1>1. FindsWhatWasSaved /\ OwnDatabasesStay => OwnEntriesStay
  BY DEF OwnEntriesStay
<1> QED
  BY <1>1, ContextsAreFound, ProgramsKeepTheirs, PTL

-----------------------------------------------------------------------------
(* The bitmap that images go through is as large as the largest so far.    *)
DrawingInv ==
  /\ scratch \in [width : Int, height : Int]
  /\ ImagesAreShown

LEMMA NextKeepsDrawing == DrawingInv /\ [DrawingNext]_drawingVars => DrawingInv'
<1> SUFFICES ASSUME DrawingInv, [DrawingNext]_drawingVars
             PROVE  DrawingInv'
  OBVIOUS
<1> USE DEF DrawingInv
<1>1. ASSUME NEW image \in Sizes_, NEW size \in Sizes_, NEW from \in Offsets,
             from[1] + size.width <= image.width, from[2] + size.height <= image.height,
             XPutImage(image, from, size)
      PROVE  DrawingInv'
  <2>1. /\ image.width \in Int /\ image.height \in Int
        /\ size.width \in Int /\ size.height \in Int
        /\ from[1] \in Int /\ from[2] \in Int
    <3>1. image.width \in PutSizes /\ image.height \in PutSizes /\ size.width \in PutSizes /\ size.height \in PutSizes
      BY DEF Sizes_
    <3>2. \A n \in PutSizes : n \in Int
      BY PutSizesAssumption
    <3>3. from[1] \in 0 .. 1 /\ from[2] \in 0 .. 1
      BY DEF Offsets
    <3> QED
      BY <3>1, <3>2, <3>3
  <2>2. /\ scratch' \in [width : Int, height : Int]
        /\ size.width - 1 <= scratch'.width /\ size.height - 1 <= scratch'.height
    <3>1. CASE scratch.width < size.width - 1 \/ scratch.height < size.height - 1
      <4>1. scratch' = [width |-> Larger(scratch.width, size.width - 1),
                        height |-> Larger(scratch.height, size.height - 1)]
        BY <1>1, <3>1 DEF XPutImage
      <4> QED
        BY <2>1, <4>1 DEF Larger
    <3>2. CASE ~(scratch.width < size.width - 1 \/ scratch.height < size.height - 1)
      <4>1. scratch' = scratch
        BY <1>1, <3>2 DEF XPutImage
      <4> QED
        BY <2>1, <3>2, <4>1
    <3> QED
      BY <3>1, <3>2
  <2>3. ASSUME NEW p \in Missing(image, from, size)
        PROVE  p[1] >= size.width - from[1] \/ p[2] >= size.height - from[2]
    <3>1. p[1] \in 0 .. size.width - 1 /\ p[2] \in 0 .. size.height - 1
      BY DEF Missing
    <3>2. \/ p[1] + from[1] >= image.width \/ p[2] + from[2] >= image.height
          \/ p[1] + from[1] > scratch'.width \/ p[2] + from[2] > scratch'.height
      BY DEF Missing, Plus
    <3> QED
      BY <1>1, <2>1, <2>2, <3>1, <3>2
  <2>4. lastPut' = [from |-> from, size |-> size, missing |-> Missing(image, from, size)]
    BY <1>1 DEF XPutImage
  <2>5. ImagesAreShown'
    BY <2>3, <2>4 DEF ImagesAreShown
  <2> QED
    BY <2>2, <2>5
<1>2. CASE UNCHANGED drawingVars
  BY <1>2 DEF drawingVars, ImagesAreShown
<1> QED
  BY <1>1, <1>2 DEF DrawingNext

(* An image of any size that is put from its corner is shown whole, after  *)
(* whatever others have gone through the bitmap of the drawable; of a part *)
(* from elsewhere no more is missing than its offset, at its far edges     *)
(* (Drawing.cpp:384-416).                                                  *)
THEOREM ImagesAlwaysShown == DrawingSpec => []ImagesAreShown
<1>1. DrawingInit => DrawingInv
  BY DEF DrawingInit, NoImage, DrawingInv, ImagesAreShown
<1>2. DrawingInv => ImagesAreShown
  BY DEF DrawingInv
<1> QED
  BY <1>1, <1>2, NextKeepsDrawing, PTL DEF DrawingSpec

-----------------------------------------------------------------------------
(* Coordinates.  The numbers are those of sixteen bits.                    *)
(* What sixteen bits hold.                                                 *)
LEMMA CoordinateIs == ASSUME NEW n PROVE n \in Coordinate <=> n \in Int /\ -32768 <= n /\ n <= 32767
<1>1. 2 ^ 15 = 32768
  OBVIOUS
<1> QED
  BY <1>1 DEF Coordinate

(* What fits sixteen bits comes back from them.                            *)
LEMMA ShortIs == ASSUME NEW n \in Coordinate PROVE Short(n) = n /\ n \in Int
<1>1. 2 ^ 15 = 32768 /\ 2 ^ 16 = 65536
  OBVIOUS
<1>2. n \in Int /\ n >= -32768 /\ n <= 32767
  BY CoordinateIs
<1>3. Short(n) = ((n + 32768) % 65536) - 32768
  BY <1>1 DEF Short
<1>4. ((n + 32768) % 65536) - 32768 = n
  BY <1>2
<1> QED
  BY <1>2, <1>3, <1>4

(* A rectangle that fits sixteen bits is made as it is.                    *)
LEMMA RectIs ==
  ASSUME NEW x \in Coordinate, NEW y \in Coordinate,
         NEW w \in 0 .. 2 ^ 16 - 1, NEW h \in 0 .. 2 ^ 16 - 1
  PROVE  make_xrect(x, y, w, h) = [x |-> x, y |-> y, width |-> w, height |-> h]
<1>1. 2 ^ 16 = 65536
  OBVIOUS
<1>2. w \in Nat /\ w < 65536 /\ h \in Nat /\ h < 65536
  BY <1>1
<1>3. w % 65536 = w /\ h % 65536 = h
  BY <1>2
<1> QED
  BY <1>1, <1>3, ShortIs DEF make_xrect

(* A rectangle of the view's edges within sixteen bits comes back from the *)
(* one of a place and a size.                                              *)
LEMMA XrectIs ==
  ASSUME NEW left \in Coordinate, NEW top \in Coordinate,
         NEW right \in Int, NEW bottom \in Int,
         left <= right, top <= bottom, right - left + 1 < 2 ^ 16, bottom - top + 1 < 2 ^ 16
  PROVE  LET b == [left |-> left, top |-> top, right |-> right, bottom |-> bottom]
         IN  /\ Xrect(b) = [x |-> left, y |-> top, width |-> right - left + 1, height |-> bottom - top + 1]
             /\ Brect(Xrect(b)) = b
<1> DEFINE b == [left |-> left, top |-> top, right |-> right, bottom |-> bottom]
<1>1. left \in Int /\ top \in Int /\ 2 ^ 16 = 65536
  BY ShortIs
<1>2. right - left + 1 \in 0 .. 2 ^ 16 - 1 /\ bottom - top + 1 \in 0 .. 2 ^ 16 - 1
  BY <1>1
<1>3. Xrect(b) = make_xrect(left, top, right - left + 1, bottom - top + 1)
  BY DEF Xrect
<1>4. Xrect(b) = [x |-> left, y |-> top, width |-> right - left + 1, height |-> bottom - top + 1]
  BY <1>2, <1>3, RectIs
<1>5. left + (right - left + 1) - 1 = right /\ top + (bottom - top + 1) - 1 = bottom
  BY <1>1
<1>6. Brect(Xrect(b)) = b
  BY <1>4, <1>5 DEF Brect
<1> QED
  BY <1>4, <1>6

(* What is drawn after an item is where the items before it end; and a     *)
(* line's background ends where that of the next begins.                   *)
LEMMA TextIs == TextsFollow
<1> SUFFICES ASSUME NEW a \in {-1, 0, 7, 40}, NEW b \in {-1, 0, 7, 40}, NEW d \in {-1, 0, 7, 40}
             PROVE  LET Item(width, delta) == [width |-> width, delta |-> delta]
                        apart == XDrawText(<<Item(a, 0), Item(b, d), Item(1, 0)>>)
                        joint == XDrawText(<<Item(a + b, d), Item(1, 0)>>)
                    IN  /\ apart[3] = joint[2]
                        /\ Background(a, b, 5, 11, 4).bottom + 1 = Background(a, b + 15, 5, 11, 4).top
  BY DEF TextsFollow
<1> DEFINE Item(width, delta) == [width |-> width, delta |-> delta]
           three == <<Item(a, 0), Item(b, d), Item(1, 0)>>
           two == <<Item(a + b, d), Item(1, 0)>>
<1>0. a \in Int /\ b \in Int /\ d \in Int
  OBVIOUS
<1>1. XDrawText(three)[3] = a + b + d
  <2> DEFINE x[i \in DOMAIN three] ==
               IF i = 1 THEN 0 ELSE x[i - 1] + three[i - 1].width + three[i - 1].delta
             f == [i \in DOMAIN three |-> IF i = 1 THEN 0 ELSE IF i = 2 THEN a ELSE a + b + d]
  <2>1. /\ DOMAIN three = {1, 2, 3}
        /\ three[1].width = a /\ three[1].delta = 0 /\ three[2].width = b /\ three[2].delta = d
    OBVIOUS
  <2> HIDE DEF three
  <2>2. f = [i \in DOMAIN three |->
               IF i = 1 THEN 0 ELSE f[i - 1] + three[i - 1].width + three[i - 1].delta]
    <3>1. f[1] = 0 /\ f[2] = a /\ f[3] = a + b + d
      BY <2>1
    <3>2. f[2] = f[2 - 1] + three[2 - 1].width + three[2 - 1].delta
      BY <1>0, <2>1, <3>1
    <3>3. f[3] = f[3 - 1] + three[3 - 1].width + three[3 - 1].delta
      BY <1>0, <2>1, <3>1
    <3>4. \A i \in DOMAIN three : f[i] =
               IF i = 1 THEN 0 ELSE f[i - 1] + three[i - 1].width + three[i - 1].delta
      <4> HIDE DEF f
      <4> QED
        BY <2>1, <3>1, <3>2, <3>3
    <3> DEFINE g == [i \in DOMAIN three |->
               IF i = 1 THEN 0 ELSE f[i - 1] + three[i - 1].width + three[i - 1].delta]
    <3>5. DOMAIN f = DOMAIN three /\ f = [i \in DOMAIN three |-> f[i]]
      OBVIOUS
    <3> HIDE DEF f
    <3> QED
      BY <3>4, <3>5
  <2>3. x = [i \in DOMAIN three |->
               IF i = 1 THEN 0 ELSE x[i - 1] + three[i - 1].width + three[i - 1].delta]
    <3> HIDE DEF f
    <3> QED
      BY <2>2
  <2>4. XDrawText(three) = x
    BY DEF XDrawText
  <2> HIDE DEF x
  <2>5. x[1] = 0
    BY <2>1, <2>3
  <2>6. x[2] = a
    <3>1. x[2] = x[2 - 1] + three[2 - 1].width + three[2 - 1].delta
      BY <2>1, <2>3
    <3> QED
      BY <1>0, <2>1, <2>5, <3>1
  <2>7. x[3] = a + b + d
    <3>1. x[3] = x[3 - 1] + three[3 - 1].width + three[3 - 1].delta
      BY <2>1, <2>3
    <3> QED
      BY <1>0, <2>1, <2>6, <3>1
  <2> QED
    BY <2>4, <2>7
<1>2. XDrawText(two)[2] = a + b + d
  <2> DEFINE x[i \in DOMAIN two] ==
               IF i = 1 THEN 0 ELSE x[i - 1] + two[i - 1].width + two[i - 1].delta
             f == [i \in DOMAIN two |-> IF i = 1 THEN 0 ELSE a + b + d]
  <2>1. DOMAIN two = {1, 2} /\ two[1].width = a + b /\ two[1].delta = d
    OBVIOUS
  <2> HIDE DEF two
  <2>2. f = [i \in DOMAIN two |->
               IF i = 1 THEN 0 ELSE f[i - 1] + two[i - 1].width + two[i - 1].delta]
    <3>1. f[1] = 0 /\ f[2] = a + b + d
      BY <2>1
    <3>2. f[2] = f[2 - 1] + two[2 - 1].width + two[2 - 1].delta
      BY <1>0, <2>1, <3>1
    <3>4. \A i \in DOMAIN two : f[i] =
               IF i = 1 THEN 0 ELSE f[i - 1] + two[i - 1].width + two[i - 1].delta
      <4> HIDE DEF f
      <4> QED
        BY <2>1, <3>1, <3>2
    <3>5. DOMAIN f = DOMAIN two /\ f = [i \in DOMAIN two |-> f[i]]
      OBVIOUS
    <3> HIDE DEF f
    <3> QED
      BY <3>4, <3>5
  <2>3. x = [i \in DOMAIN two |->
               IF i = 1 THEN 0 ELSE x[i - 1] + two[i - 1].width + two[i - 1].delta]
    <3> HIDE DEF f
    <3> QED
      BY <2>2
  <2>4. XDrawText(two) = x
    BY DEF XDrawText
  <2> HIDE DEF x
  <2>5. x[1] = 0
    BY <2>1, <2>3
  <2>6. x[2] = a + b + d
    <3>1. x[2] = x[2 - 1] + two[2 - 1].width + two[2 - 1].delta
      BY <2>1, <2>3
    <3> QED
      BY <1>0, <2>1, <2>5, <3>1
  <2> QED
    BY <2>4, <2>6
<1>3. Background(a, b, 5, 11, 4).bottom + 1 = Background(a, b + 15, 5, 11, 4).top
  <2>1. 2 ^ 15 = 32768 /\ 2 ^ 16 = 65536
    OBVIOUS
  <2>2. b - 11 \in Coordinate /\ (b + 15) - 11 \in Coordinate
    BY <2>1 DEF Coordinate
  <2>3. 15 % 65536 = 15
    OBVIOUS
  <2>4. Background(a, b, 5, 11, 4).bottom = (b - 11) + 15 - 1
    BY <2>1, <2>2, <2>3, ShortIs DEF Background, Brect, make_xrect
  <2>5. Background(a, b + 15, 5, 11, 4).top = (b + 15) - 11
    BY <2>2, ShortIs DEF Background, Brect, make_xrect
  <2> QED
    BY <1>0, <2>4, <2>5
<1> QED
  BY <1>1, <1>2, <1>3

(* Rectangles to copy to fit sixteen bits, and without a border too.       *)
LEMMA CopyRectIs ==
  ASSUME NEW r \in CopyRects
  PROVE  /\ r.x \in Int /\ r.y \in Int /\ r.width \in Int /\ r.height \in Int
         /\ 1 <= r.width /\ r.width < 65536 /\ 1 <= r.height /\ r.height < 65536
         /\ \A b \in 0 .. 2 : /\ r.x - b \in Coordinate /\ r.y - b \in Coordinate
                              /\ r.x + r.width - 1 - b \in Coordinate
                              /\ r.y + r.height - 1 - b \in Coordinate
<1>1. 2 ^ 16 = 65536
  OBVIOUS
<1>2. r \in [x : Coordinate, y : Coordinate, width : 1 .. 2 ^ 16 - 1, height : 1 .. 2 ^ 16 - 1]
  BY DrawingAssumption
<1>3. /\ r.x \in Coordinate /\ r.y \in Coordinate
      /\ r.width \in 1 .. 2 ^ 16 - 1 /\ r.height \in 1 .. 2 ^ 16 - 1
  BY <1>2
<1>4. /\ r.x \in Int /\ r.y \in Int /\ r.width \in Int /\ r.height \in Int
      /\ 1 <= r.width /\ r.width < 65536 /\ 1 <= r.height /\ r.height < 65536
  BY <1>1, <1>3, CoordinateIs
<1>5. /\ r.x - 2 \in Coordinate /\ r.y - 2 \in Coordinate
      /\ r.x + r.width - 1 \in Coordinate /\ r.y + r.height - 1 \in Coordinate
  <2>1. {r.x - 2, r.y - 2, r.x + r.width - 1, r.y + r.height - 1} \subseteq Coordinate
    BY DrawingAssumption
  <2> QED
    BY <2>1
<1>6. ASSUME NEW b \in 0 .. 2
      PROVE  /\ r.x - b \in Coordinate /\ r.y - b \in Coordinate
             /\ r.x + r.width - 1 - b \in Coordinate
             /\ r.y + r.height - 1 - b \in Coordinate
  BY <1>3, <1>4, <1>5, CoordinateIs
<1> QED
  BY <1>4, <1>6

(* What is to be drawn is exposed once, at the place of the window that    *)
(* the view has it, and can be filled in two parts.                        *)
LEMMA ExposedIs == ExposedOnce
<1> SUFFICES ASSUME NEW r \in CopyRects, NEW border \in 0 .. 2, NEW on \in BOOLEAN, NEW cut \in 1 .. 3
             PROVE  LET events == Draw(Brect(r), border, {"ExposureMask"}, on)
                                  \o DrawAfterChildren(Brect(r), border, {"ExposureMask"}, on)
                        e == events[1].area
                        left == Inside(XFillRectangle(e.x, e.y, cut, e.height))
                        right == Inside(XFillRectangle(e.x + cut, e.y, e.width - cut, e.height))
                    IN  /\ Len(events) = 1
                        /\ {<<p[1] + border, p[2] + border>> : p \in Inside(Brect(e))} = Inside(Brect(r))
                        /\ cut < e.width => left \cup right = Inside(Brect(e)) /\ left \cap right = {}
  BY DEF ExposedOnce
<1> DEFINE events == Draw(Brect(r), border, {"ExposureMask"}, on)
                     \o DrawAfterChildren(Brect(r), border, {"ExposureMask"}, on)
           to == [left |-> r.x - border, top |-> r.y - border,
                  right |-> r.x + r.width - 1 - border, bottom |-> r.y + r.height - 1 - border]
           e == [x |-> r.x - border, y |-> r.y - border, width |-> r.width, height |-> r.height]
           one == [type |-> "Expose", count |-> 0, area |-> e]
           left == Inside(XFillRectangle(e.x, e.y, cut, e.height))
           right == Inside(XFillRectangle(e.x + cut, e.y, e.width - cut, e.height))
<1>0. 2 ^ 15 = 32768 /\ 2 ^ 16 = 65536 /\ border \in Int /\ cut \in Int
  OBVIOUS
<1>1. /\ r.x \in Int /\ r.y \in Int /\ r.width \in Int /\ r.height \in Int
      /\ 1 <= r.width /\ r.width < 65536 /\ 1 <= r.height /\ r.height < 65536
      /\ r.x - border \in Coordinate /\ r.y - border \in Coordinate
      /\ r.x + r.width - 1 - border \in Coordinate
  BY CopyRectIs
<1>2. Expose(Brect(r), border, {"ExposureMask"}) = <<one>>
  <2>1. Xrect(to) = e
    <3>1. /\ (r.x + r.width - 1 - border) - (r.x - border) + 1 = r.width
          /\ (r.y + r.height - 1 - border) - (r.y - border) + 1 = r.height
          /\ r.x - border <= r.x + r.width - 1 - border
          /\ r.y - border <= r.y + r.height - 1 - border
      BY <1>0, <1>1
    <3>2. Xrect(to) = [x |-> r.x - border, y |-> r.y - border,
                       width |-> (r.x + r.width - 1 - border) - (r.x - border) + 1,
                       height |-> (r.y + r.height - 1 - border) - (r.y - border) + 1]
      BY <1>0, <1>1, <3>1, XrectIs
    <3> QED
      BY <3>1, <3>2
  <2>2. ~(Brect(r).right < Brect(r).left) /\ ~(Brect(r).bottom < Brect(r).top)
    BY <1>1 DEF Brect
  <2>3. to = [left |-> Brect(r).left - border, top |-> Brect(r).top - border,
              right |-> Brect(r).right - border, bottom |-> Brect(r).bottom - border]
    <3>1. /\ Brect(r).left = r.x /\ Brect(r).top = r.y
          /\ Brect(r).right = r.x + r.width - 1 /\ Brect(r).bottom = r.y + r.height - 1
      BY DEF Brect
    <3> HIDE DEF events
    <3>2. /\ Brect(r).left - border = r.x - border /\ Brect(r).top - border = r.y - border
          /\ Brect(r).right - border = r.x + r.width - 1 - border
          /\ Brect(r).bottom - border = r.y + r.height - 1 - border
      BY <1>0, <1>1, <3>1
    <3> QED
      BY <3>2
  <2>4. Expose(Brect(r), border, {"ExposureMask"})
          = <<[type |-> "Expose", count |-> 0, area |-> Xrect(to)]>>
    <3> HIDE DEF to
    <3> QED
      BY <2>2, <2>3 DEF Expose
  <2> QED
    BY <2>1, <2>4
<1>3. events = <<one>>
  <2> HIDE DEF one
  <2>1. <<>> \o <<one>> = <<one>> /\ <<one>> \o <<>> = <<one>>
    <3>1. <<one>> \in Seq({one})
      OBVIOUS
    <3> QED
      BY <3>1, ConcatNone
  <2> QED
    BY <1>2, <2>1 DEF Draw, DrawAfterChildren
<1>4. Len(events) = 1 /\ events[1].area = e
  <2> HIDE DEF events, e
  <2> QED
    BY <1>3
<1>5. /\ Brect(r) = [left |-> r.x, top |-> r.y, right |-> r.x + r.width - 1, bottom |-> r.y + r.height - 1]
      /\ Brect(e) = [left |-> r.x - border, top |-> r.y - border,
                     right |-> r.x - border + r.width - 1, bottom |-> r.y - border + r.height - 1]
  BY DEF Brect
<1>6. Inside(Brect(e)) = (r.x - border .. r.x - border + r.width - 1)
                         \X (r.y - border .. r.y - border + r.height - 1)
  BY <1>5 DEF Inside
<1>7. {<<p[1] + border, p[2] + border>> : p \in Inside(Brect(e))} = Inside(Brect(r))
  <2> DEFINE moved == {<<p[1] + border, p[2] + border>> : p \in Inside(Brect(e))}
  <2>1. Inside(Brect(r)) = (r.x .. r.x + r.width - 1) \X (r.y .. r.y + r.height - 1)
    BY <1>5 DEF Inside
  <2>2. ASSUME NEW q \in moved
        PROVE  q \in Inside(Brect(r))
    <3>1. PICK p \in Inside(Brect(e)) : q = <<p[1] + border, p[2] + border>>
      OBVIOUS
    <3>2. /\ p[1] \in r.x - border .. r.x - border + r.width - 1
          /\ p[2] \in r.y - border .. r.y - border + r.height - 1
      BY <1>6
    <3>3. /\ p[1] + border \in r.x .. r.x + r.width - 1
          /\ p[2] + border \in r.y .. r.y + r.height - 1
      BY <1>0, <1>1, <3>2
    <3> QED
      BY <2>1, <3>1, <3>3
  <2>3. ASSUME NEW q \in Inside(Brect(r))
        PROVE  q \in moved
    <3>1. PICK x \in r.x .. r.x + r.width - 1, y \in r.y .. r.y + r.height - 1 : q = <<x, y>>
      BY <2>1
    <3> DEFINE p == <<x - border, y - border>>
    <3>2. /\ x - border \in r.x - border .. r.x - border + r.width - 1
          /\ y - border \in r.y - border .. r.y - border + r.height - 1
      BY <1>0, <1>1
    <3>3. p \in Inside(Brect(e))
      BY <1>6, <3>2
    <3>4. (x - border) + border = x /\ (y - border) + border = y
      BY <1>0, <1>1
    <3>5. q = <<p[1] + border, p[2] + border>>
      BY <3>1, <3>4
    <3> HIDE DEF p
    <3> QED
      BY <3>3, <3>5
  <2> QED
    BY <2>2, <2>3
<1>8. cut < e.width => left \cup right = Inside(Brect(e)) /\ left \cap right = {}
  <2> SUFFICES ASSUME cut < r.width
               PROVE  left \cup right = Inside(Brect(e)) /\ left \cap right = {}
    OBVIOUS
  <2> DEFINE x == r.x - border
             y == r.y - border
  <2>1. x + cut \in Coordinate
    <3>1. x \in Coordinate /\ x + r.width - 1 \in Coordinate
      <4>1. r.x + r.width - 1 - border = x + r.width - 1
        BY <1>0, <1>1
      <4> QED
        BY <1>1, <4>1
    <3> HIDE DEF x, to, e
    <3> QED
      BY <1>0, <1>1, <3>1, CoordinateIs
  <2>2. /\ r.height \in 0 .. 2 ^ 16 - 1 /\ cut \in 0 .. 2 ^ 16 - 1
        /\ r.width - cut \in 0 .. 2 ^ 16 - 1
    BY <1>0, <1>1
  <2>3. /\ make_xrect(x, y, cut, r.height) = [x |-> x, y |-> y, width |-> cut, height |-> r.height]
        /\ make_xrect(x + cut, y, r.width - cut, r.height)
             = [x |-> x + cut, y |-> y, width |-> r.width - cut, height |-> r.height]
    <3>1. x \in Coordinate /\ y \in Coordinate
      BY <1>1
    <3> HIDE DEF x, y, e, left, right, to
    <3>2. make_xrect(x, y, cut, r.height) = [x |-> x, y |-> y, width |-> cut, height |-> r.height]
      BY <2>2, <3>1, RectIs
    <3>3. make_xrect(x + cut, y, r.width - cut, r.height)
            = [x |-> x + cut, y |-> y, width |-> r.width - cut, height |-> r.height]
      BY <2>1, <2>2, <3>1, RectIs
    <3> QED
      BY <3>2, <3>3, Zenon
  <2>4. left = (x .. x + cut - 1) \X (y .. y + r.height - 1)
    BY <2>3 DEF XFillRectangle, Brect, Inside
  <2>5. right = (x + cut .. x + cut + (r.width - cut) - 1) \X (y .. y + r.height - 1)
    BY <2>3 DEF XFillRectangle, Brect, Inside
  <2>6. x \in Int /\ Inside(Brect(e)) = (x .. x + r.width - 1) \X (y .. y + r.height - 1)
    BY <1>0, <1>1, <1>6
  <2> HIDE DEF x, y, left, right, e
  <2>7. /\ (x .. x + cut - 1) \cup (x + cut .. x + cut + (r.width - cut) - 1) = x .. x + r.width - 1
        /\ (x .. x + cut - 1) \cap (x + cut .. x + cut + (r.width - cut) - 1) = {}
    BY <1>0, <1>1, <2>6
  <2> QED
    BY <2>4, <2>5, <2>6, <2>7
<1>9. /\ Len(events) = 1
      /\ {<<p[1] + border, p[2] + border>> : p \in Inside(Brect(events[1].area))} = Inside(Brect(r))
      /\ cut < events[1].area.width =>
           LET l == Inside(XFillRectangle(events[1].area.x, events[1].area.y, cut, events[1].area.height))
               rr == Inside(XFillRectangle(events[1].area.x + cut, events[1].area.y,
                                           events[1].area.width - cut, events[1].area.height))
           IN  l \cup rr = Inside(Brect(events[1].area)) /\ l \cap rr = {}
  <2> HIDE DEF events, e
  <2>1. events[1].area = e
    BY <1>4
  <2> QED
    BY <1>4, <1>7, <1>8, <2>1
<1> QED
  BY <1>9

-----------------------------------------------------------------------------
(* Exposures.  A region is listed by its rows.                             *)
(* The points of a row that are in a set, from one of them on, end.        *)
LEMMA RowEnds ==
  ASSUME NEW points \in SUBSET (Int \X Int), IsFiniteSet(points), NEW p \in points
  PROVE  \E n \in 1 .. Cardinality(points) :
           /\ \A i \in 0 .. n - 1 : <<p[1] + i, p[2]>> \in points
           /\ <<p[1] + n, p[2]>> \notin points
<1>1. Cardinality(points) \in Nat
  BY FS_CardinalityType
<1>2. p[1] \in Int /\ p[2] \in Int /\ p = <<p[1], p[2]>>
  OBVIOUS
<1>3. ASSUME NEW m \in Nat, \A i \in 0 .. m - 1 : <<p[1] + i, p[2]>> \in points
      PROVE  m <= Cardinality(points)
  <2> DEFINE f == [k \in 1 .. m |-> <<p[1] + (k - 1), p[2]>>]
  <2>1. f \in [1 .. m -> points]
    <3>1. ASSUME NEW k \in 1 .. m
          PROVE  <<p[1] + (k - 1), p[2]>> \in points
      <4>1. k - 1 \in 0 .. m - 1
        OBVIOUS
      <4> QED
        BY <1>3, <4>1
    <3> QED
      BY <3>1
  <2>2. ASSUME NEW j \in 1 .. m, NEW k \in 1 .. m, f[j] = f[k]
        PROVE  j = k
    <3>1. f[j][1] = p[1] + (j - 1) /\ f[k][1] = p[1] + (k - 1)
      OBVIOUS
    <3> HIDE DEF f
    <3> QED
      BY <1>2, <2>2, <3>1
  <2> HIDE DEF f
  <2>3. f \in Injection(1 .. m, points)
    BY <2>1, <2>2 DEF Injection, IsInjective
  <2>4. Cardinality(1 .. m) <= Cardinality(points)
    BY <2>3, FS_Injection
  <2>5. Cardinality(1 .. m) = m
    BY FS_Interval
  <2> QED
    BY <2>4, <2>5
<1> DEFINE ends == {n \in Nat : <<p[1] + n, p[2]>> \notin points}
<1>4. ends # {}
  <2>1. ~(Cardinality(points) + 1 <= Cardinality(points)) /\ Cardinality(points) + 1 \in Nat
    BY <1>1
  <2>2. PICK i \in 0 .. (Cardinality(points) + 1) - 1 : <<p[1] + i, p[2]>> \notin points
    BY <1>3, <2>1
  <2>3. i \in Nat
    BY <1>1, <2>2
  <2> QED
    BY <2>2, <2>3
<1>5. PICK n \in ends : \A m \in ends : n <= m
  <2>1. ends \subseteq Nat
    OBVIOUS
  <2> HIDE DEF ends
  <2> QED
    BY <1>4, <2>1, LeastOf
<1>6. n \in Nat /\ <<p[1] + n, p[2]>> \notin points
  OBVIOUS
<1>7. \A i \in 0 .. n - 1 : <<p[1] + i, p[2]>> \in points
  <2> SUFFICES ASSUME NEW i \in 0 .. n - 1
               PROVE  i \notin ends
    BY <1>6
  <2>1. i \in Nat /\ ~(n <= i)
    BY <1>6
  <2> HIDE DEF ends
  <2> QED
    BY <1>5, <2>1
<1>8. n # 0
  <2>1. p[1] + 0 = p[1]
    BY <1>2
  <2> QED
    BY <1>2, <1>6, <2>1
<1>9. n <= Cardinality(points)
  BY <1>3, <1>6, <1>7
<1>10. n \in 1 .. Cardinality(points)
  BY <1>1, <1>6, <1>8, <1>9
<1> QED
  BY <1>6, <1>7, <1>10

(* From each of them, there is one in the row before which none is.        *)
LEMMA RowStarts ==
  ASSUME NEW points \in SUBSET (Int \X Int), IsFiniteSet(points), NEW p \in points
  PROVE  \E m \in Nat : /\ \A i \in 0 .. m : <<p[1] - i, p[2]>> \in points
                        /\ <<p[1] - m - 1, p[2]>> \notin points
<1>1. Cardinality(points) \in Nat
  BY FS_CardinalityType
<1>2. p[1] \in Int /\ p[2] \in Int /\ p = <<p[1], p[2]>>
  OBVIOUS
<1> DEFINE mirror == {<<-q[1], q[2]>> : q \in points}
<1>3. \A x, y \in Int : <<x, y>> \in mirror <=> <<-x, y>> \in points
  <2> SUFFICES ASSUME NEW x \in Int, NEW y \in Int
               PROVE  <<x, y>> \in mirror <=> <<-x, y>> \in points
    OBVIOUS
  <2>1. ASSUME <<-x, y>> \in points
        PROVE  <<x, y>> \in mirror
    <3>1. -(-x) = x
      OBVIOUS
    <3> DEFINE q == <<-x, y>>
    <3>2. q \in points /\ <<-q[1], q[2]>> = <<x, y>>
      BY <2>1, <3>1
    <3> HIDE DEF q
    <3> QED
      BY <3>2
  <2>2. ASSUME <<x, y>> \in mirror
        PROVE  <<-x, y>> \in points
    <3>1. PICK q \in points : <<x, y>> = <<-q[1], q[2]>>
      BY <2>2
    <3>2. q[1] \in Int /\ q = <<q[1], q[2]>> /\ x = -q[1] /\ y = q[2]
      BY <3>1
    <3>3. -x = q[1]
      BY <3>2
    <3> QED
      BY <3>2, <3>3
  <2> QED
    BY <2>1, <2>2
<1>4. mirror \in SUBSET (Int \X Int) /\ IsFiniteSet(mirror)
  <2>1. \A q \in points : <<-q[1], q[2]>> \in Int \X Int
    OBVIOUS
  <2>2. mirror \in SUBSET (Int \X Int)
    BY <2>1
  <2> DEFINE f == [q \in points |-> <<-q[1], q[2]>>]
  <2>3. f \in Surjection(points, mirror)
    BY DEF Surjection
  <2> HIDE DEF f, mirror
  <2> QED
    BY <2>2, <2>3, FS_Surjection
<1> DEFINE q == <<-p[1], p[2]>>
<1>5. q \in mirror /\ q[1] = -p[1] /\ q[2] = p[2]
  OBVIOUS
<1> HIDE DEF mirror, q
<1>6. PICK n \in 1 .. Cardinality(mirror) :
        /\ \A i \in 0 .. n - 1 : <<q[1] + i, q[2]>> \in mirror
        /\ <<q[1] + n, q[2]>> \notin mirror
  BY <1>4, <1>5, RowEnds
<1>7. \A i \in Nat : <<q[1] + i, q[2]>> \in mirror <=> <<p[1] - i, p[2]>> \in points
  <2> SUFFICES ASSUME NEW i \in Nat
               PROVE  <<q[1] + i, q[2]>> \in mirror <=> <<p[1] - i, p[2]>> \in points
    OBVIOUS
  <2>1. q[1] + i \in Int /\ -(q[1] + i) = p[1] - i
    BY <1>2, <1>5
  <2> QED
    BY <1>2, <1>3, <1>5, <2>1
<1>8. n - 1 \in Nat /\ (n - 1) + 1 = n /\ n \in Nat
  OBVIOUS
<1>9. p[1] - (n - 1) - 1 = p[1] - n
  BY <1>2, <1>8
<1>10. <<p[1] - (n - 1) - 1, p[2]>> \notin points
  BY <1>6, <1>7, <1>8, <1>9
<1>11. \A i \in 0 .. n - 1 : <<p[1] - i, p[2]>> \in points
  <2> SUFFICES ASSUME NEW i \in 0 .. n - 1
               PROVE  <<p[1] - i, p[2]>> \in points
    OBVIOUS
  <2>1. i \in Nat
    BY <1>8
  <2>2. <<q[1] + i, q[2]>> \in mirror
    BY <1>6
  <2> QED
    BY <1>7, <2>1, <2>2
<1> QED
  BY <1>8, <1>10, <1>11

(* The parts of RectsOf: the points at the left of a run, and their runs.  *)
StartsOf(points) == {p \in points : <<p[1] - 1, p[2]>> \notin points}
WidthOf(points, p) == CHOOSE n \in 1 .. Cardinality(points) :
                    /\ \A i \in 0 .. n - 1 : <<p[1] + i, p[2]>> \in points
                    /\ <<p[1] + n, p[2]>> \notin points
RowOf(points, p) == [left |-> p[1], top |-> p[2], right |-> p[1] + WidthOf(points, p) - 1, bottom |-> p[2]]

(* A run of points is in their set, and the point after it is not.         *)
LEMMA RowIs ==
  ASSUME NEW points \in SUBSET (Int \X Int), IsFiniteSet(points), NEW p \in points
  PROVE  /\ WidthOf(points, p) \in Nat /\ WidthOf(points, p) >= 1
         /\ \A i \in 0 .. WidthOf(points, p) - 1 : <<p[1] + i, p[2]>> \in points
         /\ <<p[1] + WidthOf(points, p), p[2]>> \notin points
         /\ \A x, y : <<x, y>> \in Inside(RowOf(points, p)) <=>
                        x \in p[1] .. p[1] + WidthOf(points, p) - 1 /\ y = p[2]
         /\ Inside(RowOf(points, p)) \subseteq points
<1> DEFINE w == WidthOf(points, p)
<1>1. w \in 1 .. Cardinality(points) /\ (\A i \in 0 .. w - 1 : <<p[1] + i, p[2]>> \in points)
      /\ <<p[1] + w, p[2]>> \notin points
  <2>1. \E n \in 1 .. Cardinality(points) :
          /\ \A i \in 0 .. n - 1 : <<p[1] + i, p[2]>> \in points
          /\ <<p[1] + n, p[2]>> \notin points
    BY RowEnds
  <2> QED
    BY <2>1, Zenon DEF WidthOf
<1> HIDE DEF w
<1>2. w \in Nat /\ w >= 1 /\ p[1] \in Int /\ p[2] \in Int
  BY <1>1
<1>3. p[2] .. p[2] = {p[2]}
  BY <1>2
<1>4. Inside(RowOf(points, p)) = (p[1] .. p[1] + w - 1) \X {p[2]}
  BY <1>3 DEF Inside, RowOf, w
<1>5. Inside(RowOf(points, p)) \subseteq points
  <2> SUFFICES ASSUME NEW x \in p[1] .. p[1] + w - 1
               PROVE  <<x, p[2]>> \in points
    BY <1>4
  <2>1. x - p[1] \in 0 .. w - 1 /\ p[1] + (x - p[1]) = x
    BY <1>2
  <2>2. <<p[1] + (x - p[1]), p[2]>> \in points
    BY <1>1, <2>1
  <2> QED
    BY <2>1, <2>2
<1> QED
  BY <1>1, <1>2, <1>4, <1>5 DEF w

(* RectsOf covers the points with rectangles that do not overlap.          *)
LEMMA RectsAre ==
  ASSUME NEW points \in SUBSET (Int \X Int), IsFiniteSet(points)
  PROVE  \E n \in Nat :
           /\ DOMAIN RectsOf(points) = 1 .. n /\ Len(RectsOf(points)) = n
           /\ RectsOf(points) = <<>> <=> n = 0
           /\ n = 0 <=> points = {}
           /\ \A i \in 1 .. n : \E p \in points : RectsOf(points)[i] = RowOf(points, p)
           /\ UNION {Inside(RectsOf(points)[i]) : i \in 1 .. n} = points
           /\ \A i, j \in 1 .. n : i # j => Inside(RectsOf(points)[i]) \cap Inside(RectsOf(points)[j]) = {}
<1> DEFINE starts == StartsOf(points)
           runs == SetToSeq(starts)
           n == Cardinality(starts)
           rects == RectsOf(points)
<1>1. starts \subseteq points /\ IsFiniteSet(starts)
  <2>1. starts \subseteq points
    BY DEF StartsOf
  <2> HIDE DEF starts
  <2> QED
    BY <2>1, FS_Subset
<1>2. /\ n \in Nat /\ runs \in [1 .. n -> starts]
      /\ \A i, j \in 1 .. n : runs[i] = runs[j] => i = j
      /\ \A p \in starts : \E i \in 1 .. n : runs[i] = p
  <2> HIDE DEF starts
  <2> QED
    BY <1>1, SetToSeqIs
<1>3. rects = [i \in DOMAIN runs |-> RowOf(points, runs[i])]
  BY DEF RectsOf, StartsOf, RowOf, WidthOf
<1>4. DOMAIN rects = 1 .. n /\ \A i \in 1 .. n : rects[i] = RowOf(points, runs[i])
  <2>1. DOMAIN runs = 1 .. n
    BY <1>2
  <2> HIDE DEF runs, n, rects
  <2> QED
    BY <1>3, <2>1
<1> HIDE DEF runs, n, rects
<1>5. Len(rects) = n
  <2> DEFINE X == {rects[i] : i \in 1 .. n}
  <2>1. rects \in [1 .. n -> X]
    BY <1>3, <1>4
  <2>2. rects \in Seq(X)
    BY <1>2, <2>1
  <2> QED
    BY <1>2, <1>4, <2>2
<1>6. \A p \in starts : /\ p \in points /\ p[1] \in Int /\ p[2] \in Int /\ p = <<p[1], p[2]>>
                        /\ <<p[1] - 1, p[2]>> \notin points
  <2> SUFFICES ASSUME NEW p \in starts
               PROVE  /\ p \in points /\ p[1] \in Int /\ p[2] \in Int /\ p = <<p[1], p[2]>>
                      /\ <<p[1] - 1, p[2]>> \notin points
    OBVIOUS
  <2>1. p \in points /\ <<p[1] - 1, p[2]>> \notin points
    BY DEF StartsOf
  <2>2. p \in Int \X Int
    BY <2>1
  <2> HIDE DEF starts
  <2> QED
    BY <2>1, <2>2
<1>7. ASSUME NEW q \in points
      PROVE  \E i \in 1 .. n : q \in Inside(rects[i])
  <2>1. PICK m \in Nat : /\ \A i \in 0 .. m : <<q[1] - i, q[2]>> \in points
                         /\ <<q[1] - m - 1, q[2]>> \notin points
    BY RowStarts
  <2>2. q[1] \in Int /\ q[2] \in Int /\ q = <<q[1], q[2]>>
    OBVIOUS
  <2> DEFINE p == <<q[1] - m, q[2]>>
  <2>3. p \in points
    BY <2>1
  <2>4. p[1] = q[1] - m /\ p[2] = q[2] /\ p[1] - 1 = q[1] - m - 1
    BY <2>2
  <2> HIDE DEF p
  <2>5. p \in starts
    BY <2>1, <2>3, <2>4 DEF StartsOf
  <2>6. PICK i \in 1 .. n : runs[i] = p
    BY <1>2, <2>5
  <2> DEFINE w == WidthOf(points, p)
  <2>7. /\ w \in Nat /\ w >= 1
        /\ <<p[1] + w, p[2]>> \notin points
        /\ \A x, y : <<x, y>> \in Inside(RowOf(points, p)) <=> x \in p[1] .. p[1] + w - 1 /\ y = p[2]
    BY <2>3, RowIs
  <2> HIDE DEF w
  <2>8. m < w
    <3> SUFFICES ASSUME w <= m
                 PROVE  FALSE
      BY <2>7
    <3>1. m - w \in 0 .. m /\ q[1] - (m - w) = p[1] + w
      BY <2>2, <2>4, <2>7
    <3>2. <<q[1] - (m - w), q[2]>> \in points
      BY <2>1, <3>1
    <3> QED
      BY <2>4, <2>7, <3>1, <3>2
  <2>9. q[1] \in p[1] .. p[1] + w - 1
    BY <2>2, <2>4, <2>7, <2>8
  <2>10. q \in Inside(RowOf(points, p))
    BY <2>2, <2>4, <2>7, <2>9
  <2> QED
    BY <1>4, <2>6, <2>10
<1>8. n = 0 <=> points = {}
  <2>1. n = 0 => points = {}
    BY <1>7
  <2>2. points = {} => n = 0
    BY <1>1, FS_EmptySet DEF n
  <2> QED
    BY <2>1, <2>2
<1>9. UNION {Inside(rects[i]) : i \in 1 .. n} = points
  <2>1. \A i \in 1 .. n : Inside(rects[i]) \subseteq points
    <3> SUFFICES ASSUME NEW i \in 1 .. n
                 PROVE  Inside(rects[i]) \subseteq points
      OBVIOUS
    <3>1. runs[i] \in points
      BY <1>1, <1>2
    <3> QED
      BY <1>4, <3>1, RowIs
  <2> QED
    BY <1>7, <2>1
<1>10. ASSUME NEW i \in 1 .. n, NEW j \in 1 .. n, NEW q,
              q \in Inside(rects[i]), q \in Inside(rects[j]), runs[i][1] < runs[j][1]
       PROVE  FALSE
  <2> DEFINE a == runs[i]
             b == runs[j]
             w == WidthOf(points, a)
  <2>1. a \in starts /\ b \in starts
    BY <1>2
  <2>2. /\ a \in points /\ b \in points /\ a[1] \in Int /\ b[1] \in Int
        /\ <<b[1] - 1, b[2]>> \notin points
    <3> HIDE DEF a, b, starts
    <3> QED
      BY <1>6, <2>1
  <2>3. q \in Inside(RowOf(points, a)) /\ q \in Inside(RowOf(points, b))
    BY <1>4, <1>10
  <2>4. a[1] < b[1]
    BY <1>10
  <2> HIDE DEF a, b
  <2>5. /\ w \in Nat
        /\ \A k \in 0 .. w - 1 : <<a[1] + k, a[2]>> \in points
        /\ \A x, y : <<x, y>> \in Inside(RowOf(points, a)) <=> x \in a[1] .. a[1] + w - 1 /\ y = a[2]
    BY <2>2, RowIs
  <2>6. /\ WidthOf(points, b) \in Nat
        /\ Inside(RowOf(points, b)) \subseteq points
        /\ \A x, y : <<x, y>> \in Inside(RowOf(points, b)) <=>
                       x \in b[1] .. b[1] + WidthOf(points, b) - 1 /\ y = b[2]
    BY <2>2, RowIs
  <2> HIDE DEF w
  <2>7. q = <<q[1], q[2]>>
    BY <2>3, <2>6
  <2>8. q[1] \in a[1] .. a[1] + w - 1 /\ q[2] = a[2]
    BY <2>3, <2>5, <2>7
  <2>9. q[1] \in b[1] .. b[1] + WidthOf(points, b) - 1 /\ q[2] = b[2]
    BY <2>3, <2>6, <2>7
  <2> DEFINE k == b[1] - 1 - a[1]
  <2>10. k \in 0 .. w - 1 /\ a[1] + k = b[1] - 1
    BY <2>2, <2>4, <2>5, <2>6, <2>8, <2>9
  <2> QED
    BY <2>2, <2>5, <2>8, <2>9, <2>10
<1>11. ASSUME NEW i \in 1 .. n, NEW j \in 1 .. n, i # j, NEW q,
              q \in Inside(rects[i]), q \in Inside(rects[j])
       PROVE  FALSE
  <2>1. runs[i] \in starts /\ runs[j] \in starts /\ runs[i] # runs[j]
    BY <1>2, <1>11
  <2>2. /\ runs[i] \in points /\ runs[i][1] \in Int /\ runs[i] = <<runs[i][1], runs[i][2]>>
        /\ runs[j] \in points /\ runs[j][1] \in Int /\ runs[j] = <<runs[j][1], runs[j][2]>>
    BY <1>6, <2>1
  <2>3. q \in points
    BY <1>9, <1>11
  <2>4. q = <<q[1], q[2]>>
    BY <2>3
  <2>5. q[2] = runs[i][2] /\ q[2] = runs[j][2]
    <3>1. q \in Inside(RowOf(points, runs[i])) /\ q \in Inside(RowOf(points, runs[j]))
      BY <1>4, <1>11
    <3>2. \A p \in points : q \in Inside(RowOf(points, p)) => q[2] = p[2]
      <4> SUFFICES ASSUME NEW p \in points, q \in Inside(RowOf(points, p))
                   PROVE  q[2] = p[2]
        OBVIOUS
      <4>1. \A x, y : <<x, y>> \in Inside(RowOf(points, p)) => y = p[2]
        BY RowIs
      <4> QED
        BY <2>4, <4>1
    <3> QED
      BY <2>2, <3>1, <3>2
  <2>6. runs[i][1] # runs[j][1]
    BY <2>1, <2>2, <2>5
  <2>7. runs[i][1] < runs[j][1] \/ runs[j][1] < runs[i][1]
    BY <2>2, <2>6
  <2> QED
    BY <1>10, <1>11, <2>7
<1>12. rects = <<>> <=> n = 0
  <2>1. rects = <<>> => n = 0
    <3>1. ASSUME rects = <<>>
          PROVE  Len(rects) = 0
      BY <3>1
    <3> QED
      BY <1>5, <3>1
  <2>2. n = 0 => rects = <<>>
    <3>1. ASSUME n = 0
          PROVE  rects = <<>>
      <4>1. DOMAIN rects = {}
        BY <1>4, <3>1
      <4> QED
        BY <1>3, <4>1
    <3> QED
      BY <3>1
  <2> QED
    BY <2>1, <2>2
<1>13. \A i \in 1 .. n : \E p \in points : rects[i] = RowOf(points, p)
  BY <1>1, <1>2, <1>4
<1>14. \A i, j \in 1 .. n : i # j => Inside(rects[i]) \cap Inside(rects[j]) = {}
  BY <1>11
<1> QED
  BY <1>2, <1>4, <1>5, <1>8, <1>9, <1>12, <1>13, <1>14 DEF rects

(* The events of a copy cover what is to be exposed, once.                 *)
LEMMA ExposuresAre == ExposuresCover
<1> SUFFICES ASSUME NEW r \in CopyRects
             PROVE  LET events == XCopyArea("itself", TRUE, r, TRUE).events
                        Area(i) == Inside(Brect(events[i].area))
                        outside == Inside(Brect(r)) \ Inside(Bounds)
                    IN  IF events[1].type = "NoExpose" THEN outside = {}
                        ELSE /\ UNION {Area(i) : i \in DOMAIN events} = outside
                             /\ \A i, j \in DOMAIN events : i # j => Area(i) \cap Area(j) = {}
                             /\ {i \in DOMAIN events : events[i].count = 0} = {Len(events)}
  BY DEF ExposuresCover
<1> DEFINE outside == Inside(Brect(r)) \ Inside(Bounds)
           rects == RectsOf(outside)
           events == XCopyArea("itself", TRUE, r, TRUE).events
           Area(i) == Inside(Brect(events[i].area))
<1>0. events = Exposures(r)
  BY DEF XCopyArea
<1>1. /\ r.x \in Int /\ r.y \in Int /\ r.width \in Int /\ r.height \in Int
      /\ 1 <= r.width /\ r.width < 65536 /\ 1 <= r.height /\ r.height < 65536
      /\ r.x \in Coordinate /\ r.y \in Coordinate
      /\ r.x + r.width - 1 \in Coordinate /\ r.y + r.height - 1 \in Coordinate
  <2>1. 0 \in 0 .. 2
    OBVIOUS
  <2>2. /\ r.x - 0 \in Coordinate /\ r.y - 0 \in Coordinate
        /\ r.x + r.width - 1 - 0 \in Coordinate /\ r.y + r.height - 1 - 0 \in Coordinate
        /\ r.x \in Int /\ r.y \in Int /\ r.width \in Int /\ r.height \in Int
        /\ 1 <= r.width /\ r.width < 65536 /\ 1 <= r.height /\ r.height < 65536
    BY <2>1, CopyRectIs
  <2>3. /\ r.x - 0 = r.x /\ r.y - 0 = r.y
        /\ r.x + r.width - 1 - 0 = r.x + r.width - 1 /\ r.y + r.height - 1 - 0 = r.y + r.height - 1
    BY <2>2
  <2> QED
    BY <2>2, <2>3
<1>2. Inside(Brect(r)) = (r.x .. r.x + r.width - 1) \X (r.y .. r.y + r.height - 1)
  BY DEF Inside, Brect
<1>3. outside \in SUBSET (Int \X Int) /\ IsFiniteSet(outside)
  <2>1. IsFiniteSet(r.x .. r.x + r.width - 1) /\ IsFiniteSet(r.y .. r.y + r.height - 1)
    <3>1. r.x + r.width - 1 \in Int /\ r.y + r.height - 1 \in Int
      BY <1>1
    <3>2. \A a, b \in Int : IsFiniteSet(a .. b)
      BY FS_Interval
    <3> QED
      BY <1>1, <3>1, <3>2
  <2>2. IsFiniteSet(Inside(Brect(r)))
    BY <1>2, <2>1, FS_Product
  <2>3. outside \subseteq Inside(Brect(r))
    OBVIOUS
  <2>4. Inside(Brect(r)) \subseteq Int \X Int
    BY <1>1, <1>2
  <2> HIDE DEF outside
  <2> QED
    BY <2>2, <2>3, <2>4, FS_Subset
<1>4. PICK n \in Nat :
        /\ DOMAIN rects = 1 .. n /\ Len(rects) = n
        /\ rects = <<>> <=> n = 0
        /\ n = 0 <=> outside = {}
        /\ \A i \in 1 .. n : \E p \in outside : rects[i] = RowOf(outside, p)
        /\ UNION {Inside(rects[i]) : i \in 1 .. n} = outside
        /\ \A i, j \in 1 .. n : i # j => Inside(rects[i]) \cap Inside(rects[j]) = {}
  <2> HIDE DEF outside
  <2> QED
    BY <1>3, RectsAre
<1>5. events = IF rects = <<>> THEN <<[type |-> "NoExpose"]>>
               ELSE [k \in 1 .. Len(rects) |-> Exposure(rects, Len(rects) - k)]
  BY <1>0 DEF Exposures
<1>6. ASSUME NEW i \in 1 .. n
      PROVE  Brect(Xrect(rects[i])) = rects[i]
  <2>1. PICK p \in outside : rects[i] = RowOf(outside, p)
    BY <1>4
  <2> DEFINE w == WidthOf(outside, p)
             right == p[1] + w - 1
  <2>2. /\ w \in Nat /\ w >= 1 /\ \A k \in 0 .. w - 1 : <<p[1] + k, p[2]>> \in outside
    <3> HIDE DEF outside
    <3> QED
      BY <1>3, <2>1, RowIs
  <2> HIDE DEF w
  <2>3. p \in Inside(Brect(r)) /\ p[1] \in Int /\ p[2] \in Int
    BY <1>3, <2>1
  <2>4. <<right, p[2]>> \in Inside(Brect(r))
    <3>1. w - 1 \in 0 .. w - 1 /\ p[1] + (w - 1) = right
      BY <2>2, <2>3
    <3>2. <<right, p[2]>> \in outside
      <4> HIDE DEF outside
      <4> QED
        BY <2>2, <3>1
    <3> QED
      BY <3>2
  <2>5. /\ right \in Int /\ p[1] <= right
        /\ r.x <= p[1] /\ right <= r.x + r.width - 1
        /\ r.y <= p[2] /\ p[2] <= r.y + r.height - 1
    <3>1. right \in Int /\ p[1] <= right
      BY <2>2, <2>3
    <3> HIDE DEF right, outside
    <3> QED
      BY <1>1, <1>2, <2>3, <2>4, <3>1
  <2> HIDE DEF right
  <2>6. p[1] \in Coordinate /\ p[2] \in Coordinate
    BY <1>1, <2>3, <2>5, CoordinateIs
  <2>7. 2 ^ 16 = 65536
    OBVIOUS
  <2>8. right - p[1] + 1 < 2 ^ 16 /\ p[2] - p[2] + 1 < 2 ^ 16 /\ p[2] <= p[2]
    <3>1. right - p[1] + 1 <= r.width /\ p[2] - p[2] + 1 = 1
      BY <1>1, <2>3, <2>5
    <3> QED
      BY <1>1, <2>3, <2>5, <2>7, <3>1
  <2>9. rects[i] = [left |-> p[1], top |-> p[2], right |-> right, bottom |-> p[2]]
    BY <2>1 DEF RowOf, w, right
  <2> HIDE DEF rects, outside
  <2>10. Brect(Xrect([left |-> p[1], top |-> p[2], right |-> right, bottom |-> p[2]]))
           = [left |-> p[1], top |-> p[2], right |-> right, bottom |-> p[2]]
    BY <2>3, <2>5, <2>6, <2>8, XrectIs
  <2> QED
    BY <2>9, <2>10, Zenon
<1>7. CASE n = 0
  <2>1. events[1].type = "NoExpose" /\ outside = {}
    <3>1. rects = <<>> /\ outside = {}
      BY <1>4, <1>7
    <3> HIDE DEF rects, events, outside
    <3> QED
      BY <1>5, <3>1
  <2> QED
    BY <2>1, Zenon
<1>8. CASE n # 0
  <2>1. events = [k \in 1 .. n |-> Exposure(rects, n - k)]
    <3>1. rects # <<>> /\ Len(rects) = n
      BY <1>4, <1>8
    <3> HIDE DEF rects, events
    <3> QED
      BY <1>5, <3>1
  <2>2. /\ DOMAIN events = 1 .. n
        /\ \A k \in 1 .. n : /\ events[k].type = "GraphicsExpose" /\ events[k].count = n - k
                             /\ events[k].area = Xrect(rects[(n - k) + 1])
    <3> HIDE DEF rects, events
    <3> QED
      BY <2>1 DEF Exposure
  <2>3. \A k \in 1 .. n : (n - k) + 1 \in 1 .. n /\ n - k \in 0 .. n /\ (n - k = 0 <=> k = n)
    OBVIOUS
  <2>4. \A k \in 1 .. n : Area(k) = Inside(rects[(n - k) + 1])
    <3> HIDE DEF rects, events
    <3> QED
      BY <1>6, <2>2, <2>3
  <2>5. events[1].type # "NoExpose"
    <3>1. 1 \in 1 .. n
      BY <1>8
    <3> HIDE DEF events
    <3> QED
      BY <2>2, <3>1
  <2>6. Len(events) = n
    <3> DEFINE X == {events[k] : k \in 1 .. n}
    <3>1. events \in [1 .. n -> X]
      BY <2>1, <2>2
    <3>2. events \in Seq(X)
      <4> HIDE DEF X, events
      <4> QED
        BY <3>1
    <3> HIDE DEF X, events
    <3> QED
      BY <2>2, <3>2
  <2>7. UNION {Area(k) : k \in DOMAIN events} = outside
    <3>1. \A i \in 1 .. n : \E k \in 1 .. n : (n - k) + 1 = i
      <4> SUFFICES ASSUME NEW i \in 1 .. n
                   PROVE  \E k \in 1 .. n : (n - k) + 1 = i
        OBVIOUS
      <4>1. (n - i) + 1 \in 1 .. n /\ (n - ((n - i) + 1)) + 1 = i
        OBVIOUS
      <4> QED
        BY <4>1
    <3>2. {Area(k) : k \in DOMAIN events} = {Inside(rects[i]) : i \in 1 .. n}
      <4> DEFINE A(k) == Area(k)
                 B(i) == Inside(rects[i])
      <4>1. \A k \in 1 .. n : A(k) = B((n - k) + 1)
        BY <2>4
      <4> HIDE DEF A, B
      <4>2. {A(k) : k \in 1 .. n} = {B(i) : i \in 1 .. n}
        BY <2>3, <3>1, <4>1
      <4>3. DOMAIN events = 1 .. n
        BY <2>2
      <4> HIDE DEF events, rects, outside
      <4> QED
        BY <4>2, <4>3, Zenon DEF A, B
    <3> HIDE DEF events, rects, outside
    <3> QED
      BY <1>4, <3>2
  <2>8. \A i, j \in DOMAIN events : i # j => Area(i) \cap Area(j) = {}
    <3> SUFFICES ASSUME NEW i \in 1 .. n, NEW j \in 1 .. n, i # j
                 PROVE  Area(i) \cap Area(j) = {}
      BY <2>2
    <3> DEFINE k == (n - i) + 1
               l == (n - j) + 1
    <3>1. k # l /\ k \in 1 .. n /\ l \in 1 .. n
      OBVIOUS
    <3>2. Area(i) = Inside(rects[k]) /\ Area(j) = Inside(rects[l])
      BY <2>4
    <3> HIDE DEF k, l, events, rects, outside
    <3> QED
      BY <1>4, <3>1, <3>2
  <2>9. {i \in DOMAIN events : events[i].count = 0} = {Len(events)}
    <3>1. n \in 1 .. n
      BY <1>8
    <3> HIDE DEF events, rects, outside
    <3> QED
      BY <2>2, <2>3, <2>6, <3>1
  <2> QED
    BY <2>5, <2>7, <2>8, <2>9, Zenon
<1> QED
  BY <1>7, <1>8

-----------------------------------------------------------------------------
(* Points.  Their sums are what folding them gives.                        *)
Plane == Int \X Int
(* What FoldLeft is made of: the sums of all subsets of a sequence.        *)
IsFold(f, s, n) ==
  /\ f \in [SUBSET (1 .. n) -> Plane]
  /\ \A S \in SUBSET (1 .. n) :
       f[S] = IF S = {} THEN <<0, 0>> ELSE Plus(f[S \ {Max(S)}], s[Max(S)])

(* The sum of points is a point, and the origin adds nothing.              *)
LEMMA PlusIs ==
  ASSUME NEW p \in Plane, NEW q \in Plane
  PROVE  Plus(p, q) \in Plane /\ Plus(<<0, 0>>, p) = p
<1>1. p[1] \in Int /\ p[2] \in Int /\ q[1] \in Int /\ q[2] \in Int /\ p = <<p[1], p[2]>>
  BY DEF Plane
<1>2. 0 + p[1] = p[1] /\ 0 + p[2] = p[2] /\ p[1] + q[1] \in Int /\ p[2] + q[2] \in Int
  BY <1>1
<1> QED
  BY <1>1, <1>2 DEF Plus, Plane

(* The largest of some numbers is one of them.                             *)
LEMMA MaxIs ==
  ASSUME NEW n \in Nat, NEW S \in SUBSET (1 .. n), S # {}
  PROVE  Max(S) \in S /\ \A k \in S : Max(S) >= k
<1>1. S \subseteq 0 .. n
  OBVIOUS
<1>2. \E m \in S : \A k \in S : m >= k
  BY <1>1, MostOf
<1> QED
  BY <1>2 DEF Max

(* There are such sums.                                                    *)
LEMMA FoldExists ==
  ASSUME NEW s \in Seq(Plane)
  PROVE  \E f : IsFold(f, s, Len(s))
<1> DEFINE G == {m \in Nat : m > Len(s) \/ \E f : IsFold(f, s, m)}
<1>0. Len(s) \in Nat /\ DOMAIN s = 1 .. Len(s) /\ \A i \in 1 .. Len(s) : s[i] \in Plane
  OBVIOUS
<1>1. 0 \in G
  <2> DEFINE f == [S \in SUBSET (1 .. 0) |-> <<0, 0>>]
  <2>1. SUBSET (1 .. 0) = {{}}
    OBVIOUS
  <2>2. IsFold(f, s, 0)
    BY <2>1 DEF IsFold, Plane
  <2> HIDE DEF f
  <2> QED
    BY <2>2
<1>2. ASSUME NEW m \in Nat, m \in G
      PROVE  m + 1 \in G
  <2>1. CASE m + 1 > Len(s)
    BY <2>1
  <2>2. CASE ~(m + 1 > Len(s))
    <3>1. PICK f : IsFold(f, s, m)
      BY <1>0, <1>2, <2>2
    <3>2. /\ f \in [SUBSET (1 .. m) -> Plane]
          /\ \A S \in SUBSET (1 .. m) :
               f[S] = IF S = {} THEN <<0, 0>> ELSE Plus(f[S \ {Max(S)}], s[Max(S)])
      BY <3>1 DEF IsFold
    <3> DEFINE g == [S \in SUBSET (1 .. m + 1) |->
                       IF m + 1 \in S THEN Plus(f[S \ {m + 1}], s[m + 1]) ELSE f[S]]
    <3>3. \A S \in SUBSET (1 .. m + 1) : /\ S \ {m + 1} \in SUBSET (1 .. m)
                                         /\ m + 1 \notin S => S \in SUBSET (1 .. m)
      OBVIOUS
    <3>4. s[m + 1] \in Plane
      BY <1>0, <2>2
    <3>5. g \in [SUBSET (1 .. m + 1) -> Plane]
      <4> SUFFICES ASSUME NEW S \in SUBSET (1 .. m + 1)
                   PROVE  (IF m + 1 \in S THEN Plus(f[S \ {m + 1}], s[m + 1]) ELSE f[S]) \in Plane
        OBVIOUS
      <4>1. f[S \ {m + 1}] \in Plane /\ (m + 1 \notin S => f[S] \in Plane)
        BY <3>2, <3>3
      <4> QED
        BY <3>4, <4>1, PlusIs
    <3>6. ASSUME NEW S \in SUBSET (1 .. m + 1)
          PROVE  g[S] = IF S = {} THEN <<0, 0>> ELSE Plus(g[S \ {Max(S)}], s[Max(S)])
      <4>1. CASE m + 1 \in S
        <5>1. Max(S) \in S /\ (\A k \in S : Max(S) >= k) /\ Max(S) \in 1 .. m + 1
          <6>1. m + 1 \in Nat /\ S # {}
            BY <4>1
          <6>2. Max(S) \in S /\ \A k \in S : Max(S) >= k
            BY <6>1, MaxIs
          <6> QED
            BY <6>2
        <5>2. Max(S) = m + 1
          BY <4>1, <5>1
        <5>3. g[S] = Plus(f[S \ {m + 1}], s[m + 1])
          BY <4>1
        <5>4. g[S \ {m + 1}] = f[S \ {m + 1}]
          <6>1. S \ {m + 1} \in SUBSET (1 .. m + 1) /\ m + 1 \notin S \ {m + 1}
            OBVIOUS
          <6> QED
            BY <6>1
        <5> HIDE DEF g
        <5> QED
          BY <4>1, <5>2, <5>3, <5>4
      <4>2. CASE m + 1 \notin S
        <5>1. S \in SUBSET (1 .. m) /\ g[S] = f[S]
          BY <3>3, <4>2
        <5>2. S \ {Max(S)} \in SUBSET (1 .. m + 1) /\ m + 1 \notin S \ {Max(S)}
          BY <4>2
        <5>3. g[S \ {Max(S)}] = f[S \ {Max(S)}]
          BY <5>2
        <5> HIDE DEF g
        <5> QED
          BY <3>2, <5>1, <5>3
      <4> QED
        BY <4>1, <4>2
    <3>7. IsFold(g, s, m + 1)
      <4> HIDE DEF g
      <4> QED
        BY <3>5, <3>6 DEF IsFold
    <3> HIDE DEF g
    <3> QED
      BY <3>7
  <2> QED
    BY <2>1, <2>2
<1>3. Len(s) \in G
  <2> HIDE DEF G
  <2> QED
    BY <1>0, <1>1, <1>2, UpFrom0
<1> QED
  BY <1>0, <1>3

(* FoldLeft(Plus, ...) of a sequence is that of all but its last, and it.  *)
LEMMA FoldIs ==
  ASSUME NEW s \in Seq(Plane)
  PROVE  \E f : IsFold(f, s, Len(s)) /\ FoldLeft(Plus, <<0, 0>>, s) = f[1 .. Len(s)]
<1>1. DOMAIN s = 1 .. Len(s)
  OBVIOUS
<1> DEFINE iter == CHOOSE f : f = [S \in SUBSET DOMAIN s |->
                     IF S = {} THEN <<0, 0>> ELSE LET x == Max(S) IN Plus(f[S \ {x}], s[x])]
<1>2. FoldLeft(Plus, <<0, 0>>, s) = iter[DOMAIN s]
  BY Zenon DEF FoldLeft, MapThenFoldSet
<1>3. PICK f : IsFold(f, s, Len(s))
  BY FoldExists
<1>4. f = [S \in SUBSET DOMAIN s |->
             IF S = {} THEN <<0, 0>> ELSE LET x == Max(S) IN Plus(f[S \ {x}], s[x])]
  BY <1>1, <1>3 DEF IsFold
<1>5. iter = [S \in SUBSET DOMAIN s |->
             IF S = {} THEN <<0, 0>> ELSE LET x == Max(S) IN Plus(iter[S \ {x}], s[x])]
  BY <1>4, Zenon
<1> HIDE DEF iter
<1>6. \A S \in SUBSET (1 .. Len(s)) :
        iter[S] = IF S = {} THEN <<0, 0>> ELSE Plus(iter[S \ {Max(S)}], s[Max(S)])
  BY <1>1, <1>5
<1>7. DOMAIN iter = SUBSET (1 .. Len(s)) /\ iter = [S \in SUBSET (1 .. Len(s)) |-> iter[S]]
  <2>1. DOMAIN iter = SUBSET (1 .. Len(s))
    BY <1>1, <1>5
  <2> QED
    BY <1>5, <2>1
<1>8. IsFold(iter, s, Len(s))
  <2> DEFINE G == {m \in Nat : m > Len(s) \/ \A S \in SUBSET (1 .. m) : iter[S] \in Plane}
  <2>0. Len(s) \in Nat /\ \A i \in 1 .. Len(s) : s[i] \in Plane
    OBVIOUS
  <2>1. 0 \in G
    <3> SUFFICES ASSUME NEW S \in SUBSET (1 .. 0)
                 PROVE  iter[S] \in Plane
      OBVIOUS
    <3>1. S = {} /\ S \in SUBSET (1 .. Len(s))
      OBVIOUS
    <3>2. iter[S] = <<0, 0>>
      BY <1>6, <3>1
    <3> QED
      BY <3>2 DEF Plane
  <2>2. ASSUME NEW m \in Nat, m \in G
        PROVE  m + 1 \in G
    <3> SUFFICES ASSUME ~(m + 1 > Len(s))
                 PROVE  \A S \in SUBSET (1 .. m + 1) : iter[S] \in Plane
      OBVIOUS
    <3> SUFFICES ASSUME NEW S \in SUBSET (1 .. m + 1)
                 PROVE  iter[S] \in Plane
      OBVIOUS
    <3>1. S \in SUBSET (1 .. Len(s)) /\ \A T \in SUBSET (1 .. m) : iter[T] \in Plane
      BY <2>0, <2>2
    <3>2. CASE S = {}
      BY <1>6, <3>1, <3>2 DEF Plane
    <3>3. CASE S # {}
      <4>1. Max(S) \in S /\ (\A k \in S : Max(S) >= k)
        <5>1. m + 1 \in Nat
          OBVIOUS
        <5> QED
          BY <3>3, <5>1, MaxIs
      <4>2. S \ {Max(S)} \in SUBSET (1 .. m)
        <5> SUFFICES ASSUME NEW k \in S, k # Max(S)
                     PROVE  k \in 1 .. m
          OBVIOUS
        <5>1. k \in 1 .. m + 1 /\ Max(S) \in 1 .. m + 1 /\ Max(S) >= k
          BY <4>1
        <5> QED
          BY <5>1
      <4>3. s[Max(S)] \in Plane
        BY <2>0, <3>1, <4>1
      <4>4. Plus(iter[S \ {Max(S)}], s[Max(S)]) \in Plane
        BY <3>1, <4>2, <4>3, PlusIs
      <4> QED
        BY <1>6, <3>1, <3>3, <4>4
    <3> QED
      BY <3>2, <3>3
  <2>3. Len(s) \in G
    <3> HIDE DEF G
    <3> QED
      BY <2>0, <2>1, <2>2, UpFrom0
  <2>4. iter \in [SUBSET (1 .. Len(s)) -> Plane]
    <3>1. \A S \in SUBSET (1 .. Len(s)) : iter[S] \in Plane
      BY <2>0, <2>3
    <3> QED
      BY <1>7, <3>1
  <2> QED
    BY <1>6, <2>4 DEF IsFold
<1> QED
  BY <1>1, <1>2, <1>8

(* Each sum is that of the one before it and of its point.                 *)
LEMMA SummedIs ==
  ASSUME NEW l \in Seq(Plane)
  PROVE  /\ Summed(l) \in [1 .. Len(l) -> Plane]
         /\ \A i \in 1 .. Len(l) :
              Summed(l)[i] = IF i = 1 THEN l[1] ELSE Plus(Summed(l)[i - 1], l[i])
<1> DEFINE n == Len(l)
           Further(i, q) == IF i = 1 THEN l[1] ELSE Plus(q, l[i])
           step == [i \in 1 .. n |-> [q \in Plane |-> Further(i, q)]]
<1>0. n \in Nat /\ DOMAIN l = 1 .. n /\ \A i \in 1 .. n : l[i] \in Plane
  OBVIOUS
<1>1. \A i \in 1 .. n, q \in Plane : Further(i, q) \in Plane
  BY <1>0, PlusIs
<1>2. step \in [1 .. n -> [Plane -> Plane]] /\ <<0, 0>> \in Plane
  <2>1. <<0, 0>> \in Plane
    BY DEF Plane
  <2> HIDE DEF Further
  <2> QED
    BY <1>1, <2>1
<1>3. PICK f : IsRun(f, Plane, <<0, 0>>, n, step)
  <2> HIDE DEF step
  <2> QED
    BY <1>0, <1>2, RunExists
<1>4. f \in [0 .. n -> Plane] /\ \A i \in 0 .. n : f[i] = IF i = 0 THEN <<0, 0>> ELSE step[i][f[i - 1]]
  BY <1>3 DEF IsRun
<1>5. \A i \in 1 .. n : f[i] = Further(i, f[i - 1])
  <2> SUFFICES ASSUME NEW i \in 1 .. n
               PROVE  f[i] = Further(i, f[i - 1])
    OBVIOUS
  <2>1. i \in 0 .. n /\ i # 0 /\ i - 1 \in 0 .. n
    BY <1>0
  <2>2. f[i - 1] \in Plane /\ f[i] = step[i][f[i - 1]]
    BY <1>4, <2>1
  <2> HIDE DEF Further
  <2> QED
    BY <2>2
<1> DEFINE g == [i \in DOMAIN l |-> f[i]]
<1>6. g = [i \in DOMAIN l |-> IF i = 1 THEN l[1] ELSE Plus(g[i - 1], l[i])]
  <2>1. \A i \in 1 .. n : f[i] = IF i = 1 THEN l[1] ELSE Plus(g[i - 1], l[i])
    <3> SUFFICES ASSUME NEW i \in 1 .. n
                 PROVE  f[i] = IF i = 1 THEN l[1] ELSE Plus(g[i - 1], l[i])
      OBVIOUS
    <3>1. CASE i = 1
      BY <1>5, <3>1
    <3>2. CASE i # 1
      <4>1. i - 1 \in 1 .. n
        BY <1>0, <3>2
      <4>2. g[i - 1] = f[i - 1]
        BY <1>0, <4>1
      <4> QED
        BY <1>5, <3>2, <4>2
    <3> QED
      BY <3>1, <3>2
  <2> QED
    BY <1>0, <2>1
<1> DEFINE sum[i \in DOMAIN l] == IF i = 1 THEN l[1] ELSE Plus(sum[i - 1], l[i])
<1>7. sum = [i \in DOMAIN l |-> IF i = 1 THEN l[1] ELSE Plus(sum[i - 1], l[i])]
  <2> HIDE DEF g
  <2> QED
    BY <1>6, Zenon
<1>8. Summed(l) = sum
  BY DEF Summed
<1> HIDE DEF sum
<1>9. DOMAIN sum = 1 .. n /\ \A i \in 1 .. n : sum[i] = IF i = 1 THEN l[1] ELSE Plus(sum[i - 1], l[i])
  BY <1>0, <1>7
<1>10. sum \in [1 .. n -> Plane]
  <2> DEFINE G == {m \in Nat : m \in 1 .. n => sum[m] \in Plane}
  <2>1. 0 \in G
    OBVIOUS
  <2>2. ASSUME NEW m \in Nat, m \in G
        PROVE  m + 1 \in G
    <3> SUFFICES ASSUME m + 1 \in 1 .. n
                 PROVE  sum[m + 1] \in Plane
      OBVIOUS
    <3>1. l[m + 1] \in Plane /\ (m + 1) - 1 = m
      BY <1>0
    <3>2. CASE m = 0
      BY <1>9, <3>1, <3>2
    <3>3. CASE m # 0
      <4>1. m \in 1 .. n /\ m + 1 # 1
        BY <1>0, <3>3
      <4>2. sum[m] \in Plane
        BY <2>2, <4>1
      <4>3. Plus(sum[m], l[m + 1]) \in Plane
        BY <3>1, <4>2, PlusIs
      <4> QED
        BY <1>9, <3>1, <4>1, <4>3
    <3> QED
      BY <3>2, <3>3
  <2>3. \A m \in 1 .. n : sum[m] \in Plane
    <3>1. Nat \subseteq G
      <4> HIDE DEF G
      <4> QED
        BY <2>1, <2>2, UpFrom0
    <3> QED
      BY <1>0, <3>1
  <2>4. sum = [i \in 1 .. n |-> sum[i]]
    BY <1>0, <1>7
  <2> QED
    BY <1>9, <2>3, <2>4
<1> QED
  BY <1>8, <1>9, <1>10

(* Summing is folding.                                                     *)
LEMMA SummedFolds ==
  ASSUME NEW l \in Seq(Plane)
  PROVE  Summed(l) = [i \in DOMAIN l |-> FoldLeft(Plus, <<0, 0>>, SubSeq(l, 1, i))]
<1> DEFINE n == Len(l)
<1>0. n \in Nat /\ DOMAIN l = 1 .. n /\ \A i \in 1 .. n : l[i] \in Plane
  OBVIOUS
<1>1. /\ Summed(l) \in [1 .. n -> Plane]
      /\ \A i \in 1 .. n : Summed(l)[i] = IF i = 1 THEN l[1] ELSE Plus(Summed(l)[i - 1], l[i])
  BY SummedIs
<1>2. ASSUME NEW i \in 1 .. n
      PROVE  FoldLeft(Plus, <<0, 0>>, SubSeq(l, 1, i)) = Summed(l)[i]
  <2> DEFINE s == SubSeq(l, 1, i)
  <2>1. s \in Seq(Plane) /\ Len(s) = i /\ \A k \in 1 .. i : s[k] = l[k]
    BY <1>0
  <2> HIDE DEF s
  <2>2. PICK f : IsFold(f, s, i) /\ FoldLeft(Plus, <<0, 0>>, s) = f[1 .. i]
    BY <2>1, FoldIs
  <2>3. \A S \in SUBSET (1 .. i) : f[S] = IF S = {} THEN <<0, 0>> ELSE Plus(f[S \ {Max(S)}], s[Max(S)])
    BY <2>2 DEF IsFold
  <2>4. ASSUME NEW k \in 1 .. i
        PROVE  f[1 .. k] = Plus(f[1 .. k - 1], l[k])
    <3>1. 1 .. k \in SUBSET (1 .. i) /\ 1 .. k # {} /\ k \in 1 .. k
      OBVIOUS
    <3>2. Max(1 .. k) \in 1 .. k /\ \A j \in 1 .. k : Max(1 .. k) >= j
      <4>1. k \in Nat /\ 1 .. k \in SUBSET (1 .. k)
        OBVIOUS
      <4> QED
        BY <3>1, <4>1, MaxIs
    <3>3. Max(1 .. k) = k
      BY <3>1, <3>2
    <3>4. (1 .. k) \ {k} = 1 .. k - 1
      OBVIOUS
    <3> QED
      BY <2>1, <2>3, <3>1, <3>3, <3>4
  <2>5. f[1 .. 0] = <<0, 0>>
    <3>1. 1 .. 0 \in SUBSET (1 .. i) /\ 1 .. 0 = {}
      OBVIOUS
    <3> QED
      BY <2>3, <3>1
  <2> DEFINE G == {k \in Nat : k \in 1 .. i => f[1 .. k] = Summed(l)[k]}
  <2>6. 0 \in G
    OBVIOUS
  <2>7. ASSUME NEW k \in Nat, k \in G
        PROVE  k + 1 \in G
    <3> SUFFICES ASSUME k + 1 \in 1 .. i
                 PROVE  f[1 .. k + 1] = Summed(l)[k + 1]
      OBVIOUS
    <3>1. (k + 1) - 1 = k /\ k + 1 \in 1 .. n
      BY <1>0
    <3>2. f[1 .. k + 1] = Plus(f[1 .. k], l[k + 1])
      BY <2>4, <3>1
    <3>3. CASE k = 0
      <4>1. Plus(<<0, 0>>, l[k + 1]) = l[k + 1]
        BY <1>0, <3>1, PlusIs
      <4>2. f[1 .. k] = <<0, 0>> /\ k + 1 = 1
        BY <2>5, <3>3
      <4> QED
        BY <1>1, <3>1, <3>2, <4>1, <4>2
    <3>4. CASE k # 0
      <4>1. k \in 1 .. i /\ k + 1 # 1
        BY <1>0, <3>4
      <4>2. f[1 .. k] = Summed(l)[k]
        BY <2>7, <4>1
      <4> QED
        BY <1>1, <3>1, <3>2, <4>1, <4>2
    <3> QED
      BY <3>3, <3>4
  <2>8. i \in G
    <3>1. Nat \subseteq G
      <4> HIDE DEF G
      <4> QED
        BY <2>6, <2>7, UpFrom0
    <3> QED
      BY <1>0, <3>1
  <2> QED
    BY <2>2, <2>8 DEF s
<1>3. Summed(l) = [i \in 1 .. n |-> Summed(l)[i]]
  BY <1>1
<1> HIDE DEF n
<1> QED
  BY <1>0, <1>2, <1>3

(* What is drawn relative to the point before is drawn at the sums.        *)
LEMMA CoordinatesAre == CoordinatesAreSummed
<1> SUFFICES ASSUME NEW l \in PointLists
             PROVE  LET at == [i \in DOMAIN l |-> FoldLeft(Plus, <<0, 0>>, SubSeq(l, 1, i))]
                    IN  /\ XFillPolygon(l, "CoordModePrevious") = at
                        /\ (\A p \in ToSet(at) : \A i \in 1 .. 2 : Short(p[i]) = p[i]) =>
                             XDrawPoints(l, "CoordModePrevious") = at
                        /\ Len(l) <= 2 => \A i \in 1 .. Len(l) - 1 :
                             XDrawLines(l, "CoordModePrevious")[i] = <<at[i], at[i + 1]>>
                        /\ \A i \in 1 .. Len(l) - 1 : XDrawLines(l, "CoordModeOrigin")[i] = <<l[i], l[i + 1]>>
  BY DEF CoordinatesAreSummed
<1> DEFINE n == Len(l)
           at == [i \in DOMAIN l |-> FoldLeft(Plus, <<0, 0>>, SubSeq(l, 1, i))]
           sums == Summed(l)
           ends == [i \in 1 .. 2 * (n - 1) |-> l[(i \div 2) + 1]]
<1>1. l \in Seq(Plane)
  <2>1. Coordinate \subseteq Int
    BY CoordinateIs
  <2>2. Coordinate \X Coordinate \subseteq Plane
    BY <2>1 DEF Plane
  <2>3. l \in Seq(Coordinate \X Coordinate)
    BY DrawingAssumption
  <2>4. \A i \in 1 .. Len(l) : l[i] \in Coordinate \X Coordinate
    BY <2>3
  <2> QED
    BY <2>2, <2>3, <2>4
<1>2. n \in Nat /\ DOMAIN l = 1 .. n /\ \A i \in 1 .. n : l[i] \in Plane
  BY <1>1
<1>3. sums = at
  BY <1>1, SummedFolds
<1>4. /\ sums \in [1 .. n -> Plane]
      /\ \A i \in 1 .. n : sums[i] = IF i = 1 THEN l[1] ELSE Plus(sums[i - 1], l[i])
  BY <1>1, SummedIs
<1> HIDE DEF sums, at
<1>5. XFillPolygon(l, "CoordModePrevious") = at
  BY <1>3 DEF XFillPolygon, sums
<1>6. (\A p \in ToSet(at) : \A i \in 1 .. 2 : Short(p[i]) = p[i]) => XDrawPoints(l, "CoordModePrevious") = at
  <2> SUFFICES ASSUME \A p \in ToSet(at) : \A i \in 1 .. 2 : Short(p[i]) = p[i]
               PROVE  XDrawPoints(l, "CoordModePrevious") = at
    OBVIOUS
  <2>1. \A i \in 1 .. n : <<Short(at[i][1]), Short(at[i][2])>> = at[i]
    <3> SUFFICES ASSUME NEW i \in 1 .. n
                 PROVE  <<Short(at[i][1]), Short(at[i][2])>> = at[i]
      OBVIOUS
    <3>1. at[i] \in Plane /\ at[i] \in ToSet(at)
      BY <1>3, <1>4 DEF ToSet
    <3>2. Short(at[i][1]) = at[i][1] /\ Short(at[i][2]) = at[i][2]
      BY <3>1
    <3> QED
      BY <3>1, <3>2 DEF Plane
  <2>2. XDrawPoints(l, "CoordModePrevious") = [i \in 1 .. n |-> <<Short(at[i][1]), Short(at[i][2])>>]
    BY <1>2, <1>3 DEF XDrawPoints, sums
  <2>3. at = [i \in 1 .. n |-> at[i]]
    BY <1>3, <1>4
  <2> QED
    BY <2>1, <2>2, <2>3
<1>7. ASSUME NEW i \in 1 .. n - 1
      PROVE  XDrawLines(l, "CoordModeOrigin")[i] = <<l[i], l[i + 1]>>
  <2>1. 2 * i - 1 \in 1 .. 2 * (n - 1) /\ 2 * i \in 1 .. 2 * (n - 1)
    BY <1>2
  <2>2. ((2 * i - 1) \div 2) + 1 = i /\ ((2 * i) \div 2) + 1 = i + 1
    BY <1>2
  <2>3. ends[2 * i - 1] = l[i] /\ ends[2 * i] = l[i + 1]
    BY <2>1, <2>2
  <2> HIDE DEF ends
  <2>4. XDrawLines(l, "CoordModeOrigin") = [j \in 1 .. n - 1 |-> <<ends[2 * j - 1], ends[2 * j]>>]
    BY DEF XDrawLines, ends
  <2> QED
    BY <2>3, <2>4
<1>8. ASSUME n <= 2, NEW i \in 1 .. n - 1
      PROVE  XDrawLines(l, "CoordModePrevious")[i] = <<at[i], at[i + 1]>>
  <2>1. n = 2 /\ i = 1
    BY <1>2, <1>8
  <2>2. ends \in [1 .. 2 -> Plane] /\ ends[1] = l[1] /\ ends[2] = l[2]
    <3>1. 2 * (n - 1) = 2 /\ (1 \div 2) + 1 = 1 /\ (2 \div 2) + 1 = 2
      BY <2>1
    <3>2. \A j \in 1 .. 2 : j = 1 \/ j = 2
      OBVIOUS
    <3>3. l[1] \in Plane /\ l[2] \in Plane
      BY <1>2, <2>1
    <3> QED
      BY <3>1, <3>2, <3>3
  <2> HIDE DEF ends
  <2>3. ends \in Seq(Plane) /\ Len(ends) = 2
    <3>1. 2 \in Nat /\ ends \in [1 .. 2 -> Plane]
      BY <2>2
    <3>2. \A m \in Nat : ends \in [1 .. m -> Plane] => ends \in Seq(Plane)
      OBVIOUS
    <3>4. ends \in Seq(Plane)
      BY <3>1, <3>2
    <3>3. DOMAIN ends = 1 .. 2
      BY <3>1
    <3> QED
      BY <3>3, <3>4
  <2>4. Summed(ends)[1] = ends[1] /\ Summed(ends)[2] = Plus(Summed(ends)[1], ends[2])
    <3>1. \A j \in 1 .. 2 : Summed(ends)[j] = IF j = 1 THEN ends[1] ELSE Plus(Summed(ends)[j - 1], ends[j])
      BY <2>3, SummedIs
    <3>2. 1 \in 1 .. 2 /\ 2 \in 1 .. 2 /\ 2 - 1 = 1
      OBVIOUS
    <3> QED
      BY <3>1, <3>2
  <2>5. sums[1] = l[1] /\ sums[2] = Plus(sums[1], l[2])
    <3>1. 1 \in 1 .. n /\ 2 \in 1 .. n /\ 2 - 1 = 1
      BY <2>1
    <3> QED
      BY <1>4, <3>1
  <2>6. XDrawLines(l, "CoordModePrevious")
          = [j \in 1 .. n - 1 |-> <<Summed(ends)[2 * j - 1], Summed(ends)[2 * j]>>]
    BY DEF XDrawLines, ends
  <2>7. 2 * i - 1 = 1 /\ 2 * i = 2 /\ i + 1 = 2
    BY <2>1
  <2>8. XDrawLines(l, "CoordModePrevious")[i] = <<Summed(ends)[1], Summed(ends)[2]>>
    BY <2>6, <2>7
  <2> QED
    BY <1>3, <2>1, <2>2, <2>4, <2>5, <2>7, <2>8
<1> QED
  BY <1>5, <1>6, <1>7, <1>8 DEF at

-----------------------------------------------------------------------------
(* Windows.  What is asked of them follows their tree.                     *)
(* The parents of windows come before them.                                *)
TreeIs(t) ==
  /\ Len(t) \in Nat /\ DOMAIN t = 1 .. Len(t)
  /\ \A w \in 1 .. Len(t) : /\ t[w].parent \in Nat /\ t[w].parent < w
                            /\ t[w].x \in Int /\ t[w].y \in Int /\ t[w].hidden \in BOOLEAN

(* The trees that there are do.                                            *)
LEMMA TreesAre == ASSUME NEW t \in Trees PROVE TreeIs(t)
<1> DEFINE W == [parent : Nat, x : Int, y : Int, width : Nat, height : Nat, hidden : BOOLEAN]
<1>1. t \in Seq(W) /\ \A w \in DOMAIN t : t[w].parent < w
  BY TreesAssumption
<1>2. Len(t) \in Nat /\ DOMAIN t = 1 .. Len(t) /\ \A w \in 1 .. Len(t) : t[w] \in W
  <2> HIDE DEF W
  <2> QED
    BY <1>1
<1>3. \A u \in W : u.parent \in Nat /\ u.x \in Int /\ u.y \in Int /\ u.hidden \in BOOLEAN
  OBVIOUS
<1> HIDE DEF W
<1> QED
  BY <1>1, <1>2, <1>3 DEF TreeIs

(* A window is where its parent is, and its place in it further.           *)
LEMMA OriginIs ==
  ASSUME NEW t, TreeIs(t)
  PROVE  /\ Origin(t, 0) = <<0, 0>>
         /\ \A w \in 0 .. Len(t) : Origin(t, w) \in Plane
         /\ \A w \in 1 .. Len(t) :
              Origin(t, w) = <<Origin(t, t[w].parent)[1] + t[w].x, Origin(t, t[w].parent)[2] + t[w].y>>
<1> DEFINE n == Len(t)
           Further(w, q) == <<q[1] + t[w].x, q[2] + t[w].y>>
           step == [w \in 1 .. n |-> [q \in Plane |-> Further(w, q)]]
           back == [w \in 1 .. n |-> t[w].parent]
<1>0. n \in Nat /\ \A w \in 1 .. n : /\ t[w].parent \in Nat /\ t[w].parent < w
                                     /\ t[w].x \in Int /\ t[w].y \in Int
  BY DEF TreeIs
<1>1. \A w \in 1 .. n, q \in Plane : Further(w, q) \in Plane
  <2> SUFFICES ASSUME NEW w \in 1 .. n, NEW q \in Plane
               PROVE  Further(w, q) \in Plane
    OBVIOUS
  <2>1. q[1] \in Int /\ q[2] \in Int
    BY DEF Plane
  <2>2. q[1] + t[w].x \in Int /\ q[2] + t[w].y \in Int
    BY <1>0, <2>1
  <2> QED
    BY <2>2 DEF Plane
<1>2. step \in [1 .. n -> [Plane -> Plane]] /\ <<0, 0>> \in Plane
  <2>1. <<0, 0>> \in Plane
    BY DEF Plane
  <2> HIDE DEF Further
  <2> QED
    BY <1>1, <2>1
<1>3. back \in [1 .. n -> Nat] /\ \A w \in 1 .. n : back[w] < w
  BY <1>0
<1>4. PICK f : IsClimb(f, Plane, <<0, 0>>, n, back, step)
  <2> HIDE DEF step, back, n
  <2> QED
    BY <1>0, <1>2, <1>3, ClimbExists
<1>5. /\ f \in [0 .. n -> Plane]
      /\ \A w \in 0 .. n : f[w] = IF w = 0 THEN <<0, 0>> ELSE step[w][f[back[w]]]
  BY <1>4 DEF IsClimb
<1>6. \A w \in 0 .. n : f[w] = IF w = 0 THEN <<0, 0>>
                               ELSE <<f[t[w].parent][1] + t[w].x, f[t[w].parent][2] + t[w].y>>
  <2> SUFFICES ASSUME NEW w \in 0 .. n, w # 0
               PROVE  f[w] = Further(w, f[t[w].parent])
    BY <1>5
  <2>1. w \in 1 .. n
    BY <1>0
  <2>2. t[w].parent \in 0 .. n
    BY <1>0, <2>1
  <2>3. f[t[w].parent] \in Plane /\ back[w] = t[w].parent
    BY <1>5, <2>1, <2>2
  <2>4. step[w][f[t[w].parent]] = Further(w, f[t[w].parent])
    <3> HIDE DEF Further
    <3> QED
      BY <2>1, <2>3
  <2> HIDE DEF step, back, Further
  <2> QED
    BY <1>5, <2>3, <2>4
<1> DEFINE origin[v \in 0 .. Len(t)] ==
        IF v = 0 THEN <<0, 0>>
        ELSE <<origin[t[v].parent][1] + t[v].x, origin[t[v].parent][2] + t[v].y>>
<1>7. f = [v \in 0 .. Len(t) |-> IF v = 0 THEN <<0, 0>>
                                 ELSE <<f[t[v].parent][1] + t[v].x, f[t[v].parent][2] + t[v].y>>]
  BY <1>5, <1>6
<1>8. origin = [v \in 0 .. Len(t) |-> IF v = 0 THEN <<0, 0>>
                       ELSE <<origin[t[v].parent][1] + t[v].x, origin[t[v].parent][2] + t[v].y>>]
  BY <1>7, Zenon
<1>9. \A w : Origin(t, w) = origin[w]
  BY DEF Origin
<1> HIDE DEF origin, step, back
<1>10. \A w \in 0 .. n : origin[w] = IF w = 0 THEN <<0, 0>>
                           ELSE <<origin[t[w].parent][1] + t[w].x, origin[t[w].parent][2] + t[w].y>>
  BY <1>8
<1>11. \A w \in 0 .. n : origin[w] \in Plane
  <2> DEFINE G == {m \in Nat : \A w \in 0 .. n : w <= m => origin[w] \in Plane}
  <2>1. 0 \in G
    <3> SUFFICES ASSUME NEW w \in 0 .. n, w <= 0
                 PROVE  origin[w] \in Plane
      OBVIOUS
    <3>1. w = 0
      OBVIOUS
    <3> QED
      BY <1>2, <1>10, <3>1
  <2>2. ASSUME NEW m \in Nat, m \in G
        PROVE  m + 1 \in G
    <3> SUFFICES ASSUME NEW w \in 0 .. n, w = m + 1
                 PROVE  origin[w] \in Plane
      BY <2>2
    <3>1. w \in 1 .. n /\ w # 0
      BY <1>0
    <3>2. t[w].parent \in 0 .. n /\ t[w].parent <= m
      BY <1>0, <3>1
    <3>3. origin[t[w].parent] \in Plane
      BY <2>2, <3>2
    <3>4. Further(w, origin[t[w].parent]) \in Plane
      <4> HIDE DEF Further
      <4> QED
        BY <1>1, <3>1, <3>3
    <3> QED
      BY <1>10, <3>1, <3>4
  <2>3. Nat \subseteq G
    <3> HIDE DEF G
    <3> QED
      BY <2>1, <2>2, UpFrom0
  <2> SUFFICES ASSUME NEW w \in 0 .. n
               PROVE  origin[w] \in Plane
    OBVIOUS
  <2>4. w \in Nat /\ w <= w
    BY <1>0
  <2>5. w \in G
    <3> HIDE DEF G
    <3> QED
      BY <2>3, <2>4
  <2> QED
    BY <2>4, <2>5
<1>12. \A w \in 1 .. n : w \in 0 .. n /\ w # 0
  OBVIOUS
<1>13. 0 \in 0 .. n
  BY <1>0
<1> QED
  BY <1>9, <1>10, <1>11, <1>12, <1>13

(* A window is hidden when it or its parent is.                            *)
LEMMA HiddenIs ==
  ASSUME NEW t, TreeIs(t)
  PROVE  /\ IsHidden(t, 0) = FALSE
         /\ \A w \in 1 .. Len(t) : IsHidden(t, w) = (t[w].hidden \/ IsHidden(t, t[w].parent))
<1> DEFINE n == Len(t)
           Further(w, h) == t[w].hidden \/ h
           step == [w \in 1 .. n |-> [h \in BOOLEAN |-> Further(w, h)]]
           back == [w \in 1 .. n |-> t[w].parent]
<1>0. n \in Nat /\ \A w \in 1 .. n : t[w].parent \in Nat /\ t[w].parent < w /\ t[w].hidden \in BOOLEAN
  BY DEF TreeIs
<1>1. step \in [1 .. n -> [BOOLEAN -> BOOLEAN]]
  OBVIOUS
<1>2. back \in [1 .. n -> Nat] /\ \A w \in 1 .. n : back[w] < w
  BY <1>0
<1>3. PICK f : IsClimb(f, BOOLEAN, FALSE, n, back, step)
  <2> HIDE DEF step, back, n
  <2> QED
    BY <1>0, <1>1, <1>2, ClimbExists
<1>4. /\ f \in [0 .. n -> BOOLEAN]
      /\ \A w \in 0 .. n : f[w] = IF w = 0 THEN FALSE ELSE step[w][f[back[w]]]
  BY <1>3 DEF IsClimb
<1>5. \A w \in 0 .. n : f[w] = (w # 0 /\ (t[w].hidden \/ f[t[w].parent]))
  <2> SUFFICES ASSUME NEW w \in 0 .. n
               PROVE  f[w] = (w # 0 /\ (t[w].hidden \/ f[t[w].parent]))
    OBVIOUS
  <2>1. CASE w = 0
    BY <1>4, <2>1
  <2>2. CASE w # 0
    <3>1. w \in 1 .. n
      BY <1>0, <2>2
    <3>2. t[w].parent \in 0 .. n
      BY <1>0, <3>1
    <3>3. f[t[w].parent] \in BOOLEAN /\ back[w] = t[w].parent
      BY <1>4, <3>1, <3>2
    <3>4. step[w][f[t[w].parent]] = Further(w, f[t[w].parent])
      <4> HIDE DEF Further
      <4> QED
        BY <3>1, <3>3
    <3>5. f[w] = Further(w, f[t[w].parent])
      <4> HIDE DEF step, back, Further
      <4> QED
        BY <1>4, <2>2, <3>3, <3>4
    <3> QED
      BY <2>2, <3>5, Zenon
  <2> QED
    BY <2>1, <2>2
<1> DEFINE hidden[v \in 0 .. Len(t)] == v # 0 /\ (t[v].hidden \/ hidden[t[v].parent])
<1>6. f = [v \in 0 .. Len(t) |-> v # 0 /\ (t[v].hidden \/ f[t[v].parent])]
  BY <1>4, <1>5, Zenon
<1>7. hidden = [v \in 0 .. Len(t) |-> v # 0 /\ (t[v].hidden \/ hidden[t[v].parent])]
  BY <1>6, Zenon
<1>8. \A w : IsHidden(t, w) = hidden[w]
  BY DEF IsHidden
<1> HIDE DEF hidden, step, back
<1>9. \A w \in 0 .. n : hidden[w] = (w # 0 /\ (t[w].hidden \/ hidden[t[w].parent]))
  BY <1>7
<1>10. 0 \in 0 .. n /\ \A w \in 1 .. n : w \in 0 .. n /\ w # 0
  BY <1>0
<1>11. hidden[0] = FALSE
  BY <1>9, <1>10, Zenon
<1>12. \A w \in 1 .. n : hidden[w] = (t[w].hidden \/ hidden[t[w].parent])
  BY <1>9, <1>10, Zenon
<1> QED
  BY <1>8, <1>11, <1>12, Zenon

(* The tree lists a window's children.                                     *)
LEMMA ChildrenAre ==
  ASSUME NEW t, TreeIs(t), NEW w
  PROVE  ToSet(Children(t, w)) = ChildrenOf(t, w)
<1> DEFINE S == ChildrenOf(t, w)
           n == Cardinality(S)
           s == Children(t, w)
<1>1. Len(t) \in Nat /\ S \in SUBSET (1 .. Len(t))
  BY DEF TreeIs, ChildrenOf
<1>2. IsFiniteSet(S) /\ n \in Nat /\ \E u : Ascends(u, S)
  <2> HIDE DEF S
  <2> QED
    BY <1>1, AscendingExists
<1>3. Ascends(s, S)
  <2>1. \E u \in [1 .. n -> S] : \A i, j \in DOMAIN u : i < j => u[i] < u[j]
    <3>1. PICK u : Ascends(u, S)
      BY <1>2
    <3> HIDE DEF S
    <3>2. u \in [1 .. n -> S] /\ DOMAIN u = 1 .. n
      BY <3>1 DEF Ascends
    <3> QED
      BY <3>1, <3>2 DEF Ascends
  <2>2. s \in [1 .. n -> S] /\ \A i, j \in DOMAIN s : i < j => s[i] < s[j]
    BY <2>1, Zenon DEF Children
  <2> HIDE DEF s, S
  <2> QED
    BY <2>2 DEF Ascends
<1> HIDE DEF s, S, n
<1>4. s \in [1 .. n -> S] /\ \A i, j \in 1 .. n : i < j => s[i] < s[j]
  BY <1>3 DEF Ascends, n
<1>5. s \in Injection(1 .. n, S)
  <2> SUFFICES ASSUME NEW i \in 1 .. n, NEW j \in 1 .. n, s[i] = s[j]
               PROVE  i = j
    BY <1>4 DEF Injection, IsInjective
  <2>1. s[i] \in Nat /\ s[j] \in Nat
    <3>1. s[i] \in S /\ s[j] \in S
      BY <1>4
    <3>2. S \subseteq Nat
      BY <1>1
    <3> QED
      BY <3>1, <3>2
  <2>2. ~(i < j) /\ ~(j < i)
    BY <1>4, <2>1
  <2> QED
    BY <1>2, <2>2
<1>6. Cardinality(1 .. n) = n
  BY <1>2, FS_Interval
<1>7. s \in Surjection(1 .. n, S)
  BY <1>2, <1>5, <1>6, FS_Injection DEF n
<1> QED
  BY <1>4, <1>7 DEF Surjection, ToSet, s, S

(* What a point is under, from the windows below on.                       *)
IsUnder(f, t, p, A) ==
  \A v \in A :
    LET hit == {c \in ChildrenOf(t, v) : f[c] # 0}
    IN  f[v] = IF hit # {} THEN f[Max(hit)] ELSE IF InFrame(t, v, p) THEN v ELSE 0

(* What the recursion of XDrawable::contains defines exists.               *)
LEMMA UnderExists ==
  ASSUME NEW t, TreeIs(t), NEW p
  PROVE  \E f : f = [v \in DOMAIN t |-> f[v]] /\ IsUnder(f, t, p, DOMAIN t)
<1> DEFINE n == Len(t)
           Is(f, m) == f = [v \in 1 .. n |-> f[v]] /\ IsUnder(f, t, p, n - m + 1 .. n)
           G == {m \in Nat : m > n \/ \E f : Is(f, m)}
<1>0. n \in Nat /\ DOMAIN t = 1 .. n
  BY DEF TreeIs
<1>1. 0 \in G
  <2>1. n - 0 + 1 .. n = {}
    BY <1>0
  <2>2. Is([v \in 1 .. n |-> 0], 0)
    BY <2>1 DEF IsUnder
  <2> HIDE DEF Is
  <2> QED
    BY <2>2
<1>2. ASSUME NEW m \in Nat, m \in G
      PROVE  m + 1 \in G
  <2>1. CASE m + 1 > n
    BY <2>1
  <2>2. CASE ~(m + 1 > n)
    <3>1. PICK f : Is(f, m)
      <4> HIDE DEF Is
      <4> QED
        BY <1>0, <1>2, <2>2
    <3> DEFINE w == n - m
               hit(g, v) == {c \in ChildrenOf(t, v) : g[c] # 0}
               Value(g, v) == IF hit(g, v) # {} THEN g[Max(hit(g, v))]
                              ELSE IF InFrame(t, v, p) THEN v ELSE 0
               new == Value(f, w)
               g == [v \in 1 .. n |-> IF v = w THEN new ELSE f[v]]
    <3>2. w \in 1 .. n /\ n - (m + 1) + 1 = w
      BY <1>0, <2>2
    <3>3. \A v \in w .. n : \A c \in ChildrenOf(t, v) : c \in w + 1 .. n /\ g[c] = f[c]
      <4> SUFFICES ASSUME NEW v \in w .. n, NEW c \in ChildrenOf(t, v)
                   PROVE  c \in w + 1 .. n /\ g[c] = f[c]
        OBVIOUS
      <4>1. c \in 1 .. n /\ v < c
        BY DEF ChildrenOf, TreeIs
      <4> HIDE DEF new, w, n
      <4>2. c \in w + 1 .. n /\ c # w
        BY <1>0, <3>2, <4>1
      <4> QED
        BY <4>1, <4>2
    <3>4. \A v \in w .. n : hit(g, v) = hit(f, v)
      <4> HIDE DEF g, w
      <4> QED
        BY <3>3
    <3>5. \A v \in w .. n : Value(g, v) = Value(f, v)
      <4> SUFFICES ASSUME NEW v \in w .. n
                   PROVE  Value(g, v) = Value(f, v)
        OBVIOUS
      <4>1. hit(g, v) = hit(f, v)
        BY <3>4
      <4>2. CASE hit(f, v) = {}
        <5> HIDE DEF hit, g, w
        <5> QED
          BY <4>1, <4>2
      <4>3. CASE hit(f, v) # {}
        <5>1. hit(f, v) \subseteq ChildrenOf(t, v)
          OBVIOUS
        <5>2. hit(f, v) \subseteq 1 .. n
          BY <5>1, <1>0 DEF ChildrenOf
        <5>3. Max(hit(f, v)) \in hit(f, v)
          <6> HIDE DEF hit, n
          <6> QED
            BY <1>0, <4>3, <5>2, MaxIs
        <5>4. g[Max(hit(f, v))] = f[Max(hit(f, v))]
          <6> HIDE DEF hit, g, w
          <6> QED
            BY <3>3, <5>1, <5>3
        <5> HIDE DEF hit, g, w
        <5> QED
          BY <4>1, <4>3, <5>4
      <4> QED
        BY <4>2, <4>3
    <3>6. \A v \in w .. n : g[v] = Value(f, v)
      <4> SUFFICES ASSUME NEW v \in w .. n
                   PROVE  g[v] = Value(f, v)
        OBVIOUS
      <4>1. CASE v = w
        <5> HIDE DEF Value, w
        <5> QED
          BY <3>2, <4>1
      <4>2. CASE v # w
        <5>1. v \in n - m + 1 .. n /\ v \in 1 .. n
          <6>1. n - m + 1 = w + 1
            BY <1>0
          <6>2. v \in w + 1 .. n /\ v \in 1 .. n
            <7> HIDE DEF w, n
            <7> QED
              BY <1>0, <3>2, <4>2
          <6> QED
            BY <6>1, <6>2
        <5>2. g[v] = f[v]
          <6> HIDE DEF new, w
          <6> QED
            BY <4>2, <5>1
        <5>3. f[v] = Value(f, v)
          <6> HIDE DEF g, w
          <6> QED
            BY <3>1, <5>1, Zenon DEF IsUnder
        <5> QED
          BY <5>2, <5>3, Zenon
      <4> QED
        BY <4>1, <4>2
    <3>7. \A v \in w .. n : g[v] = Value(g, v)
      <4> HIDE DEF Value, g, w
      <4> QED
        BY <3>5, <3>6
    <3>8. g = [v \in 1 .. n |-> g[v]]
      <4> HIDE DEF new, w
      <4> QED
        OBVIOUS
    <3> HIDE DEF g
    <3>9. Is(g, m + 1)
      <4>1. IsUnder(g, t, p, w .. n)
        <5> HIDE DEF w
        <5> QED
          BY <3>7, Zenon DEF IsUnder
      <4> HIDE DEF w
      <4> QED
        BY <3>2, <3>8, <4>1
    <3> HIDE DEF Is
    <3> QED
      BY <3>9
  <2> QED
    BY <2>1, <2>2
<1>3. n \in G
  <2> HIDE DEF G
  <2> QED
    BY <1>0, <1>1, <1>2, UpFrom0
<1>4. PICK f : Is(f, n)
  <2> HIDE DEF Is
  <2> QED
    BY <1>0, <1>3
<1>5. n - n + 1 = 1
  BY <1>0
<1> HIDE DEF n
<1> QED
  BY <1>0, <1>4, <1>5

(* The point is in the last of the children that have it, or in the window.*)
LEMMA UnderIs ==
  ASSUME NEW t, TreeIs(t), NEW p, NEW w \in 1 .. Len(t)
  PROVE  LET hit == {c \in ChildrenOf(t, w) : Under(t, c, p) # 0}
         IN  Under(t, w, p) = IF hit # {} THEN Under(t, Max(hit), p)
                              ELSE IF InFrame(t, w, p) THEN w ELSE 0
<1> DEFINE Value(f, v) == LET hit == {c \in ChildrenOf(t, v) : f[c] # 0}
                          IN  IF hit # {} THEN f[Max(hit)] ELSE IF InFrame(t, v, p) THEN v ELSE 0
           under[v \in DOMAIN t] == Value(under, v)
<1>1. PICK f : f = [v \in DOMAIN t |-> f[v]] /\ IsUnder(f, t, p, DOMAIN t)
  BY UnderExists
<1>2. f = [v \in DOMAIN t |-> Value(f, v)]
  <2>1. \A v \in DOMAIN t : f[v] = Value(f, v)
    BY <1>1, Zenon DEF IsUnder
  <2> HIDE DEF Value
  <2> QED
    BY <1>1, <2>1
<1>3. under = [v \in DOMAIN t |-> Value(under, v)]
  <2> HIDE DEF Value
  <2> QED
    BY <1>2, Zenon
<1>4. \A v : Under(t, v, p) = under[v]
  BY Zenon DEF Under
<1> HIDE DEF under
<1>5. under[w] = Value(under, w)
  <2> HIDE DEF Value
  <2>1. w \in DOMAIN t
    BY DEF TreeIs
  <2> QED
    BY <1>3, <2>1
<1> QED
  BY <1>4, <1>5

(* A point that is converted is as far from the windows' origins.          *)
LEMMA TranslatedIs ==
  ASSUME NEW t, TreeIs(t), NEW v \in 0 .. Len(t), NEW w \in 0 .. Len(t), NEW p \in Plane
  PROVE  /\ XTranslateCoordinates(t, w, v, p).at
              = <<p[1] + Origin(t, w)[1] - Origin(t, v)[1], p[2] + Origin(t, w)[2] - Origin(t, v)[2]>>
         /\ XTranslateCoordinates(t, w, v, p).at \in Plane
         /\ ConvertFromScreen(t, w, p) \in Plane
<1>1. /\ Origin(t, w)[1] \in Int /\ Origin(t, w)[2] \in Int
      /\ Origin(t, v)[1] \in Int /\ Origin(t, v)[2] \in Int
      /\ p[1] \in Int /\ p[2] \in Int
  <2>1. Origin(t, w) \in Plane /\ Origin(t, v) \in Plane
    BY OriginIs
  <2> QED
    BY <2>1 DEF Plane
<1>2. XTranslateCoordinates(t, w, v, p).at
        = <<(p[1] + Origin(t, w)[1]) - Origin(t, v)[1], (p[2] + Origin(t, w)[2]) - Origin(t, v)[2]>>
  BY DEF XTranslateCoordinates, ConvertFromScreen, ConvertToScreen
<1>3. /\ (p[1] + Origin(t, w)[1]) - Origin(t, v)[1] = p[1] + Origin(t, w)[1] - Origin(t, v)[1]
      /\ (p[2] + Origin(t, w)[2]) - Origin(t, v)[2] = p[2] + Origin(t, w)[2] - Origin(t, v)[2]
      /\ (p[1] + Origin(t, w)[1]) - Origin(t, v)[1] \in Int
      /\ (p[2] + Origin(t, w)[2]) - Origin(t, v)[2] \in Int
  <2>1. \A a, b, c \in Int : (a + b) - c = a + b - c /\ (a + b) - c \in Int
    OBVIOUS
  <2>2. /\ (p[1] + Origin(t, w)[1]) - Origin(t, v)[1] = p[1] + Origin(t, w)[1] - Origin(t, v)[1]
        /\ (p[1] + Origin(t, w)[1]) - Origin(t, v)[1] \in Int
    BY <1>1, <2>1, Zenon
  <2>3. /\ (p[2] + Origin(t, w)[2]) - Origin(t, v)[2] = p[2] + Origin(t, w)[2] - Origin(t, v)[2]
        /\ (p[2] + Origin(t, w)[2]) - Origin(t, v)[2] \in Int
    BY <1>1, <2>1, Zenon
  <2> QED
    BY <2>2, <2>3
<1>4. p[1] - Origin(t, w)[1] \in Int /\ p[2] - Origin(t, w)[2] \in Int
  BY <1>1
<1> QED
  BY <1>2, <1>3, <1>4 DEF Plane, ConvertFromScreen

(* A window is viewable when neither it nor one above it is hidden.        *)
LEMMA ViewableIs ==
  ASSUME NEW t, TreeIs(t), NEW w \in 0 .. Len(t)
  PROVE  (XGetWindowAttributes(t, w).map_state = "IsViewable") <=> ~IsHidden(t, w)
<1>1. CASE w = 0
  BY <1>1, HiddenIs DEF XGetWindowAttributes
<1>2. CASE w # 0
  <2>1. w \in 1 .. Len(t) /\ t[w].hidden \in BOOLEAN
    BY <1>2 DEF TreeIs
  <2>2. IsHidden(t, w) = (t[w].hidden \/ IsHidden(t, t[w].parent))
    BY <2>1, HiddenIs
  <2>3. t[w].parent = 0 => ~IsHidden(t, t[w].parent)
    BY HiddenIs
  <2>4. XGetWindowAttributes(t, w).map_state
          = IF t[w].hidden THEN "IsUnmapped"
            ELSE IF t[w].parent # 0 /\ IsHidden(t, w) THEN "IsUnviewable" ELSE "IsViewable"
    BY <1>2 DEF XGetWindowAttributes
  <2>5. CASE t[w].hidden
    BY <2>2, <2>4, <2>5
  <2>6. CASE ~t[w].hidden
    <3>1. CASE IsHidden(t, w)
      <4>1. t[w].parent # 0
        BY <2>2, <2>3, <2>6, <3>1, Zenon
      <4> QED
        BY <2>4, <2>6, <3>1, <4>1
    <3>2. CASE ~IsHidden(t, w)
      BY <2>4, <2>6, <3>2
    <3> QED
      BY <3>1, <3>2
  <2> QED
    BY <2>5, <2>6
<1> QED
  BY <1>1, <1>2

(* The pointer is in the last child that has it, where no child has more.  *)
LEMMA PointerIs ==
  ASSUME NEW t, TreeIs(t), NEW w \in 1 .. Len(t), NEW q,
         \A c \in ChildrenOf(t, w) : ChildrenOf(t, c) = {}
  PROVE  LET under == {c \in ChildrenOf(t, w) : InFrame(t, c, q)}
             child == Under(t, w, q)
         IN  (IF child = w THEN 0 ELSE child)
               = IF under = {} THEN 0 ELSE CHOOSE c \in under : \A d \in under : d <= c
<1> DEFINE under == {c \in ChildrenOf(t, w) : InFrame(t, c, q)}
           hit == {c \in ChildrenOf(t, w) : Under(t, c, q) # 0}
<1>1. \A c \in ChildrenOf(t, w) : c \in 1 .. Len(t) /\ w < c
  BY DEF ChildrenOf, TreeIs
<1>2. ASSUME NEW c \in ChildrenOf(t, w)
      PROVE  Under(t, c, q) = IF InFrame(t, c, q) THEN c ELSE 0
  <2> DEFINE below == {d \in ChildrenOf(t, c) : Under(t, d, q) # 0}
  <2>1. below = {}
    OBVIOUS
  <2>2. Under(t, c, q) = IF below # {} THEN Under(t, Max(below), q)
                         ELSE IF InFrame(t, c, q) THEN c ELSE 0
    BY <1>1, UnderIs
  <2> HIDE DEF below
  <2> QED
    BY <2>1, <2>2
<1>3. hit = under
  BY <1>1, <1>2
<1>4. Under(t, w, q) = IF hit # {} THEN Under(t, Max(hit), q)
                       ELSE IF InFrame(t, w, q) THEN w ELSE 0
  BY UnderIs
<1>5. under \subseteq 1 .. Len(t) /\ under \subseteq ChildrenOf(t, w) /\ \A c \in under : InFrame(t, c, q)
  BY <1>1
<1> HIDE DEF hit, under
<1>6. ASSUME under = {}
      PROVE  (IF Under(t, w, q) = w THEN 0 ELSE Under(t, w, q)) = 0
  BY <1>3, <1>4, <1>6
<1>7. ASSUME under # {}
      PROVE  (IF Under(t, w, q) = w THEN 0 ELSE Under(t, w, q))
               = CHOOSE c \in under : \A d \in under : d <= c
  <2> DEFINE m == Max(under)
             c == CHOOSE x \in under : \A d \in under : d <= x
  <2>0. Len(t) \in Nat
    BY DEF TreeIs
  <2>1. m \in under /\ \A d \in under : m >= d
    BY <1>5, <1>7, <2>0, MaxIs
  <2> HIDE DEF m
  <2>2. m \in Nat /\ \A d \in under : d \in Nat
    BY <1>5, <2>1
  <2>3. \E x \in under : \A d \in under : d <= x
    BY <2>1, <2>2
  <2>4. c \in under /\ \A d \in under : d <= c
    BY <2>3
  <2> HIDE DEF c
  <2>5. c = m
    BY <2>1, <2>2, <2>4
  <2>6. Under(t, w, q) = Under(t, m, q)
    BY <1>3, <1>4, <1>7 DEF m
  <2>7. Under(t, m, q) = m
    BY <1>2, <1>5, <2>1
  <2>8. m # w
    BY <1>1, <1>5, <2>1
  <2>9. (IF Under(t, w, q) = w THEN 0 ELSE Under(t, w, q)) = c
    BY <2>5, <2>6, <2>7, <2>8
  <2> QED
    BY <2>9 DEF c
<1> QED
  BY <1>6, <1>7 DEF under

(* What is asked of windows agrees.                                        *)
LEMMA WindowsAre == WindowsAgree
<1> SUFFICES ASSUME NEW t \in Trees, NEW w \in DOMAIN t, NEW p \in Pointers_
             PROVE  LET tree == XQueryTree(t, w)
                        above == XGetWindowAttributes(t, tree.parent).map_state
                    IN  /\ \A v \in DOMAIN t \cup {0} :
                             XTranslateCoordinates(t, v, w, XTranslateCoordinates(t, w, v, p).at).at = p
                        /\ XTranslateCoordinates(t, w, tree.parent, p).at
                             = <<p[1] + XGetWindowAttributes(t, w).x, p[2] + XGetWindowAttributes(t, w).y>>
                        /\ tree.parent # 0 => w \in ToSet(XQueryTree(t, tree.parent).children)
                        /\ (XGetWindowAttributes(t, w).map_state = "IsViewable")
                             = (~t[w].hidden /\ above = "IsViewable")
                        /\ LET q == ConvertFromScreen(t, w, p)
                               pointer == XQueryPointer(t, w, p, 0)
                               under == {c \in ToSet(tree.children) : InFrame(t, c, q)}
                           IN  tree.parent = 0 /\ q[1] >= 0 /\ q[2] >= 0 =>
                                 /\ pointer.win = q
                                 /\ (\A c \in ToSet(tree.children) : XQueryTree(t, c).children = <<>>) =>
                                      pointer.child = IF under = {} THEN 0
                                                      ELSE CHOOSE c \in under : \A d \in under : d <= c
  BY Zenon DEF WindowsAgree
<1> DEFINE n == Len(t)
           u == t[w].parent
           Map(v) == XGetWindowAttributes(t, v).map_state
           q == ConvertFromScreen(t, w, p)
           under == {c \in ToSet(Children(t, w)) : InFrame(t, c, q)}
<1>1. TreeIs(t)
  BY TreesAre
<1>2. /\ n \in Nat /\ DOMAIN t = 1 .. n /\ w \in 1 .. n /\ w \in 0 .. n /\ w # 0
      /\ u \in Nat /\ u < w /\ u \in 0 .. n
      /\ t[w].x \in Int /\ t[w].y \in Int /\ t[w].hidden \in BOOLEAN
  BY <1>1 DEF TreeIs
<1>3. p \in Plane /\ p[1] \in Int /\ p[2] \in Int /\ p = <<p[1], p[2]>>
  <2>1. p \in Int \X Int
    BY TreesAssumption
  <2> QED
    BY <2>1 DEF Plane
<1>4. /\ XQueryTree(t, w).parent = u /\ XQueryTree(t, w).children = Children(t, w)
      /\ XGetWindowAttributes(t, w).x = t[w].x /\ XGetWindowAttributes(t, w).y = t[w].y
  BY <1>2 DEF XQueryTree, XGetWindowAttributes
<1>5. \A v \in 0 .. n : Origin(t, v)[1] \in Int /\ Origin(t, v)[2] \in Int
  <2>1. \A v \in 0 .. n : Origin(t, v) \in Plane
    BY <1>1, OriginIs
  <2> QED
    BY <2>1 DEF Plane
<1>6. ASSUME NEW v \in DOMAIN t \cup {0}
      PROVE  XTranslateCoordinates(t, v, w, XTranslateCoordinates(t, w, v, p).at).at = p
  <2>1. v \in 0 .. n
    BY <1>2
  <2> DEFINE r == XTranslateCoordinates(t, w, v, p).at
  <2>2. /\ r = <<p[1] + Origin(t, w)[1] - Origin(t, v)[1], p[2] + Origin(t, w)[2] - Origin(t, v)[2]>>
        /\ r \in Plane
    BY <1>1, <1>2, <1>3, <2>1, TranslatedIs
  <2> HIDE DEF r
  <2>3. XTranslateCoordinates(t, v, w, r).at
          = <<r[1] + Origin(t, v)[1] - Origin(t, w)[1], r[2] + Origin(t, v)[2] - Origin(t, w)[2]>>
    BY <1>1, <1>2, <2>1, <2>2, TranslatedIs
  <2>4. /\ r[1] + Origin(t, v)[1] - Origin(t, w)[1] = p[1]
        /\ r[2] + Origin(t, v)[2] - Origin(t, w)[2] = p[2]
    <3>1. /\ r[1] = p[1] + Origin(t, w)[1] - Origin(t, v)[1]
          /\ r[2] = p[2] + Origin(t, w)[2] - Origin(t, v)[2]
      BY <2>2
    <3> HIDE DEF n
    <3> QED
      BY <1>2, <1>3, <1>5, <2>1, <3>1
  <2> QED
    BY <1>3, <2>3, <2>4 DEF r
<1>7. XTranslateCoordinates(t, w, u, p).at = <<p[1] + t[w].x, p[2] + t[w].y>>
  <2>1. XTranslateCoordinates(t, w, u, p).at
          = <<p[1] + Origin(t, w)[1] - Origin(t, u)[1], p[2] + Origin(t, w)[2] - Origin(t, u)[2]>>
    BY <1>1, <1>2, <1>3, TranslatedIs
  <2>2. Origin(t, w) = <<Origin(t, u)[1] + t[w].x, Origin(t, u)[2] + t[w].y>>
    BY <1>1, <1>2, OriginIs
  <2>3. /\ p[1] + Origin(t, w)[1] - Origin(t, u)[1] = p[1] + t[w].x
        /\ p[2] + Origin(t, w)[2] - Origin(t, u)[2] = p[2] + t[w].y
    <3>1. Origin(t, w)[1] = Origin(t, u)[1] + t[w].x /\ Origin(t, w)[2] = Origin(t, u)[2] + t[w].y
      BY <2>2
    <3>2. Origin(t, u)[1] \in Int /\ Origin(t, u)[2] \in Int
      BY <1>2, <1>5
    <3> HIDE DEF n, u
    <3> QED
      BY <1>2, <1>3, <3>1, <3>2
  <2> QED
    BY <2>1, <2>3
<1>8. u # 0 => w \in ToSet(XQueryTree(t, u).children)
  <2> SUFFICES ASSUME u # 0
               PROVE  w \in ToSet(XQueryTree(t, u).children)
    OBVIOUS
  <2>1. XQueryTree(t, u).children = Children(t, u)
    BY DEF XQueryTree
  <2>2. w \in ChildrenOf(t, u)
    BY <1>2 DEF ChildrenOf
  <2> QED
    BY <1>1, <2>1, <2>2, ChildrenAre
<1>9. (Map(w) = "IsViewable") = (~t[w].hidden /\ Map(u) = "IsViewable")
  <2>1. /\ (Map(w) = "IsViewable") <=> ~IsHidden(t, w)
        /\ (Map(u) = "IsViewable") <=> ~IsHidden(t, u)
    BY <1>1, <1>2, ViewableIs
  <2>2. IsHidden(t, w) = (t[w].hidden \/ IsHidden(t, u))
    BY <1>1, <1>2, HiddenIs
  <2> HIDE DEF u, Map
  <2> QED
    BY <2>1, <2>2, Zenon
<1>10. ASSUME q[1] >= 0, q[2] >= 0
       PROVE  XQueryPointer(t, w, p, 0).win = q
  <2>1. q \in Plane
    BY <1>1, <1>2, <1>3, TranslatedIs
  <2>2. XQueryPointer(t, w, p, 0).win = <<Abs(q[1]), Abs(q[2])>>
    BY DEF XQueryPointer
  <2> HIDE DEF q
  <2>3. q[1] \in Int /\ q[2] \in Int /\ q = <<q[1], q[2]>>
    BY <2>1 DEF Plane
  <2>4. Abs(q[1]) = q[1] /\ Abs(q[2]) = q[2]
    BY <1>10, <2>3 DEF Abs
  <2> QED
    BY <2>2, <2>3, <2>4
<1>11. ASSUME \A c \in ToSet(Children(t, w)) : XQueryTree(t, c).children = <<>>
       PROVE  XQueryPointer(t, w, p, 0).child = IF under = {} THEN 0
                                             ELSE CHOOSE c \in under : \A d \in under : d <= c
  <2>1. ToSet(Children(t, w)) = ChildrenOf(t, w)
    BY <1>1, ChildrenAre
  <2>2. ASSUME NEW c \in ChildrenOf(t, w)
        PROVE  ChildrenOf(t, c) = {}
    <3>1. c # 0
      BY <1>2 DEF ChildrenOf
    <3>2. Children(t, c) = <<>>
      <4>1. XQueryTree(t, c).children = Children(t, c)
        BY <3>1 DEF XQueryTree
      <4> QED
        BY <1>11, <2>1, <4>1
    <3>3. ToSet(<<>>) = {}
      BY DEF ToSet
    <3> QED
      BY <1>1, <3>2, <3>3, ChildrenAre
  <2>3. (IF Under(t, w, q) = w THEN 0 ELSE Under(t, w, q))
          = IF under = {} THEN 0 ELSE CHOOSE c \in under : \A d \in under : d <= c
    <3>1. under = {c \in ChildrenOf(t, w) : InFrame(t, c, q)}
      BY <2>1
    <3> HIDE DEF q, under, n
    <3>2. LET set == {c \in ChildrenOf(t, w) : InFrame(t, c, q)}
          IN  (IF Under(t, w, q) = w THEN 0 ELSE Under(t, w, q))
                = IF set = {} THEN 0 ELSE CHOOSE c \in set : \A d \in set : d <= c
      BY <1>1, <1>2, <2>2, PointerIs DEF n
    <3> QED
      BY <3>1, <3>2, Zenon
  <2>4. XQueryPointer(t, w, p, 0).child = IF Under(t, w, q) = w THEN 0 ELSE Under(t, w, q)
    BY <1>2 DEF XQueryPointer
  <2> HIDE DEF q, under
  <2> QED
    BY <2>3, <2>4
<1> HIDE DEF u, q, Map
<1> QED
  BY <1>4, <1>6, <1>7, <1>8, <1>9, <1>10, <1>11, Zenon DEF u, q, Map

(* Points, polygons, lines of one segment, rectangles, texts and exposures *)
(* are where their coordinates say, images as ImagesAreShown says, and     *)
(* windows where all that can be asked of them agrees (Drawing.cpp,        *)
(* Window.cpp, Drawables.cpp).  Relative lines of more segments are not:   *)
(* their inner points are counted twice (Drawing.cpp:124-133).             *)
THEOREM DrawnWhereTold == DrawingSpec => []DrawnAsTold
<1>1. ImagesAreShown => DrawnAsTold
  BY CoordinatesAre, ExposuresAre, ExposedIs, TextIs, WindowsAre DEF DrawnAsTold
<1> QED
  BY <1>1, ImagesAlwaysShown, PTL

-----------------------------------------------------------------------------
(* Division of what has a quotient and a remainder.                        *)
LEMMA DivModIs ==
  ASSUME NEW q \in Nat, NEW r \in Nat, NEW b \in Nat \ {0}, r < b
  PROVE  (q * b + r) \div b = q /\ (q * b + r) % b = r
<1> DEFINE n == q * b + r
           d == n \div b
           m == n % b
<1>1. q * b \in Nat /\ n \in Nat
  OBVIOUS
<1>2. d \in Nat /\ m \in 0 .. b - 1 /\ n = b * d + m
  BY <1>1
<1>3. d <= q
  <2> SUFFICES ASSUME d >= q + 1 PROVE FALSE
    BY <1>2
  <2>1. b * d >= b * (q + 1)
    BY <1>2
  <2>2. b * (q + 1) = q * b + b
    OBVIOUS
  <2> HIDE DEF d, m
  <2> QED
    BY <1>1, <1>2, <2>1, <2>2
<1>4. q <= d
  <2> SUFFICES ASSUME q >= d + 1 PROVE FALSE
    BY <1>2
  <2>1. b * q >= b * (d + 1)
    BY <1>2
  <2>2. b * (d + 1) = b * d + b /\ b * q = q * b
    BY <1>2
  <2> HIDE DEF d, m
  <2> QED
    BY <1>1, <1>2, <2>1, <2>2
<1>5. b * d = q * b
  BY <1>2, <1>3, <1>4
<1> HIDE DEF d, m
<1> QED
  BY <1>1, <1>2, <1>3, <1>4, <1>5 DEF d, m

(* What is rounded up is not less, by less than one unit more, and even.   *)
LEMMA RoundUpIs ==
  ASSUME NEW a \in Nat, NEW b \in Nat \ {0}
  PROVE  ROUNDUP(a, b) \in Nat /\ ROUNDUP(a, b) >= a /\ ROUNDUP(a, b) % b = 0
<1> DEFINE n == a + b - 1
           q == n \div b
<1>1. n \in Nat /\ q \in Nat /\ n = b * q + (n % b) /\ n % b \in 0 .. b - 1
  OBVIOUS
<1>2. ROUNDUP(a, b) = q * b + 0 /\ q * b = b * q /\ q * b \in Nat
  BY <1>1 DEF ROUNDUP
<1>3. (q * b + 0) % b = 0
  <2>1. 0 \in Nat /\ 0 < b
    OBVIOUS
  <2> HIDE DEF q
  <2> QED
    BY <1>1, <2>1, DivModIs
<1> HIDE DEF q
<1> QED
  BY <1>1, <1>2, <1>3

(* What is not less stays so when both are multiplied.                     *)
LEMMA TimesGrows ==
  ASSUME NEW a \in Nat, NEW b \in Nat, NEW c \in Nat, a <= b
  PROVE  a * c \in Nat /\ b * c \in Nat /\ a * c <= b * c
OBVIOUS

Byte == 0 .. 255
Pixel == [1 .. 4 -> Byte]

AllDepths == {1, 8, 15, 16, 24, 32}

(* An image of this library: its rows do not overlap.                      *)
Sound(image) ==
  /\ image = [depth |-> image.depth, unit |-> image.unit, width |-> image.width,
              height |-> image.height, bytes_per_line |-> image.bytes_per_line,
              data |-> image.data]
  /\ image.depth \in AllDepths /\ image.unit = ROUNDUP(image.depth, 8)
  /\ {image.width, image.height, image.bytes_per_line} \subseteq Nat
  /\ image.width * BytesOf(image) <= image.bytes_per_line
  /\ image.data \in [0 .. image.height * image.bytes_per_line - 1 -> Byte]

(* The bits of a pixel are one byte to four.                               *)
LEMMA UnitIs ==
  ASSUME NEW depth \in AllDepths
  PROVE  LET unit == ROUNDUP(depth, 8)
         IN /\ unit \in {8, 16, 24, 32} /\ unit \div 8 \in 1 .. 4 /\ unit = 8 * (unit \div 8)
            /\ depth = 1 => unit = 8
            /\ depth \in {8, 16, 24, 32} => unit = depth
BY DEF ROUNDUP, AllDepths

(* An image that was made is one of this library, and empty.               *)
LEMMA CreateIs ==
  ASSUME NEW depth \in AllDepths, NEW width \in Nat, NEW height \in Nat, NEW pad \in Nat
  PROVE  LET image == XCreateImage(depth, width, height, pad)
         IN /\ Sound(image)
            /\ image.depth = depth /\ image.width = width /\ image.height = height
            /\ \A i \in DOMAIN image.data : image.data[i] = 0
<1> DEFINE unit == ROUNDUP(depth, 8)
           line == BytesPerLine(width, unit, pad)
           image == XCreateImage(depth, width, height, pad)
           n == height * line - 1
<1>1. unit \in {8, 16, 24, 32} /\ unit \div 8 \in 1 .. 4
  BY UnitIs
<1>2. line \in Nat /\ line >= width * (unit \div 8)
  <2> DEFINE bare == width * (unit \div 8)
             p == pad \div 8
  <2>1. bare \in Nat /\ p \in Nat
    BY <1>1
  <2>2. line = IF p = 0 THEN bare ELSE ROUNDUP(bare, p)
    BY DEF BytesPerLine
  <2> HIDE DEF bare, p, line
  <2>3. p # 0 => ROUNDUP(bare, p) \in Nat /\ ROUNDUP(bare, p) >= bare
    BY <2>1, RoundUpIs
  <2>4. line \in Nat /\ line >= bare
    BY <2>1, <2>2, <2>3
  <2> QED
    BY <2>4 DEF bare
<1>3. image = [depth |-> depth, unit |-> unit, width |-> width, height |-> height,
               bytes_per_line |-> line, data |-> [i \in 0 .. n |-> 0]]
  BY DEF XCreateImage
<1> HIDE DEF image, unit, line
<1>4. [i \in 0 .. n |-> 0] \in [0 .. n -> Byte]
  BY DEF Byte
<1>5. Sound(image)
  BY <1>1, <1>2, <1>3, <1>4 DEF Sound, BytesOf, unit
<1>6. \A i \in DOMAIN image.data : image.data[i] = 0
  BY <1>3
<1> QED
  BY <1>3, <1>5, <1>6 DEF image

(* Where a pixel is: within the data, and apart from any other.            *)
InImage(image, x, y) == x \in 0 .. image.width - 1 /\ y \in 0 .. image.height - 1
LEMMA PointerIs_ ==
  ASSUME NEW image, Sound(image), NEW x, NEW y, InImage(image, x, y)
  PROVE  LET at == GetImageDataPointer(image, x, y)
         IN /\ BytesOf(image) \in 1 .. 4 /\ (image.depth = 1 => BytesOf(image) = 1)
            /\ at \in Nat /\ at = y * image.bytes_per_line + x * BytesOf(image)
            /\ x * BytesOf(image) + BytesOf(image) <= image.bytes_per_line
            /\ at .. at + BytesOf(image) - 1 \subseteq DOMAIN image.data
<1> DEFINE B == BytesOf(image)
           line == image.bytes_per_line
           w == image.width
           h == image.height
           at == GetImageDataPointer(image, x, y)
<1>1. /\ image.unit = 8 * B /\ B \in 1 .. 4 /\ (image.depth = 1 => B = 1)
      /\ line \in Nat /\ w \in Nat /\ h \in Nat /\ w * B <= line
      /\ DOMAIN image.data = 0 .. h * line - 1
  <2>1. /\ image.unit = ROUNDUP(image.depth, 8) /\ image.depth \in AllDepths
        /\ {w, h, line} \subseteq Nat /\ w * B <= line /\ image.data \in [0 .. h * line - 1 -> Byte]
    BY DEF Sound
  <2>2. ROUNDUP(image.depth, 8) \div 8 \in 1 .. 4
        /\ ROUNDUP(image.depth, 8) = 8 * (ROUNDUP(image.depth, 8) \div 8)
        /\ (image.depth = 1 => ROUNDUP(image.depth, 8) = 8)
    BY <2>1, UnitIs
  <2>3. B = image.unit \div 8
    BY DEF BytesOf
  <2> HIDE DEF B, w, h, line
  <2> QED
    BY <2>1, <2>2, <2>3
<1>2. x \in 0 .. w - 1 /\ y \in 0 .. h - 1 /\ x \in Nat /\ y \in Nat
  BY <1>1 DEF InImage
<1>3. at = y * line + (x * (8 * B)) \div 8
  BY <1>1 DEF GetImageDataPointer
<1> HIDE DEF B, line, w, h, at
<1>4. (x * (8 * B)) \div 8 = x * B /\ x * B \in Nat
  <2>1. x * B \in Nat /\ x * (8 * B) = (x * B) * 8 + 0
    BY <1>1, <1>2
  <2>2. ((x * B) * 8 + 0) \div 8 = x * B
    BY <2>1
  <2> QED
    BY <2>1, <2>2
<1>5. x * B + B <= line
  <2>1. (x + 1) * B <= w * B /\ w * B \in Nat
    BY <1>1, <1>2, TimesGrows
  <2>2. (x + 1) * B = x * B + B
    BY <1>1, <1>2
  <2> QED
    BY <1>1, <1>4, <2>1, <2>2
<1>6. y * line \in Nat /\ y * line + line <= h * line /\ h * line \in Nat
  <2>1. y * line \in Nat /\ (y + 1) * line <= h * line /\ h * line \in Nat
    BY <1>1, <1>2, TimesGrows
  <2>2. (y + 1) * line = y * line + line
    BY <1>1, <1>2
  <2> QED
    BY <2>1, <2>2
<1>7. at \in Nat /\ at = y * line + x * B
  BY <1>3, <1>4, <1>6
<1>8. at .. at + B - 1 \subseteq 0 .. h * line - 1
  BY <1>1, <1>4, <1>5, <1>6, <1>7
<1> QED
  BY <1>1, <1>5, <1>7, <1>8 DEF B, line, at, h

(* Two pixels of whole bytes have no byte in common.                       *)
LEMMA PlacesApart ==
  ASSUME NEW image, Sound(image), NEW x, NEW y, InImage(image, x, y),
         NEW u, NEW v, InImage(image, u, v), <<x, y>> # <<u, v>>
  PROVE  \A i \in GetImageDataPointer(image, x, y) .. GetImageDataPointer(image, x, y) + BytesOf(image) - 1,
            j \in GetImageDataPointer(image, u, v) .. GetImageDataPointer(image, u, v) + BytesOf(image) - 1 : i # j
<1> DEFINE B == BytesOf(image)
           line == image.bytes_per_line
           at(a, b) == GetImageDataPointer(image, a, b)
<1>1. ASSUME NEW a, NEW b, InImage(image, a, b)
      PROVE  /\ B \in 1 .. 4 /\ at(a, b) = b * line + a * B /\ a * B + B <= line
             /\ line \in Nat /\ a \in Nat /\ b \in Nat /\ at(a, b) \in Nat
  <2>1. a \in Nat /\ b \in Nat /\ line \in Nat
    BY <1>1 DEF InImage, Sound
  <2> QED
    BY <1>1, <2>1, PointerIs_
<1>2. ASSUME NEW a, NEW b, NEW c, NEW d, InImage(image, a, b), InImage(image, c, d),
             b < d \/ (b = d /\ a < c)
      PROVE  at(a, b) + B <= at(c, d)
  <2>1. /\ B \in Nat /\ at(a, b) = b * line + a * B /\ a * B + B <= line
        /\ at(c, d) = d * line + c * B
        /\ line \in Nat /\ a \in Nat /\ b \in Nat /\ c \in Nat /\ d \in Nat
    BY <1>1, <1>2
  <2> HIDE DEF B, line, at
  <2>2. a * B \in Nat /\ c * B \in Nat /\ b * line \in Nat /\ d * line \in Nat
    BY <2>1
  <2>3. CASE b < d
    <3>1. (b + 1) * line <= d * line
      BY <2>1, <2>3, TimesGrows
    <3>2. (b + 1) * line = b * line + line
      BY <2>1
    <3> QED
      BY <2>1, <2>2, <3>1, <3>2
  <2>4. CASE b = d /\ a < c
    <3>1. (a + 1) * B <= c * B
      BY <2>1, <2>4, TimesGrows
    <3>2. (a + 1) * B = a * B + B
      BY <2>1
    <3> QED
      BY <2>1, <2>2, <2>4, <3>1, <3>2
  <2> QED
    BY <1>2, <2>3, <2>4
<1>3. at(x, y) + B <= at(u, v) \/ at(u, v) + B <= at(x, y)
  <2>1. x \in Nat /\ y \in Nat /\ u \in Nat /\ v \in Nat
    BY <1>1
  <2>2. y < v \/ (y = v /\ x < u) \/ v < y \/ (v = y /\ u < x)
    BY <2>1
  <2> HIDE DEF B, at
  <2> QED
    BY <1>2, <2>2
<1>4. B \in 1 .. 4 /\ at(x, y) \in Nat /\ at(u, v) \in Nat
  BY <1>1
<1> HIDE DEF B, at
<1>5. \A i \in at(x, y) .. at(x, y) + B - 1, j \in at(u, v) .. at(u, v) + B - 1 : i # j
  BY <1>3, <1>4
<1> QED
  BY <1>5 DEF B, at

(* A bit of a byte that is cleared or set, and the others.                 *)
LEMMA BitIs ==
  ASSUME NEW x \in Nat, NEW v \in Byte
  PROVE  LET k == Bit(x)
             clear == v - k * ((v \div k) % 2)
             set == v + k * (1 - ((v \div k) % 2))
         IN clear \in Byte /\ (clear \div k) % 2 = 0 /\ set \in Byte /\ (set \div k) % 2 = 1
<1>1. Bit(x) \in {1, 2, 4, 8, 16, 32, 64, 128}
  <2>1. x % 8 \in {0, 1, 2, 3, 4, 5, 6, 7}
    OBVIOUS
  <2>2. x % 8 = 0 => Bit(x) = 128
    BY 2 ^ (7 - 0) = 128 DEF Bit
  <2>3. x % 8 = 1 => Bit(x) = 64
    BY 2 ^ (7 - 1) = 64 DEF Bit
  <2>4. x % 8 = 2 => Bit(x) = 32
    BY 2 ^ (7 - 2) = 32 DEF Bit
  <2>5. x % 8 = 3 => Bit(x) = 16
    BY 2 ^ (7 - 3) = 16 DEF Bit
  <2>6. x % 8 = 4 => Bit(x) = 8
    BY 2 ^ (7 - 4) = 8 DEF Bit
  <2>7. x % 8 = 5 => Bit(x) = 4
    BY 2 ^ (7 - 5) = 4 DEF Bit
  <2>8. x % 8 = 6 => Bit(x) = 2
    BY 2 ^ (7 - 6) = 2 DEF Bit
  <2>9. x % 8 = 7 => Bit(x) = 1
    BY 2 ^ (7 - 7) = 1 DEF Bit
  <2> QED
    BY <2>1, <2>2, <2>3, <2>4, <2>5, <2>6, <2>7, <2>8, <2>9
<1> SUFFICES ASSUME NEW k \in {1, 2, 4, 8, 16, 32, 64, 128}
             PROVE  LET clear == v - k * ((v \div k) % 2)
                        set == v + k * (1 - ((v \div k) % 2))
                    IN clear \in Byte /\ (clear \div k) % 2 = 0 /\ set \in Byte /\ (set \div k) % 2 = 1
  BY <1>1
<1>2. CASE k = 1
  BY <1>2 DEF Byte
<1>3. CASE k = 2
  BY <1>3 DEF Byte
<1>4. CASE k = 4
  BY <1>4 DEF Byte
<1>5. CASE k = 8
  BY <1>5 DEF Byte
<1>6. CASE k = 16
  BY <1>6 DEF Byte
<1>7. CASE k = 32
  BY <1>7 DEF Byte
<1>8. CASE k = 64
  BY <1>8 DEF Byte
<1>9. CASE k = 128
  BY <1>9 DEF Byte
<1> QED
  BY <1>2, <1>3, <1>4, <1>5, <1>6, <1>7, <1>8, <1>9

(* A pixel that is put is got, and the others are as they were.            *)
LEMMA PutIs ==
  ASSUME NEW image, Sound(image), NEW x, NEW y, InImage(image, x, y), NEW pixel \in Pixel
  PROVE  LET put == ImagePutPixel(image, x, y, pixel)
         IN /\ Sound(put) /\ put.depth = image.depth /\ put.unit = image.unit
            /\ put.width = image.width /\ put.height = image.height
            /\ put.bytes_per_line = image.bytes_per_line /\ DOMAIN put.data = DOMAIN image.data
            /\ ImageGetPixel(put, x, y) = Truncated(image, pixel)
            /\ \A u, v : InImage(image, u, v) /\ <<x, y>> # <<u, v>> =>
                           ImageGetPixel(put, u, v) = ImageGetPixel(image, u, v)
<1> DEFINE put == ImagePutPixel(image, x, y, pixel)
           B == BytesOf(image)
           at == GetImageDataPointer(image, x, y)
           D == DOMAIN image.data
           old == image.data[at]
           bit == IF pixel = <<0, 0, 0, 0>> THEN old - Bit(x) * ((old \div Bit(x)) % 2)
                  ELSE old + Bit(x) * (1 - ((old \div Bit(x)) % 2))
           data == IF image.depth = 1 THEN [image.data EXCEPT ![at] = bit]
                   ELSE [i \in D |-> IF i \in at .. at + B - 1 THEN pixel[i - at + 1] ELSE image.data[i]]
<1>1. /\ B \in 1 .. 4 /\ (image.depth = 1 => B = 1)
      /\ at \in Nat /\ at .. at + B - 1 \subseteq D /\ x \in Nat
  <2>1. x \in Nat
    BY DEF InImage
  <2> HIDE DEF B, at, D
  <2> QED
    BY <2>1, PointerIs_ DEF B, at, D
<1>2. image.data \in [D -> Byte] /\ at \in D
  <2>1. image.data \in [D -> Byte]
    BY DEF Sound
  <2> HIDE DEF at, B
  <2> QED
    BY <1>1, <2>1
<1>3. bit \in Byte /\ (bit \div Bit(x)) % 2 = IF pixel = <<0, 0, 0, 0>> THEN 0 ELSE 1
  <2>1. old \in Byte
    BY <1>2
  <2> HIDE DEF old
  <2> QED
    BY <1>1, <2>1, BitIs
<1>4. data \in [D -> Byte]
  <2>1. CASE image.depth = 1
    BY <1>2, <1>3, <2>1
  <2>2. CASE image.depth # 1
    <3>1. \A i \in at .. at + B - 1 : i - at + 1 \in 1 .. 4
      <4> HIDE DEF at, B
      <4> QED
        BY <1>1
    <3>2. \A i \in at .. at + B - 1 : pixel[i - at + 1] \in Byte
      <4> HIDE DEF at, B
      <4> QED
        BY <3>1 DEF Pixel
    <3> HIDE DEF at, B
    <3> QED
      BY <1>2, <2>2, <3>2
  <2> QED
    BY <2>1, <2>2
<1>5. put = [depth |-> image.depth, unit |-> image.unit, width |-> image.width,
             height |-> image.height, bytes_per_line |-> image.bytes_per_line, data |-> data]
  <2>1. image = [depth |-> image.depth, unit |-> image.unit, width |-> image.width,
                 height |-> image.height, bytes_per_line |-> image.bytes_per_line,
                 data |-> image.data]
    BY DEF Sound
  <2>2. put = [image EXCEPT !.data = data]
    BY <1>2 DEF ImagePutPixel
  <2> HIDE DEF put, data
  <2> QED
    BY <2>1, <2>2
<1> HIDE DEF put
<1>6. /\ put.depth = image.depth /\ put.unit = image.unit /\ put.width = image.width
      /\ put.height = image.height /\ put.bytes_per_line = image.bytes_per_line /\ put.data = data
      /\ DOMAIN data = D
  <2> HIDE DEF data, D
  <2> QED
    BY <1>4, <1>5
<1>7. Sound(put)
  <2>1. image.data \in [0 .. image.height * image.bytes_per_line - 1 -> Byte]
    BY DEF Sound
  <2>2. D = 0 .. image.height * image.bytes_per_line - 1
    BY <2>1
  <2>3. BytesOf(put) = BytesOf(image)
    BY <1>6 DEF BytesOf
  <2> HIDE DEF data, D
  <2> QED
    BY <1>4, <1>5, <1>6, <2>2, <2>3 DEF Sound
<1>8. ASSUME NEW u, NEW v
      PROVE  GetImageDataPointer(put, u, v) = GetImageDataPointer(image, u, v)
  BY <1>6 DEF GetImageDataPointer
<1>9. BytesOf(put) = B
  BY <1>6 DEF BytesOf
<1>10. ImageGetPixel(put, x, y) = Truncated(image, pixel)
  <2>1. CASE image.depth = 1
    <3>1. data[at] = bit
      BY <1>2, <2>1
    <3>2. ImageGetPixel(put, x, y) = <<(data[at] \div Bit(x)) % 2, 0, 0, 0>>
      <4> HIDE DEF at, data
      <4> QED
        BY <1>6, <1>8, <2>1 DEF ImageGetPixel, at
    <3>3. Truncated(image, pixel) = <<IF pixel = <<0, 0, 0, 0>> THEN 0 ELSE 1, 0, 0, 0>>
      BY <2>1 DEF Truncated
    <3> HIDE DEF at, data, bit
    <3> QED
      BY <1>3, <3>1, <3>2, <3>3
  <2>2. CASE image.depth # 1
    <3>1. ImageGetPixel(put, x, y) = [b \in 1 .. 4 |-> IF b <= B THEN data[at + b - 1] ELSE 0]
      <4> HIDE DEF at, data, B
      <4> QED
        BY <1>6, <1>8, <1>9, <2>2 DEF ImageGetPixel, at
    <3>2. ASSUME NEW b \in 1 .. 4, b <= B
          PROVE  data[at + b - 1] = pixel[b]
      <4>1. at + b - 1 \in at .. at + B - 1 /\ (at + b - 1) - at + 1 = b
        <5> HIDE DEF at, B
        <5> QED
          BY <1>1, <3>2
      <4>2. at + b - 1 \in D
        <5> HIDE DEF at, B, D
        <5> QED
          BY <1>1, <4>1
      <4> HIDE DEF at, B, D
      <4> QED
        BY <2>2, <4>1, <4>2
    <3>3. Truncated(image, pixel) = [b \in 1 .. 4 |-> IF b <= B THEN pixel[b] ELSE 0]
      BY <2>2 DEF Truncated
    <3> HIDE DEF at, B, data
    <3> QED
      BY <3>1, <3>2, <3>3
  <2> QED
    BY <2>1, <2>2
<1>11. ASSUME NEW u, NEW v, InImage(image, u, v), <<x, y>> # <<u, v>>
       PROVE  ImageGetPixel(put, u, v) = ImageGetPixel(image, u, v)
  <2> DEFINE to == GetImageDataPointer(image, u, v)
  <2>1. \A j \in to .. to + B - 1 : j \in D /\ j \notin at .. at + B - 1
    <3>1. to .. to + B - 1 \subseteq D
      BY <1>11, PointerIs_
    <3>2. \A i \in at .. at + B - 1, j \in to .. to + B - 1 : i # j
      BY <1>11, PlacesApart
    <3> HIDE DEF to, at, B, D
    <3> QED
      BY <3>1, <3>2
  <2>2. to \in Nat
    BY <1>11, PointerIs_
  <2>3. \A j \in to .. to + B - 1 : data[j] = image.data[j]
    <3>1. at \in at .. at + B - 1
      <4> HIDE DEF at, B
      <4> QED
        BY <1>1
    <3> HIDE DEF to, at, B
    <3> QED
      BY <1>2, <2>1, <3>1
  <2> HIDE DEF to, data
  <2>4. CASE image.depth = 1
    <3>1. to \in to .. to + B - 1
      <4> HIDE DEF B
      <4> QED
        BY <1>1, <2>2
    <3>2. data[to] = image.data[to]
      BY <2>3, <3>1
    <3> QED
      BY <1>6, <1>8, <2>4, <3>2 DEF ImageGetPixel, to
  <2>5. CASE image.depth # 1
    <3>1. ASSUME NEW b \in 1 .. 4, b <= B
          PROVE  data[to + b - 1] = image.data[to + b - 1]
      <4>1. to + b - 1 \in to .. to + B - 1
        <5> HIDE DEF B
        <5> QED
          BY <1>1, <2>2, <3>1
      <4> QED
        BY <2>3, <4>1
    <3>2. ImageGetPixel(put, u, v) = [b \in 1 .. 4 |-> IF b <= B THEN data[to + b - 1] ELSE 0]
      <4> HIDE DEF B
      <4> QED
        BY <1>6, <1>8, <1>9, <2>5 DEF ImageGetPixel, to
    <3>3. ImageGetPixel(image, u, v) = [b \in 1 .. 4 |-> IF b <= B THEN image.data[to + b - 1] ELSE 0]
      BY <2>5 DEF ImageGetPixel, to
    <3> HIDE DEF B
    <3> QED
      BY <3>1, <3>2, <3>3
  <2> QED
    BY <2>4, <2>5
<1> QED
  BY <1>6, <1>7, <1>10, <1>11 DEF put

(* An image stays one of this library when pixels are put into it.         *)
LEMMA SoundKeeps ==
  ASSUME NEW image, Sound(image)
  PROVE  KeepsPixels(image)
<1> DEFINE pixels == {<<0, 0, 0, 0>>, <<1, 2, 3, 4>>, <<255, 255, 255, 255>>}
<1> SUFFICES ASSUME NEW a \in Places(image.width, image.height), NEW b \in Places(image.width, image.height),
                    NEW p \in pixels, NEW q \in pixels
             PROVE  LET once == ImagePutPixel(image, a[1], a[2], p)
                        twice == ImagePutPixel(once, b[1], b[2], q)
                    IN /\ DOMAIN twice.data = DOMAIN image.data
                       /\ ImageGetPixel(twice, b[1], b[2]) = Truncated(image, q)
                       /\ a # b => ImageGetPixel(twice, a[1], a[2]) = Truncated(image, p)
  BY DEF KeepsPixels
<1> DEFINE once == ImagePutPixel(image, a[1], a[2], p)
           twice == ImagePutPixel(once, b[1], b[2], q)
<1>1. /\ a = <<a[1], a[2]>> /\ b = <<b[1], b[2]>>
      /\ InImage(image, a[1], a[2]) /\ InImage(image, b[1], b[2])
  BY DEF InImage, Places
<1>2. p \in Pixel /\ q \in Pixel
  BY DEF Pixel, Byte
<1>3. /\ Sound(once) /\ DOMAIN once.data = DOMAIN image.data
      /\ once.width = image.width /\ once.height = image.height
      /\ once.depth = image.depth /\ once.unit = image.unit
      /\ ImageGetPixel(once, a[1], a[2]) = Truncated(image, p)
  <2> HIDE DEF once
  <2> QED
    BY <1>1, <1>2, PutIs DEF once
<1> HIDE DEF once
<1>4. InImage(once, a[1], a[2]) /\ InImage(once, b[1], b[2])
  BY <1>1, <1>3 DEF InImage
<1>5. /\ DOMAIN twice.data = DOMAIN once.data
      /\ ImageGetPixel(twice, b[1], b[2]) = Truncated(once, q)
      /\ <<b[1], b[2]>> # <<a[1], a[2]>> =>
           ImageGetPixel(twice, a[1], a[2]) = ImageGetPixel(once, a[1], a[2])
  <2> HIDE DEF twice
  <2> QED
    BY <1>2, <1>3, <1>4, PutIs DEF twice
<1>6. Truncated(once, q) = Truncated(image, q)
  BY <1>3 DEF Truncated, BytesOf
<1> HIDE DEF twice
<1> QED
  BY <1>1, <1>3, <1>5, <1>6 DEF once, twice

(* The pixels that are put are got again.                                  *)
LEMMA PixelsAre == PixelsAreKept
<1> SUFFICES ASSUME NEW depth \in Depths, NEW width \in Widths, NEW height \in Heights, NEW pad \in Pads
             PROVE  KeepsPixels(XCreateImage(depth, width, height, pad))
  BY DEF PixelsAreKept
<1>1. /\ depth \in AllDepths /\ width \in Nat /\ height \in Nat /\ pad \in Nat
  BY ImagesAssumption DEF AllDepths
<1>2. Sound(XCreateImage(depth, width, height, pad))
  BY <1>1, CreateIs
<1> QED
  BY <1>2, SoundKeeps

(* Pixels that are put one after another, in an order that is left open.   *)
Pick(T) == CHOOSE s \in T : TRUE
Put_(image, px, s) == ImagePutPixel(image, s[1], s[2], px[s])
IsPuts(f, image, px, U) ==
  \A T \in U : f[T] = IF T = {} THEN image ELSE Put_(f[T \ {Pick(T)}], px, Pick(T))

(* What is picked of points that there are is one of them.                 *)
LEMMA PickIs ==
  ASSUME NEW S, IsFiniteSet(S), NEW T \in SUBSET S, T # {}
  PROVE  /\ Pick(T) \in T /\ T \ {Pick(T)} \in SUBSET S
         /\ IsFiniteSet(T) /\ Cardinality(T) \in Nat /\ Cardinality(T \ {Pick(T)}) = Cardinality(T) - 1
<1>1. Pick(T) \in T
  BY DEF Pick
<1>2. IsFiniteSet(T)
  BY FS_Subset
<1>3. Cardinality(T \ {Pick(T)}) = IF Pick(T) \in T THEN Cardinality(T) - 1 ELSE Cardinality(T)
  BY <1>2, FS_RemoveElement
<1> QED
  BY <1>1, <1>2, <1>3, FS_CardinalityType

(* A function with the images of all parts of a set of points exists.      *)
LEMMA PutsExist ==
  ASSUME NEW S, IsFiniteSet(S), NEW image, NEW px
  PROVE  \E f : f = [T \in SUBSET S |-> f[T]] /\ IsPuts(f, image, px, SUBSET S)
<1> DEFINE Small(k) == {T \in SUBSET S : Cardinality(T) <= k}
           Is(f, k) == f = [T \in SUBSET S |-> f[T]] /\ IsPuts(f, image, px, Small(k))
           G == {k \in Nat : \E f : Is(f, k)}
<1>1. 0 \in G
  <2> DEFINE f == [T \in SUBSET S |-> image]
  <2>1. ASSUME NEW T \in Small(0)
        PROVE  T = {}
    <3> SUFFICES ASSUME T # {} PROVE FALSE
      OBVIOUS
    <3>1. IsFiniteSet(T) /\ Cardinality(T) <= 0 /\ Cardinality(T) \in Nat
      BY PickIs
    <3>2. Cardinality(T) = 0
      BY <3>1
    <3> QED
      BY <3>1, <3>2, FS_EmptySet
  <2>2. Is(f, 0)
    BY <2>1 DEF IsPuts
  <2> HIDE DEF f, Is
  <2> QED
    BY <2>2
<1>2. ASSUME NEW k \in Nat, k \in G
      PROVE  k + 1 \in G
  <2>1. PICK f : Is(f, k)
    <3> HIDE DEF Is
    <3> QED
      BY <1>2
  <2> DEFINE Next_(T) == IF T = {} THEN image ELSE Put_(f[T \ {Pick(T)}], px, Pick(T))
             g == [T \in SUBSET S |-> Next_(T)]
  <2>2. ASSUME NEW T \in Small(k)
        PROVE  g[T] = f[T]
    BY <2>1, <2>2 DEF IsPuts
  <2>3. ASSUME NEW T \in Small(k + 1)
        PROVE  g[T] = IF T = {} THEN image ELSE Put_(g[T \ {Pick(T)}], px, Pick(T))
    <3>1. T # {} => T \ {Pick(T)} \in Small(k)
      <4> SUFFICES ASSUME T # {} PROVE T \ {Pick(T)} \in Small(k)
        OBVIOUS
      <4>1. /\ T \ {Pick(T)} \in SUBSET S /\ Cardinality(T) \in Nat
            /\ Cardinality(T \ {Pick(T)}) = Cardinality(T) - 1 /\ Cardinality(T) <= k + 1
        BY PickIs
      <4> QED
        BY <4>1
    <3>2. T # {} => g[T \ {Pick(T)}] = f[T \ {Pick(T)}]
      <4> HIDE DEF g, Small
      <4> QED
        BY <2>2, <3>1
    <3>3. g[T] = Next_(T)
      <4> HIDE DEF Next_
      <4> QED
        OBVIOUS
    <3> HIDE DEF g
    <3> QED
      BY <3>2, <3>3
  <2>4. g = [T \in SUBSET S |-> g[T]]
    <3> HIDE DEF Next_
    <3> QED
      OBVIOUS
  <2>5. Is(g, k + 1)
    <3> HIDE DEF g, Small
    <3> QED
      BY <2>3, <2>4 DEF IsPuts
  <2> HIDE DEF g, Is
  <2> QED
    BY <2>5
<1>3. Cardinality(S) \in Nat /\ Cardinality(S) \in G
  <2>1. Cardinality(S) \in Nat
    BY FS_CardinalityType
  <2> HIDE DEF G
  <2> QED
    BY <1>1, <1>2, <2>1, UpFrom0
<1>4. SUBSET S \subseteq Small(Cardinality(S))
  BY FS_Subset
<1>5. PICK f : Is(f, Cardinality(S))
  <2> HIDE DEF Is
  <2> QED
    BY <1>3
<1> QED
  BY <1>4, <1>5 DEF IsPuts

(* An image into which pixels were put is the same with those pixels.      *)
IsWith(new, image, px, T) ==
  /\ Sound(new) /\ new.depth = image.depth /\ new.unit = image.unit
  /\ new.width = image.width /\ new.height = image.height
  /\ new.bytes_per_line = image.bytes_per_line
  /\ \A s \in T : ImageGetPixel(new, s[1], s[2]) = Truncated(image, px[s])
  /\ \A u, v : InImage(image, u, v) /\ (\A s \in T : s # <<u, v>>) =>
                 ImageGetPixel(new, u, v) = ImageGetPixel(image, u, v)

(* In these images each point has its pixel and the others stay.           *)
LEMMA PutsAre ==
  ASSUME NEW S, IsFiniteSet(S), NEW image, Sound(image),
         \A s \in S : InImage(image, s[1], s[2]) /\ s = <<s[1], s[2]>>,
         NEW px, \A s \in S : px[s] \in Pixel,
         NEW f, IsPuts(f, image, px, SUBSET S)
  PROVE  IsWith(f[S], image, px, S)
<1> DEFINE G == {k \in Nat : \A T \in SUBSET S : Cardinality(T) = k => IsWith(f[T], image, px, T)}
<1>1. 0 \in G
  <2> SUFFICES ASSUME NEW T \in SUBSET S, Cardinality(T) = 0
               PROVE  IsWith(f[T], image, px, T)
    OBVIOUS
  <2>1. T = {}
    BY FS_Subset, FS_EmptySet
  <2>2. f[T] = image
    BY <2>1 DEF IsPuts
  <2> QED
    BY <2>1, <2>2 DEF IsWith
<1>2. ASSUME NEW k \in Nat, k \in G
      PROVE  k + 1 \in G
  <2> SUFFICES ASSUME NEW T \in SUBSET S, Cardinality(T) = k + 1
               PROVE  IsWith(f[T], image, px, T)
    OBVIOUS
  <2> DEFINE s == Pick(T)
             R == T \ {s}
             old == f[R]
             new == f[T]
             x == s[1]
             y == s[2]
  <2>1. T # {}
    <3>1. T = {} => Cardinality(T) = 0
      BY FS_EmptySet
    <3> QED
      BY <3>1
  <2>2. s \in T /\ s \in S /\ R \in SUBSET S /\ Cardinality(R) = k
    BY <2>1, PickIs
  <2>3. IsWith(old, image, px, R)
    <3> HIDE DEF R, s
    <3> QED
      BY <1>2, <2>2
  <2>4. new = ImagePutPixel(old, x, y, px[s])
    BY <2>1 DEF IsPuts, Put_
  <2> HIDE DEF s, R, old, new
  <2>5. /\ Sound(old) /\ InImage(image, x, y) /\ InImage(old, x, y) /\ px[s] \in Pixel
        /\ s = <<x, y>>
    BY <2>2, <2>3 DEF IsWith, InImage
  <2> HIDE DEF x, y
  <2>6. /\ Sound(new) /\ new.depth = old.depth /\ new.unit = old.unit
        /\ new.width = old.width /\ new.height = old.height
        /\ new.bytes_per_line = old.bytes_per_line
        /\ ImageGetPixel(new, x, y) = Truncated(old, px[s])
        /\ \A u, v : InImage(old, u, v) /\ <<x, y>> # <<u, v>> =>
                       ImageGetPixel(new, u, v) = ImageGetPixel(old, u, v)
    BY <2>4, <2>5, PutIs
  <2>7. /\ old.depth = image.depth /\ old.unit = image.unit
        /\ old.width = image.width /\ old.height = image.height
        /\ old.bytes_per_line = image.bytes_per_line
        /\ Truncated(old, px[s]) = Truncated(image, px[s])
    BY <2>3 DEF IsWith, Truncated, BytesOf
  <2>8. ASSUME NEW r \in T
        PROVE  ImageGetPixel(new, r[1], r[2]) = Truncated(image, px[r])
    <3>1. CASE r = s
      BY <2>6, <2>7, <3>1 DEF x, y
    <3>2. CASE r # s
      <4>1. r \in R /\ r \in S
        BY <3>2 DEF R
      <4>2. ImageGetPixel(old, r[1], r[2]) = Truncated(image, px[r])
        BY <2>3, <4>1 DEF IsWith
      <4>3. /\ r # s /\ r = <<r[1], r[2]>> /\ InImage(image, r[1], r[2])
        BY <2>2, <3>2, <4>1
      <4>4. InImage(old, r[1], r[2]) /\ <<x, y>> # <<r[1], r[2]>>
        BY <2>5, <2>7, <4>3 DEF InImage
      <4> QED
        BY <2>6, <4>2, <4>4
    <3> QED
      BY <3>1, <3>2
  <2>9. ASSUME NEW u, NEW v, InImage(image, u, v), \A r \in T : r # <<u, v>>
        PROVE  ImageGetPixel(new, u, v) = ImageGetPixel(image, u, v)
    <3>1. InImage(old, u, v) /\ <<x, y>> # <<u, v>>
      BY <2>2, <2>5, <2>7, <2>9 DEF InImage
    <3>2. ImageGetPixel(old, u, v) = ImageGetPixel(image, u, v)
      BY <2>3, <2>9 DEF IsWith, R
    <3> QED
      BY <2>6, <3>1, <3>2
  <2> QED
    BY <2>6, <2>7, <2>8, <2>9 DEF IsWith, new
<1>3. Cardinality(S) \in Nat /\ Cardinality(S) \in G
  <2>1. Cardinality(S) \in Nat
    BY FS_CardinalityType
  <2> HIDE DEF G
  <2> QED
    BY <1>1, <1>2, <2>1, UpFrom0
<1> QED
  BY <1>3

(* So it is when the pixels of all the points are put.                     *)
LEMMA PutPixelsIs ==
  ASSUME NEW S, IsFiniteSet(S), NEW image, Sound(image),
         \A s \in S : InImage(image, s[1], s[2]) /\ s = <<s[1], s[2]>>,
         NEW px \in [S -> Pixel]
  PROVE  IsWith(PutPixels(image, px), image, px, S)
<1> DEFINE Put(p, i) == ImagePutPixel(i, p[1], p[2], px[p])
           iter == CHOOSE f : f = [s \in SUBSET DOMAIN px |->
                     IF s = {} THEN image ELSE LET x == CHOOSE y \in s : TRUE IN Put(x, f[s \ {x}])]
<1>1. PutPixels(image, px) = iter[DOMAIN px]
  BY Zenon DEF PutPixels, FoldSet, MapThenFoldSet
<1>2. DOMAIN px = S
  OBVIOUS
<1>3. PICK f : f = [T \in SUBSET S |-> f[T]] /\ IsPuts(f, image, px, SUBSET S)
  BY PutsExist
<1>4. f = [s \in SUBSET DOMAIN px |->
             IF s = {} THEN image ELSE LET x == CHOOSE y \in s : TRUE IN Put(x, f[s \ {x}])]
  BY <1>2, <1>3 DEF IsPuts, Put_, Pick
<1>5. iter = [s \in SUBSET DOMAIN px |->
                IF s = {} THEN image ELSE LET x == CHOOSE y \in s : TRUE IN Put(x, iter[s \ {x}])]
  BY <1>4, Zenon
<1> HIDE DEF iter
<1>6. IsPuts(iter, image, px, SUBSET S)
  <2> SUFFICES ASSUME NEW T \in SUBSET S
               PROVE  iter[T] = IF T = {} THEN image ELSE Put_(iter[T \ {Pick(T)}], px, Pick(T))
    BY DEF IsPuts
  <2> QED
    BY <1>2, <1>5 DEF Put_, Pick
<1>7. IsWith(iter[S], image, px, S)
  <2>1. \A s \in S : px[s] \in Pixel
    OBVIOUS
  <2> QED
    BY <1>6, <2>1, PutsAre
<1> QED
  BY <1>1, <1>2, <1>7

(* What a sequence of a set has is of the set.                             *)
LEMMA ElementsAre ==
  ASSUME NEW S, NEW m \in Seq(S), NEW k \in 1 .. Len(m)
  PROVE  m[k] \in S
OBVIOUS

(* What memory has are bytes.                                              *)
LEMMA LeftIs ==
  ASSUME NEW memory \in Memories, NEW i \in Nat
  PROVE  Left(memory, i) \in Byte
<1>1. memory \in Seq(0 .. 255) /\ Len(memory) \in Nat
  BY ImagesAssumption
<1>2. \A k \in 1 .. Len(memory) : memory[k] \in 0 .. 255
  BY <1>1, ElementsAre
<1>3. i < Len(memory) => i + 1 \in 1 .. Len(memory)
  BY <1>1
<1> QED
  BY <1>2, <1>3 DEF Left, Byte

(* A part of a pixmap is read where it is asked for; elsewhere the image   *)
(* has what the memory had.                                                *)
Blank == [b \in 1 .. 4 |-> 0]
LEMMA BlankIs == Blank = Zero /\ Blank \in Pixel /\ <<255, 0, 0, 0>> \in Pixel /\ <<255, 0, 0, 0>> # Blank
BY DEF Blank, Zero, Pixel, Byte

(* The pixel that a reading of a part of a pixmap has at a point.          *)
IsPartOf(new, pixmap, x, y, width, height, image, destX, destY, memory) ==
  /\ x \in Nat /\ y \in Nat /\ width \in Nat /\ height \in Nat /\ destX \in Nat /\ destY \in Nat
  /\ \A p \in DOMAIN pixmap.at : pixmap.at[p] \in Pixel
  /\ Sound(image) /\ image.depth # 1
  /\ memory \in Memories
  /\ new = XGetSubImage(pixmap, x, y, width, height, image, destX, destY, memory)
IsReadAt(at, pixmap, x, y, width, height, destX, destY) ==
  /\ <<at[1] - destX, at[2] - destY>> \in Places(width, height)
  /\ <<at[1] - destX + x, at[2] - destY + y>> \in DOMAIN pixmap.at
PartAt(at, pixmap, x, y, image, destX, destY) ==
  Truncated(image, pixmap.at[<<at[1] - destX + x, at[2] - destY + y>>])
LEMMA SubImageIs ==
  ASSUME NEW new, NEW pixmap, NEW x, NEW y, NEW width, NEW height, NEW image, NEW destX, NEW destY, NEW memory,
         IsPartOf(new, pixmap, x, y, width, height, image, destX, destY, memory),
         NEW at \in Places(image.width, image.height),
         IsReadAt(at, pixmap, x, y, width, height, destX, destY)
  PROVE  ImageGetPixel(new, at[1], at[2]) = PartAt(at, pixmap, x, y, image, destX, destY)
<1> USE DEF IsPartOf
<1> DEFINE Source(p) == <<p[1] - destX + x, p[2] - destY + y>>
           Read(p) == /\ <<p[1] - destX, p[2] - destY>> \in Places(width, height)
                      /\ Source(p) \in DOMAIN pixmap.at
           places == Places(image.width, image.height)
           read == {p \in places : Read(p)}
           clear == [image EXCEPT !.data = [i \in DOMAIN @ |-> Left(memory, i)]]
           px == [p \in read |-> pixmap.at[Source(p)]]
<1>1. new = PutPixels(clear, px)
  BY DEF XGetSubImage
<1>2. IsFiniteSet(read)
  <2>1. IsFiniteSet(0 .. image.width - 1) /\ IsFiniteSet(0 .. image.height - 1)
    <3>1. 0 \in Int /\ image.width - 1 \in Int /\ image.height - 1 \in Int
      BY DEF Sound
    <3> QED
      BY <3>1, FS_Interval
  <2>2. IsFiniteSet(places)
    BY <2>1, FS_Product DEF Places
  <2>3. read \in SUBSET places
    OBVIOUS
  <2> HIDE DEF read, places
  <2> QED
    BY <2>2, <2>3, FS_Subset
<1>3. clear = [depth |-> image.depth, unit |-> image.unit, width |-> image.width,
               height |-> image.height, bytes_per_line |-> image.bytes_per_line,
               data |-> [i \in DOMAIN image.data |-> Left(memory, i)]]
  <2>1. image = [depth |-> image.depth, unit |-> image.unit, width |-> image.width,
                 height |-> image.height, bytes_per_line |-> image.bytes_per_line,
                 data |-> image.data]
    BY DEF Sound
  <2> QED
    BY <2>1
<1> HIDE DEF clear
<1>4. /\ clear.depth = image.depth /\ clear.unit = image.unit /\ clear.width = image.width
      /\ clear.height = image.height /\ clear.bytes_per_line = image.bytes_per_line
      /\ clear.data = [i \in DOMAIN image.data |-> Left(memory, i)] /\ BytesOf(clear) = BytesOf(image)
  BY <1>3 DEF BytesOf
<1>5. Sound(clear)
  <2>1. image.data \in [0 .. image.height * image.bytes_per_line - 1 -> Byte]
    BY DEF Sound
  <2>2. \A i \in 0 .. image.height * image.bytes_per_line - 1 : Left(memory, i) \in Byte
    <3>1. memory \in Memories
      OBVIOUS
    <3>3. \A i \in 0 .. image.height * image.bytes_per_line - 1 : i \in Nat
      <4>1. image.height * image.bytes_per_line \in Int
        BY DEF Sound
      <4> QED
        BY <4>1
    <3> QED
      BY <3>1, <3>3, LeftIs
  <2>3. clear.data \in [0 .. image.height * image.bytes_per_line - 1 -> Byte]
    BY <1>4, <2>1, <2>2
  <2> QED
    BY <1>3, <1>4, <2>3 DEF Sound
<1>6. \A s \in places : InImage(clear, s[1], s[2]) /\ s = <<s[1], s[2]>>
  BY <1>4 DEF InImage, Places
<1>7. px \in [read -> Pixel]
  OBVIOUS
<1>8. IsWith(new, clear, px, read)
  <2>1. \A s \in read : InImage(clear, s[1], s[2]) /\ s = <<s[1], s[2]>>
    BY <1>6
  <2> HIDE DEF read, px
  <2> QED
    BY <1>1, <1>2, <1>5, <1>7, <2>1, PutPixelsIs
<1>9. at \in read /\ px[at] = pixmap.at[Source(at)]
  BY DEF IsReadAt
<1>10. ImageGetPixel(new, at[1], at[2]) = Truncated(clear, px[at])
  <2> HIDE DEF px, read
  <2> QED
    BY <1>8, <1>9 DEF IsWith
<1>11. Truncated(clear, px[at]) = Truncated(image, px[at])
  BY <1>4 DEF Truncated, BytesOf
<1> QED
  BY <1>9, <1>10, <1>11 DEF PartAt

(* A bitmap: rows of one length.                                           *)
Drawn(bits) ==
  /\ bits \in Seq(Seq({0, 1})) /\ bits # <<>>
  /\ \A row \in DOMAIN bits : bits[row] # <<>> /\ Len(bits[row]) = Len(bits[1])
LineOf(bits) == (Width(bits) + 7) \div 8

(* The sizes and the bits of a bitmap.                                     *)
LEMMA DrawnIs ==
  ASSUME NEW bits, Drawn(bits)
  PROVE  /\ Width(bits) \in Nat \ {0} /\ Len(bits) \in Nat \ {0} /\ LineOf(bits) \in Nat \ {0}
         /\ \A x \in 0 .. Width(bits) - 1, y \in 0 .. Len(bits) - 1 :
              /\ bits[y + 1] \in Seq({0, 1}) /\ Len(bits[y + 1]) = Width(bits)
              /\ bits[y + 1][x + 1] \in {0, 1} /\ x \div 8 \in 0 .. LineOf(bits) - 1
<1>1. Len(bits) \in Nat \ {0} /\ DOMAIN bits = 1 .. Len(bits)
  BY DEF Drawn
<1>2. ASSUME NEW row \in 1 .. Len(bits)
      PROVE  bits[row] \in Seq({0, 1}) /\ Len(bits[row]) = Len(bits[1]) /\ bits[row] # <<>>
  BY <1>1 DEF Drawn
<1>3. Width(bits) \in Nat \ {0}
  <2>1. bits[1] \in Seq({0, 1}) /\ bits[1] # <<>>
    BY <1>1, <1>2
  <2>2. Len(bits[1]) \in Nat \ {0}
    BY <2>1
  <2> QED
    BY <2>2 DEF Width
<1>4. LineOf(bits) \in Nat \ {0}
  BY <1>3 DEF LineOf
<1>5. ASSUME NEW x \in 0 .. Width(bits) - 1, NEW y \in 0 .. Len(bits) - 1
      PROVE  /\ bits[y + 1] \in Seq({0, 1}) /\ Len(bits[y + 1]) = Width(bits)
             /\ bits[y + 1][x + 1] \in {0, 1} /\ x \div 8 \in 0 .. LineOf(bits) - 1
  <2>1. y + 1 \in 1 .. Len(bits) /\ x + 1 \in 1 .. Width(bits)
    BY <1>1, <1>3
  <2>2. bits[y + 1] \in Seq({0, 1}) /\ Len(bits[y + 1]) = Width(bits)
    BY <1>2, <2>1 DEF Width
  <2>3. bits[y + 1][x + 1] \in {0, 1}
    BY <2>1, <2>2
  <2>4. x \div 8 \in 0 .. LineOf(bits) - 1
    BY <1>3 DEF LineOf
  <2> QED
    BY <2>2, <2>3, <2>4
<1> QED
  BY <1>1, <1>3, <1>4, <1>5

(* The bytes of a bitmap have its pixels.                                  *)
LEMMA FormatIs ==
  ASSUME NEW bits, Drawn(bits)
  PROVE  LET data == Format_Image(bits)
             line == LineOf(bits)
         IN /\ data = [i \in 1 .. line * Len(bits) |-> data[i]]
            /\ line * Len(bits) \in Nat
            /\ \A i \in 1 .. line * Len(bits) : data[i] = [b \in 1 .. 8 |-> data[i][b]]
            /\ \A x \in 0 .. Width(bits) - 1, y \in 0 .. Len(bits) - 1 :
                 /\ y * line + (x \div 8) + 1 \in 1 .. line * Len(bits)
                 /\ data[y * line + (x \div 8) + 1][(x % 8) + 1] = bits[y + 1][x + 1]
<1> DEFINE line == LineOf(bits)
           data == Format_Image(bits)
           n == line * Len(bits)
           Byte_(row, k) == [b \in 1 .. 8 |->
                               IF 8 * (k - 1) + b <= Len(row) THEN row[8 * (k - 1) + b] ELSE 0]
<1>1. data = [i \in 1 .. n |-> Byte_(bits[((i - 1) \div line) + 1], ((i - 1) % line) + 1)]
  BY DEF Format_Image, LineOf
<1>2. line \in Nat \ {0} /\ Len(bits) \in Nat \ {0} /\ Width(bits) \in Nat \ {0}
  BY DrawnIs
<1>3. n \in Nat
  <2> HIDE DEF line
  <2> QED
    BY <1>2
<1> HIDE DEF line, data
<1>4. data = [i \in 1 .. n |-> data[i]]
      /\ \A i \in 1 .. n : data[i] = [b \in 1 .. 8 |-> data[i][b]]
  <2> HIDE DEF n
  <2> QED
    BY <1>1
<1>5. ASSUME NEW x \in 0 .. Width(bits) - 1, NEW y \in 0 .. Len(bits) - 1
      PROVE  /\ y * line + (x \div 8) + 1 \in 1 .. n
             /\ data[y * line + (x \div 8) + 1][(x % 8) + 1] = bits[y + 1][x + 1]
  <2> DEFINE c == x \div 8
             row == bits[y + 1]
             i == y * line + c + 1
  <2>1. c \in 0 .. line - 1 /\ c \in Nat /\ Len(row) = Width(bits) /\ x \in Nat /\ y \in Nat
    <3>1. c \in 0 .. line - 1 /\ Len(row) = Width(bits)
      BY DrawnIs DEF line
    <3> QED
      BY <1>2, <3>1
  <2>2. x = 8 * c + (x % 8) /\ (x % 8) + 1 \in 1 .. 8
    BY <2>1
  <2> HIDE DEF c, row
  <2>3. y * line \in Nat /\ y * line + line <= n /\ line * Len(bits) = Len(bits) * line
    <3>1. y * line \in Nat /\ (y + 1) * line <= Len(bits) * line
      <4>1. y + 1 \in Nat /\ y + 1 <= Len(bits) /\ y <= y + 1
        BY <1>2, <2>1
      <4> QED
        BY <1>2, <2>1, <4>1, TimesGrows
    <3>2. (y + 1) * line = y * line + line /\ line * Len(bits) = Len(bits) * line
      BY <1>2, <2>1
    <3> QED
      BY <3>1, <3>2
  <2>4. i \in 1 .. n /\ i - 1 = y * line + c
    <3> HIDE DEF n
    <3> QED
      BY <1>2, <1>3, <2>1, <2>3
  <2>5. (y * line + c) \div line = y /\ (y * line + c) % line = c
    <3>1. c < line
      BY <1>2, <2>1
    <3> QED
      BY <1>2, <2>1, <3>1, DivModIs
  <2> HIDE DEF i, n
  <2>6. data[i] = Byte_(bits[y + 1], c + 1)
    BY <1>1, <2>4, <2>5
  <2>7. Byte_(bits[y + 1], c + 1)[(x % 8) + 1] =
          IF 8 * ((c + 1) - 1) + ((x % 8) + 1) <= Len(row) THEN row[8 * ((c + 1) - 1) + ((x % 8) + 1)] ELSE 0
    BY <2>2 DEF row
  <2> HIDE DEF Byte_
  <2>8. 8 * ((c + 1) - 1) + ((x % 8) + 1) = x + 1
    BY <2>1, <2>2
  <2>9. x + 1 <= Width(bits)
    BY <1>2
  <2> QED
    BY <2>1, <2>4, <2>6, <2>7, <2>8, <2>9 DEF i, c, row
<1> QED
  BY <1>3, <1>4, <1>5 DEF line, data, n

(* The pixmap that is made of a bitmap has its pixels.                     *)
LEMMA BitmapIs ==
  ASSUME NEW bits, Drawn(bits)
  PROVE  LET pixmap == XCreateBitmapFromData(Format_Image(bits), Width(bits), Len(bits))
         IN /\ pixmap.depth = 8 /\ pixmap.width = Width(bits) /\ pixmap.height = Len(bits)
            /\ DOMAIN pixmap.at = Places(Width(bits), Len(bits))
            /\ \A p \in DOMAIN pixmap.at :
                 pixmap.at[p] = IF bits[p[2] + 1][p[1] + 1] = 1 THEN <<255, 0, 0, 0>> ELSE Zero
<1> DEFINE data == Format_Image(bits)
           line == LineOf(bits)
           converted == [i \in DOMAIN data |-> Inverted(ReversedBits(data[i]))]
           old == XPixmap(1, Width(bits), Len(bits))
           pixmap == XCreateBitmapFromData(data, Width(bits), Len(bits))
           places == Places(Width(bits), Len(bits))
           Value(p) == IF converted[p[2] * line + (p[1] \div 8) + 1][8 - (p[1] % 8)] = 1
                       THEN Zero ELSE <<255, 0, 0, 0>>
<1>1. pixmap = [old EXCEPT !.at = [p \in DOMAIN @ |-> Value(p)]]
  BY DEF XCreateBitmapFromData, ImportGray1, LineOf
<1>2. old = [depth |-> 8, width |-> Width(bits), height |-> Len(bits), at |-> [p \in places |-> Zero]]
  BY DEF XPixmap
<1> HIDE DEF old, places, Value
<1>3. /\ pixmap.depth = 8 /\ pixmap.width = Width(bits) /\ pixmap.height = Len(bits)
      /\ pixmap.at = [p \in places |-> Value(p)]
  <2> HIDE DEF pixmap
  <2> QED
    BY <1>1, <1>2
<1>4. ASSUME NEW p \in places
      PROVE  Value(p) = IF bits[p[2] + 1][p[1] + 1] = 1 THEN <<255, 0, 0, 0>> ELSE Zero
  <2> DEFINE x == p[1]
             y == p[2]
             i == y * line + (x \div 8) + 1
             b == 8 - (x % 8)
             bit == bits[y + 1][x + 1]
  <2>1. x \in 0 .. Width(bits) - 1 /\ y \in 0 .. Len(bits) - 1
    BY DEF places, Places
  <2>2. bit \in {0, 1}
    BY <2>1, DrawnIs
  <2>3. /\ data = [j \in 1 .. line * Len(bits) |-> data[j]]
        /\ i \in 1 .. line * Len(bits) /\ data[i] = [c \in 1 .. 8 |-> data[i][c]]
        /\ data[i][(x % 8) + 1] = bit
    <3> HIDE DEF data, line, x, y, i, bit
    <3> QED
      BY <2>1, FormatIs DEF data, line, i, bit
  <2>4. x \in Nat /\ b \in 1 .. 8 /\ 9 - b = (x % 8) + 1
    <3>1. x \in Nat
      BY <2>1
    <3> HIDE DEF x
    <3> QED
      BY <3>1
  <2>5. i \in DOMAIN data
    <3> HIDE DEF data, i, line
    <3> QED
      BY <2>3
  <2> HIDE DEF data, i, b, bit
  <2>6. converted[i][b] = 1 - data[i][9 - b]
    BY <2>4, <2>5 DEF Inverted, ReversedBits
  <2>7. converted[i][b] = 1 - bit
    <3> HIDE DEF converted
    <3> QED
      BY <2>3, <2>4, <2>6
  <2>8. Value(p) = IF converted[i][b] = 1 THEN Zero ELSE <<255, 0, 0, 0>>
    BY DEF Value, i, b
  <2> HIDE DEF converted
  <2> QED
    BY <2>2, <2>7, <2>8 DEF bit
<1> HIDE DEF pixmap
<1>5. DOMAIN pixmap.at = places
  BY <1>3
<1> QED
  BY <1>3, <1>4, <1>5 DEF pixmap, places

(* The bitmaps of the constants are bitmaps.                               *)
LEMMA BitsAre == \A bits \in Bits : Drawn(bits)
BY ImagesAssumption DEF Drawn

(* Listed formats are those of images, and parts of pixmaps are read.      *)
LEMMA FormatsAre == FormatsAreTold
<1>1. ASSUME NEW f \in XListPixmapFormats, NEW width \in Widths
      PROVE  LET image == XCreateImage(f.depth, width, 1, f.scanline_pad)
             IN image.unit = f.bits_per_pixel /\ (8 * image.bytes_per_line) % f.scanline_pad = 0
  <2> DEFINE image == XCreateImage(f.depth, width, 1, f.scanline_pad)
             unit == ROUNDUP(f.depth, 8)
             line == BytesPerLine(width, unit, f.scanline_pad)
             pad == f.scanline_pad \div 8
  <2>1. /\ f.depth \in {16, 24, 32} /\ f.bits_per_pixel = f.depth
        /\ f.scanline_pad \in {16, 32} /\ width \in Nat
    BY ImagesAssumption DEF XListPixmapFormats
  <2>2. unit = f.depth /\ unit \div 8 \in 1 .. 4
    BY <2>1, UnitIs DEF AllDepths
  <2>3. image.unit = unit /\ image.bytes_per_line = line
    BY DEF XCreateImage
  <2>4. pad \in {2, 4} /\ f.scanline_pad = 8 * pad
    BY <2>1
  <2> HIDE DEF unit, pad
  <2>5. line = ROUNDUP(width * (unit \div 8), pad)
    BY <2>4 DEF BytesPerLine, pad
  <2>6. width * (unit \div 8) \in Nat
    BY <2>1, <2>2
  <2> HIDE DEF line
  <2>7. line \in Nat /\ line % pad = 0
    BY <2>4, <2>5, <2>6, RoundUpIs
  <2>8. (8 * line) % (8 * pad) = 0
    <3>1. CASE pad = 2
      BY <2>7, <3>1
    <3>2. CASE pad = 4
      BY <2>7, <3>2
    <3> QED
      BY <2>4, <3>1, <3>2
  <2> HIDE DEF image
  <2> QED
    BY <2>1, <2>2, <2>3, <2>4, <2>8 DEF image
<1>2. ASSUME NEW bits \in Bits, NEW x \in 0 .. 1, NEW destX \in {0, 2}, NEW memory \in Memories,
             Len(bits) > 1, NEW i \in 0 .. 3, i + x < Width(bits)
      PROVE  LET pixmap == XCreateBitmapFromData(Format_Image(bits), Width(bits), Len(bits))
                 image == XGetSubImage(pixmap, x, 1, 4, 1, XCreateImage(8, 7, 3, 32), destX, 2, memory)
             IN ImageGetPixel(image, i + destX, 2)[1] = 255 * bits[2][i + x + 1]
  <2> DEFINE pixmap == XCreateBitmapFromData(Format_Image(bits), Width(bits), Len(bits))
             old == XCreateImage(8, 7, 3, 32)
             image == XGetSubImage(pixmap, x, 1, 4, 1, old, destX, 2, memory)
             p == <<i + destX, 2>>
             from == <<p[1] - destX + x, p[2] - 2 + 1>>
             bit == bits[2][i + x + 1]
  <2>1. Drawn(bits) /\ Width(bits) \in Nat /\ Len(bits) \in Nat
    BY BitsAre, DrawnIs
  <2>2. /\ DOMAIN pixmap.at = Places(Width(bits), Len(bits))
        /\ \A q \in DOMAIN pixmap.at :
             pixmap.at[q] = IF bits[q[2] + 1][q[1] + 1] = 1 THEN <<255, 0, 0, 0>> ELSE Zero
    <3> HIDE DEF pixmap
    <3> QED
      BY <2>1, BitmapIs DEF pixmap
  <2>3. Sound(old) /\ old.depth = 8 /\ (old.width = 7 /\ old.height = 3)
    <3>1. 8 \in AllDepths /\ 7 \in Nat /\ 3 \in Nat /\ 32 \in Nat
      BY DEF AllDepths
    <3>2. Sound(old)
      BY <3>1, CreateIs
    <3>3. old.depth = 8
      BY <3>1, CreateIs
    <3>4. old.width = 7
      BY <3>1, CreateIs
    <3>5. old.height = 3
      BY <3>1, CreateIs
    <3> QED
      BY <3>1, <3>2, <3>3, <3>4, <3>5
  <2> HIDE DEF pixmap, old
  <2>4. \A q \in DOMAIN pixmap.at : pixmap.at[q] \in Pixel
    BY <2>2, BlankIs
  <2>5. p \in Places(old.width, old.height) /\ p[1] = i + destX /\ p[2] = 2
    BY <2>3 DEF Places
  <2>6. from = <<i + x, 1>> /\ from \in Places(Width(bits), Len(bits))
        /\ <<p[1] - destX, p[2] - 2>> \in Places(4, 1)
    BY <1>2, <2>1 DEF Places
  <2>7. x \in Nat /\ 1 \in Nat /\ 4 \in Nat /\ destX \in Nat /\ 2 \in Nat /\ old.depth # 1
    BY <2>3
  <2> HIDE DEF p, from, image
  <2>8. ImageGetPixel(image, p[1], p[2]) = Truncated(old, pixmap.at[from])
    <3>1. IsPartOf(image, pixmap, x, 1, 4, 1, old, destX, 2, memory)
      BY <2>3, <2>4, <2>7 DEF image, IsPartOf
    <3>2. IsReadAt(p, pixmap, x, 1, 4, 1, destX, 2)
      BY <2>2, <2>6 DEF IsReadAt, from
    <3>3. ImageGetPixel(image, p[1], p[2]) = PartAt(p, pixmap, x, 1, old, destX, 2)
      BY <2>5, <3>1, <3>2, SubImageIs
    <3>4. PartAt(p, pixmap, x, 1, old, destX, 2) = Truncated(old, pixmap.at[from])
      BY DEF PartAt, from
    <3> QED
      BY <3>3, <3>4
  <2>9. BytesOf(old) = 1
    BY <2>3, UnitIs DEF Sound, BytesOf
  <2>10. Truncated(old, pixmap.at[from])[1] = pixmap.at[from][1]
    BY <2>3, <2>9 DEF Truncated
  <2>11. bits[from[2] + 1][from[1] + 1] = bit /\ bit \in {0, 1}
    <3>1. i + x \in 0 .. Width(bits) - 1 /\ 1 \in 0 .. Len(bits) - 1
      BY <1>2, <2>1
    <3>2. bits[1 + 1][(i + x) + 1] \in {0, 1}
      BY <2>1, <3>1, DrawnIs
    <3> QED
      BY <2>6, <3>2
  <2>12. pixmap.at[from] = IF bit = 1 THEN <<255, 0, 0, 0>> ELSE Zero
    <3> HIDE DEF bit
    <3> QED
      BY <2>2, <2>6, <2>11
  <2> HIDE DEF bit
  <2>13. pixmap.at[from][1] = 255 * bit
    BY <2>11, <2>12 DEF Zero
  <2> QED
    BY <2>5, <2>8, <2>10, <2>13 DEF pixmap, old, image, bit
<1> QED
  BY <1>1, <1>2 DEF FormatsAreTold

(* Within a bitmap, what an image of it tells is nothing where it has 0.    *)
LEMMA BitmapRead ==
  ASSUME NEW bits, Drawn(bits), NEW w \in Nat, NEW h \in Nat, NEW p \in Places(w, h),
         p \in Places(Width(bits), Len(bits)), NEW memory \in Memories
  PROVE  LET pixmap == XCreateBitmapFromData(Format_Image(bits), Width(bits), Len(bits))
         IN (ImageGetPixel(XGetImage(pixmap, 0, 0, w, h, memory), p[1], p[2]) = Zero)
              = (bits[p[2] + 1][p[1] + 1] = 0)
<1> DEFINE pixmap == XCreateBitmapFromData(Format_Image(bits), Width(bits), Len(bits))
           old == XCreateImage(8, w, h, 32)
           image == XGetImage(pixmap, 0, 0, w, h, memory)
           from == <<p[1] - 0 + 0, p[2] - 0 + 0>>
           places == Places(Width(bits), Len(bits))
<1>1. /\ pixmap.depth = 8 /\ DOMAIN pixmap.at = places
      /\ \A q \in DOMAIN pixmap.at :
           pixmap.at[q] = IF bits[q[2] + 1][q[1] + 1] = 1 THEN <<255, 0, 0, 0>> ELSE Zero
  <2> HIDE DEF pixmap
  <2> QED
    BY BitmapIs DEF pixmap
<1>2. Sound(old) /\ old.depth = 8 /\ (old.width = w /\ old.height = h)
  <2>1. 8 \in AllDepths /\ 32 \in Nat
    BY DEF AllDepths
  <2> QED
    BY <2>1, CreateIs
<1> HIDE DEF pixmap, old
<1>3. \A q \in DOMAIN pixmap.at : pixmap.at[q] \in Pixel
  BY <1>1, BlankIs
<1>4. image = XGetSubImage(pixmap, 0, 0, w, h, old, 0, 0, memory)
  BY <1>1 DEF XGetImage, old
<1>5. from = p /\ <<p[1] - 0, p[2] - 0>> = p
  BY DEF Places
<1> HIDE DEF image, from, places
<1>6. p \in places
  BY DEF places
<1>10. ImageGetPixel(image, p[1], p[2]) = Truncated(old, pixmap.at[p])
  <2>1. 0 \in Nat /\ old.depth # 1 /\ p \in Places(old.width, old.height)
        /\ Places(old.width, old.height) = Places(w, h)
    BY <1>2
  <2>2. IsPartOf(image, pixmap, 0, 0, w, h, old, 0, 0, memory)
    BY <1>2, <1>3, <1>4, <2>1 DEF IsPartOf
  <2>3. IsReadAt(p, pixmap, 0, 0, w, h, 0, 0)
    BY <1>1, <1>5, <1>6, <2>1 DEF IsReadAt, from
  <2>4. ImageGetPixel(image, p[1], p[2]) = PartAt(p, pixmap, 0, 0, old, 0, 0)
    BY <2>1, <2>2, <2>3, SubImageIs
  <2>5. PartAt(p, pixmap, 0, 0, old, 0, 0) = Truncated(old, pixmap.at[p])
    BY <1>5 DEF PartAt, from
  <2> QED
    BY <2>4, <2>5
<1>7. BytesOf(old) = 1
  BY <1>2, UnitIs DEF Sound, BytesOf
<1>8. ASSUME NEW v \in {<<255, 0, 0, 0>>, Zero}
      PROVE  (Truncated(old, v) = Zero) = (v = Zero)
  <2>1. Truncated(old, v) = [b \in 1 .. 4 |-> IF b <= 1 THEN v[b] ELSE 0]
    BY <1>2, <1>7 DEF Truncated
  <2>2. CASE v = Zero
    <3>1. Truncated(old, v) = Blank
      BY <2>1, <2>2 DEF Blank, Zero
    <3> QED
      BY <2>2, <3>1, BlankIs
  <2>3. CASE v = <<255, 0, 0, 0>>
    <3>1. Truncated(old, v)[1] = 255 /\ Zero[1] = 0 /\ v[1] = 255
      BY <2>1, <2>3 DEF Zero
    <3>2. Truncated(old, v) # Zero /\ v # Zero
      BY <3>1
    <3> QED
      BY <3>2
  <2> QED
    BY <2>2, <2>3
<1>9. (ImageGetPixel(image, p[1], p[2]) = Zero) = (bits[p[2] + 1][p[1] + 1] = 0)
  <2> DEFINE bit == bits[p[2] + 1][p[1] + 1]
  <2>1. bit \in {0, 1}
    <3>1. p[1] \in 0 .. Width(bits) - 1 /\ p[2] \in 0 .. Len(bits) - 1
      BY <1>6 DEF places, Places
    <3> QED
      BY <3>1, DrawnIs
  <2>2. pixmap.at[p] = IF bit = 1 THEN <<255, 0, 0, 0>> ELSE Zero
    BY <1>1, <1>6
  <2>3. pixmap.at[p] \in {<<255, 0, 0, 0>>, Zero}
    BY <2>2
  <2>4. (pixmap.at[p] = Zero) = (bit = 0)
    <3>1. <<255, 0, 0, 0>> # Zero
      BY BlankIs
    <3> HIDE DEF bit
    <3> QED
      BY <2>1, <2>2, <3>1
  <2> HIDE DEF bit
  <2> QED
    BY <1>8, <1>10, <2>3, <2>4 DEF bit
<1> QED
  BY <1>9 DEF pixmap, image

(* Cursors have the colors that their bitmaps ask for.                     *)
LEMMA CursorsAre == CursorsAreMasked
<1> SUFFICES ASSUME NEW bits \in Bits, NEW mask \in Bits, NEW memory \in Memories, NEW memory2 \in Memories,
                    NEW p \in Places(Width(bits), Len(bits))
             PROVE  LET Bitmap(b) == XCreateBitmapFromData(Format_Image(b), Width(b), Len(b))
                        fg == <<1, 2, 3, 255>>  bg == <<0, 0, 0, 255>>
                        cursor == XCreatePixmapCursor(Bitmap(bits), Bitmap(mask), fg, bg, memory, memory2)
                        pixel == ImageGetPixel(cursor, p[1], p[2])
                        color == IF bits[p[2] + 1][p[1] + 1] = 1 THEN fg ELSE bg
                    IN IF p \in Places(Width(mask), Len(mask))
                       THEN pixel = IF mask[p[2] + 1][p[1] + 1] = 1 THEN color ELSE Transparent
                       ELSE pixel \in {color, Transparent}
  BY Zenon DEF CursorsAreMasked
<1> DEFINE Bitmap(b) == XCreateBitmapFromData(Format_Image(b), Width(b), Len(b))
           w == Width(bits)
           h == Len(bits)
           fg == <<1, 2, 3, 255>>
           bg == <<0, 0, 0, 255>>
           source == Bitmap(bits)
           over == Bitmap(mask)
           Color(q) == IF ImageGetPixel(XGetImage(over, 0, 0, w, h, memory2), q[1], q[2]) = Zero THEN Transparent
                       ELSE IF ImageGetPixel(XGetImage(source, 0, 0, w, h, memory), q[1], q[2]) = Zero THEN bg ELSE fg
           old == XCreateImage(32, w, h, 32)
           places == Places(w, h)
           px == [q \in places |-> Color(q)]
           cursor == XCreatePixmapCursor(source, over, fg, bg, memory, memory2)
<1>1. Drawn(bits) /\ Drawn(mask) /\ w \in Nat /\ h \in Nat
  BY BitsAre, DrawnIs
<1>2. source.width = w /\ source.height = h
  <2> HIDE DEF source
  <2> QED
    BY <1>1, BitmapIs DEF source
<1>3. Sound(old) /\ old.depth = 32 /\ (old.width = w /\ old.height = h)
  <2>1. 32 \in AllDepths /\ 32 \in Nat
    BY DEF AllDepths
  <2>2. w \in Nat /\ h \in Nat
    BY <1>1
  <2> HIDE DEF w, h
  <2>3. Sound(old)
    BY <2>1, <2>2, CreateIs
  <2>4. old.depth = 32
    BY <2>1, <2>2, CreateIs
  <2>5. old.width = w
    BY <2>1, <2>2, CreateIs
  <2>6. old.height = h
    BY <2>1, <2>2, CreateIs
  <2> QED
    BY <2>3, <2>4, <2>5, <2>6
<1> HIDE DEF source, over, old, w, h
<1>4. cursor = PutPixels(old, px)
  BY <1>2 DEF XCreatePixmapCursor, old
<1>5. fg \in Pixel /\ bg \in Pixel /\ Transparent \in Pixel
  BY DEF Pixel, Byte, Transparent
<1>6. \A q : Color(q) \in Pixel
  <2> HIDE DEF fg, bg
  <2> QED
    BY <1>5
<1> HIDE DEF Color, cursor
<1>7. px \in [places -> Pixel]
  BY <1>6
<1>8. IsFiniteSet(places)
  <2>1. 0 \in Int /\ w - 1 \in Int /\ h - 1 \in Int
    BY <1>1
  <2>2. IsFiniteSet(0 .. w - 1) /\ IsFiniteSet(0 .. h - 1)
    BY <2>1, FS_Interval
  <2> QED
    BY <2>2, FS_Product DEF Places
<1>9. \A s \in places : InImage(old, s[1], s[2]) /\ s = <<s[1], s[2]>>
  BY <1>3 DEF InImage, Places
<1> HIDE DEF px, places
<1>10. IsWith(cursor, old, px, places)
  BY <1>3, <1>4, <1>7, <1>8, <1>9, PutPixelsIs
<1>11. p \in places
  BY DEF places, w, h
<1>12. ImageGetPixel(cursor, p[1], p[2]) = Truncated(old, Color(p))
  BY <1>10, <1>11 DEF IsWith, px
<1>13. Truncated(old, Color(p)) = Color(p)
  <2>1. BytesOf(old) = 4
    BY <1>3, UnitIs DEF Sound, BytesOf
  <2>2. Color(p) = [b \in 1 .. 4 |-> Color(p)[b]]
    BY <1>6 DEF Pixel
  <2>3. Truncated(old, Color(p)) = [b \in 1 .. 4 |-> IF b <= 4 THEN Color(p)[b] ELSE 0]
    BY <1>3, <2>1 DEF Truncated
  <2> QED
    BY <2>2, <2>3
<1>14. ASSUME p \in Places(Width(mask), Len(mask))
       PROVE  (ImageGetPixel(XGetImage(over, 0, 0, w, h, memory2), p[1], p[2]) = Zero) = (mask[p[2] + 1][p[1] + 1] = 0)
  BY <1>1, <1>11, <1>14, BitmapRead DEF over, places
<1>15. (ImageGetPixel(XGetImage(source, 0, 0, w, h, memory), p[1], p[2]) = Zero) = (bits[p[2] + 1][p[1] + 1] = 0)
  BY <1>1, <1>11, BitmapRead DEF source, places, w, h
<1>16. bits[p[2] + 1][p[1] + 1] \in {0, 1}
  <2>1. p[1] \in 0 .. Width(bits) - 1 /\ p[2] \in 0 .. Len(bits) - 1
    BY DEF Places
  <2> QED
    BY <1>1, <2>1, DrawnIs
<1>17. ASSUME p \in Places(Width(mask), Len(mask))
       PROVE  mask[p[2] + 1][p[1] + 1] \in {0, 1}
  <2>1. p[1] \in 0 .. Width(mask) - 1 /\ p[2] \in 0 .. Len(mask) - 1
    BY <1>17 DEF Places
  <2> QED
    BY <1>1, <2>1, DrawnIs
<1> DEFINE color == IF bits[p[2] + 1][p[1] + 1] = 1 THEN fg ELSE bg
<1>18. Color(p) = IF ImageGetPixel(XGetImage(over, 0, 0, w, h, memory2), p[1], p[2]) = Zero
                  THEN Transparent ELSE color
  <2> HIDE DEF fg, bg
  <2> QED
    BY <1>15, <1>16 DEF Color
<1> HIDE DEF color
<1>19. IF p \in Places(Width(mask), Len(mask))
       THEN Color(p) = IF mask[p[2] + 1][p[1] + 1] = 1 THEN color ELSE Transparent
       ELSE Color(p) \in {color, Transparent}
  <2>1. CASE p \in Places(Width(mask), Len(mask))
    BY <1>14, <1>17, <1>18, <2>1
  <2>2. CASE p \notin Places(Width(mask), Len(mask))
    BY <1>18, <2>2
  <2> QED
    BY <2>1, <2>2
<1> QED
  BY <1>12, <1>13, <1>19 DEF cursor, source, over, color

(* The numbers of the older format have the bytes of the rows.             *)
NumbersOf(bits) == (Width(bits) + 15) \div 16
LEMMA NumbersAre ==
  ASSUME NEW W \in Nat \ {0}
  PROVE  LET line == (W + 7) \div 8
             rest == W % 16
             padding == IF rest # 0 /\ rest < 9 THEN 1 ELSE 0
         IN /\ line \in Nat \ {0} /\ padding \in {0, 1}
            /\ (line + padding) \div 2 = (W + 15) \div 16
            /\ (W + 15) \div 16 \in Nat \ {0}
            /\ \A k \in 0 .. line - 1 : k \div 2 \in 0 .. (W + 15) \div 16 - 1
OBVIOUS

(* The place of a row's element among all, and back.                       *)
LEMMA PlaceIs ==
  ASSUME NEW n \in Nat \ {0}, NEW h \in Nat \ {0}, NEW row \in 0 .. h - 1, NEW c \in 0 .. n - 1
  PROVE  /\ row * n + c \in Nat /\ n * h \in Nat /\ row * n + c + 1 \in 1 .. n * h
         /\ (row * n + c) \div n = row /\ (row * n + c) % n = c
<1>1. row * n \in Nat /\ n * h \in Nat /\ row + 1 \in Nat /\ (row + 1) * n <= h * n /\ h * n = n * h
  BY TimesGrows
<1>2. (row + 1) * n = row * n + n
  OBVIOUS
<1>3. row * n + c + 1 <= n * h
  BY <1>1, <1>2
<1>4. (row * n + c) \div n = row /\ (row * n + c) % n = c
  BY DivModIs
<1> QED
  BY <1>1, <1>3, <1>4

(* A byte of a row is in the file of the older format where it is read.    *)
LEMMA OlderIs ==
  ASSUME NEW bits, Drawn(bits), NEW hot,
         NEW row \in 0 .. Len(bits) - 1, NEW k \in 0 .. LineOf(bits) - 1
  PROVE  Older(bits, hot).values[row * NumbersOf(bits) + (k \div 2) + 1][(k % 2) + 1]
           = Format_Image(bits)[row * LineOf(bits) + k + 1]
<1> DEFINE line == LineOf(bits)
           n == NumbersOf(bits)
           h == Len(bits)
           bytes == Format_Image(bits)
           none == [b \in 1 .. 8 |-> 0]
           Byte_(r, c) == IF c < line THEN bytes[r * line + c + 1] ELSE none
           Bytes_(i) == LET r == (i - 1) \div n  c == 2 * ((i - 1) % n)
                      IN <<Byte_(r, c), Byte_(r, c + 1)>>
           values == [i \in 1 .. n * h |-> Bytes_(i)]
           i == row * n + (k \div 2) + 1
<1>1. Older(bits, hot).values = values
  BY DEF Older, LineOf, NumbersOf
<1>2. line \in Nat \ {0} /\ n \in Nat \ {0} /\ h \in Nat \ {0} /\ k \div 2 \in 0 .. n - 1
  <2>1. Width(bits) \in Nat \ {0} /\ h \in Nat \ {0}
    BY DrawnIs
  <2> QED
    BY <2>1, NumbersAre DEF LineOf, NumbersOf
<1> HIDE DEF line, n, h, bytes, Byte_
<1>3. /\ i \in 1 .. n * h /\ i - 1 = row * n + (k \div 2)
      /\ (row * n + (k \div 2)) \div n = row /\ (row * n + (k \div 2)) % n = k \div 2
  <2>1. row \in 0 .. h - 1
    BY DEF h
  <2>2. /\ row * n + (k \div 2) \in Nat /\ i \in 1 .. n * h
        /\ (row * n + (k \div 2)) \div n = row /\ (row * n + (k \div 2)) % n = k \div 2
    <3> DEFINE c == k \div 2
    <3>1. c \in 0 .. n - 1
      BY <1>2
    <3> HIDE DEF c
    <3>2. /\ row * n + c \in Nat /\ row * n + c + 1 \in 1 .. n * h
          /\ (row * n + c) \div n = row /\ (row * n + c) % n = c
      BY <1>2, <2>1, <3>1, PlaceIs
    <3> QED
      BY <3>2 DEF c
  <2> QED
    BY <2>2
<1> HIDE DEF i
<1>4. values[i] = <<Byte_(row, 2 * (k \div 2)), Byte_(row, 2 * (k \div 2) + 1)>>
  <2>1. values[i] = Bytes_(i)
    BY <1>3
  <2> QED
    BY <1>3, <2>1
<1> HIDE DEF values
<1>5. k \in Nat /\ k = 2 * (k \div 2) + (k % 2) /\ k % 2 \in {0, 1}
  BY <1>2 DEF line
<1>6. values[i][(k % 2) + 1] = Byte_(row, k)
  <2>1. CASE k % 2 = 0
    BY <1>4, <1>5, <2>1
  <2>2. CASE k % 2 = 1
    BY <1>4, <1>5, <2>2
  <2> QED
    BY <1>5, <2>1, <2>2
<1>7. Byte_(row, k) = bytes[row * line + k + 1]
  BY <1>2, <1>5 DEF Byte_, line
<1> QED
  BY <1>1, <1>6, <1>7 DEF i, n, bytes, line

(* Bitmaps in both formats are read as they are.                           *)
LEMMA BitmapsAre == BitmapsAreKept
<1> SUFFICES ASSUME NEW bits \in Bits, NEW hot \in {<<-1, -1>>, <<0, 1>>}
             PROVE  /\ XReadBitmapFileData(XWriteBitmapFile(bits, hot)) =
                         [width |-> Width(bits), height |-> Len(bits), hot |-> hot, bits |-> Format_Image(bits)]
                    /\ XReadBitmapFileData(Older(bits, hot)) =
                         [width |-> Width(bits), height |-> Len(bits), hot |-> hot, bits |-> Format_Image(bits)]
  BY DEF BitmapsAreKept
<1> DEFINE W == Width(bits)
           h == Len(bits)
           line == LineOf(bits)
           n == NumbersOf(bits)
           bytes == Format_Image(bits)
<1>1. Drawn(bits) /\ W \in Nat \ {0} /\ h \in Nat \ {0} /\ line \in Nat \ {0}
  BY BitsAre, DrawnIs
<1>2. /\ DOMAIN bytes = 1 .. line * h /\ line * h \in Nat
      /\ bytes = [i \in 1 .. line * h |-> bytes[i]]
  <2> HIDE DEF bytes, line
  <2> QED
    BY <1>1, FormatIs DEF bytes, line
<1>3. XReadBitmapFileData(XWriteBitmapFile(bits, hot)) = [width |-> W, height |-> h, hot |-> hot, bits |-> bytes]
  <2> DEFINE file == XWriteBitmapFile(bits, hot)
             values == [i \in DOMAIN bytes |-> <<bytes[i]>>]
  <2>1. /\ file.width = W /\ file.height = h /\ file.version10p = FALSE /\ file.values = values
        /\ file.hot = IF hot[1] = -1 THEN <<-1, -1>> ELSE hot
    BY DEF XWriteBitmapFile
  <2>2. file.hot = hot
    BY <2>1
  <2>3. \A i \in 1 .. line * h : values[i][1] = bytes[i]
    BY <1>2
  <2> HIDE DEF file, values, W, h, line, bytes
  <2>4. (W + 7) \div 8 + 0 = line
    BY <1>1 DEF line, LineOf, W
  <2>5. XReadBitmapFileData(file) =
          [width |-> W, height |-> h, hot |-> hot, bits |-> [i \in 1 .. ((W + 7) \div 8 + 0) * h |-> values[i][1]]]
    BY <2>1, <2>2 DEF XReadBitmapFileData
  <2>6. [i \in 1 .. line * h |-> values[i][1]] = bytes
    BY <1>2, <2>3
  <2> QED
    BY <2>4, <2>5, <2>6 DEF file
<1>4. XReadBitmapFileData(Older(bits, hot)) = [width |-> W, height |-> h, hot |-> hot, bits |-> bytes]
  <2> DEFINE file == Older(bits, hot)
             rest == W % 16
             padding == IF rest # 0 /\ rest < 9 THEN 1 ELSE 0
             At(i) == file.values[((i - 1) \div line) * n + (((i - 1) % line) \div 2) + 1][(((i - 1) % line) % 2) + 1]
  <2>1. file.width = W /\ file.height = h /\ file.version10p = TRUE /\ file.hot = hot
    BY DEF Older
  <2> HIDE DEF file
  <2>2. /\ padding \in {0, 1} /\ (W + 7) \div 8 = line /\ (line + padding) \div 2 = n
        /\ (line + padding) - padding = line
    <3>1. (W + 7) \div 8 = line /\ (W + 15) \div 16 = n
      BY DEF LineOf, NumbersOf
    <3> HIDE DEF line, n, W
    <3> QED
      BY <1>1, <3>1, NumbersAre
  <2> HIDE DEF W, h, line, n, bytes
  <2>3. XReadBitmapFileData(file) =
          [width |-> W, height |-> h, hot |-> hot, bits |-> [i \in 1 .. line * h |-> At(i)]]
    <3> DEFINE kept == (line + padding) - padding
               At_(i) == LET row == (i - 1) \div kept  k == (i - 1) % kept
                         IN file.values[row * ((line + padding) \div 2) + (k \div 2) + 1][(k % 2) + 1]
    <3> DEFINE padding_ == IF file.version10p /\ file.width % 16 # 0 /\ file.width % 16 < 9 THEN 1 ELSE 0
               line_ == (file.width + 7) \div 8 + padding_
               kept_ == line_ - padding_
               Kept(i) == LET row == (i - 1) \div kept_  k == (i - 1) % kept_
                          IN file.values[row * (line_ \div 2) + (k \div 2) + 1][(k % 2) + 1]
               all == IF file.version10p THEN [i \in 1 .. kept_ * file.height |-> Kept(i)]
                      ELSE [i \in 1 .. line_ * file.height |-> file.values[i][1]]
    <3>1. XReadBitmapFileData(file) = [width |-> file.width, height |-> file.height, hot |-> file.hot, bits |-> all]
      BY DEF XReadBitmapFileData
    <3>2. padding_ = padding
      BY <2>1
    <3> HIDE DEF padding_, padding
    <3>3. line_ = line + padding /\ kept_ = kept
      <4>1. line_ = (W + 7) \div 8 + padding
        BY <2>1, <3>2
      <4>2. line_ = line + padding
        BY <2>2, <4>1
      <4>3. file.width = W /\ (W + 7) \div 8 = line
        BY <2>1, <2>2
      <4>4. kept_ = ((W + 7) \div 8 + padding) - padding
        BY Zenon, <3>2, <4>3
      <4>5. kept_ = (line + padding) - padding
        BY Zenon, <4>3, <4>4
      <4> HIDE DEF line_, kept_
      <4> QED
        BY <4>2, <4>5
    <3> HIDE DEF line_, kept_, kept
    <3>4. all = [i \in 1 .. kept * h |-> At_(i)]
      <4>1. all = [i \in 1 .. kept * h |-> Kept(i)]
        BY <2>1, <3>3
      <4>2. \A i : Kept(i) = At_(i)
        BY <3>3
      <4> HIDE DEF all, Kept, At_
      <4> QED
        BY <4>1, <4>2
    <3> HIDE DEF all
    <3>5. XReadBitmapFileData(file) =
            [width |-> W, height |-> h, hot |-> hot, bits |-> [i \in 1 .. kept * h |-> At_(i)]]
      BY <2>1, <3>1, <3>4
    <3> USE DEF kept
    <3>6. \A i : At_(i) = At(i)
      BY <2>2
    <3> QED
      BY <2>2, <3>5, <3>6
  <2>4. ASSUME NEW i \in 1 .. line * h
        PROVE  At(i) = bytes[i]
    <3> DEFINE row == (i - 1) \div line
               k == (i - 1) % line
    <3>1. /\ i - 1 \in Nat /\ row \in Nat /\ k \in 0 .. line - 1 /\ i - 1 = line * row + k
      <4>1. i \in Nat \ {0}
        BY <1>2
      <4> DEFINE m == i - 1
      <4>2. m \in Nat
        BY <4>1
      <4> HIDE DEF m
      <4>3. m \div line \in Nat /\ m % line \in 0 .. line - 1 /\ m = line * (m \div line) + (m % line)
        BY <1>1, <4>2
      <4> QED
        BY <4>2, <4>3 DEF m
    <3> HIDE DEF row, k
    <3>2. line * row = row * line
      BY <1>1, <3>1
    <3>3. row \in 0 .. h - 1
      <4> SUFFICES ASSUME row >= h PROVE FALSE
        BY <1>1, <3>1
      <4>1. h * line <= row * line /\ h * line = line * h
        BY <1>1, <3>1, TimesGrows
      <4> QED
        BY <1>1, <1>2, <3>1, <3>2, <4>1
    <3>4. file.values[row * n + (k \div 2) + 1][(k % 2) + 1] = bytes[row * line + k + 1]
      BY <1>1, <3>1, <3>3, OlderIs DEF file, n, h, line, bytes
    <3>5. row * line + k + 1 = i
      BY <1>1, <3>1, <3>2
    <3> QED
      BY <3>4, <3>5 DEF row, k
  <2>5. [i \in 1 .. line * h |-> At(i)] = bytes
    <3> HIDE DEF At
    <3> QED
      BY <1>2, <2>4
  <2> QED
    BY <2>3, <2>5 DEF file
<1> QED
  BY <1>3, <1>4

Sorted(colors) ==
  colors \in Seq(Nat) /\ \A i, j \in 1 .. Len(colors) : i < j => colors[i] < colors[j]

(* What the search has from l to u.                                        *)
Found(f, colors, name, l, u) ==
  IF \E j \in l .. u : colors[j] = name
  THEN f[<<l, u>>] \in l .. u /\ colors[f[<<l, u>>]] = name ELSE f[<<l, u>>] = 0
Ranges(colors) == (1 .. Len(colors) + 1) \X (0 .. Len(colors))
Half(f, colors, name, range) ==
  LET i == (range[1] + range[2]) \div 2
  IN IF range[1] > range[2] THEN 0
     ELSE IF colors[i] = name THEN i
     ELSE IF name < colors[i] THEN f[<<range[1], i - 1>>]
     ELSE f[<<i + 1, range[2]>>]
Searched(f, colors, name) == f = [range \in Ranges(colors) |-> Half(f, colors, name, range)]

(* The middle of a range is in it.                                         *)
LEMMA HalfIs ==
  ASSUME NEW l \in Nat, NEW u \in Nat, l <= u
  PROVE  (l + u) \div 2 \in l .. u
OBVIOUS

(* The search is right of any range when it is right of the smaller ones.  *)
LEMMA SearchStep ==
  ASSUME NEW colors, Sorted(colors), NEW name \in Nat, NEW f, Searched(f, colors, name),
         NEW l \in 1 .. Len(colors) + 1, NEW u \in 0 .. Len(colors),
         \A m \in 1 .. Len(colors) + 1, v \in 0 .. Len(colors) : v - m < u - l => Found(f, colors, name, m, v)
  PROVE  Found(f, colors, name, l, u)
<1> DEFINE i == (l + u) \div 2
<1>1. Len(colors) \in Nat /\ (\A j \in 1 .. Len(colors) : colors[j] \in Nat) /\ l \in Nat /\ u \in Nat
  BY DEF Sorted
<1>2. f[<<l, u>>] = IF l > u THEN 0
                    ELSE IF colors[i] = name THEN i
                    ELSE IF name < colors[i] THEN f[<<l, i - 1>>]
                    ELSE f[<<i + 1, u>>]
  <2>1. <<l, u>> \in Ranges(colors)
    BY DEF Ranges
  <2>2. f[<<l, u>>] = Half(f, colors, name, <<l, u>>)
    BY <2>1 DEF Searched
  <2> QED
    BY <2>2 DEF Half
<1>3. l <= u => i \in l .. u /\ i \in 1 .. Len(colors)
  <2>1. l <= u => i \in l .. u
    BY <1>1, HalfIs
  <2> HIDE DEF i
  <2> QED
    BY <1>1, <2>1
<1> HIDE DEF i
<1>4. (l <= u) = ~(l > u)
  BY <1>1
<1>5. CASE l > u
  BY <1>1, <1>2, <1>5 DEF Found
<1>6. CASE l <= u /\ colors[i] = name
  <2>1. f[<<l, u>>] = i
    BY Zenon, <1>2, <1>6, <1>4
  <2> QED
    BY <1>3, <1>6, <2>1 DEF Found
<1>7. CASE l <= u /\ colors[i] # name /\ name < colors[i]
  <2>1. f[<<l, u>>] = f[<<l, i - 1>>]
    BY Zenon, <1>2, <1>7, <1>4
  <2>2. i - 1 \in 0 .. Len(colors) /\ (i - 1) - l < u - l
    BY <1>1, <1>3, <1>7
  <2>3. Found(f, colors, name, l, i - 1)
    BY <2>2
  <2>4. \A j \in l .. u : colors[j] = name => j \in l .. i - 1
    <3> SUFFICES ASSUME NEW j \in l .. u, colors[j] = name PROVE j < i
      BY <1>1, <1>3, <1>7
    <3>1. j \in 1 .. Len(colors)
      BY <1>1
    <3>2. i < j => colors[i] < colors[j]
      BY <1>3, <1>7, <3>1 DEF Sorted
    <3> QED
      BY <1>1, <1>3, <1>7, <3>1, <3>2
  <2>5. \A j \in l .. i - 1 : j \in l .. u
    BY <1>1, <1>3, <1>7
  <2> QED
    BY <2>1, <2>3, <2>4, <2>5 DEF Found
<1>8. CASE l <= u /\ colors[i] # name /\ ~(name < colors[i])
  <2>1. f[<<l, u>>] = f[<<i + 1, u>>]
    BY Zenon, <1>2, <1>8, <1>4
  <2>2. i + 1 \in 1 .. Len(colors) + 1 /\ u - (i + 1) < u - l
    BY <1>1, <1>3, <1>8
  <2>3. Found(f, colors, name, i + 1, u)
    BY <2>2
  <2>4. \A j \in l .. u : colors[j] = name => j \in i + 1 .. u
    <3> SUFFICES ASSUME NEW j \in l .. u, colors[j] = name PROVE i < j
      BY <1>1, <1>3, <1>8
    <3>1. j \in 1 .. Len(colors)
      BY <1>1
    <3>2. j < i => colors[j] < colors[i]
      BY <1>3, <1>8, <3>1 DEF Sorted
    <3> QED
      BY <1>1, <1>3, <1>8, <3>1, <3>2
  <2>5. \A j \in i + 1 .. u : j \in l .. u
    BY <1>1, <1>3, <1>8
  <2> QED
    BY <2>1, <2>3, <2>4, <2>5 DEF Found
<1> QED
  BY <1>1, <1>5, <1>6, <1>7, <1>8

(* A table in order: what is in it is found, and nothing else.             *)
LEMMA SearchIs ==
  ASSUME NEW colors, Sorted(colors), NEW name \in Nat
  PROVE  LET i == FindColor(colors, name)
         IN IF \E j \in 1 .. Len(colors) : colors[j] = name
            THEN i \in 1 .. Len(colors) /\ colors[i] = name ELSE i = 0
<1> DEFINE n == Len(colors)
<1>1. n \in Nat /\ (\A j \in 1 .. n : colors[j] \in Nat)
  BY DEF Sorted
<1>2. PICK where \in 0 .. n :
        IF where = 0 THEN \A j \in 1 .. n : colors[j] # name ELSE colors[where] = name
  BY <1>1
<1>3. \A j \in 1 .. n : colors[j] = name => j = where
  BY <1>1, <1>2 DEF Sorted
<1> DEFINE At(l, u) == IF where \in l .. u THEN where ELSE 0
           g == [range \in Ranges(colors) |-> At(range[1], range[2])]
<1>4. ASSUME NEW range \in Ranges(colors)
      PROVE  g[range] = Half(g, colors, name, range)
  <2> DEFINE l == range[1]
             u == range[2]
             i == (l + u) \div 2
  <2>1. l \in 1 .. n + 1 /\ u \in 0 .. n /\ g[range] = At(l, u)
    BY <1>1 DEF Ranges
  <2>2. Half(g, colors, name, range) = IF l > u THEN 0
                                      ELSE IF colors[i] = name THEN i
                                      ELSE IF name < colors[i] THEN g[<<l, i - 1>>]
                                      ELSE g[<<i + 1, u>>]
    BY DEF Half
  <2>3. l <= u => i \in l .. u
    <3> HIDE DEF l, u
    <3> QED
      BY <1>1, <2>1, HalfIs
  <2> HIDE DEF l, u, i
  <2>4. l <= u => i \in 1 .. n
    BY <1>1, <2>1, <2>3
  <2>5. l <= u => g[<<l, i - 1>>] = At(l, i - 1)
    <3> SUFFICES ASSUME l <= u PROVE <<l, i - 1>> \in Ranges(colors)
      OBVIOUS
    <3> QED
      BY <1>1, <2>1, <2>3 DEF Ranges
  <2>6. l <= u => g[<<i + 1, u>>] = At(i + 1, u)
    <3> SUFFICES ASSUME l <= u PROVE <<i + 1, u>> \in Ranges(colors)
      OBVIOUS
    <3> QED
      BY <1>1, <2>1, <2>3 DEF Ranges
  <2> HIDE DEF g
  <2>7. CASE l > u
    BY <1>1, <2>1, <2>2, <2>7
  <2>8. CASE l <= u /\ colors[i] = name
    <3>1. i = where
      BY <1>3, <2>4, <2>8
    <3>2. Half(g, colors, name, range) = i
      BY <1>1, <2>1, <2>2, <2>8
    <3> QED
      BY <1>1, <2>1, <2>3, <2>8, <3>1, <3>2
  <2>9. CASE l <= u /\ colors[i] # name /\ name < colors[i]
    <3>1. Half(g, colors, name, range) = At(l, i - 1)
      BY <1>1, <2>1, <2>2, <2>5, <2>9
    <3>2. where = 0 \/ where < i
      BY <1>1, <1>2, <2>4, <2>9 DEF Sorted
    <3> QED
      BY <1>1, <1>2, <2>1, <2>3, <2>9, <3>1, <3>2
  <2>10. CASE l <= u /\ colors[i] # name /\ ~(name < colors[i])
    <3>1. Half(g, colors, name, range) = At(i + 1, u)
      BY <1>1, <2>1, <2>2, <2>6, <2>10
    <3>2. where = 0 \/ where > i
      BY <1>1, <1>2, <2>4, <2>10 DEF Sorted
    <3> QED
      BY <1>1, <1>2, <2>1, <2>3, <2>10, <3>1, <3>2
  <2> QED
    BY <1>1, <2>1, <2>7, <2>8, <2>9, <2>10
<1>5. Searched(g, colors, name)
  <2> HIDE DEF At
  <2>1. g = [range \in Ranges(colors) |-> g[range]]
    OBVIOUS
  <2> HIDE DEF g
  <2>2. g = [range \in Ranges(colors) |-> Half(g, colors, name, range)]
    BY <1>4, <2>1
  <2> QED
    BY <2>2 DEF Searched
<1> DEFINE found == CHOOSE f : f = [range \in Ranges(colors) |-> Half(f, colors, name, range)]
<1>6. Searched(found, colors, name)
  <2> HIDE DEF g
  <2> QED
    BY Zenon, <1>5 DEF Searched
<1>7. FindColor(colors, name) = found[<<1, n>>]
  BY Zenon DEF FindColor, Ranges, Half
<1> HIDE DEF found
<1>8. Found(found, colors, name, 1, n)
  <2> DEFINE G == {k \in Nat : \A l \in 1 .. n + 1, u \in 0 .. n :
                                 u - l + n + 1 < k => Found(found, colors, name, l, u)}
  <2>1. 0 \in G
    BY <1>1
  <2>2. ASSUME NEW k \in Nat, k \in G
        PROVE  k + 1 \in G
    <3> SUFFICES ASSUME NEW l \in 1 .. n + 1, NEW u \in 0 .. n, u - l + n + 1 < k + 1
                 PROVE  Found(found, colors, name, l, u)
      OBVIOUS
    <3>1. \A m \in 1 .. n + 1, v \in 0 .. n : v - m < u - l => Found(found, colors, name, m, v)
      BY <1>1, <2>2
    <3> QED
      BY <1>6, <3>1, SearchStep
  <2>3. 2 * n + 1 \in G
    <3> HIDE DEF G
    <3> QED
      BY <1>1, <2>1, <2>2, UpFrom0
  <2> QED
    BY <1>1, <2>3
<1> QED
  BY <1>7, <1>8 DEF Found

(* Pixels are the colors they were made of, and names are found.           *)
LEMMA ColorsAre == ColorsAreKept
<1>1. \A p \in 0 .. 255 : ToPixel(FromPixel(p)) = p
  BY DEF ToPixel, FromPixel
<1>2. ASSUME NEW v \in 0 .. 255
      PROVE  ToPixel(Parsed(v)) \in {v - 1, v} \cap Nat
  <2>1. Parsed(v) = 256 * v
    BY DEF Parsed
  <2>2. ToPixel(256 * v) = IF v = 0 THEN 0 ELSE v - 1
    BY DEF ToPixel
  <2> QED
    BY <2>1, <2>2
<1>3. ASSUME NEW n \in 0 .. 8, NEW name \in 0 .. 17
      PROVE  LET colors == [i \in 1 .. n |-> 2 * i]
                 i == FindColor(colors, name)
             IN IF \E j \in 1 .. n : colors[j] = name THEN i \in 1 .. n /\ colors[i] = name ELSE i = 0
  <2> DEFINE colors == [i \in 1 .. n |-> 2 * i]
  <2>1. colors \in Seq(Nat) /\ Len(colors) = n
    OBVIOUS
  <2>2. Sorted(colors) /\ name \in Nat
    BY <2>1 DEF Sorted
  <2> HIDE DEF colors
  <2>3. LET i == FindColor(colors, name)
        IN IF \E j \in 1 .. Len(colors) : colors[j] = name
           THEN i \in 1 .. Len(colors) /\ colors[i] = name ELSE i = 0
    BY <2>2, SearchIs
  <2> QED
    BY <2>1, <2>3 DEF colors
<1> QED
  BY <1>1, <1>2, <1>3 DEF ColorsAreKept

(* Images of any sizes and paddings, and of every depth that the library   *)
(* has, are read pixel by pixel as they were written; any bitmaps come     *)
(* back from their files and make the cursors they should, and colors are  *)
(* the pixels they were made of.                                           *)
THEOREM ImagesAlwaysKept == []ImagesAreKept
<1>1. ImagesAreKept
  BY PixelsAre, BitmapsAre, ColorsAre, FormatsAre, CursorsAre DEF ImagesAreKept
<1> QED
  BY <1>1, PTL

-----------------------------------------------------------------------------
USE DEF Pair, NullQuark

(* The types of the table and of the threads.                              *)
LEMMA QuarksTypeInit == QuarksInit => QuarksTypeOK
BY DEF QuarksInit, QuarksTypeOK

LEMMA QuarksTypeStep == QuarksTypeOK /\ [QuarksNext]_quarkVars => QuarksTypeOK'
<1> SUFFICES ASSUME QuarksTypeOK, [QuarksNext]_quarkVars
             PROVE  QuarksTypeOK'
  OBVIOUS
<1> USE DEF QuarksTypeOK
<1>1. ASSUME NEW t \in Threads, XrmStringToQuark(t)
      PROVE  QuarksTypeOK'
  BY <1>1 DEF XrmStringToQuark
<1>2. ASSUME NEW t \in Threads, XrmUniqueQuark(t)
      PROVE  QuarksTypeOK'
  BY <1>2 DEF XrmUniqueQuark
<1>3. ASSUME NEW t \in Threads, Find(t)
      PROVE  QuarksTypeOK'
  BY <1>3 DEF Find, Return
<1>4. ASSUME NEW t \in Threads, FindNone(t)
      PROVE  QuarksTypeOK'
  BY <1>4 DEF FindNone
<1>5. ASSUME NEW t \in Threads, Unique(t)
      PROVE  QuarksTypeOK'
  BY <1>5 DEF Unique
<1>6. ASSUME NEW t \in Threads, Insert(t)
      PROVE  QuarksTypeOK'
  <2>1. string[t] \in Strings /\ quark[t] \in Nat
    BY <1>6 DEF Insert
  <2> QED
    BY <1>6, <2>1 DEF Insert, Return
<1>7. CASE UNCHANGED quarkVars
  BY <1>7 DEF quarkVars
<1> QED
  BY <1>1, <1>2, <1>3, <1>4, <1>5, <1>6, <1>7 DEF QuarksNext, Step

(* The table keeps its types: a quark is a number, a string in the table   *)
(* is one that was asked for.                                              *)
THEOREM QuarksTypeCorrect == QuarksSpec => []QuarksTypeOK
BY QuarksTypeInit, QuarksTypeStep, PTL DEF QuarksSpec

-----------------------------------------------------------------------------
(* The numbers handed out are below the counter, and one that a thread has *)
(* taken and not yet inserted is its own.                                  *)
Recorded == \A p \in told : p \in strings
Forward == \A s \in Strings :
             quarkOf[s] # NullQuark => [string |-> s, quark |-> quarkOf[s]] \in strings
Below == \A p \in strings : p.quark < lastQuark
OneString == \A p, r \in strings : p.quark = r.quark => p = r
Taken(t) == pc[t] = "insert" =>
              /\ quark[t] < lastQuark
              /\ \A p \in strings : p.quark # quark[t]
              /\ \A u \in Threads \ {t} : pc[u] = "insert" => quark[u] # quark[t]

QuarkInv ==
  /\ QuarksTypeOK
  /\ Recorded
  /\ Forward
  /\ Below
  /\ OneString
  /\ \A t \in Threads : Taken(t)

LEMMA QuarkInit == QuarksInit => QuarkInv
BY QuarksTypeInit DEF QuarksInit, QuarkInv, Recorded, Forward, Below, OneString, Taken

(* A number that is taken is no other thread's, and none in the table.      *)
LEMMA QuarkStep == QuarkInv /\ [QuarksNext]_quarkVars => QuarkInv'
<1> SUFFICES ASSUME QuarkInv, [QuarksNext]_quarkVars
             PROVE  QuarkInv'
  OBVIOUS
<1>0. QuarksTypeOK'
  BY QuarksTypeStep DEF QuarkInv
<1> USE <1>0 DEF QuarkInv, QuarksTypeOK, Recorded, Forward, Below, OneString, Taken
<1>1. ASSUME NEW t \in Threads, XrmStringToQuark(t)
      PROVE  QuarkInv'
  BY <1>1 DEF XrmStringToQuark
<1>2. ASSUME NEW t \in Threads, XrmUniqueQuark(t)
      PROVE  QuarkInv'
  BY <1>2 DEF XrmUniqueQuark
<1>3. ASSUME NEW t \in Threads, Find(t)
      PROVE  QuarkInv'
  BY <1>3 DEF Find, Return
<1>4. ASSUME NEW t \in Threads, FindNone(t)
      PROVE  QuarkInv'
  BY <1>4 DEF FindNone
<1>5. ASSUME NEW t \in Threads, Unique(t)
      PROVE  QuarkInv'
  BY <1>5 DEF Unique
<1>6. ASSUME NEW t \in Threads, Insert(t)
      PROVE  QuarkInv'
  <2> DEFINE new == [string |-> string[t], quark |-> quark[t]]
  <2>1. /\ string[t] \in Strings /\ quark[t] \in Nat
        /\ quark[t] < lastQuark
        /\ \A p \in strings : p.quark # quark[t]
        /\ strings' = strings \cup {new}
        /\ told' = told \cup {new}
        /\ lastQuark' = lastQuark /\ quark' = quark
        /\ pc' = [pc EXCEPT ![t] = "idle"]
    BY <1>6 DEF Insert, Return
  <2>2. Recorded'
    BY <2>1
  <2>3. Forward'
    BY <1>6, <2>1 DEF Insert
  <2>4. Below' /\ OneString'
    BY <2>1
  <2>5. ASSUME NEW u \in Threads
        PROVE  Taken(u)'
    <3> SUFFICES ASSUME pc'[u] = "insert"
                 PROVE  /\ quark[u] < lastQuark
                        /\ \A p \in strings' : p.quark # quark[u]
                        /\ \A v \in Threads \ {u} : pc'[v] = "insert" => quark[v] # quark[u]
      BY <2>1
    <3>1. u # t /\ pc[u] = "insert" /\ pc[t] = "insert"
      BY <1>6, <2>1 DEF Insert
    <3>2. quark[u] < lastQuark /\ quark[u] # quark[t] /\ \A p \in strings : p.quark # quark[u]
      BY <3>1
    <3>3. \A v \in Threads \ {u} : pc'[v] = "insert" => quark[v] # quark[u]
      BY <2>1, <3>1
    <3> QED
      BY <2>1, <3>2, <3>3
  <2> QED
    BY <2>2, <2>3, <2>4, <2>5
<1>7. CASE UNCHANGED quarkVars
  BY <1>7 DEF quarkVars
<1> QED
  BY <1>1, <1>2, <1>3, <1>4, <1>5, <1>6, <1>7 DEF QuarksNext, Step

LEMMA QuarkInvImplies == QuarkInv => QuarkHasOneString
<1> SUFFICES ASSUME QuarkInv
             PROVE  QuarkHasOneString
  OBVIOUS
<1> USE DEF QuarkInv, QuarksTypeOK, Recorded, OneString
<1>1. ASSUME NEW a \in told
      PROVE  XrmQuarkToString(a.quark) = a.string
  <2> DEFINE c == CHOOSE p \in strings : p.quark = a.quark
  <2>1. a \in strings
    OBVIOUS
  <2>2. c \in strings /\ c.quark = a.quark
    BY <2>1
  <2>3. c = a
    BY <2>1, <2>2
  <2> QED
    BY <2>1, <2>3 DEF XrmQuarkToString
<1> QED
  BY <1>1 DEF QuarkHasOneString

(* However many threads make quarks at the same time, no two strings are   *)
(* given the same quark, and XrmQuarkToString gives back the string.       *)
THEOREM QuarksAreDistinct == QuarksSpec => []QuarkHasOneString
BY QuarkInit, QuarkStep, QuarkInvImplies, PTL DEF QuarksSpec

-----------------------------------------------------------------------------
(* A single-threaded application.                                          *)
OneThread == \A t, u \in Threads : t = u

(* With one thread nothing is inserted between its look-up and its own     *)
(* insertion: what was told is what the table says.                        *)
StringInv ==
  /\ QuarksTypeOK
  /\ lastQuark > 0
  /\ \A t \in Threads : pc[t] \in {"unique", "insert"} => quarkOf[string[t]] = NullQuark
  /\ \A t \in Threads : pc[t] = "insert" => quark[t] > 0
  /\ \A p \in strings : quarkOf[p.string] = p.quark /\ p.quark > 0
  /\ \A p \in told : quarkOf[p.string] = p.quark /\ p.quark > 0

(* Its steps keep it.                                                      *)
LEMMA StringStep == ASSUME OneThread, StringInv, [QuarksNext]_quarkVars
                    PROVE  StringInv'
<1>0. QuarksTypeOK'
  BY QuarksTypeStep DEF StringInv
<1> USE <1>0 DEF StringInv, QuarksTypeOK
<1>1. ASSUME NEW t \in Threads, XrmStringToQuark(t)
      PROVE  StringInv'
  BY <1>1 DEF XrmStringToQuark
<1>2. ASSUME NEW t \in Threads, XrmUniqueQuark(t)
      PROVE  StringInv'
  BY <1>2 DEF XrmUniqueQuark
<1>3. ASSUME NEW t \in Threads, Find(t)
      PROVE  StringInv'
  <2>1. string[t] \in Strings
    BY <1>3 DEF Find
  <2> QED
    BY <1>3, <2>1 DEF Find, Return
<1>4. ASSUME NEW t \in Threads, FindNone(t)
      PROVE  StringInv'
  BY <1>4 DEF FindNone
<1>5. ASSUME NEW t \in Threads, Unique(t)
      PROVE  StringInv'
  BY <1>5 DEF Unique
<1>6. ASSUME NEW t \in Threads, Insert(t)
      PROVE  StringInv'
  <2> DEFINE new == [string |-> string[t], quark |-> quark[t]]
  <2>1. string[t] \in Strings /\ quark[t] \in Nat /\ quark[t] > 0 /\ quarkOf[string[t]] = NullQuark
    BY <1>6 DEF Insert
  <2>2. /\ quarkOf' = [quarkOf EXCEPT ![string[t]] = quark[t]]
        /\ strings' \in {strings, strings \cup {new}}
        /\ told' = told \cup {new}
        /\ pc' = [pc EXCEPT ![t] = "idle"]
        /\ lastQuark' = lastQuark /\ quark' = quark /\ string' = string
    BY <1>6, <2>1 DEF Insert, Return
  <2>3. \A p \in strings \cup told : p \in Pair /\ p.string # string[t]
    BY <2>1
  <2>4. \A p \in strings \cup told \cup {new} : quarkOf'[p.string] = p.quark /\ p.quark > 0
    BY <2>1, <2>2, <2>3
  <2>5. \A u \in Threads : pc'[u] = "idle"
    BY <2>2 DEF OneThread
  <2> QED
    BY <2>2, <2>4, <2>5
<1>7. CASE UNCHANGED quarkVars
  BY <1>7 DEF quarkVars
<1> QED
  BY <1>1, <1>2, <1>3, <1>4, <1>5, <1>6, <1>7 DEF QuarksNext, Step

(* In a single-threaded application a string has one quark.                *)
THEOREM OneThreadOneQuark == ASSUME OneThread
                             PROVE  QuarksSpec => []StringHasOneQuark
<1>1. QuarksInit => StringInv
  BY QuarksTypeInit DEF QuarksInit, StringInv
<1>2. StringInv /\ [QuarksNext]_quarkVars => StringInv'
  BY OneThread, StringStep
<1>3. StringInv => StringHasOneQuark
  BY DEF StringInv, StringHasOneQuark
<1> QED
  BY <1>1, <1>2, <1>3, PTL DEF QuarksSpec
==============================================================================
