---------------------------- MODULE SequenceLemmas ----------------------------
(***************************************************************************)
(* What the operators on sequences that the specifications are built from  *)
(* return: the queue of events, the messages of the loopers, the lists of  *)
(* child windows, and what is said of a tree of them from the bottom up.   *)
(***************************************************************************)
EXTENDS Integers, Sequences, SequencesExt, SequenceTheorems, WellFoundedInduction, TLAPS

(* RemoveAt(s, i) is s without its i-th element: the elements before i     *)
(* keep their place and those behind it move up by one.                    *)
LEMMA RemoveAtIs ==
  ASSUME NEW S, NEW s \in Seq(S), NEW i \in DOMAIN s
  PROVE  /\ RemoveAt(s, i) \in Seq(S)
         /\ Len(RemoveAt(s, i)) = Len(s) - 1
         /\ DOMAIN RemoveAt(s, i) = 1..(Len(s) - 1)
         /\ \A k \in 1..(Len(s) - 1) : RemoveAt(s, i)[k] = s[IF k < i THEN k ELSE k + 1]
<1> DEFINE a == SubSeq(s, 1, i - 1)
           b == SubSeq(s, i + 1, Len(s))
<1>0. i \in 1..Len(s) /\ Len(s) \in Nat  OBVIOUS
<1>1. a \in Seq(S) /\ Len(a) = i - 1 /\ \A k \in 1..(i - 1) : a[k] = s[k]
  BY <1>0
<1>2. b \in Seq(S) /\ Len(b) = Len(s) - i /\ \A k \in 1..(Len(s) - i) : b[k] = s[i + k]
  BY <1>0
<1> HIDE DEF a, b
<1>3. /\ a \o b \in Seq(S)
      /\ Len(a \o b) = Len(s) - 1
      /\ \A k \in 1..(Len(s) - 1) : (a \o b)[k] = IF k < i THEN a[k] ELSE b[k - (i - 1)]
  <2>1. /\ a \o b \in Seq(S)
        /\ Len(a \o b) = Len(a) + Len(b)
        /\ \A k \in 1..(Len(a) + Len(b)) :
             (a \o b)[k] = IF k <= Len(a) THEN a[k] ELSE b[k - Len(a)]
    BY <1>1, <1>2, ConcatProperties
  <2>2. Len(a) + Len(b) = Len(s) - 1  BY <1>0, <1>1, <1>2
  <2>3. \A k \in 1..(Len(s) - 1) : k <= Len(a) <=> k < i  BY <1>0, <1>1
  <2> QED  BY <1>1, <2>1, <2>2, <2>3
<1>4. \A k \in 1..(Len(s) - 1) : (a \o b)[k] = s[IF k < i THEN k ELSE k + 1]
  <2> SUFFICES ASSUME NEW k \in 1..(Len(s) - 1) PROVE (a \o b)[k] = s[IF k < i THEN k ELSE k + 1]
    OBVIOUS
  <2>1. CASE k < i  BY <2>1, <1>0, <1>1, <1>3
  <2>2. CASE ~(k < i)
    <3>1. k - (i - 1) \in 1..(Len(s) - i) /\ i + (k - (i - 1)) = k + 1  BY <2>2, <1>0
    <3> QED  BY <2>2, <3>1, <1>2, <1>3
  <2> QED  BY <2>1, <2>2
<1>5. RemoveAt(s, i) = a \o b  BY DEF RemoveAt, a, b
<1>6. DOMAIN (a \o b) = 1..Len(a \o b)  BY <1>3
<1> QED  BY <1>3, <1>4, <1>5, <1>6

(* Putting e in front moves every element down by one.                     *)
LEMMA PrependIs ==
  ASSUME NEW S, NEW s \in Seq(S), NEW e \in S
  PROVE  /\ <<e>> \o s \in Seq(S)
         /\ Len(<<e>> \o s) = Len(s) + 1
         /\ DOMAIN (<<e>> \o s) = 1..(Len(s) + 1)
         /\ \A k \in 1..(Len(s) + 1) : (<<e>> \o s)[k] = IF k = 1 THEN e ELSE s[k - 1]
OBVIOUS

(* InsertAt(s, i, e) has e at i; the elements before i keep their place    *)
(* and the others move down by one.                                        *)
LEMMA InsertAtIs ==
  ASSUME NEW S, NEW s \in Seq(S), NEW e \in S, NEW i \in 1..(Len(s) + 1)
  PROVE  /\ InsertAt(s, i, e) \in Seq(S)
         /\ Len(InsertAt(s, i, e)) = Len(s) + 1
         /\ DOMAIN InsertAt(s, i, e) = 1..(Len(s) + 1)
         /\ \A k \in 1..(Len(s) + 1) :
              InsertAt(s, i, e)[k] = IF k < i THEN s[k] ELSE IF k = i THEN e ELSE s[k - 1]
<1> DEFINE a == SubSeq(s, 1, i - 1)
           b == SubSeq(s, i, Len(s))
           m == a \o <<e>>
<1>0. Len(s) \in Nat /\ i \in Nat  OBVIOUS
<1>1. a \in Seq(S) /\ Len(a) = i - 1 /\ \A k \in 1..(i - 1) : a[k] = s[k]
  BY <1>0
<1>2. b \in Seq(S) /\ Len(b) = Len(s) - i + 1 /\ \A k \in 1..(Len(s) - i + 1) : b[k] = s[i - 1 + k]
  BY <1>0
<1> HIDE DEF a, b
<1>3. m \in Seq(S) /\ Len(m) = i /\ \A k \in 1..i : m[k] = IF k < i THEN s[k] ELSE e
  <2>1. m \in Seq(S) /\ Len(m) = i  BY <1>0, <1>1
  <2>2. m = Append(a, e)  BY <1>1, AppendIsConcat DEF m
  <2>3. \A k \in 1..(i - 1) : m[k] = s[k]  BY <1>1, <2>2, AppendProperties
  <2>4. m[i] = e
    <3>1. Append(a, e)[Len(a) + 1] = e  BY <1>1, AppendProperties
    <3> QED  BY <3>1, <2>2, <1>0, <1>1
  <2> QED  BY <2>1, <2>3, <2>4, <1>0
<1> HIDE DEF m
<1>4. /\ m \o b \in Seq(S)
      /\ Len(m \o b) = Len(s) + 1
      /\ \A k \in 1..(Len(s) + 1) : (m \o b)[k] = IF k <= i THEN m[k] ELSE b[k - i]
  <2>1. /\ m \o b \in Seq(S)
        /\ Len(m \o b) = Len(m) + Len(b)
        /\ \A k \in 1..(Len(m) + Len(b)) :
             (m \o b)[k] = IF k <= Len(m) THEN m[k] ELSE b[k - Len(m)]
    BY <1>2, <1>3, ConcatProperties
  <2>2. Len(m) + Len(b) = Len(s) + 1  BY <1>0, <1>2, <1>3
  <2> QED  BY <1>3, <2>1, <2>2
<1>5. ASSUME NEW k \in 1..(Len(s) + 1)
      PROVE  (m \o b)[k] = IF k < i THEN s[k] ELSE IF k = i THEN e ELSE s[k - 1]
  <2>1. CASE k <= i
    <3>1. k \in 1..i /\ (m \o b)[k] = m[k]  BY <2>1, <1>0, <1>4
    <3> QED  BY <3>1, <1>0, <1>3
  <2>2. CASE k > i
    <3>1. k - i \in 1..(Len(s) - i + 1) /\ i - 1 + (k - i) = k - 1  BY <2>2, <1>0
    <3>2. (m \o b)[k] = b[k - i]  BY <2>2, <1>0, <1>4
    <3>3. b[k - i] = s[k - 1]  BY <3>1, <1>2
    <3> QED  BY <2>2, <3>2, <3>3, <1>0
  <2>3. k <= i \/ k > i  BY <1>0
  <2> QED  BY <2>1, <2>2, <2>3
<1>6. InsertAt(s, i, e) = m \o b  BY DEF InsertAt, a, b, m
<1>7. DOMAIN (m \o b) = 1..Len(m \o b)  BY <1>4
<1> QED  BY <1>4, <1>5, <1>6, <1>7

-----------------------------------------------------------------------------
(* Lists without repetitions.                                              *)
LEMMA ContainsIs ==
  ASSUME NEW S, NEW s \in Seq(S), NEW e
  PROVE  Contains(s, e) <=> \E i \in DOMAIN s : s[i] = e
BY DEF Contains

(* A list whose elements are all in T is a sequence over T.                *)
LEMMA SeqOver ==
  ASSUME NEW S, NEW T, NEW s \in Seq(S), \A x \in S : Contains(s, x) => x \in T
  PROVE  s \in Seq(T)
<1>1. \A i \in 1..Len(s) : s[i] \in S /\ Contains(s, s[i])  BY DEF Contains
<1> QED  BY <1>1

(* Removing, inserting, appending and prepending an element changes what   *)
(* the list contains by that element, and repeats nothing.                 *)
LEMMA RemoveAtContains ==
  ASSUME NEW S, NEW s \in Seq(S), IsInjective(s), NEW i \in DOMAIN s
  PROVE  /\ IsInjective(RemoveAt(s, i))
         /\ \A x \in S : Contains(RemoveAt(s, i), x) <=> Contains(s, x) /\ x # s[i]
<1> DEFINE r == RemoveAt(s, i)
<1>0. i \in 1..Len(s) /\ Len(s) \in Nat /\ DOMAIN s = 1..Len(s)  OBVIOUS
<1>1. /\ r \in Seq(S)
      /\ DOMAIN r = 1..(Len(s) - 1)
      /\ Len(r) = Len(s) - 1
      /\ \A k \in 1..(Len(s) - 1) : r[k] = s[IF k < i THEN k ELSE k + 1]
  BY RemoveAtIs
<1> HIDE DEF r
<1>2. IsInjective(r)
  <2> SUFFICES ASSUME NEW j \in 1..(Len(s) - 1), NEW k \in 1..(Len(s) - 1), r[j] = r[k]
               PROVE  j = k
    BY <1>1 DEF IsInjective
  <2>1. \A a, b \in 1..Len(s) : s[a] = s[b] => a = b  BY <1>0 DEF IsInjective
  <2>2. \/ j < i /\ j \in 1..Len(s) /\ r[j] = s[j]
        \/ ~(j < i) /\ j + 1 \in 1..Len(s) /\ r[j] = s[j + 1]
    BY <1>0, <1>1
  <2>3. \/ k < i /\ k \in 1..Len(s) /\ r[k] = s[k]
        \/ ~(k < i) /\ k + 1 \in 1..Len(s) /\ r[k] = s[k + 1]
    BY <1>0, <1>1
  <2> QED  BY <2>1, <2>2, <2>3, <1>0
<1>3. ASSUME NEW x \in S, Contains(r, x) PROVE Contains(s, x) /\ x # s[i]
  <2>1. PICK k \in 1..(Len(s) - 1) : r[k] = x  BY <1>1, <1>3 DEF Contains
  <2>2. CASE k < i  BY <2>1, <2>2, <1>0, <1>1 DEF Contains, IsInjective
  <2>3. CASE ~(k < i)
    <3>1. k + 1 \in 1..Len(s) /\ k + 1 # i /\ s[k + 1] = x  BY <2>1, <2>3, <1>0, <1>1
    <3> QED  BY <3>1, <1>0 DEF Contains, IsInjective
  <2> QED  BY <2>2, <2>3
<1>4. ASSUME NEW x \in S, Contains(s, x), x # s[i] PROVE Contains(r, x)
  <2>1. PICK k \in 1..Len(s) : s[k] = x  BY <1>4 DEF Contains
  <2>2. CASE k < i
    <3>1. k \in 1..(Len(s) - 1) /\ r[k] = x  BY <2>1, <2>2, <1>0, <1>1
    <3> QED  BY <3>1, <1>1 DEF Contains
  <2>3. CASE k > i
    <3>1. k - 1 \in 1..(Len(s) - 1) /\ ~(k - 1 < i) /\ (k - 1) + 1 = k  BY <2>3, <1>0
    <3>2. r[k - 1] = x  BY <3>1, <2>1, <1>1
    <3> QED  BY <3>1, <3>2, <1>1 DEF Contains
  <2> QED  BY <2>1, <2>2, <2>3, <1>0, <1>4
<1> QED  BY <1>2, <1>3, <1>4 DEF r

LEMMA InsertAtContains ==
  ASSUME NEW S, NEW s \in Seq(S), IsInjective(s), NEW e \in S, ~Contains(s, e),
         NEW i \in 1..(Len(s) + 1)
  PROVE  /\ IsInjective(InsertAt(s, i, e))
         /\ \A x \in S : Contains(InsertAt(s, i, e), x) <=> Contains(s, x) \/ x = e
<1> DEFINE r == InsertAt(s, i, e)
<1>0. Len(s) \in Nat /\ i \in Nat /\ DOMAIN s = 1..Len(s)  OBVIOUS
<1>1. /\ r \in Seq(S)
      /\ Len(r) = Len(s) + 1
      /\ DOMAIN r = 1..(Len(s) + 1)
      /\ \A k \in 1..(Len(s) + 1) :
           r[k] = IF k < i THEN s[k] ELSE IF k = i THEN e ELSE s[k - 1]
  BY InsertAtIs
<1> HIDE DEF r
<1>2. ASSUME NEW k \in 1..(Len(s) + 1)
      PROVE  \/ k = i /\ r[k] = e
             \/ k < i /\ k \in 1..Len(s) /\ r[k] = s[k]
             \/ k > i /\ k - 1 \in 1..Len(s) /\ r[k] = s[k - 1]
  BY <1>0, <1>1
<1>3. \A k \in 1..Len(s) : s[k] # e  BY DEF Contains
<1>4. IsInjective(r)
  <2> SUFFICES ASSUME NEW j \in 1..(Len(s) + 1), NEW k \in 1..(Len(s) + 1), r[j] = r[k]
               PROVE  j = k
    BY <1>1 DEF IsInjective
  <2>1. CASE j = i  BY <2>1, <1>0, <1>2, <1>3
  <2>2. CASE k = i  BY <2>2, <1>0, <1>2, <1>3
  <2>3. CASE j # i /\ k # i
    <3>1. \A a, b \in 1..Len(s) : s[a] = s[b] => a = b  BY <1>0 DEF IsInjective
    <3>2. \/ j < i /\ j \in 1..Len(s) /\ r[j] = s[j]
          \/ j > i /\ j - 1 \in 1..Len(s) /\ r[j] = s[j - 1]
      BY <2>3, <1>2
    <3>3. \/ k < i /\ k \in 1..Len(s) /\ r[k] = s[k]
          \/ k > i /\ k - 1 \in 1..Len(s) /\ r[k] = s[k - 1]
      BY <2>3, <1>2
    <3> QED  BY <3>1, <3>2, <3>3, <1>0
  <2> QED  BY <2>1, <2>2, <2>3
<1>5. ASSUME NEW x \in S, Contains(r, x) PROVE Contains(s, x) \/ x = e
  <2>1. PICK k \in 1..(Len(s) + 1) : r[k] = x  BY <1>1, <1>5 DEF Contains
  <2> QED  BY <2>1, <1>2 DEF Contains
<1>6. ASSUME NEW x \in S, Contains(s, x) PROVE Contains(r, x)
  <2>1. PICK k \in 1..Len(s) : s[k] = x  BY <1>6 DEF Contains
  <2>2. CASE k < i
    <3>1. k \in 1..(Len(s) + 1) /\ r[k] = x  BY <2>1, <2>2, <1>0, <1>1
    <3> QED  BY <3>1, <1>1 DEF Contains
  <2>3. CASE ~(k < i)
    <3>1. /\ k + 1 \in 1..(Len(s) + 1) /\ ~(k + 1 < i) /\ k + 1 # i
          /\ (k + 1) - 1 = k
      BY <2>3, <1>0
    <3>2. r[k + 1] = x  BY <3>1, <2>1, <1>1
    <3> QED  BY <3>1, <3>2, <1>1 DEF Contains
  <2> QED  BY <2>2, <2>3
<1>7. Contains(r, e)
  <2>1. i \in 1..(Len(s) + 1) /\ r[i] = e  BY <1>0, <1>1
  <2> QED  BY <2>1, <1>1 DEF Contains
<1> QED  BY <1>4, <1>5, <1>6, <1>7 DEF r

LEMMA AppendContains ==
  ASSUME NEW S, NEW s \in Seq(S), IsInjective(s), NEW e \in S, ~Contains(s, e)
  PROVE  /\ Append(s, e) \in Seq(S)
         /\ IsInjective(Append(s, e))
         /\ \A x \in S : Contains(Append(s, e), x) <=> Contains(s, x) \/ x = e
<1>0. Len(s) \in Nat /\ DOMAIN s = 1..Len(s)  OBVIOUS
<1>1. /\ Append(s, e) \in Seq(S)
      /\ Len(Append(s, e)) = Len(s) + 1
      /\ DOMAIN Append(s, e) = 1..(Len(s) + 1)
      /\ \A k \in 1..Len(s) : Append(s, e)[k] = s[k]
      /\ Append(s, e)[Len(s) + 1] = e
  OBVIOUS
<1>2. \A k \in 1..(Len(s) + 1) : k \in 1..Len(s) \/ k = Len(s) + 1  BY <1>0
<1>3. \A k \in 1..Len(s) : s[k] # e /\ k # Len(s) + 1  BY <1>0 DEF Contains
<1>4. IsInjective(Append(s, e))  BY <1>0, <1>1, <1>2, <1>3 DEF IsInjective
<1>5. ASSUME NEW x \in S
      PROVE  Contains(Append(s, e), x) <=> Contains(s, x) \/ x = e
  <2>1. Contains(Append(s, e), x) => Contains(s, x) \/ x = e
    BY <1>0, <1>1, <1>2 DEF Contains
  <2>2. Contains(s, x) => Contains(Append(s, e), x)
    BY <1>0, <1>1, <1>2 DEF Contains
  <2>3. Contains(Append(s, e), e)
    <3>1. Len(s) + 1 \in 1..Len(Append(s, e))  BY <1>0, <1>1
    <3> QED  BY <3>1, <1>1 DEF Contains
  <2> QED  BY <2>1, <2>2, <2>3
<1> QED  BY <1>1, <1>4, <1>5

LEMMA PrependContains ==
  ASSUME NEW S, NEW s \in Seq(S), IsInjective(s), NEW e \in S, ~Contains(s, e)
  PROVE  /\ <<e>> \o s \in Seq(S)
         /\ IsInjective(<<e>> \o s)
         /\ \A x \in S : Contains(<<e>> \o s, x) <=> Contains(s, x) \/ x = e
<1>0. Len(s) \in Nat /\ DOMAIN s = 1..Len(s)  OBVIOUS
<1> DEFINE r == <<e>> \o s
<1>1. /\ r \in Seq(S)
      /\ Len(r) = Len(s) + 1
      /\ DOMAIN r = 1..(Len(s) + 1)
      /\ \A k \in 1..(Len(s) + 1) : r[k] = IF k = 1 THEN e ELSE s[k - 1]
  BY PrependIs
<1> HIDE DEF r
<1>2. \A k \in 1..(Len(s) + 1) : k = 1 \/ k - 1 \in 1..Len(s)  BY <1>0
<1>3. \A k \in 1..Len(s) : s[k] # e  BY DEF Contains
<1>4. IsInjective(r)
  <2> SUFFICES ASSUME NEW j \in 1..(Len(s) + 1), NEW k \in 1..(Len(s) + 1), r[j] = r[k]
               PROVE  j = k
    BY <1>1 DEF IsInjective
  <2>1. CASE j = 1 \/ k = 1  BY <2>1, <1>0, <1>1, <1>2, <1>3
  <2>2. CASE j # 1 /\ k # 1
    <3>1. r[j] = s[j - 1] /\ r[k] = s[k - 1]  BY <2>2, <1>1
    <3>2. j - 1 = k - 1  BY <3>1, <2>2, <1>0, <1>2 DEF IsInjective
    <3> QED  BY <3>2, <1>0
  <2> QED  BY <2>1, <2>2
<1>5. ASSUME NEW x \in S, Contains(r, x) PROVE Contains(s, x) \/ x = e
  <2>1. PICK k \in 1..(Len(s) + 1) : r[k] = x  BY <1>1, <1>5 DEF Contains
  <2> QED  BY <2>1, <1>1, <1>2 DEF Contains
<1>6. ASSUME NEW x \in S, Contains(s, x) PROVE Contains(r, x)
  <2>1. PICK k \in 1..Len(s) : s[k] = x  BY <1>6 DEF Contains
  <2>2. k + 1 \in 1..(Len(s) + 1) /\ k + 1 # 1 /\ (k + 1) - 1 = k  BY <1>0
  <2>3. r[k + 1] = x  BY <2>1, <2>2, <1>1
  <2> QED  BY <2>2, <2>3, <1>1 DEF Contains
<1>7. Contains(r, e)
  <2>1. 1 \in 1..(Len(s) + 1) /\ r[1] = e  BY <1>0, <1>1
  <2> QED  BY <2>1, <1>1 DEF Contains
<1> QED  BY <1>1, <1>4, <1>5, <1>6, <1>7 DEF r

-----------------------------------------------------------------------------
(* Elements stay what they are, whichever go behind or before them.        *)
LEMMA AppendKeeps ==
  ASSUME NEW S, NEW s \in Seq(S), NEW e \in S
  PROVE  /\ Append(s, e) \in Seq(S)
         /\ DOMAIN Append(s, e) = DOMAIN s \cup {Len(s) + 1}
         /\ \A i \in DOMAIN s : Append(s, e)[i] = s[i]
         /\ Append(s, e)[Len(s) + 1] = e
OBVIOUS

LEMMA TailKeeps ==
  ASSUME NEW S, NEW s \in Seq(S), s # <<>>
  PROVE  /\ Tail(s) \in Seq(S)
         /\ Head(s) = s[1] /\ s[1] \in S
         /\ \A i \in DOMAIN Tail(s) : i + 1 \in DOMAIN s /\ Tail(s)[i] = s[i + 1]
         /\ \A i \in DOMAIN s : i # 1 => i - 1 \in DOMAIN Tail(s) /\ Tail(s)[i - 1] = s[i]
OBVIOUS

(* Of a queue's elements of one kind, those in A: m is the last, or there  *)
(* is none.                                                                *)
LastOf(s, A, m) ==
  m \in A /\ \E i \in DOMAIN s : s[i] = m /\ \A j \in DOMAIN s : j > i => s[j] \notin A
NoneOf(s, A) == \A i \in DOMAIN s : s[i] \notin A

LEMMA AppendNone ==
  ASSUME NEW S, NEW s \in Seq(S), NEW e \in S, NEW A, e \notin A, NoneOf(s, A)
  PROVE  NoneOf(Append(s, e), A)
BY AppendKeeps DEF NoneOf

LEMMA AppendOther ==
  ASSUME NEW S, NEW s \in Seq(S), NEW e \in S, NEW A, e \notin A, NEW m, LastOf(s, A, m)
  PROVE  LastOf(Append(s, e), A, m)
BY AppendKeeps DEF LastOf

LEMMA AppendLast ==
  ASSUME NEW S, NEW s \in Seq(S), NEW A, NEW e \in S \cap A
  PROVE  LastOf(Append(s, e), A, e)
<1>1. /\ DOMAIN Append(s, e) = DOMAIN s \cup {Len(s) + 1}
      /\ Append(s, e)[Len(s) + 1] = e
  BY AppendKeeps
<1>2. \A j \in DOMAIN Append(s, e) : ~(j > Len(s) + 1)
  BY <1>1
<1> QED
  BY <1>1, <1>2 DEF LastOf

LEMMA TailNone ==
  ASSUME NEW S, NEW s \in Seq(S), s # <<>>, NEW A, NoneOf(s, A)
  PROVE  NoneOf(Tail(s), A) /\ Head(s) \notin A
BY TailKeeps DEF NoneOf

LEMMA TailLast ==
  ASSUME NEW S, NEW s \in Seq(S), s # <<>>, NEW A, NEW m, LastOf(s, A, m)
  PROVE  LastOf(Tail(s), A, m) \/ (NoneOf(Tail(s), A) /\ Head(s) = m)
<1>1. Len(s) \in Nat /\ DOMAIN s = 1 .. Len(s)
  OBVIOUS
<1>2. /\ Head(s) = s[1]
      /\ \A i \in DOMAIN Tail(s) : i + 1 \in DOMAIN s /\ Tail(s)[i] = s[i + 1]
      /\ \A i \in DOMAIN s : i # 1 => i - 1 \in DOMAIN Tail(s) /\ Tail(s)[i - 1] = s[i]
  BY TailKeeps
<1>3. DOMAIN Tail(s) \subseteq Int
  OBVIOUS
<1>4. LastOf(Tail(s), A, m) \/ (NoneOf(Tail(s), A) /\ Head(s) = m)
  <2>1. PICK i \in DOMAIN s : m \in A /\ s[i] = m /\ \A j \in DOMAIN s : j > i => s[j] \notin A
    BY DEF LastOf
  <2>2. CASE i = 1
    <3>1. \A j \in DOMAIN Tail(s) : j + 1 > i
      BY <1>1, <1>2, <2>2
    <3> QED
      BY <1>2, <2>1, <2>2, <3>1 DEF NoneOf
  <2>3. CASE i # 1
    <3>1. i - 1 \in DOMAIN Tail(s) /\ Tail(s)[i - 1] = m
      BY <1>2, <2>1, <2>3
    <3>2. \A j \in DOMAIN Tail(s) : j > i - 1 => Tail(s)[j] \notin A
      BY <1>1, <1>2, <1>3, <2>1
    <3> QED
      BY <2>1, <3>1, <3>2 DEF LastOf
  <2> QED
    BY <2>2, <2>3
<1> QED
  BY <1>4

LEMMA EmptyHasNone == ASSUME NEW A PROVE NoneOf(<<>>, A) /\ \A m : ~LastOf(<<>>, A, m)
BY DEF NoneOf, LastOf

-----------------------------------------------------------------------------
(* What holds of 0, and with each number of the next, holds of all.        *)
LEMMA UpFrom0 ==
  ASSUME NEW G, 0 \in G, \A n \in Nat : n \in G => n + 1 \in G
  PROVE  Nat \subseteq G
<1> SUFFICES ASSUME NEW m \in Nat, m \notin G
             PROVE  FALSE
  OBVIOUS
<1> DEFINE out == Nat \ G
<1>1. PICK n \in out : \A k \in out : ~(<<k, n>> \in OpToRel(<, Nat))
  <2>1. out \subseteq Nat /\ out # {}
    OBVIOUS
  <2> HIDE DEF out
  <2> QED
    BY <2>1, WFMin, NatLessThanWellFounded
<1>2. n # 0 /\ n - 1 \in Nat /\ n - 1 \notin G
  OBVIOUS
<1>3. <<n - 1, n>> \in OpToRel(<, Nat)
  BY <1>2 DEF OpToRel
<1> QED
  BY <1>1, <1>2, <1>3

(* Finitely many numbers have a bound.                                     *)
LEMMA Bounded ==
  ASSUME NEW n \in Nat, NEW f \in [1 .. n -> Nat]
  PROVE  \E top \in Nat : \A x \in 1 .. n : f[x] <= top
<1> DEFINE G == {m \in Nat : m > n \/ \E top \in Nat : \A x \in 1 .. m : f[x] <= top}
<1>1. 0 \in G
  OBVIOUS
<1>2. ASSUME NEW m \in Nat, m \in G
      PROVE  m + 1 \in G
  <2>1. CASE m + 1 > n
    BY <2>1
  <2>2. CASE ~(m + 1 > n)
    <3>1. PICK top \in Nat : \A x \in 1 .. m : f[x] <= top
      BY <1>2, <2>2
    <3> DEFINE new == IF f[m + 1] > top THEN f[m + 1] ELSE top
    <3>2. f[m + 1] \in Nat /\ \A x \in 1 .. m : f[x] \in Nat
      BY <2>2
    <3>3. new \in Nat /\ new >= top /\ new >= f[m + 1]
      BY <3>2
    <3> HIDE DEF new
    <3>4. \A x \in 1 .. m + 1 : f[x] <= new
      <4> SUFFICES ASSUME NEW x \in 1 .. m + 1
                   PROVE  f[x] <= new
        OBVIOUS
      <4>1. CASE x = m + 1
        BY <3>3, <4>1
      <4>2. CASE x # m + 1
        <5>1. x \in 1 .. m
          BY <4>2
        <5> QED
          BY <3>1, <3>2, <3>3, <5>1
      <4> QED
        BY <4>1, <4>2
    <3> QED
      BY <3>3, <3>4
  <2> QED
    BY <2>1, <2>2
<1>3. n \in G
  <2> HIDE DEF G
  <2> QED
    BY <1>1, <1>2, UpFrom0
<1> QED
  BY <1>3

(* A function from 0 on that is defined by a step from an earlier number.  *)
IsClimb(f, V, v, n, back, step) ==
  /\ f \in [0 .. n -> V]
  /\ \A i \in 0 .. n : f[i] = IF i = 0 THEN v ELSE step[i][f[back[i]]]

(* What such a recursion defines exists.                                   *)
LEMMA ClimbExists ==
  ASSUME NEW V, NEW v \in V, NEW n \in Nat, NEW step \in [1 .. n -> [V -> V]],
         NEW back \in [1 .. n -> Nat], \A i \in 1 .. n : back[i] < i
  PROVE  \E f : IsClimb(f, V, v, n, back, step)
<1> DEFINE Is(f, m) == IsClimb(f, V, v, m, back, step)
           G == {m \in Nat : m > n \/ \E f : Is(f, m)}
<1>1. 0 \in G
  <2>1. Is([i \in 0 .. 0 |-> v], 0)
    BY DEF IsClimb
  <2> HIDE DEF Is
  <2> QED
    BY <2>1
<1>2. ASSUME NEW m \in Nat, m \in G
      PROVE  m + 1 \in G
  <2>1. CASE m + 1 > n
    BY <2>1
  <2>2. CASE ~(m + 1 > n)
    <3>1. PICK f : Is(f, m)
      <4> HIDE DEF Is
      <4> QED
        BY <1>2, <2>2
    <3> DEFINE new == step[m + 1][f[back[m + 1]]]
               g == [i \in 0 .. m + 1 |-> IF i = m + 1 THEN new ELSE f[i]]
    <3>2. new \in V
      <4>1. m + 1 \in 1 .. n
        BY <2>2
      <4>2. back[m + 1] \in 0 .. m
        BY <4>1
      <4>3. f[back[m + 1]] \in V
        BY <3>1, <4>2 DEF IsClimb
      <4> QED
        BY <4>1, <4>3
    <3>3. g \in [0 .. m + 1 -> V]
      <4>1. \A i \in 0 .. m + 1 : i # m + 1 => f[i] \in V
        BY <3>1 DEF IsClimb
      <4> HIDE DEF new
      <4> QED
        BY <3>2, <4>1
    <3>4. ASSUME NEW i \in 0 .. m + 1
          PROVE  g[i] = IF i = 0 THEN v ELSE step[i][g[back[i]]]
      <4>1. i # 0 => back[i] \in 0 .. m /\ back[i] < i
        <5>1. i # 0 => i \in 1 .. n
          BY <2>2
        <5>2. \A j \in 1 .. n : back[j] \in Nat /\ back[j] < j
          OBVIOUS
        <5> QED
          BY <5>1, <5>2
      <4>2. i # 0 => g[back[i]] = f[back[i]]
        <5> HIDE DEF new
        <5> QED
          BY <4>1
      <4>3. CASE i = m + 1
        <5>1. i # 0 /\ g[i] = new
          BY <4>3
        <5> QED
          BY <4>2, <4>3, <5>1
      <4>4. CASE i # m + 1
        <5>1. g[i] = f[i] /\ i \in 0 .. m
          BY <4>4
        <5> HIDE DEF g
        <5> QED
          BY <3>1, <4>2, <5>1 DEF IsClimb
      <4> QED
        BY <4>3, <4>4
    <3>5. Is(g, m + 1)
      BY <3>3, <3>4 DEF IsClimb
    <3> HIDE DEF g, Is
    <3> QED
      BY <3>5
  <2> QED
    BY <2>1, <2>2
<1>3. n \in G
  <2> HIDE DEF G
  <2> QED
    BY <1>1, <1>2, UpFrom0
<1> QED
  BY <1>3

(* A function of the numbers up to n that starts with v and goes on by     *)
(* steps: what such a recursion defines exists.                            *)
IsRun(f, V, v, n, step) ==
  /\ f \in [0 .. n -> V]
  /\ \A i \in 0 .. n : f[i] = IF i = 0 THEN v ELSE step[i][f[i - 1]]

LEMMA RunExists ==
  ASSUME NEW V, NEW v \in V, NEW n \in Nat, NEW step \in [1 .. n -> [V -> V]]
  PROVE  \E f : IsRun(f, V, v, n, step)
<1> DEFINE back == [i \in 1 .. n |-> i - 1]
<1>1. back \in [1 .. n -> Nat] /\ \A i \in 1 .. n : back[i] < i
  OBVIOUS
<1>2. PICK f : IsClimb(f, V, v, n, back, step)
  <2> HIDE DEF back
  <2> QED
    BY <1>1, ClimbExists
<1>3. IsRun(f, V, v, n, step)
  <2>1. \A i \in 0 .. n : i # 0 => back[i] = i - 1
    OBVIOUS
  <2> HIDE DEF back
  <2> QED
    BY <1>2, <2>1 DEF IsClimb, IsRun
<1> QED
  BY <1>3

-----------------------------------------------------------------------------
(* Each element of a list is in R to all behind it.                        *)
Ordered(s, R) == \A i, j \in DOMAIN s : i < j => <<s[i], s[j]>> \in R

(* Two lists, one after the other.                                         *)
LEMMA ConcatIs ==
  ASSUME NEW S, NEW s \in Seq(S), NEW t \in Seq(S)
  PROVE  /\ s \o t \in Seq(S)
         /\ ToSet(s \o t) = ToSet(s) \cup ToSet(t)
         /\ \A R : /\ Ordered(s, R) /\ Ordered(t, R)
                   /\ \A x \in ToSet(s), y \in ToSet(t) : <<x, y>> \in R
                   => Ordered(s \o t, R)
<1>1. /\ Len(s) \in Nat /\ Len(t) \in Nat
      /\ DOMAIN s = 1 .. Len(s) /\ DOMAIN t = 1 .. Len(t)
      /\ s \o t \in Seq(S) /\ DOMAIN (s \o t) = 1 .. (Len(s) + Len(t))
      /\ \A i \in 1 .. (Len(s) + Len(t)) :
           (s \o t)[i] = IF i <= Len(s) THEN s[i] ELSE t[i - Len(s)]
  OBVIOUS
<1> DEFINE st == s \o t
<1>2. /\ \A i \in DOMAIN s : i \in DOMAIN st /\ st[i] = s[i]
      /\ \A i \in DOMAIN t : Len(s) + i \in DOMAIN st /\ st[Len(s) + i] = t[i]
      /\ \A i \in DOMAIN st : \/ i \in DOMAIN s /\ st[i] = s[i]
                              \/ i - Len(s) \in DOMAIN t /\ st[i] = t[i - Len(s)] /\ i > Len(s)
  BY <1>1
<1>3. ToSet(st) = ToSet(s) \cup ToSet(t)
  <2>1. ToSet(s) \subseteq ToSet(st) /\ ToSet(t) \subseteq ToSet(st)
    <3>1. ToSet(s) \subseteq ToSet(st)
      BY <1>2 DEF ToSet
    <3>2. ASSUME NEW i \in DOMAIN t
          PROVE  t[i] \in ToSet(st)
      BY <1>2 DEF ToSet
    <3> QED
      BY <3>1, <3>2 DEF ToSet
  <2>2. ASSUME NEW x \in ToSet(st)
        PROVE  x \in ToSet(s) \cup ToSet(t)
    <3>1. PICK i \in DOMAIN st : x = st[i]
      BY DEF ToSet
    <3> QED
      BY <1>2, <3>1 DEF ToSet
  <2> QED
    BY <2>1, <2>2
<1>4. ASSUME NEW R, Ordered(s, R), Ordered(t, R),
             \A x \in ToSet(s), y \in ToSet(t) : <<x, y>> \in R
      PROVE  Ordered(st, R)
  <2> SUFFICES ASSUME NEW i \in DOMAIN st, NEW j \in DOMAIN st, i < j
               PROVE  <<st[i], st[j]>> \in R
    BY DEF Ordered
  <2>1. CASE i \in DOMAIN s /\ j \in DOMAIN s
    BY <1>2, <1>4, <1>1, <2>1 DEF Ordered
  <2>2. CASE i \in DOMAIN s /\ j \notin DOMAIN s
    <3>1. st[i] \in ToSet(s) /\ st[j] \in ToSet(t)
      BY <1>2, <2>2 DEF ToSet
    <3> QED
      BY <1>4, <3>1
  <2>3. CASE i \notin DOMAIN s
    <3>1. /\ i - Len(s) \in DOMAIN t /\ st[i] = t[i - Len(s)]
          /\ j - Len(s) \in DOMAIN t /\ st[j] = t[j - Len(s)]
          /\ i - Len(s) < j - Len(s)
      BY <1>1, <1>2, <2>3
    <3> QED
      BY <1>4, <3>1 DEF Ordered
  <2> QED
    BY <2>1, <2>2, <2>3
<1> QED
  BY <1>1, <1>3, <1>4

(* A list of one element, and of none.                                     *)
LEMMA SingletonIs ==
  ASSUME NEW S, NEW x \in S
  PROVE  /\ <<x>> \in Seq(S) /\ ToSet(<<x>>) = {x} /\ \A R : Ordered(<<x>>, R)
         /\ <<>> \in Seq(S) /\ ToSet(<<>>) = {} /\ \A R : Ordered(<<>>, R)
<1>1. DOMAIN <<x>> = {1} /\ <<x>>[1] = x /\ DOMAIN <<>> = {}
  OBVIOUS
<1>2. <<x>> \in Seq(S) /\ <<>> \in Seq(S)
  OBVIOUS
<1> QED
  BY <1>1, <1>2 DEF ToSet, Ordered

(* The lists of a list, one after the other.                               *)
LEMMA FlattenExists ==
  ASSUME NEW S, NEW ss \in Seq(Seq(S))
  PROVE  \E f \in [1 .. Len(ss) -> Seq(S)] :
           \A i \in 1 .. Len(ss) : f[i] = IF i = 1 THEN ss[i] ELSE f[i - 1] \o ss[i]
<1> DEFINE Is(f, n) == /\ f \in [1 .. n -> Seq(S)]
                       /\ \A i \in 1 .. n : f[i] = IF i = 1 THEN ss[i] ELSE f[i - 1] \o ss[i]
           G == {n \in Nat : n > Len(ss) \/ \E f : Is(f, n)}
<1>1. Len(ss) \in Nat /\ \A i \in 1 .. Len(ss) : ss[i] \in Seq(S)
  OBVIOUS
<1>2. 0 \in G
  <2>1. [i \in 1 .. 0 |-> <<>>] \in [1 .. 0 -> Seq(S)] /\ 1 .. 0 = {}
    OBVIOUS
  <2> QED
    BY <2>1
<1>3. ASSUME NEW n \in Nat, n \in G
      PROVE  n + 1 \in G
  <2>1. CASE n + 1 > Len(ss)
    BY <2>1
  <2>2. CASE ~(n + 1 > Len(ss))
    <3>1. PICK f : Is(f, n)
      <4> HIDE DEF Is
      <4> QED
        BY <1>1, <1>3, <2>2
    <3> DEFINE new == IF n = 0 THEN ss[1] ELSE f[n] \o ss[n + 1]
               g == [i \in 1 .. n + 1 |-> IF i = n + 1 THEN new ELSE f[i]]
    <3>2. new \in Seq(S)
      <4>1. CASE n = 0
        BY <1>1, <2>2, <4>1
      <4>2. CASE n # 0
        <5>0. n \in 1 .. n /\ n + 1 \in 1 .. Len(ss)
          BY <1>1, <2>2, <4>2
        <5>1. f[n] \in Seq(S) /\ ss[n + 1] \in Seq(S)
          BY <1>1, <3>1, <5>0
        <5> QED
          BY <5>1, <4>2, ConcatIs
      <4> QED
        BY <4>1, <4>2
    <3>3. g \in [1 .. n + 1 -> Seq(S)]
      <4>1. \A i \in 1 .. n + 1 : i # n + 1 => f[i] \in Seq(S)
        BY <3>1
      <4> HIDE DEF new
      <4> QED
        BY <3>2, <4>1
    <3>4. ASSUME NEW i \in 1 .. n + 1
          PROVE  g[i] = IF i = 1 THEN ss[i] ELSE g[i - 1] \o ss[i]
      <4>1. CASE i = n + 1
        <5>1. CASE n = 0
          BY <4>1, <5>1
        <5>2. CASE n # 0
          <6>1. i - 1 = n /\ n \in 1 .. n + 1 /\ n # n + 1 /\ i # 1
            BY <4>1, <5>2
          <6>2. g[n] = f[n] /\ g[i] = new
            BY <6>1, <4>1
          <6> QED
            BY <6>1, <6>2, <4>1, <5>2
        <5> QED
          BY <5>1, <5>2
      <4>2. CASE i # n + 1
        <5>1. g[i] = f[i] /\ (i # 1 => g[i - 1] = f[i - 1]) /\ i \in 1 .. n
          BY <4>2
        <5> QED
          BY <3>1, <5>1
      <4> QED
        BY <4>1, <4>2
    <3>5. Is(g, n + 1)
      BY <3>3, <3>4
    <3> HIDE DEF g, Is
    <3> QED
      BY <3>5
  <2> QED
    BY <2>1, <2>2
<1>4. Len(ss) \in G
  <2> HIDE DEF G
  <2> QED
    BY <1>1, <1>2, <1>3, UpFrom0
<1> QED
  BY <1>1, <1>4

(* They are a list of all their elements, in R if each list is and each    *)
(* is to those behind it.                                                  *)
LEMMA FlattenIs ==
  ASSUME NEW S, NEW ss \in Seq(Seq(S))
  PROVE  /\ FlattenSeq(ss) \in Seq(S)
         /\ ToSet(FlattenSeq(ss)) = UNION {ToSet(ss[i]) : i \in DOMAIN ss}
         /\ \A R : /\ \A i \in DOMAIN ss : Ordered(ss[i], R)
                   /\ \A i, j \in DOMAIN ss : i < j =>
                        \A x \in ToSet(ss[i]), y \in ToSet(ss[j]) : <<x, y>> \in R
                   => Ordered(FlattenSeq(ss), R)
<1>1. Len(ss) \in Nat /\ DOMAIN ss = 1 .. Len(ss) /\ \A i \in 1 .. Len(ss) : ss[i] \in Seq(S)
  OBVIOUS
<1>2. CASE Len(ss) = 0
  <2>1. FlattenSeq(ss) = <<>> /\ DOMAIN ss = {}
    BY <1>1, <1>2 DEF FlattenSeq
  <2>2. <<>> \in Seq(S) /\ ToSet(<<>>) = {} /\ \A R : Ordered(<<>>, R)
    BY DEF ToSet, Ordered
  <2> QED
    BY <2>1, <2>2
<1>3. CASE Len(ss) # 0
  <2> DEFINE flatten[i \in 1 .. Len(ss)] == IF i = 1 THEN ss[i] ELSE flatten[i - 1] \o ss[i]
  <2>1. FlattenSeq(ss) = flatten[Len(ss)]
    BY <1>3 DEF FlattenSeq
  <2>2. flatten = [i \in 1 .. Len(ss) |-> IF i = 1 THEN ss[i] ELSE flatten[i - 1] \o ss[i]]
    <3>1. PICK f \in [1 .. Len(ss) -> Seq(S)] :
            \A i \in 1 .. Len(ss) : f[i] = IF i = 1 THEN ss[i] ELSE f[i - 1] \o ss[i]
      BY FlattenExists
    <3>2. f = [i \in 1 .. Len(ss) |-> IF i = 1 THEN ss[i] ELSE f[i - 1] \o ss[i]]
      BY <3>1
    <3> QED
      BY <3>2
  <2>3. \A i \in 1 .. Len(ss) : flatten[i] = IF i = 1 THEN ss[i] ELSE flatten[i - 1] \o ss[i]
    BY <2>2
  <2> HIDE DEF flatten
  <2> DEFINE Flat(n) ==
        /\ flatten[n] \in Seq(S)
        /\ ToSet(flatten[n]) = UNION {ToSet(ss[i]) : i \in 1 .. n}
        /\ \A R : /\ \A i \in 1 .. Len(ss) : Ordered(ss[i], R)
                  /\ \A i, j \in 1 .. Len(ss) : i < j =>
                       \A x \in ToSet(ss[i]), y \in ToSet(ss[j]) : <<x, y>> \in R
                  => Ordered(flatten[n], R)
       G == {n \in Nat : n = 0 \/ n > Len(ss) \/ Flat(n)}
  <2>4. Flat(1)
    <3>1. flatten[1] = ss[1] /\ 1 \in 1 .. Len(ss) /\ 1 .. 1 = {1}
      BY <1>1, <1>3, <2>3
    <3> QED
      BY <1>1, <3>1
  <2>5. ASSUME NEW n \in Nat, n # 0, n + 1 <= Len(ss), Flat(n)
        PROVE  Flat(n + 1)
    <3>1. Flat(n)
      BY <2>5
    <3>2. /\ flatten[n + 1] = flatten[n] \o ss[n + 1]
          /\ n + 1 \in 1 .. Len(ss)
          /\ 1 .. n + 1 = (1 .. n) \cup {n + 1}
          /\ 1 .. n \subseteq 1 .. Len(ss)
      <4> HIDE DEF Flat
      <4>1. n + 1 \in 1 .. Len(ss) /\ n + 1 # 1 /\ (n + 1) - 1 = n
        BY <1>1, <2>5
      <4>2. flatten[n + 1] = IF n + 1 = 1 THEN ss[n + 1] ELSE flatten[(n + 1) - 1] \o ss[n + 1]
        BY <2>3, <4>1
      <4>3. 1 .. n + 1 = (1 .. n) \cup {n + 1} /\ 1 .. n \subseteq 1 .. Len(ss)
        BY <1>1, <2>5
      <4> QED
        BY <4>1, <4>2, <4>3
    <3>3. ss[n + 1] \in Seq(S) /\ flatten[n] \in Seq(S)
      BY <1>1, <3>1, <3>2
    <3>4. flatten[n + 1] \in Seq(S)
      BY <3>2, <3>3, ConcatIs
    <3>5. ToSet(flatten[n + 1]) = ToSet(flatten[n]) \cup ToSet(ss[n + 1])
      BY <3>2, <3>3, ConcatIs
    <3>6. ToSet(flatten[n + 1]) = UNION {ToSet(ss[i]) : i \in 1 .. n + 1}
      <4>1. ToSet(flatten[n]) = UNION {ToSet(ss[i]) : i \in 1 .. n}
        BY <3>1
      <4>2. {ToSet(ss[i]) : i \in 1 .. n + 1} =
              {ToSet(ss[i]) : i \in 1 .. n} \cup {ToSet(ss[n + 1])}
        BY <3>2
      <4> QED
        BY <3>5, <4>1, <4>2
    <3>7. ASSUME NEW R, \A i \in 1 .. Len(ss) : Ordered(ss[i], R),
                 \A i, j \in 1 .. Len(ss) : i < j =>
                   \A x \in ToSet(ss[i]), y \in ToSet(ss[j]) : <<x, y>> \in R
          PROVE  Ordered(flatten[n + 1], R)
      <4>1. Ordered(flatten[n], R) /\ Ordered(ss[n + 1], R)
        BY <3>1, <3>2, <3>7
      <4>2. ASSUME NEW x \in ToSet(flatten[n]), NEW y \in ToSet(ss[n + 1])
            PROVE  <<x, y>> \in R
        <5>1. PICK i \in 1 .. n : x \in ToSet(ss[i])
          BY <3>1
        <5>2. i < n + 1 /\ i \in 1 .. Len(ss)
          BY <3>2
        <5> QED
          BY <3>2, <3>7, <5>1, <5>2
      <4> QED
        BY <3>2, <3>3, <4>1, <4>2, ConcatIs
    <3> QED
      BY <3>4, <3>6, <3>7
  <2>6. Nat \subseteq G
    <3> HIDE DEF Flat
    <3>1. 0 \in G
      OBVIOUS
    <3>2. ASSUME NEW n \in Nat, n \in G
          PROVE  n + 1 \in G
      <4>1. CASE n = 0
        BY <2>4, <4>1
      <4>2. CASE n # 0 /\ n + 1 <= Len(ss)
        BY <1>1, <2>5, <3>2, <4>2
      <4>3. CASE ~(n + 1 <= Len(ss))
        BY <1>1, <4>3
      <4> QED
        BY <4>1, <4>2, <4>3
    <3> HIDE DEF G
    <3> QED
      BY <3>1, <3>2, UpFrom0
  <2>7. Flat(Len(ss))
    <3> HIDE DEF Flat
    <3> QED
      BY <1>1, <1>3, <2>6
  <2> QED
    BY <1>1, <2>1, <2>7
<1> QED
  BY <1>2, <1>3

(* A list read backwards.                                                  *)
LEMMA ReverseIs ==
  ASSUME NEW S, NEW s \in Seq(S)
  PROVE  /\ Reverse(s) \in Seq(S) /\ ToSet(Reverse(s)) = ToSet(s)
         /\ IsInjective(s) => IsInjective(Reverse(s))
<1>1. /\ Len(s) \in Nat /\ DOMAIN s = 1 .. Len(s) /\ DOMAIN Reverse(s) = 1 .. Len(s)
      /\ Reverse(s) \in Seq(S) /\ \A i \in 1 .. Len(s) : Reverse(s)[i] = s[Len(s) - i + 1]
  BY DEF Reverse
<1>2. \A i \in 1 .. Len(s) :
        /\ Len(s) - i + 1 \in 1 .. Len(s)
        /\ Len(s) - (Len(s) - i + 1) + 1 = i
  BY <1>1
<1>3. ToSet(Reverse(s)) \subseteq ToSet(s)
  BY <1>1, <1>2 DEF ToSet
<1>4. ASSUME NEW i \in DOMAIN s
      PROVE  s[i] \in ToSet(Reverse(s))
  <2>1. Reverse(s)[Len(s) - i + 1] = s[i]
    BY <1>1, <1>2
  <2> QED
    BY <1>1, <1>2, <2>1 DEF ToSet
<1>5. ToSet(s) \subseteq ToSet(Reverse(s))
  BY <1>4 DEF ToSet
<1>6. ASSUME IsInjective(s)
      PROVE  IsInjective(Reverse(s))
  <2> SUFFICES ASSUME NEW i \in 1 .. Len(s), NEW j \in 1 .. Len(s), Reverse(s)[i] = Reverse(s)[j]
               PROVE  i = j
    BY <1>1 DEF IsInjective
  <2>1. s[Len(s) - i + 1] = s[Len(s) - j + 1]
    BY <1>1
  <2>2. Len(s) - i + 1 \in DOMAIN s /\ Len(s) - j + 1 \in DOMAIN s
    BY <1>1, <1>2
  <2>3. Len(s) - i + 1 = Len(s) - j + 1
    BY <1>6, <2>1, <2>2 DEF IsInjective
  <2> QED
    BY <1>1, <2>3
<1> QED
  BY <1>1, <1>3, <1>5, <1>6

-----------------------------------------------------------------------------
(* An empty list adds nothing.                                             *)
LEMMA ConcatNone ==
  ASSUME NEW S, NEW s \in Seq(S)
  PROVE  <<>> \o s = s /\ s \o <<>> = s
<1>2. <<>> \o s \in Seq(S) /\ Len(<<>> \o s) = Len(s) /\ \A i \in 1 .. Len(s) : (<<>> \o s)[i] = s[i]
  OBVIOUS
<1>3. s \o <<>> \in Seq(S) /\ Len(s \o <<>>) = Len(s) /\ \A i \in 1 .. Len(s) : (s \o <<>>)[i] = s[i]
  OBVIOUS
<1> QED
  BY <1>2, <1>3, SeqEqual

(* What is said of a tree from the bottom up: at each x something before,  *)
(* what is said of its children, and something after, or nothing at all    *)
(* where it stops.                                                         *)
ChildrenSay(c, f, x) == FlattenSeq([i \in DOMAIN c[x] |-> f[c[x][i]]])

FiniteTree(I, c) ==
  /\ c \in [I -> Seq(I)]
  /\ \E height \in [I -> Nat], top \in Nat :
       /\ \A x \in I : height[x] <= top
       /\ \A x \in I : \A i \in DOMAIN c[x] : height[c[x][i]] < height[x]

Says(S, I, c, stop, before, after, f) ==
  /\ f \in [I -> Seq(S)]
  /\ \A x \in I : f[x] = IF x \in stop THEN <<>>
                         ELSE before[x] \o ChildrenSay(c, f, x) \o after[x]

LEMMA SaidExists ==
  ASSUME NEW S, NEW I, NEW c, FiniteTree(I, c),
         NEW stop \in SUBSET I, NEW before \in [I -> Seq(S)], NEW after \in [I -> Seq(S)]
  PROVE  \E f : Says(S, I, c, stop, before, after, f)
<1>0. PICK height \in [I -> Nat], top \in Nat :
        /\ \A x \in I : height[x] <= top
        /\ \A x \in I : \A i \in DOMAIN c[x] : height[c[x][i]] < height[x]
  BY DEF FiniteTree
<1>1. c \in [I -> Seq(I)]
  BY DEF FiniteTree
<1> DEFINE Children(f, x) == [i \in DOMAIN c[x] |-> f[c[x][i]]]
           Said(f, x) == IF x \in stop THEN <<>>
                         ELSE before[x] \o FlattenSeq(Children(f, x)) \o after[x]
           Low(n) == {x \in I : height[x] < n}
           Is(f, n) == f \in [Low(n) -> Seq(S)] /\ \A x \in Low(n) : f[x] = Said(f, x)
           G == {n \in Nat : \E f : Is(f, n)}
<1>2. 0 \in G
  <2>1. Low(0) = {}
    OBVIOUS
  <2>2. Is([x \in {} |-> <<>>], 0)
    BY <2>1
  <2> HIDE DEF Is
  <2> QED
    BY <2>2
<1>3. ASSUME NEW n \in Nat, n \in G
      PROVE  n + 1 \in G
  <2>1. PICK f : Is(f, n)
    <3> HIDE DEF Is
    <3> QED
      BY <1>3
  <2>2. ASSUME NEW x \in Low(n + 1)
        PROVE  \A i \in DOMAIN c[x] : c[x][i] \in Low(n)
    <3> SUFFICES ASSUME NEW i \in DOMAIN c[x]
                 PROVE  c[x][i] \in Low(n)
      OBVIOUS
    <3>1. x \in I /\ height[x] < n + 1 /\ c[x] \in Seq(I)
      BY <1>0, <1>1
    <3>2. c[x][i] \in I
      BY <3>1
    <3>3. height[c[x][i]] \in Nat /\ height[x] \in Nat /\ height[c[x][i]] < height[x]
      BY <1>0, <3>1, <3>2
    <3> QED
      BY <3>1, <3>2, <3>3
  <2>3. ASSUME NEW x \in Low(n + 1)
        PROVE  Said(f, x) \in Seq(S)
    <3>1. x \in I /\ c[x] \in Seq(I) /\ before[x] \in Seq(S) /\ after[x] \in Seq(S)
      BY <1>1
    <3>2. Children(f, x) \in Seq(Seq(S))
      <4>1. Len(c[x]) \in Nat /\ DOMAIN c[x] = 1 .. Len(c[x])
        BY <3>1
      <4>2. \A i \in DOMAIN c[x] : f[c[x][i]] \in Seq(S)
        BY <2>1, <2>2
      <4> QED
        BY <4>1, <4>2
    <3>3. FlattenSeq(Children(f, x)) \in Seq(S)
      BY <3>2, FlattenIs
    <3> HIDE DEF Children
    <3> QED
      BY <3>1, <3>3
  <2> DEFINE g == [x \in Low(n + 1) |-> Said(f, x)]
  <2>4. \A x \in Low(n) : g[x] = f[x]
    <3>1. Low(n) \subseteq Low(n + 1)
      OBVIOUS
    <3> HIDE DEF Said, Low
    <3> QED
      BY <2>1, <3>1
  <2>5. ASSUME NEW x \in Low(n + 1)
        PROVE  g[x] = Said(g, x)
    <3>1. Children(g, x) = Children(f, x)
      <4> HIDE DEF g, Low
      <4> QED
        BY <2>2, <2>4
    <3>2. Said(g, x) = Said(f, x)
      <4> HIDE DEF Children, g
      <4> QED
        BY <3>1
    <3> HIDE DEF Said
    <3> QED
      BY <3>2
  <2>6. Is(g, n + 1)
    <3> HIDE DEF Said, Low
    <3>1. g \in [Low(n + 1) -> Seq(S)]
      BY <2>3
    <3> HIDE DEF g
    <3> QED
      BY <2>5, <3>1
  <2> HIDE DEF Is, g
  <2> QED
    BY <2>6
<1>4. PICK f : Is(f, top + 1)
  <2> HIDE DEF Is
  <2>1. top + 1 \in G
    <3> HIDE DEF G
    <3> QED
      BY <1>2, <1>3, UpFrom0
  <2> QED
    BY <2>1
<1>5. Low(top + 1) = I
  BY <1>0
<1> QED
  BY <1>4, <1>5 DEF ChildrenSay, Says
=============================================================================
