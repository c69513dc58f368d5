--------------------------- MODULE NarPath_proofs ---------------------------
(***************************************************************************)
(* The order of NarPath is a total order on paths, whatever the names and  *)
(* however they are ordered.  This is what lets the reader compare each    *)
(* header with the one before it only (src/pkg/nar/reader.go:347).         *)
(***************************************************************************)
EXTENDS NarPath, SequenceTheorems, WellFoundedInduction, TLAPS

\* The last element of a sequence, and what is in front of it.
LEMMA FrontFacts ==
  ASSUME NEW S, NEW s \in Seq(S), s # << >>
  PROVE  /\ Len(s) \in Nat \ {0} /\ s[Len(s)] \in S
         /\ SubSeq(s, 1, Len(s) - 1) \in Seq(S)
         /\ Len(SubSeq(s, 1, Len(s) - 1)) = Len(s) - 1
         /\ \A i \in 1..(Len(s) - 1) : SubSeq(s, 1, Len(s) - 1)[i] = s[i]
         /\ Len(s) > 1 => SubSeq(s, 1, Len(s) - 1) # << >>
<1>1. PICK n \in Nat \ {0} : Len(s) = n
  BY EmptySeq
<1>2. \A i \in 1..n : s[i] \in S
  BY <1>1, ElementOfSeq
<1>3. /\ SubSeq(s, 1, n - 1) \in Seq(S) /\ Len(SubSeq(s, 1, n - 1)) = n - 1
      /\ \A i \in 1..(n - 1) : SubSeq(s, 1, n - 1)[i] = s[i]
  BY <1>1, <1>2, SubSeqProperties
<1>4. \A t : Len(t) = n - 1 /\ n > 1 => t # << >>
  OBVIOUS
<1>5. n > 1 => SubSeq(s, 1, n - 1) # << >>
  BY <1>3, <1>4
<1> QED
  BY <1>1, <1>2, <1>3, <1>5

\* A path is a function on 1..Len(p), and two paths that agree are equal.
LEMMA PathFacts ==
  ASSUME NEW p \in Path
  PROVE  /\ Len(p) \in Nat
         /\ \A i \in 1..Len(p) : p[i] \in Name
         /\ \A q \in Path : Len(q) = Len(p) /\ AgreeUpTo(p, q, Len(p)) => q = p
<1>1. Len(p) \in Nat /\ \A i \in 1..Len(p) : p[i] \in Name
  BY DEF Path
<1>2. ASSUME NEW q \in Path, Len(q) = Len(p), AgreeUpTo(p, q, Len(p))
      PROVE  q = p
  BY <1>2, SeqEqual DEF Path, AgreeUpTo
<1> QED BY <1>1, <1>2

\* The first components of a path are a path, and it starts with them.
LEMMA PrefixFacts ==
  ASSUME NEW p \in Path, NEW n \in 0..Len(p)
  PROVE  /\ SubSeq(p, 1, n) \in Path /\ Len(SubSeq(p, 1, n)) = n
         /\ \A k \in 1..n : SubSeq(p, 1, n)[k] = p[k]
         /\ StartsWith(p, SubSeq(p, 1, n))
<1>1. Len(p) \in Nat /\ \A k \in 1..Len(p) : p[k] \in Name
  BY PathFacts
<1>2. /\ SubSeq(p, 1, n) \in Path /\ Len(SubSeq(p, 1, n)) = n
      /\ \A k \in 1..n : SubSeq(p, 1, n)[k] = p[k]
  BY <1>1, SubSeqProperties DEF Path
<1> QED
  BY <1>1, <1>2 DEF StartsWith, AgreeUpTo

\* Starting with is a partial order, and what a path starts with is ordered by length.
LEMMA StartsWithFacts ==
  ASSUME NEW p \in Path, NEW q \in Path
  PROVE  /\ StartsWith(p, p) /\ StartsWith(p, Root)
         /\ StartsWith(p, q) => Len(q) <= Len(p) /\ (Len(q) = Len(p) => q = p)
         /\ StartsWith(p, q) => q = SubSeq(p, 1, Len(q))
         /\ \A r \in Path : StartsWith(p, q) /\ StartsWith(q, r) => StartsWith(p, r)
         /\ \A r \in Path : StartsWith(p, q) /\ StartsWith(p, r) /\ Len(r) <= Len(q) => StartsWith(q, r)
<1>1. /\ Len(p) \in Nat /\ Len(q) \in Nat /\ \A r \in Path : Len(r) \in Nat
  BY PathFacts
<1>2. StartsWith(p, p) /\ StartsWith(p, Root)
  BY <1>1 DEF StartsWith, AgreeUpTo, Root
<1>3. StartsWith(p, q) => Len(q) <= Len(p) /\ (Len(q) = Len(p) => q = p)
  BY <1>1, PathFacts DEF StartsWith, AgreeUpTo
<1>4. ASSUME StartsWith(p, q) PROVE q = SubSeq(p, 1, Len(q))
  <2>1. Len(q) \in 0..Len(p) /\ \A k \in 1..Len(q) : q[k] = p[k]
    BY <1>1, <1>4 DEF StartsWith, AgreeUpTo
  <2> DEFINE s == SubSeq(p, 1, Len(q))
  <2>2. s \in Path /\ Len(s) = Len(q) /\ \A k \in 1..Len(q) : s[k] = p[k]
    BY <2>1, PrefixFacts
  <2> HIDE DEF s
  <2>3. s = q
    BY <2>1, <2>2, PathFacts DEF AgreeUpTo
  <2> QED
    BY <2>3 DEF s
<1>5. \A r \in Path : StartsWith(p, q) /\ StartsWith(q, r) => StartsWith(p, r)
  BY <1>1 DEF StartsWith, AgreeUpTo
<1>6. \A r \in Path : StartsWith(p, q) /\ StartsWith(p, r) /\ Len(r) <= Len(q) => StartsWith(q, r)
  BY <1>1 DEF StartsWith, AgreeUpTo
<1> QED
  BY <1>2, <1>3, <1>4, <1>5, <1>6

\* The parent of a path is one component shorter, and nothing else of that length is in front.
LEMMA ParentFacts ==
  ASSUME NEW q \in Path, q # Root
  PROVE  /\ Len(q) \in Nat \ {0} /\ Parent(q) \in Path /\ Len(Parent(q)) = Len(q) - 1
         /\ StartsWith(q, Parent(q)) /\ ~StartsWith(Parent(q), q)
         /\ \A p \in Path : StartsWith(q, p) /\ Len(p) = Len(q) - 1 => p = Parent(q)
         /\ \A p \in Path : StartsWith(q, p) /\ p # q => StartsWith(Parent(q), p)
<1>1. Len(q) \in Nat \ {0} /\ Len(q) - 1 \in 0..Len(q) /\ \A p \in Path : Len(p) \in Nat
  BY PathFacts, EmptySeq DEF Root, Path
<1>2. Parent(q) = SubSeq(q, 1, Len(q) - 1)
  BY DEF Parent
<1>3. Parent(q) \in Path /\ Len(Parent(q)) = Len(q) - 1 /\ StartsWith(q, Parent(q))
  BY <1>1, <1>2, PrefixFacts
<1>4. ~StartsWith(Parent(q), q)
  BY <1>1, <1>3 DEF StartsWith
<1>5. \A p \in Path : StartsWith(q, p) /\ Len(p) = Len(q) - 1 => p = Parent(q)
  BY <1>2, StartsWithFacts
<1>6. ASSUME NEW p \in Path, StartsWith(q, p), p # q PROVE StartsWith(Parent(q), p)
  <2>1. Len(p) <= Len(Parent(q))
    BY <1>1, <1>3, <1>6, StartsWithFacts
  <2> QED
    BY <1>3, <1>6, <2>1, StartsWithFacts
<1> QED
  BY <1>1, <1>3, <1>4, <1>5, <1>6

(***************************************************************************)
(* Where one path is in front of another and not above it, so is what is   *)
(* below it, and so are the paths above it that are no shorter than the    *)
(* other.                                                                  *)
(***************************************************************************)
LEMMA OrderedApart ==
  ASSUME NEW p \in Path, NEW q \in Path, Ordered(p, q), NEW r \in Path
  PROVE  /\ StartsWith(r, p) /\ ~StartsWith(q, p) => Ordered(r, q) /\ ~StartsWith(q, r)
         /\ StartsWith(p, r) /\ ~StartsWith(p, q) /\ Len(r) >= Len(q)
              => Ordered(r, q) /\ ~StartsWith(q, r)
<1>1. Len(p) \in Nat /\ Len(q) \in Nat /\ Len(r) \in Nat
  BY PathFacts
<1>2. CASE StartsWith(q, p)
  <2>1. StartsWith(p, r) /\ Len(r) >= Len(q) => p = q
    <3>1. StartsWith(p, r) => Len(r) <= Len(p)
      BY StartsWithFacts
    <3>2. Len(p) <= Len(q) /\ (Len(p) = Len(q) => p = q)
      BY <1>2, StartsWithFacts
    <3> QED
      BY <1>1, <3>1, <3>2
  <2> QED
    BY <1>2, <2>1, StartsWithFacts
<1>3. CASE ~StartsWith(q, p)
  <2>1. PICK k \in (1..Len(p)) \cap (1..Len(q)) :
          AgreeUpTo(p, q, k - 1) /\ <<p[k], q[k]>> \in NameOrder
    BY <1>3 DEF Ordered
  <2>2. p[k] # q[k]
    BY <2>1, PathFacts, NameOrderIsStrict
  <2>3. ASSUME \A j \in 1..k : r[j] = p[j], k <= Len(r)
        PROVE  Ordered(r, q) /\ ~StartsWith(q, r)
    <3>1. k \in (1..Len(r)) \cap (1..Len(q)) /\ r[k] = p[k]
      BY <1>1, <2>1, <2>3
    <3>2. AgreeUpTo(r, q, k - 1) /\ <<r[k], q[k]>> \in NameOrder
      BY <1>1, <2>1, <2>3, <3>1 DEF AgreeUpTo
    <3>3. ~StartsWith(q, r)
      BY <2>2, <3>1 DEF StartsWith, AgreeUpTo
    <3> QED
      BY <3>1, <3>2, <3>3 DEF Ordered
  <2>4. StartsWith(r, p) => k <= Len(r) /\ \A j \in 1..k : r[j] = p[j]
    BY <1>1, <2>1 DEF StartsWith, AgreeUpTo
  <2>5. StartsWith(p, r) /\ Len(r) >= Len(q) => k <= Len(r) /\ \A j \in 1..k : r[j] = p[j]
    BY <1>1, <2>1 DEF StartsWith, AgreeUpTo
  <2> QED
    BY <2>3, <2>4, <2>5
<1> QED
  BY <1>2, <1>3

\* A name is joined to a path: the result is a path (path.Join).
LEMMA JoinType ==
  ASSUME NEW p \in Path, NEW name \in Name
  PROVE  Join(p, name) \in Path
<1>1. Append(p, name) \in Path
  BY DEF Path
<1>2. Parent(p) \in Path
  <2>1. CASE p = Root
    BY <2>1 DEF Parent
  <2>2. CASE p # Root
    <3>1. SubSeq(p, 1, Len(p) - 1) \in Path
      BY PathFacts, SubSeqProperties, <2>2 DEF Path
    <3> QED BY <2>2, <3>1 DEF Parent
  <2> QED BY <2>1, <2>2
<1> QED BY <1>1, <1>2 DEF Join

\* The same path twice passes the check: it is "not before", not "after".
THEOREM OrderedReflexive ==
  ASSUME NEW p \in Path
  PROVE  Ordered(p, p)
BY PathFacts DEF Ordered, StartsWith, AgreeUpTo

\* Comparing neighbours is comparing all: the order is transitive.
THEOREM OrderedTransitive ==
  ASSUME NEW p \in Path, NEW q \in Path, NEW r \in Path,
         Ordered(p, q), Ordered(q, r)
  PROVE  Ordered(p, r)
<1> DEFINE Differ(s, t, i) == /\ i \in (1..Len(s)) \cap (1..Len(t))
                              /\ AgreeUpTo(s, t, i - 1) /\ <<s[i], t[i]>> \in NameOrder
<1>0. /\ Len(p) \in Nat /\ Len(q) \in Nat /\ Len(r) \in Nat
      /\ \A i \in 1..Len(p) : p[i] \in Name
      /\ \A i \in 1..Len(q) : q[i] \in Name
      /\ \A i \in 1..Len(r) : r[i] \in Name
  BY PathFacts
<1>1. CASE StartsWith(q, p) /\ StartsWith(r, q)
  <2>1. StartsWith(r, p)
    BY <1>0, <1>1 DEF StartsWith, AgreeUpTo
  <2> QED BY <2>1 DEF Ordered
<1>2. ASSUME StartsWith(q, p), NEW j, Differ(q, r, j)
      PROVE  Ordered(p, r)
  <2>1. CASE j <= Len(p)
    <3>1. Differ(p, r, j)
      BY <1>0, <1>2, <2>1 DEF StartsWith, AgreeUpTo
    <3> QED BY <3>1 DEF Ordered
  <2>2. CASE j > Len(p)
    <3>1. StartsWith(r, p)
      BY <1>0, <1>2, <2>2 DEF StartsWith, AgreeUpTo
    <3> QED BY <3>1 DEF Ordered
  <2> QED BY <1>0, <1>2, <2>1, <2>2
<1>3. ASSUME NEW i, Differ(p, q, i), StartsWith(r, q)
      PROVE  Ordered(p, r)
  <2>1. /\ i \in (1..Len(p)) \cap (1..Len(q)) /\ i <= Len(r)
        /\ \A k \in 1..i : q[k] = r[k]
    BY <1>0, <1>3 DEF StartsWith, AgreeUpTo
  <2>2. AgreeUpTo(p, r, i - 1) /\ <<p[i], r[i]>> \in NameOrder
    BY <1>0, <1>3, <2>1 DEF AgreeUpTo
  <2>3. i \in (1..Len(p)) \cap (1..Len(r))
    BY <1>0, <2>1
  <2> QED BY <2>2, <2>3 DEF Ordered
<1>4. ASSUME NEW i, Differ(p, q, i), NEW j, Differ(q, r, j)
      PROVE  Ordered(p, r)
  <2>1. CASE i < j
    <3>1. /\ i \in (1..Len(p)) \cap (1..Len(r))
          /\ \A k \in 1..i : q[k] = r[k]
      BY <1>0, <1>4, <2>1 DEF AgreeUpTo
    <3>2. /\ \A k \in 1..(i - 1) : p[k] = q[k] /\ k \in 1..i
          /\ i \in 1..i /\ <<p[i], q[i]>> \in NameOrder
      BY <1>0, <1>4, <3>1 DEF AgreeUpTo
    <3>3. AgreeUpTo(p, r, i - 1) /\ <<p[i], r[i]>> \in NameOrder
      BY ONLY <3>1, <3>2 DEF AgreeUpTo
    <3> QED BY <3>1, <3>3 DEF Ordered
  <2>2. CASE i = j
    <3>1. <<p[i], r[i]>> \in NameOrder
      BY <1>0, <1>4, <2>2, NameOrderIsStrict
    <3>2. Differ(p, r, i)
      BY <1>0, <1>4, <2>2, <3>1 DEF AgreeUpTo
    <3> QED BY <3>2 DEF Ordered
  <2>3. CASE j < i
    <3>1. /\ j \in (1..Len(p)) \cap (1..Len(r))
          /\ \A k \in 1..j : p[k] = q[k]
      BY <1>0, <1>4, <2>3 DEF AgreeUpTo
    <3>2. /\ \A k \in 1..(j - 1) : q[k] = r[k] /\ k \in 1..j
          /\ j \in 1..j /\ <<q[j], r[j]>> \in NameOrder
      BY <1>0, <1>4, <3>1 DEF AgreeUpTo
    <3>3. AgreeUpTo(p, r, j - 1) /\ <<p[j], r[j]>> \in NameOrder
      BY ONLY <3>1, <3>2 DEF AgreeUpTo
    <3> QED BY <3>1, <3>3 DEF Ordered
  <2> QED BY <1>0, <1>4, <2>1, <2>2, <2>3
<1> QED BY <1>1, <1>2, <1>3, <1>4 DEF Ordered

\* Two paths that pass the check both ways round are the same path.
THEOREM OrderedAntisymmetric ==
  ASSUME NEW p \in Path, NEW q \in Path, Ordered(p, q), Ordered(q, p)
  PROVE  p = q
<1> DEFINE Differ(s, t, i) == /\ i \in (1..Len(s)) \cap (1..Len(t))
                              /\ AgreeUpTo(s, t, i - 1) /\ <<s[i], t[i]>> \in NameOrder
<1>0. /\ Len(p) \in Nat /\ Len(q) \in Nat
      /\ \A i \in 1..Len(p) : p[i] \in Name
      /\ \A i \in 1..Len(q) : q[i] \in Name
  BY PathFacts
<1>1. CASE StartsWith(q, p) /\ StartsWith(p, q)
  BY <1>0, <1>1, PathFacts DEF StartsWith
<1>2. ASSUME NEW i, Differ(p, q, i), StartsWith(p, q)
      PROVE  FALSE
  BY <1>0, <1>2, NameOrderIsStrict DEF StartsWith, AgreeUpTo
<1>3. ASSUME NEW i, Differ(q, p, i), StartsWith(q, p)
      PROVE  FALSE
  BY <1>0, <1>3, NameOrderIsStrict DEF StartsWith, AgreeUpTo
<1>4. ASSUME NEW i, Differ(p, q, i), NEW j, Differ(q, p, j)
      PROVE  FALSE
  <2>1. CASE i < j
    BY <1>0, <1>4, <2>1, NameOrderIsStrict DEF AgreeUpTo
  <2>2. CASE i = j
    BY <1>0, <1>4, <2>2, NameOrderIsStrict
  <2>3. CASE j < i
    BY <1>0, <1>4, <2>3, NameOrderIsStrict DEF AgreeUpTo
  <2> QED BY <1>0, <1>4, <2>1, <2>2, <2>3
<1> QED BY <1>1, <1>2, <1>3, <1>4 DEF Ordered

\* Any two paths pass the check one way round or the other.
THEOREM OrderedTotal ==
  ASSUME NEW p \in Path, NEW q \in Path
  PROVE  Ordered(p, q) \/ Ordered(q, p)
<1> DEFINE Common == {i \in Nat : 1 <= i /\ i <= Len(p) /\ i <= Len(q) /\ p[i] # q[i]}
<1>0. /\ Len(p) \in Nat /\ Len(q) \in Nat
      /\ \A i \in 1..Len(p) : p[i] \in Name
      /\ \A i \in 1..Len(q) : q[i] \in Name
  BY PathFacts
<1>1. CASE Common = {}
  <2>1. \A j \in Nat : 1 <= j /\ j <= Len(p) /\ j <= Len(q) => p[j] = q[j]
    BY <1>1
  <2>2. StartsWith(q, p) \/ StartsWith(p, q)
    BY <1>0, <2>1 DEF StartsWith, AgreeUpTo
  <2> QED BY <2>2 DEF Ordered
<1>2. CASE Common # {}
  <2>1. PICK i \in Common : \A j \in Common : ~(<<j, i>> \in OpToRel(<, Nat))
    BY <1>2, WFMin, NatLessThanWellFounded
  <2>2. \A j \in Common : ~(j < i)
    BY <2>1 DEF OpToRel
  <2>3. AgreeUpTo(p, q, i - 1) /\ AgreeUpTo(q, p, i - 1)
    BY <1>0, <2>2 DEF AgreeUpTo
  <2>4. <<p[i], q[i]>> \in NameOrder \/ <<q[i], p[i]>> \in NameOrder
    BY <1>0, NameOrderIsStrict
  <2>5. i \in (1..Len(p)) \cap (1..Len(q))
    BY <1>0
  <2> QED BY <2>3, <2>4, <2>5 DEF Ordered
<1> QED BY <1>1, <1>2
=============================================================================
