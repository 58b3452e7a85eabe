--------------------------- MODULE ScannerProofs ---------------------------
(***************************************************************************)
(* Proofs about Scanner, for every rule set, filter, change and text.      *)
(***************************************************************************)
EXTENDS Scanner, WellFoundedInduction, SequenceTheorems, FiniteSetTheorems, TLAPS

---------------------------------------------------------------------------
(* Natural numbers *)

\* A set of natural numbers that is not empty has a least element.
LEMMA LeastElement ==
  ASSUME NEW S \in SUBSET Nat, S # {}
  PROVE  \E n \in S : \A k \in S : n <= k
<1>1. PICK n \in S : \A k \in S : ~ <<k, n>> \in OpToRel(<, Nat)
  BY NatLessThanWellFounded, WFMin
<1>2. \A k \in S : <<k, n>> \in Nat \X Nat
  OBVIOUS
<1>3. \A k \in S : ~ k < n
  BY <1>1, <1>2 DEF OpToRel
<1>4. \A k \in S : k \in Nat /\ n \in Nat
  OBVIOUS
<1>5. \A k \in S : n <= k
  BY <1>3, <1>4
<1> QED
  BY <1>5

\* A set that contains 0 and with every number below n the next one contains 0..n.
LEMMA SetInduction ==
  ASSUME NEW n \in Nat, NEW G,
         0 \in G, \A k \in 1..n : k - 1 \in G => k \in G
  PROVE  \A k \in 0..n : k \in G
<1> DEFINE Bad == {k \in 0..n : k \notin G}
<1>1. SUFFICES ASSUME Bad # {}
               PROVE  FALSE
  OBVIOUS
<1>2. PICK k \in Bad : \A j \in Bad : k <= j
  <2>1. Bad \in SUBSET Nat
    OBVIOUS
  <2> HIDE DEF Bad
  <2> QED
    BY <1>1, <2>1, LeastElement
<1>3. k \in 1..n /\ k - 1 \in 0..n
  OBVIOUS
<1>4. k - 1 \in G
  BY <1>2, <1>3
<1> QED
  BY <1>3, <1>4

---------------------------------------------------------------------------
(* Sequences *)

\* A function of an index is a sequence of its values.
LEMMA MappedSequence ==
  ASSUME NEW S, NEW s \in Seq(S), NEW T, NEW f, f = [i \in DOMAIN s |-> f[i]],
         \A i \in DOMAIN s : f[i] \in T
  PROVE  f \in Seq(T) /\ DOMAIN f = DOMAIN s /\ Len(f) = Len(s)
<1>1. Len(s) \in Nat /\ DOMAIN s = 1..Len(s)
  OBVIOUS
<1>2. f \in [1..Len(s) -> T]
  BY <1>1
<1> QED
  BY <1>1, <1>2

\* The elements of a concatenation.
LEMMA AppendedElements ==
  ASSUME NEW T, NEW s \in Seq(T), NEW t \in Seq(T), NEW x
  PROVE  x \in ToSet(s \o t) <=> x \in ToSet(s) \/ x \in ToSet(t)
<1>1. /\ s \o t \in Seq(T) /\ DOMAIN (s \o t) = 1..(Len(s) + Len(t))
      /\ DOMAIN s = 1..Len(s) /\ DOMAIN t = 1..Len(t)
      /\ Len(s) \in Nat /\ Len(t) \in Nat
  OBVIOUS
<1>2. \A i \in 1..(Len(s) + Len(t)) : (s \o t)[i] = IF i <= Len(s) THEN s[i] ELSE t[i - Len(s)]
  OBVIOUS
<1>3. ASSUME NEW i \in DOMAIN t
      PROVE  i + Len(s) \in DOMAIN (s \o t) /\ (s \o t)[i + Len(s)] = t[i]
  BY <1>1, <1>2
<1>4. ASSUME NEW i \in DOMAIN s
      PROVE  i \in DOMAIN (s \o t) /\ (s \o t)[i] = s[i]
  BY <1>1, <1>2
<1>5. ASSUME NEW i \in DOMAIN (s \o t)
      PROVE  \/ i \in DOMAIN s /\ (s \o t)[i] = s[i]
             \/ i - Len(s) \in DOMAIN t /\ (s \o t)[i] = t[i - Len(s)]
  BY <1>1, <1>2
<1> QED
  <2>1. x \in ToSet(s) => x \in ToSet(s \o t)
    BY <1>4 DEF ToSet
  <2>2. x \in ToSet(t) => x \in ToSet(s \o t)
    BY <1>3 DEF ToSet
  <2>3. x \in ToSet(s \o t) => x \in ToSet(s) \/ x \in ToSet(t)
    BY <1>5 DEF ToSet
  <2> QED
    BY <2>1, <2>2, <2>3

\* FlattenSeq appends one sequence after the other.  Its recursive definition is shown
\* to be met by a function, and so by the one it chooses.
Flattens(f, T, ss) == /\ f \in [0..Len(ss) -> Seq(T)]
                      /\ f[0] = <<>>
                      /\ \A i \in 1..Len(ss) : f[i] = f[i - 1] \o ss[i]
                      /\ FlattenSeq(ss) = f[Len(ss)]

LEMMA Flattening ==
  ASSUME NEW T, NEW ss \in Seq(Seq(T))
  PROVE  \E f : Flattens(f, T, ss)
<1> DEFINE n == Len(ss)
           IsPart(f, k) == f = [i \in 1..k |-> IF i = 1 THEN ss[i] ELSE f[i - 1] \o ss[i]]
<1>1. n \in Nat /\ \A i \in 1..n : ss[i] \in Seq(T)
  OBVIOUS
<1>2. CASE n = 0
  <2>1. ss = <<>> /\ FlattenSeq(ss) = <<>>
    BY <1>2 DEF FlattenSeq
  <2> DEFINE f == [i \in 0..0 |-> <<>>]
  <2>2. f \in [0..n -> Seq(T)] /\ f[0] = <<>> /\ f[n] = <<>>
    BY <1>2
  <2>3. \A i \in 1..n : f[i] = f[i - 1] \o ss[i]
    BY <1>2
  <2> HIDE DEF f
  <2>4. Flattens(f, T, ss)
    BY <2>1, <2>2, <2>3 DEF Flattens
  <2> QED
    BY <2>4
<1>3. CASE n # 0
  <2> DEFINE G == {k \in 0..n : k = 0 \/ \E f : IsPart(f, k)}
  <2>1. ASSUME NEW k \in 1..n, k - 1 \in G
        PROVE  k \in G
    <3>1. CASE k = 1
      <4>1. IsPart([i \in 1..1 |-> ss[1]], 1)
        BY <1>1
      <4> HIDE DEF IsPart
      <4> QED
        BY <3>1, <4>1
    <3>2. CASE k # 1
      <4>1. PICK f : IsPart(f, k - 1)
        <5>1. k - 1 # 0
          BY <3>2
        <5> HIDE DEF IsPart
        <5> QED
          BY <2>1, <5>1
      <4> DEFINE g == [i \in 1..k |-> IF i = k THEN f[k - 1] \o ss[k] ELSE f[i]]
      <4>2. \A i \in 1..(k - 1) : f[i] = IF i = 1 THEN ss[i] ELSE f[i - 1] \o ss[i]
        BY <4>1
      <4>3. \A i \in 1..k : g[i] = IF i = 1 THEN ss[i] ELSE g[i - 1] \o ss[i]
        BY <3>2, <4>2
      <4>4. IsPart(g, k)
        <5> HIDE DEF IsPart
        <5>1. g = [i \in 1..k |-> g[i]]
          OBVIOUS
        <5> HIDE DEF g
        <5> QED
          BY <4>3, <5>1 DEF IsPart
      <4> HIDE DEF g, IsPart
      <4> QED
        BY <4>4
    <3> QED
      BY <3>1, <3>2
  <2>2. 0 \in G
    BY <1>1
  <2>3. n \in G
    <3> HIDE DEF G
    <3>1. \A k \in 0..n : k \in G
      BY <1>1, <2>1, <2>2, SetInduction
    <3> QED
      BY <1>1, <3>1
  <2>4. \E f : IsPart(f, n)
    BY <1>3, <2>3
  <2> DEFINE flat == CHOOSE f : IsPart(f, n)
  <2>5. IsPart(flat, n)
    <3> HIDE DEF IsPart
    <3> QED
      BY <2>4
  <2>6. FlattenSeq(ss) = flat[n]
    BY <1>3 DEF FlattenSeq
  <2> HIDE DEF flat, G
  <2>7. \A i \in 1..n : flat[i] = IF i = 1 THEN ss[i] ELSE flat[i - 1] \o ss[i]
    BY <2>5
  <2> HIDE DEF IsPart
  <2> DEFINE H == {k \in 0..n : k = 0 \/ flat[k] \in Seq(T)}
  <2>8. ASSUME NEW k \in 1..n, k - 1 \in H
        PROVE  k \in H
    <3>1. ss[k] \in Seq(T) /\ k \in 0..n
      BY <1>1
    <3>2. CASE k = 1
      BY <2>7, <3>1, <3>2
    <3>3. CASE k # 1
      <4>1. k - 1 # 0
        BY <3>3
      <4>2. flat[k - 1] \in Seq(T)
        BY <2>8, <4>1
      <4>3. flat[k] = flat[k - 1] \o ss[k]
        BY <2>7, <3>3
      <4>4. flat[k] \in Seq(T)
        BY <3>1, <4>2, <4>3
      <4> QED
        BY <3>1, <4>4
    <3> QED
      BY <3>2, <3>3
  <2>9. \A k \in 0..n : k \in H
    <3>1. 0 \in H
      BY <1>1
    <3> HIDE DEF H
    <3> QED
      BY <1>1, <2>8, <3>1, SetInduction
  <2> DEFINE whole == [i \in 0..n |-> IF i = 0 THEN <<>> ELSE flat[i]]
  <2>10. whole \in [0..n -> Seq(T)] /\ whole[0] = <<>> /\ whole[n] = flat[n]
    BY <1>1, <1>3, <2>9
  <2>11. \A i \in 1..n : whole[i] = whole[i - 1] \o ss[i]
    <3> TAKE i \in 1..n
    <3>1. CASE i = 1
      BY <1>1, <2>7, <3>1
    <3>2. CASE i # 1
      <4>1. i \in 0..n /\ i - 1 \in 0..n /\ i # 0 /\ i - 1 # 0
        BY <1>1, <3>2
      <4>2. whole[i] = flat[i] /\ whole[i - 1] = flat[i - 1]
        BY <4>1
      <4> QED
        BY <2>7, <3>2, <4>2
    <3> QED
      BY <3>1, <3>2
  <2> HIDE DEF whole
  <2>12. Flattens(whole, T, ss)
    BY <2>6, <2>10, <2>11 DEF Flattens
  <2> QED
    BY <2>12
<1> QED
  BY <1>2, <1>3

\* It has the elements of all of them.
LEMMA FlattenFacts ==
  ASSUME NEW T, NEW ss \in Seq(Seq(T))
  PROVE  /\ FlattenSeq(ss) \in Seq(T)
         /\ \A x : x \in ToSet(FlattenSeq(ss)) <=> \E i \in DOMAIN ss : x \in ToSet(ss[i])
<1>0. PICK f : Flattens(f, T, ss)
  BY Flattening
<1>1. /\ f \in [0..Len(ss) -> Seq(T)]
      /\ f[0] = <<>>
      /\ \A i \in 1..Len(ss) : f[i] = f[i - 1] \o ss[i]
      /\ FlattenSeq(ss) = f[Len(ss)]
  BY <1>0 DEF Flattens
<1>2. Len(ss) \in Nat /\ DOMAIN ss = 1..Len(ss) /\ \A i \in 1..Len(ss) : ss[i] \in Seq(T)
  OBVIOUS
<1> DEFINE G == {k \in 0..Len(ss) :
                   \A x : x \in ToSet(f[k]) <=> \E i \in 1..k : x \in ToSet(ss[i])}
<1>3. 0 \in G
  BY <1>1, <1>2 DEF ToSet
<1>4. ASSUME NEW k \in 1..Len(ss), k - 1 \in G
      PROVE  k \in G
  <2>1. /\ f[k] = f[k - 1] \o ss[k] /\ f[k - 1] \in Seq(T) /\ ss[k] \in Seq(T)
        /\ k \in Nat
    <3>1. k \in Nat /\ k - 1 \in 0..Len(ss)
      BY <1>2
    <3> QED
      BY <1>1, <1>2, <3>1
  <2>2. \A x : x \in ToSet(f[k]) <=> x \in ToSet(f[k - 1]) \/ x \in ToSet(ss[k])
    BY <2>1, AppendedElements
  <2>3. \A x : x \in ToSet(f[k - 1]) <=> \E i \in 1..(k - 1) : x \in ToSet(ss[i])
    BY <1>4
  <2>4. \A i : i \in 1..k <=> i \in 1..(k - 1) \/ i = k
    BY <2>1
  <2> QED
    BY <2>2, <2>3, <2>4
<1>5. Len(ss) \in G
  <2> HIDE DEF G
  <2>1. \A k \in 0..Len(ss) : k \in G
    BY <1>2, <1>3, <1>4, SetInduction
  <2> QED
    BY <1>2, <2>1
<1> QED
  BY <1>1, <1>2, <1>5

---------------------------------------------------------------------------
(* Selections *)

LEMMA SelectedFacts ==
  ASSUME NEW T, NEW s \in Seq(T), NEW kept
  PROVE  /\ Selected(s, kept) \in Seq(T)
         /\ \A x : x \in ToSet(Selected(s, kept)) <=> x \in ToSet(s) /\ x \in kept
<1> DEFINE ss == [i \in DOMAIN s |-> IF s[i] \in kept THEN <<s[i]>> ELSE <<>>]
<1>1. ss \in Seq(Seq(T)) /\ DOMAIN ss = DOMAIN s
  <2>1. ss = [i \in DOMAIN s |-> ss[i]] /\ \A i \in DOMAIN s : ss[i] \in Seq(T)
    OBVIOUS
  <2> HIDE DEF ss
  <2> QED
    BY <2>1, MappedSequence
<1>2. Selected(s, kept) = FlattenSeq(ss)
  BY DEF Selected
<1>3. \A i \in DOMAIN s : \A x : x \in ToSet(ss[i]) <=> x = s[i] /\ x \in kept
  BY DEF ToSet
<1> HIDE DEF ss
<1>4. /\ FlattenSeq(ss) \in Seq(T)
      /\ \A x : x \in ToSet(FlattenSeq(ss)) <=> \E i \in DOMAIN ss : x \in ToSet(ss[i])
  BY <1>1, FlattenFacts
<1>5. \A x : x \in ToSet(s) <=> \E i \in DOMAIN s : x = s[i]
  BY DEF ToSet
<1> QED
  BY <1>1, <1>2, <1>3, <1>4, <1>5

\* How a selection grows along the sequence.
Selects(f, T, s, kept) ==
  /\ f \in [0..Len(s) -> Seq(T)]
  /\ f[0] = <<>>
  /\ \A i \in 1..Len(s) : f[i] = IF s[i] \in kept THEN Append(f[i - 1], s[i]) ELSE f[i - 1]
  /\ Selected(s, kept) = f[Len(s)]

LEMMA Selecting ==
  ASSUME NEW T, NEW s \in Seq(T), NEW kept
  PROVE  \E f : Selects(f, T, s, kept)
<1> DEFINE ss == [i \in DOMAIN s |-> IF s[i] \in kept THEN <<s[i]>> ELSE <<>>]
<1>0. DOMAIN s = 1..Len(s) /\ Len(s) \in Nat
  OBVIOUS
<1>1. ss \in Seq(Seq(T)) /\ Len(ss) = Len(s)
  <2>1. ss = [i \in DOMAIN s |-> ss[i]] /\ \A i \in DOMAIN s : ss[i] \in Seq(T)
    OBVIOUS
  <2> HIDE DEF ss
  <2> QED
    BY <2>1, MappedSequence
<1>2. Selected(s, kept) = FlattenSeq(ss)
  BY DEF Selected
<1>3. \A i \in 1..Len(s) : ss[i] = (IF s[i] \in kept THEN <<s[i]>> ELSE <<>>) /\ s[i] \in T
  BY <1>0
<1> HIDE DEF ss
<1>4. PICK f : Flattens(f, T, ss)
  BY <1>1, Flattening
<1>5. /\ f \in [0..Len(s) -> Seq(T)]
      /\ f[0] = <<>>
      /\ \A i \in 1..Len(s) : f[i] = f[i - 1] \o ss[i]
      /\ Selected(s, kept) = f[Len(s)]
  BY <1>1, <1>2, <1>4 DEF Flattens
<1>6. ASSUME NEW i \in 1..Len(s)
      PROVE  f[i] = IF s[i] \in kept THEN Append(f[i - 1], s[i]) ELSE f[i - 1]
  <2>1. i - 1 \in 0..Len(s)
    BY <1>0
  <2>2. f[i - 1] \in Seq(T) /\ s[i] \in T
    BY <1>3, <1>5, <2>1
  <2>3. f[i] = f[i - 1] \o ss[i]
    BY <1>5
  <2>4. CASE s[i] \in kept
    <3>1. f[i] = f[i - 1] \o <<s[i]>>
      BY <1>3, <2>3, <2>4
    <3> QED
      BY <2>2, <2>4, <3>1
  <2>5. CASE s[i] \notin kept
    <3>1. f[i] = f[i - 1] \o <<>>
      BY <1>3, <2>3, <2>5
    <3> QED
      BY <2>2, <2>5, <3>1
  <2> QED
    BY <2>4, <2>5
<1>7. Selects(f, T, s, kept)
  BY <1>5, <1>6 DEF Selects
<1> QED
  BY <1>7

\* The first selected element is the first of the sequence that is kept.
LEMMA FirstSelected ==
  ASSUME NEW T, NEW s \in Seq(T), NEW kept, NEW i \in DOMAIN s, s[i] \in kept,
         \A j \in DOMAIN s : s[j] \in kept => i <= j
  PROVE  Head(Selected(s, kept)) = s[i]
<1>1. Len(s) \in Nat /\ DOMAIN s = 1..Len(s) /\ \A j \in 1..Len(s) : s[j] \in T
  OBVIOUS
<1>2. PICK f : Selects(f, T, s, kept)
  BY Selecting
<1>3. /\ f \in [0..Len(s) -> Seq(T)]
      /\ f[0] = <<>>
      /\ \A j \in 1..Len(s) : f[j] = IF s[j] \in kept THEN Append(f[j - 1], s[j]) ELSE f[j - 1]
      /\ Selected(s, kept) = f[Len(s)]
  BY <1>2 DEF Selects
<1> DEFINE G == {k \in 0..Len(s) : IF k < i THEN f[k] = <<>> ELSE f[k] # <<>> /\ f[k][1] = s[i]}
<1>4. 0 \in G
  BY <1>1, <1>3
<1>5. ASSUME NEW k \in 1..Len(s), k - 1 \in G
      PROVE  k \in G
  <2>1. /\ f[k] = IF s[k] \in kept THEN Append(f[k - 1], s[k]) ELSE f[k - 1]
        /\ f[k - 1] \in Seq(T) /\ s[k] \in T /\ k \in Nat /\ i \in Nat
    <3>1. k - 1 \in 0..Len(s) /\ k \in Nat /\ i \in Nat
      BY <1>1
    <3> QED
      BY <1>1, <1>3, <3>1
  <2>2. CASE k < i
    <3>1. s[k] \notin kept
      BY <1>1, <2>1, <2>2
    <3> QED
      BY <1>5, <2>1, <2>2, <3>1
  <2>3. CASE k = i
    BY <1>5, <2>1, <2>3
  <2>4. CASE k > i
    <3>1. f[k - 1] # <<>> /\ f[k - 1][1] = s[i]
      BY <1>5, <2>1, <2>4
    <3>2. Len(f[k - 1]) \in Nat /\ Len(f[k - 1]) >= 1
      BY <2>1, <3>1
    <3>3. f[k] # <<>> /\ f[k][1] = s[i]
      BY <2>1, <3>1, <3>2
    <3>4. k \in 0..Len(s) /\ ~ (k < i)
      BY <1>1, <2>1, <2>4
    <3> QED
      BY <3>3, <3>4
  <2> QED
    BY <2>1, <2>2, <2>3, <2>4
<1>6. Len(s) \in G
  <2> HIDE DEF G
  <2>1. \A k \in 0..Len(s) : k \in G
    BY <1>1, <1>4, <1>5, SetInduction
  <2> QED
    BY <1>1, <2>1
<1>7. f[Len(s)] # <<>> /\ f[Len(s)][1] = s[i]
  BY <1>1, <1>6
<1> QED
  BY <1>3, <1>7

\* The selection of one element.
LEMMA OneSelected ==
  ASSUME NEW T, NEW x \in T, NEW kept
  PROVE  Selected(<<x>>, kept) = IF x \in kept THEN <<x>> ELSE <<>>
<1>1. <<x>> \in Seq(T)
  OBVIOUS
<1>2. SUFFICES ASSUME NEW s \in Seq(T), s = <<x>>
               PROVE  Selected(s, kept) = IF x \in kept THEN <<x>> ELSE <<>>
  BY <1>1
<1>3. PICK f : Selects(f, T, s, kept)
  BY Selecting
<1>4. Len(s) = 1 /\ s[1] = x
  BY <1>2
<1>5. Selected(s, kept) = IF x \in kept THEN Append(<<>>, x) ELSE <<>>
  BY <1>3, <1>4 DEF Selects
<1> QED
  BY <1>5

---------------------------------------------------------------------------
(* Indexes *)

\* The place of an index among those that are kept: the number of those up to it.
Place(kept, i) == Cardinality({j \in 1..i : j \in kept})

\* The indexes that are kept are in order, each at its place.
LEMMA IndexesFacts ==
  ASSUME NEW n \in Nat, NEW s, DOMAIN s = 1..n, NEW kept \in SUBSET (1..n)
  PROVE  /\ Indexes(s, kept) \in Seq(kept)
         /\ Len(Indexes(s, kept)) = Cardinality(kept)
         /\ \A i \in kept : /\ Place(kept, i) \in 1..Cardinality(kept)
                            /\ Indexes(s, kept)[Place(kept, i)] = i
         /\ \A q \in 1..Cardinality(kept) : \E i \in kept : q = Place(kept, i)
<1> DEFINE all == [i \in 1..n |-> i]
           p(i) == Cardinality({j \in 1..i : j \in kept})
<1>1. all \in Seq(1..n) /\ Len(all) = n /\ (\A i \in 1..n : all[i] = i)
      /\ Indexes(s, kept) = Selected(all, kept)
  BY DEF Indexes
<1> HIDE DEF all
<1>2. PICK f : Selects(f, 1..n, all, kept)
  BY <1>1, Selecting
<1>3. /\ f \in [0..n -> Seq(1..n)] /\ f[0] = <<>> /\ Indexes(s, kept) = f[n]
      /\ \A i \in 1..n : f[i] = IF i \in kept THEN Append(f[i - 1], i) ELSE f[i - 1]
  BY <1>1, <1>2 DEF Selects
<1>4. p(0) = 0 /\ \A k \in 1..n : /\ p(k - 1) \in Nat
                                  /\ p(k) = IF k \in kept THEN p(k - 1) + 1 ELSE p(k - 1)
  <2>1. {j \in 1..0 : j \in kept} = {}
    OBVIOUS
  <2>2. ASSUME NEW k \in 1..n
        PROVE  /\ p(k - 1) \in Nat
               /\ p(k) = IF k \in kept THEN p(k - 1) + 1 ELSE p(k - 1)
    <3> DEFINE S == {j \in 1..(k - 1) : j \in kept}
    <3>1. IsFiniteSet(S)
      <4>1. IsFiniteSet(1..(k - 1)) /\ S \subseteq 1..(k - 1)
        <5>1. k - 1 \in Int /\ 1 \in Int
          OBVIOUS
        <5> QED
          BY <5>1, FS_Interval
      <4> HIDE DEF S
      <4> QED
        BY <4>1, FS_Subset
    <3>2. {j \in 1..k : j \in kept} = IF k \in kept THEN S \cup {k} ELSE S
      OBVIOUS
    <3>3. k \notin S
      OBVIOUS
    <3>4. p(k - 1) = Cardinality(S)
      OBVIOUS
    <3> HIDE DEF S
    <3>5. Cardinality(S) \in Nat /\ Cardinality(S \cup {k}) = Cardinality(S) + 1
      BY <3>1, <3>3, FS_CardinalityType, FS_AddElement
    <3>6. p(k) = IF k \in kept THEN Cardinality(S \cup {k}) ELSE Cardinality(S)
      BY <3>2
    <3> HIDE DEF p
    <3> QED
      BY <3>4, <3>5, <3>6
  <2> QED
    BY <2>1, <2>2, FS_EmptySet
<1>5. p(n) = Cardinality(kept)
  <2>1. {j \in 1..n : j \in kept} = kept
    OBVIOUS
  <2> QED
    BY <2>1
<1> HIDE DEF p
<1> DEFINE Right(k) == /\ f[k] \in Seq(kept)
                       /\ Len(f[k]) = p(k)
                       /\ \A i \in kept : i <= k => p(i) \in 1..p(k) /\ f[k][p(i)] = i
                       /\ \A q \in 1..p(k) : \E i \in kept : q = p(i)
           G == {k \in 0..n : Right(k)}
<1>6. 0 \in G
  BY <1>3, <1>4
<1>7. ASSUME NEW k \in 1..n, k - 1 \in G
      PROVE  k \in G
  <2>1. /\ p(k - 1) \in Nat
        /\ p(k) = IF k \in kept THEN p(k - 1) + 1 ELSE p(k - 1)
        /\ f[k] = IF k \in kept THEN Append(f[k - 1], k) ELSE f[k - 1]
        /\ Right(k - 1)
        /\ k \in 0..n /\ \A i \in kept : i \in Nat
    <3>1. Right(k - 1)
      BY <1>7
    <3>2. k \in 0..n /\ \A i \in kept : i \in Nat
      OBVIOUS
    <3> HIDE DEF Right, G
    <3> QED
      BY <1>3, <1>4, <3>1, <3>2
  <2>2. CASE k \in kept
    <3>1. /\ f[k] = Append(f[k - 1], k) /\ p(k) = p(k - 1) + 1
          /\ f[k - 1] \in Seq(kept) /\ Len(f[k - 1]) = p(k - 1)
      BY <2>1, <2>2
    <3>2. /\ f[k] \in Seq(kept) /\ Len(f[k]) = p(k) /\ f[k][p(k)] = k
          /\ \A q \in 1..p(k - 1) : f[k][q] = f[k - 1][q]
      BY <2>1, <2>2, <3>1
    <3>3. ASSUME NEW i \in kept, i <= k
          PROVE  p(i) \in 1..p(k) /\ f[k][p(i)] = i
      <4>1. CASE i = k
        BY <2>1, <3>1, <3>2, <4>1
      <4>2. CASE i # k
        <5>1. i <= k - 1
          BY <2>1, <3>3, <4>2
        <5>2. p(i) \in 1..p(k - 1) /\ f[k - 1][p(i)] = i
          BY <2>1, <5>1
        <5> QED
          BY <2>1, <3>1, <3>2, <5>2
      <4> QED
        BY <4>1, <4>2
    <3>4. ASSUME NEW q \in 1..p(k)
          PROVE  \E i \in kept : q = p(i)
      <4>1. CASE q = p(k)
        BY <2>2, <4>1
      <4>2. CASE q # p(k)
        <5>1. q \in 1..p(k - 1)
          BY <2>1, <3>1, <4>2
        <5> QED
          BY <2>1, <5>1
      <4> QED
        BY <4>1, <4>2
    <3> QED
      BY <2>1, <3>2, <3>3, <3>4
  <2>3. CASE k \notin kept
    <3>1. f[k] = f[k - 1] /\ p(k) = p(k - 1)
      BY <2>1, <2>3
    <3>2. \A i \in kept : i <= k => i <= k - 1
      BY <2>1, <2>3
    <3> QED
      BY <2>1, <3>1, <3>2
  <2> QED
    BY <2>2, <2>3
<1>8. Right(n)
  <2> HIDE DEF Right
  <2>1. \A k \in 0..n : k \in G
    <3> HIDE DEF G
    <3> QED
      BY <1>6, <1>7, SetInduction
  <2> QED
    BY <2>1
<1>9. \A i \in kept : i <= n
  OBVIOUS
<1> QED
  BY <1>3, <1>5, <1>8, <1>9 DEF p, Place

LEMMA IndexesSet ==
  ASSUME NEW n \in Nat, NEW s, DOMAIN s = 1..n, NEW kept
  PROVE  /\ Indexes(s, kept) \in Seq(1..n)
         /\ \A i : i \in ToSet(Indexes(s, kept)) <=> i \in 1..n /\ i \in kept
<1> DEFINE all == [i \in 1..n |-> i]
<1>1. all \in Seq(1..n) /\ ToSet(all) = 1..n /\ Indexes(s, kept) = Selected(all, kept)
  BY DEF Indexes, ToSet
<1> HIDE DEF all
<1>2. /\ Selected(all, kept) \in Seq(1..n)
      /\ \A i : i \in ToSet(Selected(all, kept)) <=> i \in ToSet(all) /\ i \in kept
  BY <1>1, SelectedFacts
<1> QED
  BY <1>1, <1>2

---------------------------------------------------------------------------
(* Scanning one value *)

MatchesOf(rs) == [rule : DOMAIN rs, text : Words]

Texts == Seq(Words)

\* The matches of a list of tokens that the allowlist does not name.
LEMMA SurvivingFacts ==
  ASSUME NEW rs \in Seq(Rules), NEW i \in DOMAIN rs, NEW tokens \in Texts
  PROVE  /\ Surviving(rs, i, tokens) \in Seq(MatchesOf(rs))
         /\ \A m : m \in ToSet(Surviving(rs, i, tokens))
                     <=> \E t \in ToSet(tokens) \ rs[i].allow : m = Match(i, t)
<1> DEFINE kept == Selected(tokens, {t \in ToSet(tokens) : ~ IsAllowed(rs[i], t)})
           found == [j \in DOMAIN kept |-> Match(i, kept[j])]
<1>1. /\ kept \in Seq(Words)
      /\ \A t : t \in ToSet(kept) <=> t \in ToSet(tokens) /\ t \notin rs[i].allow
  BY SelectedFacts DEF Texts, IsAllowed
<1>2. Surviving(rs, i, tokens) = found
  BY DEF Surviving
<1> HIDE DEF kept
<1>3. \A j \in DOMAIN kept : kept[j] \in Words
  BY <1>1
<1>4. found \in Seq(MatchesOf(rs))
  <2>1. found = [j \in DOMAIN kept |-> found[j]] /\ \A j \in DOMAIN kept : found[j] \in MatchesOf(rs)
    BY <1>3 DEF Match, MatchesOf
  <2> HIDE DEF found
  <2> QED
    BY <1>1, <2>1, MappedSequence
<1>5. \A m : m \in ToSet(found) <=> \E t \in ToSet(kept) : m = Match(i, t)
  BY DEF ToSet
<1> HIDE DEF found
<1> QED
  BY <1>1, <1>2, <1>4, <1>5

LEMMA FirstElement ==
  ASSUME NEW T, NEW s \in Seq(T), s # <<>>
  PROVE  s[1] \in ToSet(s)
<1>1. 1 \in DOMAIN s
  OBVIOUS
<1> QED
  BY <1>1 DEF ToSet

LEMMA FoundFacts ==
  ASSUME NEW rule, NEW text \in Texts
  PROVE  /\ Found(rule, text) \in Texts
         /\ \A t : t \in ToSet(Found(rule, text)) <=> t \in ToSet(text) /\ t \in rule.finds
BY SelectedFacts DEF Found, Texts

\* A regex rule has the leftmost match, if it is valid and not allowed.
LEMMA RegexMatchesFacts ==
  ASSUME NEW rs \in Seq(Rules), NEW i \in DOMAIN rs, NEW text \in Texts,
         rs[i].type = "regex", Found(rs[i], text) # <<>>
  PROVE  /\ RegexMatches(rs, i, text) \in Seq(MatchesOf(rs))
         /\ \A m : m \in ToSet(RegexMatches(rs, i, text))
                     <=> \E t \in Detects(rs[i], text) : m = Match(i, t)
<1> DEFINE rule == rs[i]
           at == {j \in DOMAIN text : text[j] \in rule.finds}
           token == Head(Found(rule, text))
<1>0. DOMAIN text = 1..Len(text) /\ Len(text) \in Nat /\ \A j \in DOMAIN text : text[j] \in Words
  BY DEF Texts
<1>1. PICK first \in at : \A j \in at : first <= j
  <2>1. at \in SUBSET Nat
    BY <1>0
  <2>2. at # {}
    <3>1. Found(rule, text) \in Texts
      BY FoundFacts
    <3>2. Found(rule, text)[1] \in ToSet(Found(rule, text))
      BY <3>1, FirstElement DEF Texts
    <3>3. PICK t : t \in ToSet(text) /\ t \in rule.finds
      BY <3>2, FoundFacts
    <3>4. PICK j \in DOMAIN text : t = text[j]
      BY <3>3 DEF ToSet
    <3> QED
      BY <3>3, <3>4
  <2> HIDE DEF at
  <2> QED
    BY <2>1, <2>2, LeastElement
<1>2. token = text[first] /\ token \in Words
  <2>1. first \in DOMAIN text /\ text[first] \in rule.finds
        /\ \A j \in DOMAIN text : text[j] \in rule.finds => first <= j
    BY <1>1
  <2>2. Head(Selected(text, rule.finds)) = text[first]
    BY <2>1, FirstSelected DEF Texts
  <2> QED
    BY <1>0, <2>1, <2>2 DEF Found
<1>3. Detects(rule, text) = {t \in {token} : t \in rule.valid /\ t \notin rule.allow}
  <2>1. {j \in at : \A k \in at : j <= k} = {first}
    BY <1>0, <1>1
  <2>2. Detects(rule, text) = {text[j] : j \in {j \in at : (\A k \in at : j <= k) /\ text[j] \in rule.valid}}
                                \ rule.allow
    BY DEF Detects
  <2> HIDE DEF at, token, rule
  <2> QED
    BY <1>2, <2>1, <2>2
<1>4. RegexMatches(rs, i, text) = IF token \in rule.valid THEN Surviving(rs, i, <<token>>) ELSE <<>>
  BY DEF RegexMatches
<1>5. <<token>> \in Texts /\ ToSet(<<token>>) = {token}
  <2> HIDE DEF token
  <2> QED
    BY <1>2 DEF Texts, ToSet
<1> HIDE DEF token
<1>6. /\ Surviving(rs, i, <<token>>) \in Seq(MatchesOf(rs))
      /\ \A m : m \in ToSet(Surviving(rs, i, <<token>>))
                  <=> \E t \in {token} \ rule.allow : m = Match(i, t)
  <2>1. SUFFICES ASSUME NEW tokens \in Texts, ToSet(tokens) = {token}
                 PROVE  /\ Surviving(rs, i, tokens) \in Seq(MatchesOf(rs))
                        /\ \A m : m \in ToSet(Surviving(rs, i, tokens))
                                    <=> \E t \in {token} \ rule.allow : m = Match(i, t)
    BY <1>5
  <2>2. /\ Surviving(rs, i, tokens) \in Seq(MatchesOf(rs))
        /\ \A m : m \in ToSet(Surviving(rs, i, tokens))
                    <=> \E t \in ToSet(tokens) \ rs[i].allow : m = Match(i, t)
    BY SurvivingFacts
  <2> QED
    BY <2>1, <2>2
<1>7. <<>> \in Seq(MatchesOf(rs)) /\ ToSet(<<>>) = {}
  BY DEF ToSet
<1> QED
  BY <1>3, <1>4, <1>6, <1>7

\* Without an element found there is nothing to detect.
LEMMA NothingFound ==
  ASSUME NEW rule, NEW text \in Texts, Found(rule, text) = <<>>
  PROVE  Detects(rule, text) = {}
<1>1. ToSet(Found(rule, text)) = {}
  BY DEF ToSet
<1>2. \A j \in DOMAIN text : text[j] \notin rule.finds
  BY <1>1, FoundFacts DEF ToSet
<1> QED
  BY <1>2 DEF Detects

\* The rules of a type, in their order.
LEMMA IndicesFacts ==
  ASSUME NEW rs \in Seq(Rules), NEW type
  PROVE  /\ Indices(rs, type) \in Seq(DOMAIN rs)
         /\ \A i : i \in ToSet(Indices(rs, type)) <=> i \in DOMAIN rs /\ rs[i].type = type
<1>1. Len(rs) \in Nat /\ DOMAIN rs = 1..Len(rs)
  OBVIOUS
<1> DEFINE kept == {i \in DOMAIN rs : rs[i].type = type}
<1>2. \A i : i \in kept <=> i \in DOMAIN rs /\ rs[i].type = type
  OBVIOUS
<1>3. Indices(rs, type) = Indexes(rs, kept)
  BY DEF Indices
<1> HIDE DEF kept
<1>4. /\ Indexes(rs, kept) \in Seq(1..Len(rs))
      /\ \A i : i \in ToSet(Indexes(rs, kept)) <=> i \in 1..Len(rs) /\ i \in kept
  BY <1>1, IndexesSet
<1> QED
  BY <1>1, <1>2, <1>3, <1>4

\* The sequences that the elements of another are mapped to, one after the other.
LEMMA FlatMapped ==
  ASSUME NEW S, NEW s \in Seq(S), NEW T, NEW ss, ss = [i \in DOMAIN s |-> ss[i]],
         \A i \in DOMAIN s : ss[i] \in Seq(T)
  PROVE  /\ FlattenSeq(ss) \in Seq(T)
         /\ \A x : x \in ToSet(FlattenSeq(ss)) <=> \E i \in DOMAIN s : x \in ToSet(ss[i])
<1>1. ss \in Seq(Seq(T)) /\ DOMAIN ss = DOMAIN s
  BY MappedSequence
<1> QED
  BY <1>1, FlattenFacts

\* What the rules of a type find, as their documentation says.
Detected(rs, text, type, m) ==
  \E i \in DOMAIN rs : /\ rs[i].type = type
                       /\ \E t \in Detects(rs[i], text) : m = Match(i, t)

\* The prefilter and the mapping back from its positions lose no regex rule.
LEMMA ScanRegexesFacts ==
  ASSUME NEW rs \in Seq(Rules), NEW text \in Texts
  PROVE  /\ ScanRegexes(rs, text) \in Seq(MatchesOf(rs))
         /\ \A m : m \in ToSet(ScanRegexes(rs, text)) <=> Detected(rs, text, "regex", m)
<1> DEFINE regexes == Indices(rs, "regex")
           found == {s \in DOMAIN regexes : Found(rs[regexes[s]], text) # <<>>}
           hits == SetMatches(rs, text)
           ss == [h \in DOMAIN hits |-> RegexMatches(rs, RuleOfMatch(rs, hits[h]), text)]
<1>1. /\ regexes \in Seq(DOMAIN rs) /\ Len(regexes) \in Nat /\ DOMAIN regexes = 1..Len(regexes)
      /\ \A i : i \in ToSet(regexes) <=> i \in DOMAIN rs /\ rs[i].type = "regex"
  BY IndicesFacts
<1>2. hits = Indexes(regexes, found)
  BY DEF SetMatches
<1>3. \A h \in DOMAIN hits : ss[h] = RegexMatches(rs, regexes[hits[h]], text)
  BY DEF RuleOfMatch
<1>4. ScanRegexes(rs, text) = FlattenSeq(ss)
  BY DEF ScanRegexes
<1>5. \A s : s \in found <=> s \in DOMAIN regexes /\ Found(rs[regexes[s]], text) # <<>>
  OBVIOUS
<1>6. ss = [h \in DOMAIN hits |-> ss[h]]
  OBVIOUS
<1> HIDE DEF regexes, found, hits, ss
<1>7. /\ hits \in Seq(1..Len(regexes))
      /\ \A s : s \in ToSet(hits) <=> s \in 1..Len(regexes) /\ s \in found
  BY <1>1, <1>2, IndexesSet
<1>8. ASSUME NEW s \in found
      PROVE  LET i == regexes[s]
             IN  /\ i \in DOMAIN rs /\ rs[i].type = "regex"
                 /\ RegexMatches(rs, i, text) \in Seq(MatchesOf(rs))
                 /\ \A m : m \in ToSet(RegexMatches(rs, i, text))
                             <=> \E t \in Detects(rs[i], text) : m = Match(i, t)
  <2>1. PICK i \in DOMAIN rs : i = regexes[s]
    BY <1>1, <1>5
  <2>2. rs[i].type = "regex" /\ Found(rs[i], text) # <<>>
    <3>1. i \in ToSet(regexes)
      BY <1>5, <2>1 DEF ToSet
    <3> QED
      BY <1>1, <1>5, <2>1, <3>1
  <2>3. /\ RegexMatches(rs, i, text) \in Seq(MatchesOf(rs))
        /\ \A m : m \in ToSet(RegexMatches(rs, i, text))
                    <=> \E t \in Detects(rs[i], text) : m = Match(i, t)
    BY <2>2, RegexMatchesFacts
  <2> QED
    BY <2>1, <2>2, <2>3
<1>9. \A h \in DOMAIN hits : hits[h] \in found
  BY <1>7 DEF ToSet
<1>10. /\ FlattenSeq(ss) \in Seq(MatchesOf(rs))
       /\ \A m : m \in ToSet(FlattenSeq(ss)) <=> \E h \in DOMAIN hits : m \in ToSet(ss[h])
  <2>1. \A h \in DOMAIN hits : ss[h] \in Seq(MatchesOf(rs))
    BY <1>3, <1>8, <1>9
  <2> QED
    BY <1>6, <1>7, <2>1, FlatMapped
<1>11. ASSUME NEW m, NEW h \in DOMAIN hits, m \in ToSet(ss[h])
       PROVE  Detected(rs, text, "regex", m)
  <2>1. PICK i \in DOMAIN rs : i = regexes[hits[h]]
    BY <1>8, <1>9
  <2>2. rs[i].type = "regex" /\ \E t \in Detects(rs[i], text) : m = Match(i, t)
    BY <1>3, <1>8, <1>9, <1>11, <2>1
  <2> QED
    BY <2>2 DEF Detected
<1>12. ASSUME NEW m, Detected(rs, text, "regex", m)
       PROVE  \E h \in DOMAIN hits : m \in ToSet(ss[h])
  <2>1. PICK i \in DOMAIN rs : rs[i].type = "regex" /\ \E t \in Detects(rs[i], text) : m = Match(i, t)
    BY <1>12 DEF Detected
  <2>2. PICK s \in DOMAIN regexes : i = regexes[s]
    BY <1>1, <2>1 DEF ToSet
  <2>3. s \in found
    BY <1>5, <2>1, <2>2, NothingFound
  <2>4. PICK h \in DOMAIN hits : hits[h] = s
    BY <1>1, <1>7, <2>3 DEF ToSet
  <2>5. m \in ToSet(ss[h])
    BY <1>3, <1>8, <2>1, <2>2, <2>3, <2>4
  <2> QED
    BY <2>5
<1> QED
  BY <1>4, <1>10, <1>11, <1>12

\* The other two phases, which have one list of matches per rule of their type.
LEMMA PhaseFacts ==
  ASSUME NEW rs \in Seq(Rules), NEW text \in Texts, NEW type, NEW tokens, NEW ss,
         \A i \in DOMAIN rs : rs[i].type = type =>
           /\ tokens[i] \in Texts
           /\ \A t : t \in ToSet(tokens[i]) /\ t \notin rs[i].allow <=> t \in Detects(rs[i], text),
         ss = [b \in DOMAIN Indices(rs, type) |-> ss[b]],
         \A b \in DOMAIN Indices(rs, type) :
           ss[b] = Surviving(rs, Indices(rs, type)[b], tokens[Indices(rs, type)[b]])
  PROVE  /\ FlattenSeq(ss) \in Seq(MatchesOf(rs))
         /\ \A m : m \in ToSet(FlattenSeq(ss)) <=> Detected(rs, text, type, m)
<1> DEFINE members == Indices(rs, type)
<1>1. /\ members \in Seq(DOMAIN rs)
      /\ \A i : i \in ToSet(members) <=> i \in DOMAIN rs /\ rs[i].type = type
  BY IndicesFacts
<1>2. /\ ss = [b \in DOMAIN members |-> ss[b]]
      /\ \A b \in DOMAIN members : ss[b] = Surviving(rs, members[b], tokens[members[b]])
  OBVIOUS
<1> HIDE DEF members
<1>3. ASSUME NEW b \in DOMAIN members
      PROVE  LET i == members[b]
             IN  /\ i \in DOMAIN rs /\ rs[i].type = type
                 /\ ss[b] \in Seq(MatchesOf(rs))
                 /\ \A m : m \in ToSet(ss[b]) <=> \E t \in Detects(rs[i], text) : m = Match(i, t)
  <2>1. PICK i \in DOMAIN rs : i = members[b]
    BY <1>1
  <2>2. rs[i].type = type
    <3>1. i \in ToSet(members)
      BY <2>1 DEF ToSet
    <3> QED
      BY <1>1, <3>1
  <2>3. /\ tokens[i] \in Texts
        /\ \A t : t \in ToSet(tokens[i]) /\ t \notin rs[i].allow <=> t \in Detects(rs[i], text)
    BY <2>2
  <2>4. /\ Surviving(rs, i, tokens[i]) \in Seq(MatchesOf(rs))
        /\ \A m : m \in ToSet(Surviving(rs, i, tokens[i]))
                    <=> \E t \in ToSet(tokens[i]) \ rs[i].allow : m = Match(i, t)
    BY <2>3, SurvivingFacts
  <2>5. ss[b] = Surviving(rs, i, tokens[i])
    BY <1>2, <2>1
  <2> QED
    BY <2>1, <2>2, <2>3, <2>4, <2>5
<1>4. /\ FlattenSeq(ss) \in Seq(MatchesOf(rs))
      /\ \A m : m \in ToSet(FlattenSeq(ss)) <=> \E b \in DOMAIN members : m \in ToSet(ss[b])
  <2>1. \A b \in DOMAIN members : ss[b] \in Seq(MatchesOf(rs))
    BY <1>3
  <2> QED
    BY <1>1, <1>2, <2>1, FlatMapped
<1>5. ASSUME NEW m, NEW b \in DOMAIN members, m \in ToSet(ss[b])
      PROVE  Detected(rs, text, type, m)
  BY <1>3, <1>5 DEF Detected
<1>6. ASSUME NEW m, Detected(rs, text, type, m)
      PROVE  \E b \in DOMAIN members : m \in ToSet(ss[b])
  <2>1. PICK i \in DOMAIN rs : rs[i].type = type /\ \E t \in Detects(rs[i], text) : m = Match(i, t)
    BY <1>6 DEF Detected
  <2>2. PICK b \in DOMAIN members : i = members[b]
    BY <1>1, <2>1 DEF ToSet
  <2>3. m \in ToSet(ss[b])
    BY <1>3, <2>1, <2>2
  <2> QED
    BY <2>3
<1> QED
  BY <1>4, <1>5, <1>6

LEMMA ScanBuiltinsFacts ==
  ASSUME NEW rs \in Seq(Rules), NEW text \in Texts
  PROVE  /\ ScanBuiltins(rs, text) \in Seq(MatchesOf(rs))
         /\ \A m : m \in ToSet(ScanBuiltins(rs, text)) <=> Detected(rs, text, "builtin", m)
<1> DEFINE members == Indices(rs, "builtin")
           tokens == [i \in DOMAIN rs |-> Found(rs[i], text)]
           ss == [b \in DOMAIN members |-> Surviving(rs, members[b], Found(rs[members[b]], text))]
<1>1. ScanBuiltins(rs, text) = FlattenSeq(ss)
  BY DEF ScanBuiltins
<1>2. ss = [b \in DOMAIN members |-> ss[b]]
  OBVIOUS
<1>3. \A b \in DOMAIN members : ss[b] = Surviving(rs, members[b], tokens[members[b]])
  <2>1. members \in Seq(DOMAIN rs)
    BY IndicesFacts
  <2>2. \A b \in DOMAIN members : members[b] \in DOMAIN rs
    BY <2>1
  <2> HIDE DEF members
  <2> QED
    BY <2>2
<1>4. ASSUME NEW i \in DOMAIN rs, rs[i].type = "builtin"
      PROVE  /\ tokens[i] \in Texts
             /\ \A t : t \in ToSet(tokens[i]) /\ t \notin rs[i].allow <=> t \in Detects(rs[i], text)
  <2>1. Detects(rs[i], text) = {text[j] : j \in {j \in DOMAIN text : text[j] \in rs[i].finds}}
                                 \ rs[i].allow
    BY <1>4 DEF Detects
  <2>2. \A t : t \in ToSet(text) /\ t \in rs[i].finds
                 <=> \E j \in DOMAIN text : t = text[j] /\ text[j] \in rs[i].finds
    BY DEF ToSet
  <2>3. tokens[i] = Found(rs[i], text)
    OBVIOUS
  <2> HIDE DEF tokens
  <2>4. /\ tokens[i] \in Texts
        /\ \A t : t \in ToSet(tokens[i]) <=> t \in ToSet(text) /\ t \in rs[i].finds
    BY <2>3, FoundFacts
  <2> QED
    BY <2>1, <2>2, <2>4
<1> HIDE DEF ss, tokens
<1> QED
  BY <1>1, <1>2, <1>3, <1>4, PhaseFacts

LEMMA ScanScriptsFacts ==
  ASSUME NEW rs \in Seq(Rules), NEW text \in Texts
  PROVE  /\ ScanScripts(rs, text) \in Seq(MatchesOf(rs))
         /\ \A m : m \in ToSet(ScanScripts(rs, text)) <=> Detected(rs, text, "script", m)
<1> DEFINE members == Indices(rs, "script")
           tokens == [i \in DOMAIN rs |-> RunDetect(rs[i], text)]
           ss == [b \in DOMAIN members |-> Surviving(rs, members[b], RunDetect(rs[members[b]], text))]
<1>1. ScanScripts(rs, text) = FlattenSeq(ss)
  BY DEF ScanScripts
<1>2. ss = [b \in DOMAIN members |-> ss[b]]
  OBVIOUS
<1>3. \A b \in DOMAIN members : ss[b] = Surviving(rs, members[b], tokens[members[b]])
  <2>1. members \in Seq(DOMAIN rs)
    BY IndicesFacts
  <2>2. \A b \in DOMAIN members : members[b] \in DOMAIN rs
    BY <2>1
  <2> HIDE DEF members
  <2> QED
    BY <2>2
<1>4. ASSUME NEW i \in DOMAIN rs, rs[i].type = "script"
      PROVE  /\ tokens[i] \in Texts
             /\ \A t : t \in ToSet(tokens[i]) /\ t \notin rs[i].allow <=> t \in Detects(rs[i], text)
  <2>1. tokens[i] = RunDetect(rs[i], text)
    OBVIOUS
  <2> HIDE DEF tokens
  <2>2. CASE ToSet(text) \cap rs[i].raises # {}
    <3>1. tokens[i] = <<>>
      BY <2>1, <2>2 DEF RunDetect
    <3>2. Detects(rs[i], text) = {}
      BY <1>4, <2>2 DEF Detects
    <3>3. ToSet(<<>>) = {} /\ <<>> \in Texts
      BY DEF ToSet, Texts
    <3> QED
      BY <3>1, <3>2, <3>3
  <2>3. CASE ToSet(text) \cap rs[i].raises = {}
    <3>1. Detects(rs[i], text) = {text[j] : j \in {j \in DOMAIN text : text[j] \in rs[i].finds}}
                                   \ rs[i].allow
      BY <1>4, <2>3 DEF Detects
    <3>2. \A t : t \in ToSet(text) /\ t \in rs[i].finds
                   <=> \E j \in DOMAIN text : t = text[j] /\ text[j] \in rs[i].finds
      BY DEF ToSet
    <3>3. tokens[i] = Found(rs[i], text)
      BY <2>1, <2>3 DEF RunDetect
    <3>4. /\ tokens[i] \in Texts
          /\ \A t : t \in ToSet(tokens[i]) <=> t \in ToSet(text) /\ t \in rs[i].finds
      BY <3>3, FoundFacts
    <3> QED
      BY <3>1, <3>2, <3>4
  <2> QED
    BY <2>2, <2>3
<1> HIDE DEF ss, tokens
<1> QED
  BY <1>1, <1>2, <1>3, <1>4, PhaseFacts

\* The three phases together find in a text what each rule is documented to find.
LEMMA ScanValueFacts ==
  ASSUME NEW rs \in Seq(Rules), NEW text \in Texts
  PROVE  /\ ScanValue(rs, text) \in Seq(MatchesOf(rs))
         /\ \A m : m \in ToSet(ScanValue(rs, text))
                     <=> \E i \in DOMAIN rs : \E t \in Detects(rs[i], text) : m = Match(i, t)
<1> DEFINE a == ScanRegexes(rs, text)
           b == ScanBuiltins(rs, text)
           c == ScanScripts(rs, text)
           M == MatchesOf(rs)
<1>1. /\ a \in Seq(M) /\ b \in Seq(M) /\ c \in Seq(M)
      /\ \A m : m \in ToSet(a) <=> Detected(rs, text, "regex", m)
      /\ \A m : m \in ToSet(b) <=> Detected(rs, text, "builtin", m)
      /\ \A m : m \in ToSet(c) <=> Detected(rs, text, "script", m)
  BY ScanRegexesFacts, ScanBuiltinsFacts, ScanScriptsFacts
<1> DEFINE ab == a \o b
<1>2. ScanValue(rs, text) = ab \o c
  BY DEF ScanValue
<1> HIDE DEF a, b, c, M
<1>3. ab \in Seq(M) /\ \A m : m \in ToSet(ab) <=> m \in ToSet(a) \/ m \in ToSet(b)
  BY <1>1, AppendedElements
<1> HIDE DEF ab
<1>4. /\ ab \o c \in Seq(M)
      /\ \A m : m \in ToSet(ab \o c) <=> m \in ToSet(ab) \/ m \in ToSet(c)
  BY <1>1, <1>3, AppendedElements
<1>5. ASSUME NEW i \in DOMAIN rs
      PROVE  rs[i].type \in {"regex", "builtin", "script"}
  <2>1. rs[i] \in Rules
    OBVIOUS
  <2> QED
    BY <2>1 DEF Rules
<1>6. \A m : (\E i \in DOMAIN rs : \E t \in Detects(rs[i], text) : m = Match(i, t))
               <=> \/ Detected(rs, text, "regex", m) \/ Detected(rs, text, "builtin", m)
                   \/ Detected(rs, text, "script", m)
  BY <1>5 DEF Detected
<1> QED
  BY <1>1, <1>2, <1>3, <1>4, <1>6 DEF M

---------------------------------------------------------------------------
(* Extracting the event of a change *)

Pairs == [column : ColumnSchemas, cell : Cells]

Options == {values \in SUBSET Texts : \A v, w \in values : v = w}

ScannedColumns == [name : STRING, type : STRING, value : Options]

Keys == [column : STRING, value : Texts]

\* The text of a cell: one at most.
LEMMA CellFacts ==
  ASSUME NEW cell \in Cells
  PROVE  CellToString(cell) \in Options
<1> SUFFICES CellToString(cell) \in SUBSET Texts /\ \A v, w \in CellToString(cell) : v = w
  BY DEF Options
<1>1. CASE cell.kind \in {"null", "bytes"}
  BY <1>1 DEF CellToString
<1>2. CASE cell.kind = "array"
  <2>1. cell.items \in Seq(SUBSET Seq(Words))
    BY <1>2 DEF Cells
  <2>6. <<"NULL">> \in Seq(Words)
    <3>1. "NULL" \in Words
      BY DEF Words
    <3> QED
      BY <3>1
  <2> DEFINE items == cell.items
             ss == [i \in DOMAIN items |-> IF items[i] = {} THEN <<"NULL">>
                                           ELSE CHOOSE text \in items[i] : TRUE]
  <2>2. \A i \in DOMAIN items : ss[i] \in Seq(Words)
    <3> TAKE i \in DOMAIN items
    <3>1. items[i] \in SUBSET Seq(Words)
      BY <2>1
    <3>2. items[i] # {} => (CHOOSE text \in items[i] : TRUE) \in items[i]
      OBVIOUS
    <3>3. ss[i] = IF items[i] = {} THEN <<"NULL">> ELSE CHOOSE text \in items[i] : TRUE
      OBVIOUS
    <3> HIDE DEF items, ss
    <3> QED
      BY <2>6, <3>1, <3>2, <3>3
  <2>3. ArrayText(items) = FlattenSeq(ss) /\ ss = [i \in DOMAIN items |-> ss[i]]
    BY DEF ArrayText
  <2>4. CellToString(cell) = {ArrayText(items)}
    BY <1>2 DEF CellToString
  <2> HIDE DEF items, ss
  <2>5. FlattenSeq(ss) \in Seq(Words)
    <3>1. items \in Seq(SUBSET Seq(Words))
      BY <2>1 DEF items
    <3> QED
      BY <2>2, <2>3, <3>1, FlatMapped
  <2> QED
    BY <2>3, <2>4, <2>5 DEF Texts
<1>3. CASE cell.kind = "text"
  <2>1. cell.text \in Seq(Words)
    BY <1>3 DEF Cells
  <2>2. CellToString(cell) = {cell.text}
    BY <1>3 DEF CellToString
  <2> QED
    BY <2>1, <2>2 DEF Texts
<1>4. cell.kind \in {"null", "bytes"} \/ cell.kind = "array" \/ cell.kind = "text"
  BY DEF Cells
<1> QED
  BY <1>1, <1>2, <1>3, <1>4

\* What is said of a column that is sent.
Sent(i) == [column |-> change.columns[i], cell |-> CellOf(i)]

\* The columns that are sent are paired each with its own cell, if the place of each
\* among them is the place of its cell.
LEMMA PairedFacts ==
  ASSUME change.columns \in Seq(ColumnSchemas), change.row \in Seq(Cells),
         NEW present \in Seq(ColumnSchemas), Len(present) = Len(change.row), NEW p,
         \A i \in ColumnsSent : /\ p[i] \in 1..Len(change.row)
                                /\ present[p[i]] = change.columns[i]
                                /\ CellOf(i) = change.row[p[i]],
         \A q \in 1..Len(change.row) : \E i \in ColumnsSent : q = p[i]
  PROVE  /\ Paired(present, change.row) \in Seq(Pairs)
         /\ \A x : x \in ToSet(Paired(present, change.row)) <=> \E i \in ColumnsSent : x = Sent(i)
<1> DEFINE row == change.row
           pairs == Paired(present, row)
<1>1. /\ row \in Seq(Cells) /\ Len(row) \in Nat /\ DOMAIN row = 1..Len(row)
      /\ DOMAIN present = 1..Len(row) /\ Len(present) = Len(row)
  OBVIOUS
<1>2. pairs = [i \in 1..Len(row) |-> [column |-> present[i], cell |-> row[i]]]
  BY <1>1 DEF Paired
<1> HIDE DEF row
<1>3. \A i \in 1..Len(row) : present[i] \in ColumnSchemas /\ row[i] \in Cells
  BY <1>1
<1>4. \A i \in 1..Len(row) : pairs[i] \in Pairs
  BY <1>2, <1>3 DEF Pairs
<1>5. DOMAIN pairs = 1..Len(row) /\ \A i \in 1..Len(row) : pairs[i] = [column |-> present[i], cell |-> row[i]]
  BY <1>2
<1>6. pairs \in Seq(Pairs)
  <2>1. pairs = [i \in DOMAIN row |-> pairs[i]]
    BY <1>1, <1>2
  <2> HIDE DEF pairs
  <2> QED
    BY <1>1, <1>4, <2>1, MappedSequence
<1> HIDE DEF pairs
<1>7. \A i \in ColumnsSent : p[i] \in 1..Len(row) /\ pairs[p[i]] = Sent(i)
  BY <1>5 DEF Sent, row
<1>8. \A q \in 1..Len(row) : \E i \in ColumnsSent : q = p[i]
  BY DEF row
<1>9. \A x : x \in ToSet(pairs) <=> \E q \in 1..Len(row) : x = pairs[q]
  BY <1>5 DEF ToSet
<1> QED
  BY <1>6, <1>7, <1>8, <1>9 DEF pairs, row

LEMMA ChangeFacts ==
  ASSUME change \in Changes, change.kind \in {"insert", "update"}
  PROVE  /\ change.columns \in Seq(ColumnSchemas) /\ change.row \in Seq(Cells)
         /\ Len(change.columns) \in Nat /\ DOMAIN change.columns = 1..Len(change.columns)
         /\ Len(change.row) = Cardinality(ColumnsSent)
         /\ ColumnsSent \in SUBSET (1..Len(change.columns))
         /\ DOMAIN change.columns \ change.missing = ColumnsSent
         /\ change.kind = "insert" => change.missing = {}
<1>1. IsChange(change)
  BY ScannerAssumption
<1>2. DOMAIN change.columns \ change.missing = ColumnsSent
  BY DEF ColumnsSent
<1>3. /\ change.columns \in Seq(ColumnSchemas) /\ change.row \in Seq(Cells)
      /\ Len(change.row) = Cardinality(ColumnsSent)
      /\ change.kind = "insert" => change.missing = {}
  BY <1>1, <1>2 DEF IsChange
<1>4. Len(change.columns) \in Nat /\ DOMAIN change.columns = 1..Len(change.columns)
  BY <1>3
<1> QED
  BY <1>2, <1>3, <1>4

\* A full row has a cell for each column, in their order.
LEMMA InsertPairs ==
  ASSUME change \in Changes, change.kind = "insert"
  PROVE  LET pairs == Paired(change.columns, change.row)
         IN  /\ pairs \in Seq(Pairs)
             /\ \A x : x \in ToSet(pairs) <=> \E i \in ColumnsSent : x = Sent(i)
<1> DEFINE columns == change.columns
           n == Len(columns)
           p == [i \in 1..n |-> i]
<1>1. /\ columns \in Seq(ColumnSchemas) /\ change.row \in Seq(Cells)
      /\ n \in Nat /\ DOMAIN columns = 1..n
      /\ Len(change.row) = Cardinality(ColumnsSent)
      /\ change.missing = {}
  BY ChangeFacts
<1>2. ColumnsSent = 1..n
  BY <1>1 DEF ColumnsSent
<1>3. ASSUME NEW i \in 0..n
      PROVE  Cardinality(1..i) = i
  BY <1>1, FS_Interval
<1>4. Len(change.row) = n
  BY <1>1, <1>2, <1>3
<1>5. ASSUME NEW i \in ColumnsSent
      PROVE  CellOf(i) = change.row[i]
  <2>1. {j \in 1..i : j \notin change.missing} = 1..i
    BY <1>1
  <2>2. i \in 0..n
    BY <1>1, <1>2
  <2> QED
    BY <1>3, <2>1, <2>2 DEF CellOf
<1>6. \A i \in ColumnsSent : /\ p[i] \in 1..Len(change.row)
                             /\ columns[p[i]] = columns[i]
                             /\ CellOf(i) = change.row[p[i]]
  BY <1>2, <1>4, <1>5
<1>7. \A q \in 1..Len(change.row) : \E i \in ColumnsSent : q = p[i]
  BY <1>2, <1>4
<1> HIDE DEF p
<1> QED
  BY <1>1, <1>4, <1>6, <1>7, PairedFacts

\* A partial row has a cell for each column it does not miss, in their order.
LEMMA UpdatePairs ==
  ASSUME change \in Changes, change.kind = "update"
  PROVE  LET pairs == Paired(Present(change), change.row)
         IN  /\ pairs \in Seq(Pairs)
             /\ \A x : x \in ToSet(pairs) <=> \E i \in ColumnsSent : x = Sent(i)
<1> DEFINE columns == change.columns
           n == Len(columns)
           kept == Indexes(columns, ColumnsSent)
           size == Cardinality(ColumnsSent)
           place(i) == Place(ColumnsSent, i)
           p == [i \in 1..n |-> place(i)]
           present == [i \in DOMAIN kept |-> columns[kept[i]]]
<1>1. /\ columns \in Seq(ColumnSchemas) /\ change.row \in Seq(Cells)
      /\ n \in Nat /\ DOMAIN columns = 1..n
      /\ Len(change.row) = size
      /\ ColumnsSent \in SUBSET (1..n)
      /\ DOMAIN columns \ change.missing = ColumnsSent
  BY ChangeFacts
<1>2. Present(change) = present
  BY <1>1 DEF Present
<1>3. /\ kept \in Seq(ColumnsSent) /\ Len(kept) = size
      /\ \A i \in ColumnsSent : place(i) \in 1..size /\ kept[place(i)] = i
      /\ \A q \in 1..size : \E i \in ColumnsSent : q = place(i)
  <2>1. n \in Nat /\ DOMAIN columns = 1..n /\ ColumnsSent \in SUBSET (1..n)
    BY <1>1
  <2> HIDE DEF columns, n
  <2> QED
    BY <2>1, IndexesFacts
<1>4. ASSUME NEW i \in ColumnsSent
      PROVE  CellOf(i) = change.row[place(i)]
  <2>1. {j \in 1..i : j \notin change.missing} = {j \in 1..i : j \in ColumnsSent}
    BY <1>1
  <2> QED
    BY <2>1 DEF CellOf, Place
<1> HIDE DEF place, kept
<1>5. present \in Seq(ColumnSchemas) /\ Len(present) = size
  <2>1. present = [i \in DOMAIN kept |-> present[i]]
    OBVIOUS
  <2>2. \A i \in DOMAIN kept : kept[i] \in 1..n
    BY <1>1, <1>3
  <2>3. \A i \in DOMAIN kept : present[i] \in ColumnSchemas
    BY <1>1, <2>2
  <2> HIDE DEF present
  <2> QED
    BY <1>3, <2>1, <2>3, MappedSequence
<1>6. \A i \in ColumnsSent : /\ p[i] \in 1..size
                             /\ present[p[i]] = columns[i]
                             /\ CellOf(i) = change.row[p[i]]
  <2> TAKE i \in ColumnsSent
  <2>1. p[i] = place(i)
    BY <1>1
  <2>2. place(i) \in DOMAIN kept /\ kept[place(i)] = i /\ place(i) \in 1..size
    BY <1>3
  <2> HIDE DEF p
  <2> QED
    BY <1>4, <2>1, <2>2
<1>7. \A q \in 1..size : \E i \in ColumnsSent : q = p[i]
  BY <1>1, <1>3
<1> HIDE DEF p, present, size
<1>8. \A i \in ColumnsSent : /\ p[i] \in 1..Len(change.row)
                             /\ present[p[i]] = columns[i]
                             /\ CellOf(i) = change.row[p[i]]
  BY <1>1, <1>6
<1>9. \A q \in 1..Len(change.row) : \E i \in ColumnsSent : q = p[i]
  BY <1>1, <1>7
<1>10. Len(present) = Len(change.row)
  BY <1>1, <1>5
<1>11. /\ Paired(present, change.row) \in Seq(Pairs)
       /\ \A x : x \in ToSet(Paired(present, change.row)) <=> \E i \in ColumnsSent : x = Sent(i)
  BY <1>1, <1>5, <1>8, <1>9, <1>10, PairedFacts
<1> QED
  BY <1>2, <1>11

---------------------------------------------------------------------------
(* The event of a change *)

\* The column of an event that a column of the change becomes.
Scanned(i) == [name  |-> change.columns[i].name,
               type  |-> change.columns[i].type,
               value |-> IF IsScannableType(change.columns[i].type) THEN CellToString(CellOf(i)) ELSE {}]

KeysSent ==
  UNION {{[column |-> change.columns[i].name, value |-> v] : v \in CellToString(CellOf(i))} :
           i \in {j \in ColumnsSent : change.columns[j].key}}

\* An event has the columns that are sent, the keys among them, and nothing else.
LEMMA EventFacts ==
  ASSUME change \in Changes, change.kind \in {"insert", "update"},
         NEW pairs \in Seq(Pairs), \A x : x \in ToSet(pairs) <=> \E i \in ColumnsSent : x = Sent(i)
  PROVE  /\ Columns(pairs) \in Seq(ScannedColumns)
         /\ \A c : c \in ToSet(Columns(pairs)) <=> \E i \in ColumnsSent : c = Scanned(i)
         /\ PrimaryKeys(pairs) \in Seq(Keys)
         /\ \A k : k \in ToSet(PrimaryKeys(pairs)) <=> k \in KeysSent
<1> DEFINE col(q) == [name  |-> q.column.name,
                      type  |-> q.column.type,
                      value |-> IF IsScannableType(q.column.type) THEN CellToString(q.cell) ELSE {}]
           columns == Columns(pairs)
<1>1. \A i \in DOMAIN pairs : pairs[i] \in Pairs
  OBVIOUS
<1>2. columns = [i \in DOMAIN pairs |-> col(pairs[i])]
  BY DEF Columns
<1>3. \A q \in Pairs : col(q) \in ScannedColumns
  <2> TAKE q \in Pairs
  <2>1. q.column.name \in STRING /\ q.column.type \in STRING /\ q.cell \in Cells
    BY DEF Pairs, ColumnSchemas
  <2>2. CellToString(q.cell) \in Options /\ {} \in Options
    BY <2>1, CellFacts DEF Options
  <2> QED
    BY <2>1, <2>2 DEF ScannedColumns
<1>4. \A i \in ColumnsSent : col(Sent(i)) = Scanned(i)
  BY DEF Sent, Scanned
<1>5. \A i \in DOMAIN pairs : columns[i] = col(pairs[i])
  BY <1>2
<1> HIDE DEF col
<1>6. columns \in Seq(ScannedColumns) /\ DOMAIN columns = DOMAIN pairs
  <2>1. columns = [i \in DOMAIN pairs |-> columns[i]] /\ \A i \in DOMAIN pairs : columns[i] \in ScannedColumns
    BY <1>1, <1>2, <1>3
  <2> HIDE DEF columns
  <2> QED
    BY <2>1, MappedSequence
<1> HIDE DEF columns
<1>7. \A c : c \in ToSet(columns) <=> \E q \in ToSet(pairs) : c = col(q)
  BY <1>5, <1>6 DEF ToSet
<1>8. \A c : c \in ToSet(columns) <=> \E i \in ColumnsSent : c = Scanned(i)
  BY <1>4, <1>7
<1> DEFINE iskey(q) == q.column.key /\ CellToString(q.cell) # {}
           kept == {q \in ToSet(pairs) : iskey(q)}
           selected == Selected(pairs, kept)
           keyof(q) == [column |-> q.column.name, value |-> CHOOSE v \in CellToString(q.cell) : TRUE]
           keys == PrimaryKeys(pairs)
<1>9. keys = [i \in DOMAIN selected |-> keyof(selected[i])]
  BY DEF PrimaryKeys
<1>10. \A q : q \in kept <=> q \in ToSet(pairs) /\ iskey(q)
  OBVIOUS
<1>11. ASSUME NEW q \in Pairs, iskey(q)
       PROVE  keyof(q) \in Keys
  <2>1. q.column.name \in STRING /\ q.cell \in Cells
    BY DEF Pairs, ColumnSchemas
  <2>2. CellToString(q.cell) \in SUBSET Texts /\ CellToString(q.cell) # {}
    BY <1>11, <2>1, CellFacts DEF Options
  <2>3. (CHOOSE v \in CellToString(q.cell) : TRUE) \in Texts
    BY <2>2
  <2> QED
    BY <2>1, <2>3 DEF Keys
<1>12. ASSUME NEW i \in ColumnsSent, NEW k
       PROVE  k \in {[column |-> change.columns[i].name, value |-> v] : v \in CellToString(CellOf(i))}
                <=> CellToString(CellOf(i)) # {} /\ k = keyof(Sent(i))
  <2>1. Sent(i) \in ToSet(pairs)
    OBVIOUS
  <2>2. Sent(i) \in Pairs
    BY <1>1, <2>1 DEF ToSet
  <2>3. CellOf(i) \in Cells
    BY <2>2 DEF Sent, Pairs
  <2>4. \A v, w \in CellToString(CellOf(i)) : v = w
    BY <2>3, CellFacts DEF Options
  <2>5. CellToString(CellOf(i)) # {} =>
          (CHOOSE v \in CellToString(CellOf(i)) : TRUE) \in CellToString(CellOf(i))
    OBVIOUS
  <2>6. keyof(Sent(i)) = [column |-> change.columns[i].name,
                          value |-> CHOOSE v \in CellToString(CellOf(i)) : TRUE]
    BY DEF Sent
  <2> QED
    BY <2>4, <2>5, <2>6
<1>13. \A i \in ColumnsSent : iskey(Sent(i)) <=> change.columns[i].key /\ CellToString(CellOf(i)) # {}
  BY DEF Sent
<1> HIDE DEF kept, selected, keyof, iskey
<1>14. /\ selected \in Seq(Pairs)
       /\ \A q : q \in ToSet(selected) <=> q \in ToSet(pairs) /\ iskey(q)
  BY <1>10, SelectedFacts DEF selected
<1>15. keys \in Seq(Keys) /\ \A k : k \in ToSet(keys) <=> \E q \in ToSet(selected) : k = keyof(q)
  <2>1. \A i \in DOMAIN selected : selected[i] \in Pairs /\ iskey(selected[i])
    BY <1>14 DEF ToSet
  <2>2. keys = [i \in DOMAIN selected |-> keys[i]] /\ \A i \in DOMAIN selected : keys[i] = keyof(selected[i])
    BY <1>9
  <2> HIDE DEF keys
  <2>3. keys \in Seq(Keys) /\ DOMAIN keys = DOMAIN selected
    BY <1>11, <1>14, <2>1, <2>2, MappedSequence
  <2> QED
    BY <2>2, <2>3 DEF ToSet
<1> HIDE DEF keys
<1>16. ASSUME NEW k
       PROVE  k \in ToSet(keys) <=> k \in KeysSent
  <2>1. k \in ToSet(keys) <=> \E i \in ColumnsSent : iskey(Sent(i)) /\ k = keyof(Sent(i))
    BY <1>14, <1>15
  <2>2. k \in KeysSent <=>
          \E i \in ColumnsSent :
            /\ change.columns[i].key
            /\ k \in {[column |-> change.columns[i].name, value |-> v] : v \in CellToString(CellOf(i))}
    BY DEF KeysSent
  <2> QED
    BY <1>12, <1>13, <2>1, <2>2
<1> QED
  BY <1>6, <1>8, <1>15, <1>16 DEF columns, keys

\* The one event of an insert or update, and none of any other change.
LEMMA ExtractedFacts ==
  ASSUME change \in Changes
  PROVE  IF change.kind \in {"insert", "update"}
         THEN \E pairs \in Seq(Pairs) :
                /\ ExtractScanEvents(change) = <<ScanEvent(change, pairs)>>
                /\ \A x : x \in ToSet(pairs) <=> \E i \in ColumnsSent : x = Sent(i)
         ELSE ExtractScanEvents(change) = <<>>
<1>1. CASE change.kind = "insert"
  <2> DEFINE pairs == Paired(change.columns, change.row)
  <2>1. ExtractScanEvents(change) = <<ScanEvent(change, pairs)>>
    BY <1>1 DEF ExtractScanEvents, FromInsert
  <2>2. pairs \in Seq(Pairs) /\ \A x : x \in ToSet(pairs) <=> \E i \in ColumnsSent : x = Sent(i)
    BY <1>1, InsertPairs
  <2> HIDE DEF pairs
  <2> QED
    BY <1>1, <2>1, <2>2
<1>2. CASE change.kind = "update"
  <2> DEFINE pairs == Paired(Present(change), change.row)
  <2>1. ExtractScanEvents(change) = <<ScanEvent(change, pairs)>>
    BY <1>2 DEF ExtractScanEvents, FromUpdate
  <2>2. pairs \in Seq(Pairs) /\ \A x : x \in ToSet(pairs) <=> \E i \in ColumnsSent : x = Sent(i)
    BY <1>2, UpdatePairs
  <2> HIDE DEF pairs
  <2> QED
    BY <1>2, <2>1, <2>2
<1>3. CASE change.kind \notin {"insert", "update"}
  BY <1>3 DEF ExtractScanEvents
<1> QED
  BY <1>1, <1>2, <1>3

\* The changes whose events are scanned.
Wanted == /\ change.kind \in {"insert", "update"}
          /\ MatchesSchema(filter, change.schema)
          /\ MatchesTable(filter, change.table)

\* An event as it is scanned: excluded columns are gone, and their keys stay.
IsFiltered(e) ==
  /\ e.schema = change.schema /\ e.table = change.table
  /\ e.columns \in Seq(ScannedColumns)
  /\ \A c : c \in ToSet(e.columns)
              <=> \E i \in ColumnsSent : /\ c = Scanned(i)
                                         /\ ShouldIncludeColumn(filter, change.columns[i].name)
  /\ e.keys \in Seq(Keys)
  /\ \A k : k \in ToSet(e.keys) <=> k \in KeysSent

LEMMA FilteredFacts ==
  ASSUME change \in Changes
  PROVE  LET es == Filtered(filter, ExtractScanEvents(change))
         IN  /\ ~ Wanted => es = <<>>
             /\ Wanted => es # <<>> /\ ToSet(es) = {es[1]} /\ IsFiltered(es[1])
<1> DEFINE extracted == ExtractScanEvents(change)
           iswanted(e) == MatchesSchema(filter, e.schema) /\ MatchesTable(filter, e.table)
           wanted == {e \in ToSet(extracted) : iswanted(e)}
           kept == Selected(extracted, wanted)
           es == Filtered(filter, extracted)
<1>1. es = [i \in DOMAIN kept |-> [kept[i] EXCEPT !.columns = IncludedColumns(filter, @)]]
  BY DEF Filtered
<1>2. \A e : e \in wanted <=> e \in ToSet(extracted) /\ iswanted(e)
  OBVIOUS
<1>3. CASE change.kind \notin {"insert", "update"}
  <2>1. extracted = <<>>
    BY <1>3, ExtractedFacts
  <2>2. <<>> \in Seq({}) /\ ToSet(<<>>) = {}
    BY DEF ToSet
  <2> HIDE DEF extracted, wanted, es
  <2>3. kept \in Seq({})
    BY <2>1, <2>2, SelectedFacts
  <2>4. kept = <<>>
    BY <2>3
  <2>5. es = <<>>
    BY <1>1, <2>4
  <2> QED
    BY <1>3, <2>5 DEF Wanted, es, extracted
<1>4. CASE change.kind \in {"insert", "update"}
  <2>1. PICK pairs \in Seq(Pairs) :
          /\ extracted = <<ScanEvent(change, pairs)>>
          /\ \A x : x \in ToSet(pairs) <=> \E i \in ColumnsSent : x = Sent(i)
    BY <1>4, ExtractedFacts
  <2> DEFINE e == ScanEvent(change, pairs)
             all == Columns(pairs)
             keys == PrimaryKeys(pairs)
  <2>2. /\ all \in Seq(ScannedColumns)
        /\ \A c : c \in ToSet(all) <=> \E i \in ColumnsSent : c = Scanned(i)
        /\ keys \in Seq(Keys)
        /\ \A k : k \in ToSet(keys) <=> k \in KeysSent
    BY <1>4, <2>1, EventFacts
  <2>3. e = [schema |-> change.schema, table |-> change.table, columns |-> all, keys |-> keys]
    BY DEF ScanEvent
  <2>4. iswanted(e) <=> Wanted
    BY <1>4, <2>3 DEF Wanted
  <2> HIDE DEF extracted, wanted, es, e, all, keys
  <2>5. extracted = <<e>>
    BY <2>1 DEF e
  <2>6. e \in wanted <=> Wanted
    <3>1. e \in ToSet(extracted)
      BY <2>5 DEF ToSet
    <3> HIDE DEF iswanted
    <3> QED
      BY <1>2, <2>4, <3>1
  <2>7. kept = IF Wanted THEN <<e>> ELSE <<>>
    <3>1. Selected(<<e>>, wanted) = IF e \in wanted THEN <<e>> ELSE <<>>
      <4>1. e \in {e}
        OBVIOUS
      <4> QED
        BY <4>1, OneSelected
    <3> QED
      BY <2>5, <2>6, <3>1
  <2> HIDE DEF kept
  <2>8. CASE ~ Wanted
    <3>1. es = <<>>
      BY <1>1, <2>7, <2>8
    <3> QED
      BY <2>8, <3>1 DEF es, extracted
  <2>9. CASE Wanted
    <3> DEFINE columns == IncludedColumns(filter, all)
               f == [schema |-> change.schema, table |-> change.table, columns |-> columns, keys |-> keys]
    <3>1. [e EXCEPT !.columns = IncludedColumns(filter, @)] = f
      BY <2>3
    <3>2. es = <<f>>
      <4>1. DOMAIN kept = 1..1 /\ kept[1] = e
        BY <2>7, <2>9
      <4>2. es = [i \in 1..1 |-> [kept[i] EXCEPT !.columns = IncludedColumns(filter, @)]]
        BY <1>1, <4>1
      <4>3. DOMAIN es = 1..1 /\ es[1] = f
        BY <3>1, <4>1, <4>2
      <4> HIDE DEF f
      <4>4. es = [i \in 1..1 |-> f]
        BY <4>2, <4>3
      <4> QED
        BY <4>4
    <3>3. /\ columns \in Seq(ScannedColumns)
          /\ \A c : c \in ToSet(columns) <=> c \in ToSet(all) /\ ShouldIncludeColumn(filter, c.name)
      <4> DEFINE included == {c \in ToSet(all) : ShouldIncludeColumn(filter, c.name)}
      <4>1. columns = Selected(all, included)
        BY DEF IncludedColumns
      <4>2. \A c : c \in included <=> c \in ToSet(all) /\ ShouldIncludeColumn(filter, c.name)
        OBVIOUS
      <4> HIDE DEF included, columns
      <4> QED
        BY <2>2, <4>1, <4>2, SelectedFacts
    <3>4. \A i \in ColumnsSent : Scanned(i).name = change.columns[i].name
      BY DEF Scanned
    <3> HIDE DEF columns
    <3>5. IsFiltered(f)
      <4>1. /\ f.schema = change.schema /\ f.table = change.table
            /\ f.columns = columns /\ f.keys = keys
        OBVIOUS
      <4>2. \A c : c \in ToSet(columns)
                     <=> \E i \in ColumnsSent : /\ c = Scanned(i)
                                                /\ ShouldIncludeColumn(filter, change.columns[i].name)
        BY <2>2, <3>3, <3>4
      <4> HIDE DEF f
      <4> QED
        BY <2>2, <3>3, <4>1, <4>2 DEF IsFiltered
    <3> HIDE DEF f
    <3>6. es # <<>> /\ es[1] = f /\ ToSet(es) = {es[1]}
      BY <3>2 DEF ToSet
    <3> QED
      BY <2>9, <3>5, <3>6 DEF es, extracted
  <2> QED
    BY <2>8, <2>9
<1> QED
  BY <1>3, <1>4

---------------------------------------------------------------------------
(* What is found in a column *)

Findings == [rule : Nat, text : Words, column : STRING, keys : Seq(Keys)]

Finding(e, col, r, token) == [rule |-> r, text |-> token, column |-> col.name, keys |-> e.keys]

\* A rule detects a token in the value of a column that is in its scope.
Reported(e, col, r, token) ==
  /\ IsScannableType(col.type)
  /\ \E text \in col.value : token \in Detects(rules[r], text)
  /\ ScopeMatches(rules[r].scope, e.schema, e.table, col.name)

IsFinding(e, col, x) ==
  \E r \in DOMAIN rules : \E token : Reported(e, col, r, token) /\ x = Finding(e, col, r, token)

LEMMA ColumnMatchesFacts ==
  ASSUME rules \in Seq(Rules), NEW e, NEW col \in ScannedColumns
  PROVE  /\ ColumnMatches(e, col) \in Seq(MatchesOf(rules))
         /\ \A m : m \in ToSet(ColumnMatches(e, col))
                     <=> \E r \in DOMAIN rules : \E token : Reported(e, col, r, token) /\ m = Match(r, token)
<1>1. CASE IsScannableType(col.type) /\ col.value # {}
  <2>1. PICK text \in Texts : col.value = {text} /\ (CHOOSE v \in col.value : TRUE) = text
    <3>1. col.value \in Options
      BY DEF ScannedColumns
    <3>2. PICK text \in Texts : text \in col.value
      BY <1>1, <3>1 DEF Options
    <3>3. col.value = {text}
      BY <3>1, <3>2 DEF Options
    <3> QED
      BY <3>3
  <2> DEFINE found == ScanValue(rules, text)
             inscope(m) == ScopeMatches(rules[m.rule].scope, e.schema, e.table, col.name)
             kept == {m \in ToSet(found) : inscope(m)}
  <2>2. ColumnMatches(e, col) = Selected(found, kept)
    BY <1>1, <2>1 DEF ColumnMatches
  <2>3. \A m : m \in kept <=> m \in ToSet(found) /\ inscope(m)
    OBVIOUS
  <2>4. /\ found \in Seq(MatchesOf(rules))
        /\ \A m : m \in ToSet(found)
                    <=> \E r \in DOMAIN rules : \E token \in Detects(rules[r], text) : m = Match(r, token)
    BY ScanValueFacts
  <2>5. \A r, token : inscope(Match(r, token))
                        <=> ScopeMatches(rules[r].scope, e.schema, e.table, col.name)
    BY DEF Match
  <2>6. \A r, token : Reported(e, col, r, token)
                        <=> /\ token \in Detects(rules[r], text)
                            /\ ScopeMatches(rules[r].scope, e.schema, e.table, col.name)
    BY <1>1, <2>1 DEF Reported
  <2> HIDE DEF found, kept, inscope
  <2>7. /\ Selected(found, kept) \in Seq(MatchesOf(rules))
        /\ \A m : m \in ToSet(Selected(found, kept)) <=> m \in ToSet(found) /\ inscope(m)
    BY <2>3, <2>4, SelectedFacts
  <2> QED
    BY <2>2, <2>4, <2>5, <2>6, <2>7
<1>2. CASE ~ (IsScannableType(col.type) /\ col.value # {})
  <2>1. ColumnMatches(e, col) = <<>>
    BY <1>2 DEF ColumnMatches
  <2>2. <<>> \in Seq(MatchesOf(rules)) /\ ToSet(<<>>) = {}
    BY DEF ToSet
  <2>3. \A r, token : ~ Reported(e, col, r, token)
    BY <1>2 DEF Reported
  <2> QED
    BY <2>1, <2>2, <2>3
<1> QED
  BY <1>1, <1>2

LEMMA ColumnFindingsFacts ==
  ASSUME rules \in Seq(Rules), NEW e, e.columns \in Seq(ScannedColumns), e.keys \in Seq(Keys),
         NEW c \in DOMAIN e.columns
  PROVE  LET col == e.columns[c]
         IN  /\ ColumnFindings(e, c) \in Seq(Findings)
             /\ \A x : x \in ToSet(ColumnFindings(e, c)) <=> IsFinding(e, col, x)
<1> DEFINE col == e.columns[c]
           matches == ColumnMatches(e, col)
           finding(m) == Finding(e, col, m.rule, m.text)
           found == ColumnFindings(e, c)
<1>1. col \in ScannedColumns /\ col.name \in STRING
  <2>1. col \in ScannedColumns
    OBVIOUS
  <2> HIDE DEF col
  <2> QED
    BY <2>1 DEF ScannedColumns
<1>2. found = [i \in DOMAIN matches |-> finding(matches[i])]
  BY DEF ColumnFindings, Finding
<1>3. \A i \in DOMAIN matches : found[i] = finding(matches[i])
  BY <1>2
<1>4. \A m \in MatchesOf(rules) : finding(m) \in Findings
  BY <1>1 DEF MatchesOf, Finding, Findings
<1>5. \A r, token : finding(Match(r, token)) = Finding(e, col, r, token)
  BY DEF Match
<1>6. found = [i \in DOMAIN matches |-> found[i]]
  BY <1>2
<1>7. /\ matches \in Seq(MatchesOf(rules))
      /\ \A m : m \in ToSet(matches)
                  <=> \E r \in DOMAIN rules : \E token : Reported(e, col, r, token) /\ m = Match(r, token)
  BY <1>1, ColumnMatchesFacts
<1> HIDE DEF matches, finding, found, col
<1>8. found \in Seq(Findings) /\ DOMAIN found = DOMAIN matches
  <2>1. \A i \in DOMAIN matches : found[i] \in Findings
    BY <1>3, <1>4, <1>7
  <2> QED
    BY <1>6, <1>7, <2>1, MappedSequence
<1>9. \A x : x \in ToSet(found) <=> \E m \in ToSet(matches) : x = finding(m)
  BY <1>3, <1>8 DEF ToSet
<1>10. \A x : x \in ToSet(found) <=> IsFinding(e, col, x)
  BY <1>5, <1>7, <1>9 DEF IsFinding
<1> QED
  BY <1>8, <1>10 DEF found, col

---------------------------------------------------------------------------
(***************************************************************************)
(* The inductive invariant: at each stage the event is what extraction and *)
(* the filter make of the change, and while columns are scanned, the       *)
(* findings are those of the columns before the next one.                  *)
(***************************************************************************)
FoundBefore(n) == UNION {ToSet(ColumnFindings(events[1], c)) : c \in 1..(n - 1)}

Reports(found) == {[rule |-> f.rule, text |-> f.text, column |-> f.column] : f \in found}

InputsInv == rules \in RuleSets /\ filter \in Filters /\ change \in Changes

EventsInv == /\ stage \in {"arrived", "extracted", "scanning", "done"}
             /\ stage = "arrived" => events = <<>>
             /\ stage = "extracted" => events = ExtractScanEvents(change)
             /\ stage \in {"scanning", "done"} => events = Filtered(filter, ExtractScanEvents(change))

ProgressInv == /\ stage \in {"arrived", "extracted"} => column = 1 /\ findings = <<>>
               /\ stage = "scanning" => /\ events # <<>>
                                        /\ column \in 1..(Len(events[1].columns) + 1)
                                        /\ findings \in Seq(Findings)
                                        /\ ToSet(findings) = FoundBefore(column)

DoneInv == stage = "done" =>
             IF events = <<>> THEN findings = <<>>
             ELSE Reports(ToSet(findings)) = Reports(FoundBefore(Len(events[1].columns) + 1))

ScanInv == InputsInv /\ EventsInv /\ ProgressInv /\ DoneInv /\ KeysAreStripped

\* The event that is scanned.
LEMMA ScannedEvent ==
  ASSUME InputsInv, EventsInv, stage \in {"scanning", "done"}
  PROVE  /\ Wanted <=> events # <<>>
         /\ events # <<>> => ToSet(events) = {events[1]} /\ IsFiltered(events[1])
<1>1. change \in Changes /\ events = Filtered(filter, ExtractScanEvents(change))
  BY DEF InputsInv, EventsInv
<1>2. LET es == Filtered(filter, ExtractScanEvents(change))
      IN  /\ ~ Wanted => es = <<>>
          /\ Wanted => es # <<>> /\ ToSet(es) = {es[1]} /\ IsFiltered(es[1])
  BY <1>1, FilteredFacts
<1> QED
  BY <1>1, <1>2

\* What is found before a column: what the rules report in the columns before it.
LEMMA FoundBeforeFacts ==
  ASSUME InputsInv, NEW e, e = events[1], IsFiltered(e), NEW n \in 1..(Len(e.columns) + 1)
  PROVE  \A x : x \in FoundBefore(n) <=> \E c \in 1..(n - 1) : IsFinding(e, e.columns[c], x)
<1>1. rules \in Seq(Rules) /\ e.columns \in Seq(ScannedColumns) /\ e.keys \in Seq(Keys)
  BY ScannerAssumption DEF InputsInv, IsFiltered
<1>2. \A c \in 1..(n - 1) : c \in DOMAIN e.columns
  BY <1>1
<1>3. \A c \in 1..(n - 1) : \A x :
        x \in ToSet(ColumnFindings(e, c)) <=> IsFinding(e, e.columns[c], x)
  <2> TAKE c \in 1..(n - 1)
  <2>1. c \in DOMAIN e.columns
    BY <1>2
  <2> QED
    BY <1>1, <2>1, ColumnFindingsFacts
<1>4. \A x : x \in FoundBefore(n) <=> \E c \in 1..(n - 1) : x \in ToSet(ColumnFindings(e, c))
  BY DEF FoundBefore
<1> QED
  BY <1>3, <1>4

\* What stripping the keys of findings that all have the same ones leaves.
LEMMA StrippedFacts ==
  ASSUME NEW fs \in Seq(Findings), NEW keys \in Seq(Keys), \A f \in ToSet(fs) : f.keys = keys
  PROVE  /\ DOMAIN Stripped(fs) = DOMAIN fs
         /\ \A i \in DOMAIN fs :
              /\ Stripped(fs)[i].rule = fs[i].rule
              /\ Stripped(fs)[i].text = fs[i].text
              /\ Stripped(fs)[i].column = fs[i].column
              /\ ToSet(Stripped(fs)[i].keys)
                   = {k \in ToSet(keys) : \A j \in DOMAIN fs : fs[j].column # k.column}
<1> DEFINE matched == {fs[i].column : i \in DOMAIN fs}
           stripped == Stripped(fs)
           left == {k \in ToSet(keys) : k.column \notin matched}
<1>1. stripped = [i \in DOMAIN fs |-> [fs[i] EXCEPT !.keys = Retained(@, matched)]]
  BY DEF Stripped
<1>2. \A k : k \in left <=> k \in ToSet(keys) /\ \A j \in DOMAIN fs : fs[j].column # k.column
  OBVIOUS
<1>3. Retained(keys, matched) = Selected(keys, left)
  BY DEF Retained
<1> HIDE DEF matched, stripped, left
<1>4. \A k : k \in ToSet(Retained(keys, matched)) <=> k \in left
  <2>1. \A k : k \in ToSet(Selected(keys, left)) <=> k \in ToSet(keys) /\ k \in left
    BY SelectedFacts
  <2> QED
    BY <1>2, <1>3, <2>1
<1>5. ToSet(Retained(keys, matched)) = {k \in ToSet(keys) : \A j \in DOMAIN fs : fs[j].column # k.column}
  BY <1>2, <1>4
<1>6. DOMAIN stripped = DOMAIN fs
  BY <1>1
<1>7. ASSUME NEW i \in DOMAIN fs
      PROVE  /\ stripped[i].rule = fs[i].rule /\ stripped[i].text = fs[i].text
             /\ stripped[i].column = fs[i].column
             /\ stripped[i].keys = Retained(keys, matched)
  <2>1. fs[i] \in Findings
    OBVIOUS
  <2>2. fs[i].keys = keys
    BY DEF ToSet
  <2>3. stripped[i] = [fs[i] EXCEPT !.keys = Retained(@, matched)]
    BY <1>1
  <2> QED
    BY <2>1, <2>2, <2>3 DEF Findings
<1> QED
  BY <1>5, <1>6, <1>7 DEF stripped

LEMMA ScanInvInit == Init => ScanInv
BY DEF Init, ScanInv, InputsInv, EventsInv, ProgressInv, DoneInv, KeysAreStripped

LEMMA ScanInvExtract == ScanInv /\ Extract => ScanInv'
BY DEF Extract, ScanInv, InputsInv, EventsInv, ProgressInv, DoneInv, KeysAreStripped

LEMMA ScanInvWriteEvents == ScanInv /\ WriteEvents => ScanInv'
<1> SUFFICES ASSUME ScanInv, WriteEvents
             PROVE  ScanInv'
  OBVIOUS
<1>1. /\ stage = "extracted" /\ column = 1 /\ findings = <<>>
      /\ events = ExtractScanEvents(change)
      /\ stage' \in {"scanning", "done"} /\ events' = Filtered(filter, events)
      /\ UNCHANGED <<rules, filter, change, column, findings>>
      /\ stage' = "done" <=> events' = <<>>
  BY DEF WriteEvents, ScanInv, EventsInv, ProgressInv
<1>2. InputsInv'
  BY <1>1 DEF ScanInv, InputsInv
<1>3. EventsInv'
  BY <1>1 DEF EventsInv
<1>4. ProgressInv'
  <2>1. CASE stage' = "scanning"
    <3>1. events' # <<>>
      BY <1>1, <2>1
    <3>2. IsFiltered(events'[1])
      <4>1. events' = Filtered(filter, ExtractScanEvents(change)) /\ change \in Changes
        BY <1>1 DEF ScanInv, InputsInv
      <4> QED
        BY <3>1, <4>1, FilteredFacts
    <3>3. Len(events'[1].columns) \in Nat
      BY <3>2 DEF IsFiltered
    <3>4. column' = 1 /\ findings' = <<>> /\ column' \in 1..(Len(events'[1].columns) + 1)
      BY <1>1, <3>3
    <3>5. findings' \in Seq(Findings) /\ ToSet(findings') = {}
      BY <1>1 DEF ToSet
    <3>6. FoundBefore(column)' = {}
      BY <3>4 DEF FoundBefore
    <3> QED
      BY <2>1, <3>1, <3>4, <3>5, <3>6 DEF ProgressInv
  <2>2. CASE stage' # "scanning"
    BY <1>1, <2>2 DEF ProgressInv
  <2> QED
    BY <2>1, <2>2
<1>5. DoneInv' /\ KeysAreStripped'
  BY <1>1 DEF DoneInv, KeysAreStripped
<1> QED
  BY <1>2, <1>3, <1>4, <1>5 DEF ScanInv

LEMMA ScanInvScanColumn == ScanInv /\ ScanColumn => ScanInv'
<1> SUFFICES ASSUME ScanInv, ScanColumn
             PROVE  ScanInv'
  OBVIOUS
<1>1. /\ stage = "scanning" /\ events # <<>>
      /\ column \in 1..(Len(events[1].columns) + 1) /\ column <= Len(events[1].columns)
      /\ findings \in Seq(Findings) /\ ToSet(findings) = FoundBefore(column)
      /\ findings' = findings \o ColumnFindings(events[1], column) /\ column' = column + 1
      /\ UNCHANGED <<rules, filter, change, events, stage>>
  BY DEF ScanColumn, ScanInv, ProgressInv
<1> DEFINE e == events[1]
           found == ColumnFindings(e, column)
<1>2. rules \in Seq(Rules) /\ e.columns \in Seq(ScannedColumns) /\ e.keys \in Seq(Keys)
  <2>1. IsFiltered(e)
    BY <1>1, ScannedEvent DEF ScanInv
  <2> QED
    BY <2>1, ScannerAssumption DEF ScanInv, InputsInv, IsFiltered
<1> HIDE DEF e
<1>3. column \in DOMAIN e.columns /\ column \in Nat /\ Len(e.columns) \in Nat
  <2>1. column \in 1..(Len(e.columns) + 1) /\ column <= Len(e.columns)
    BY <1>1 DEF e
  <2>2. DOMAIN e.columns = 1..Len(e.columns) /\ Len(e.columns) \in Nat
    BY <1>2
  <2> QED
    BY <2>1, <2>2
<1>4. found \in Seq(Findings)
  BY <1>2, <1>3, ColumnFindingsFacts
<1> HIDE DEF found
<1>5. findings' \in Seq(Findings) /\ \A x : x \in ToSet(findings') <=> x \in FoundBefore(column) \/ x \in ToSet(found)
  <2>1. findings' = findings \o found
    BY <1>1 DEF found, e
  <2>2. findings \in Seq(Findings) /\ ToSet(findings) = FoundBefore(column)
    BY <1>1
  <2>3. \A x : x \in ToSet(findings \o found) <=> x \in ToSet(findings) \/ x \in ToSet(found)
    BY <1>4, <2>2, AppendedElements
  <2>4. findings \o found \in Seq(Findings)
    BY <1>4, <2>2
  <2> QED
    BY <2>1, <2>2, <2>3, <2>4
<1>6. \A x : x \in FoundBefore(column + 1) <=> x \in FoundBefore(column) \/ x \in ToSet(found)
  <2>1. 1..((column + 1) - 1) = 1..(column - 1) \cup {column}
    BY <1>3
  <2>2. \A x : x \in FoundBefore(column + 1)
                 <=> \E c \in 1..(column - 1) \cup {column} : x \in ToSet(ColumnFindings(events[1], c))
    BY <2>1 DEF FoundBefore
  <2>3. \A x : x \in FoundBefore(column)
                 <=> \E c \in 1..(column - 1) : x \in ToSet(ColumnFindings(events[1], c))
    BY DEF FoundBefore
  <2> QED
    BY <2>2, <2>3 DEF found, e
<1>7. ToSet(findings') = FoundBefore(column)'
  <2>1. ToSet(findings') = FoundBefore(column + 1)
    BY <1>5, <1>6
  <2>2. \A c : ColumnFindings(events[1], c)' = ColumnFindings(events[1], c)
    <3>1. UNCHANGED <<rules, events>>
      BY <1>1
    <3> QED
      BY <3>1 DEF ColumnFindings, ColumnMatches
  <2>3. FoundBefore(column)' = UNION {ToSet(ColumnFindings(events[1], c)') : c \in 1..(column' - 1)}
    BY DEF FoundBefore
  <2>4. FoundBefore(column)' = FoundBefore(column + 1)
    BY <1>1, <2>2, <2>3 DEF FoundBefore
  <2> QED
    BY <2>1, <2>4
<1>8. column' \in 1..(Len(events'[1].columns) + 1)
  <2>1. column + 1 \in 1..(Len(e.columns) + 1)
    BY <1>2, <1>3
  <2> QED
    BY <1>1, <2>1 DEF e
<1>9. ProgressInv'
  BY <1>1, <1>5, <1>7, <1>8 DEF ProgressInv
<1>10. InputsInv' /\ EventsInv' /\ DoneInv' /\ KeysAreStripped'
  BY <1>1 DEF ScanInv, InputsInv, EventsInv, DoneInv, KeysAreStripped
<1> QED
  BY <1>9, <1>10 DEF ScanInv

LEMMA ScanInvFinish == ScanInv /\ Finish => ScanInv'
<1> SUFFICES ASSUME ScanInv, Finish
             PROVE  ScanInv'
  OBVIOUS
<1>1. /\ stage = "scanning" /\ events # <<>>
      /\ column \in 1..(Len(events[1].columns) + 1) /\ column > Len(events[1].columns)
      /\ findings \in Seq(Findings) /\ ToSet(findings) = FoundBefore(column)
      /\ findings' = Stripped(findings) /\ stage' = "done"
      /\ UNCHANGED <<rules, filter, change, events, column>>
  BY DEF Finish, ScanInv, ProgressInv
<1> DEFINE e == events[1]
<1>2. InputsInv /\ IsFiltered(e)
  BY <1>1, ScannedEvent DEF ScanInv
<1>3. e.keys \in Seq(Keys) /\ Len(e.columns) \in Nat
  BY <1>2 DEF IsFiltered
<1>4. column = Len(e.columns) + 1 /\ column \in 1..(Len(e.columns) + 1)
  BY <1>1, <1>3
<1>5. \A f \in ToSet(findings) : f.keys = e.keys
  <2> TAKE f \in ToSet(findings)
  <2>1. f \in FoundBefore(column)
    BY <1>1
  <2>2. PICK c \in 1..(column - 1) : IsFinding(e, e.columns[c], f)
    <3> HIDE DEF e
    <3>1. e = events[1]
      BY DEF e
    <3>2. \A x : x \in FoundBefore(column)
                   <=> \E c \in 1..(column - 1) : IsFinding(e, e.columns[c], x)
      BY <1>2, <1>4, <3>1, FoundBeforeFacts
    <3> QED
      BY <2>1, <3>2
  <2> QED
    BY <2>2 DEF IsFinding, Finding
<1> HIDE DEF e
<1>6. /\ DOMAIN findings' = DOMAIN findings
      /\ \A i \in DOMAIN findings :
           /\ findings'[i].rule = findings[i].rule
           /\ findings'[i].text = findings[i].text
           /\ findings'[i].column = findings[i].column
           /\ ToSet(findings'[i].keys)
                = {k \in ToSet(e.keys) : \A j \in DOMAIN findings : findings[j].column # k.column}
  BY <1>1, <1>3, <1>5, StrippedFacts
<1>7. Reports(ToSet(findings')) = Reports(ToSet(findings))
  <2>1. \A fs : Reports(ToSet(fs)) = {[rule |-> fs[i].rule, text |-> fs[i].text, column |-> fs[i].column] :
                                       i \in DOMAIN fs}
    BY DEF Reports, ToSet
  <2>2. {[rule |-> findings'[i].rule, text |-> findings'[i].text, column |-> findings'[i].column] :
           i \in DOMAIN findings'}
        = {[rule |-> findings[i].rule, text |-> findings[i].text, column |-> findings[i].column] :
             i \in DOMAIN findings}
    BY <1>6
  <2> QED
    BY <2>1, <2>2
<1>8. DoneInv'
  <2>1. FoundBefore(Len(e.columns) + 1)' = FoundBefore(Len(e.columns) + 1)
    <3>1. \A c : ColumnFindings(events[1], c)' = ColumnFindings(events[1], c)
      <4>1. UNCHANGED <<rules, events>>
        BY <1>1
      <4> QED
        BY <4>1 DEF ColumnFindings, ColumnMatches
    <3>2. (Len(e.columns) + 1)' = Len(e.columns) + 1
      BY <1>1 DEF e
    <3>3. FoundBefore(Len(e.columns) + 1)'
            = UNION {ToSet(ColumnFindings(events[1], c)') : c \in 1..((Len(e.columns) + 1)' - 1)}
      BY DEF FoundBefore
    <3> QED
      BY <3>1, <3>2, <3>3 DEF FoundBefore
  <2>2. Reports(ToSet(findings')) = Reports(FoundBefore(Len(e.columns) + 1)')
    BY <1>1, <1>4, <1>7, <2>1
  <2> QED
    BY <1>1, <2>2 DEF DoneInv, e, Reports
<1>9. KeysAreStripped'
  <2>1. events'[1].keys = e.keys
    BY <1>1 DEF e
  <2>2. \A k : (\A j \in DOMAIN findings' : findings'[j].column # k.column)
                 <=> \A j \in DOMAIN findings : findings[j].column # k.column
    BY <1>6
  <2>3. \A i \in DOMAIN findings' :
          ToSet(findings'[i].keys)
            = {k \in ToSet(events'[1].keys) : \A j \in DOMAIN findings' : findings'[j].column # k.column}
    BY <1>6, <2>1, <2>2
  <2> QED
    BY <2>3 DEF KeysAreStripped
<1>10. InputsInv' /\ EventsInv' /\ ProgressInv'
  BY <1>1 DEF ScanInv, InputsInv, EventsInv, ProgressInv
<1> QED
  BY <1>8, <1>9, <1>10 DEF ScanInv

\* The invariant holds at every stage of every change's way through extraction, the
\* filter and the scanner.
THEOREM ScanInvHolds == Spec => []ScanInv
<1>1. ScanInv /\ [Next]_vars => ScanInv'
  <2>1. ScanInv /\ UNCHANGED vars => ScanInv'
    <3> SUFFICES ASSUME ScanInv, UNCHANGED vars
                 PROVE  ScanInv'
      OBVIOUS
    <3>1. UNCHANGED <<rules, filter, change, events, stage, column, findings>>
      BY DEF vars
    <3>2. /\ FoundBefore(column)' = FoundBefore(column)
          /\ FoundBefore(Len(events[1].columns) + 1)' = FoundBefore(Len(events[1].columns) + 1)
      BY <3>1 DEF FoundBefore, ColumnFindings, ColumnMatches
    <3>3. ProgressInv' /\ DoneInv'
      BY <3>1, <3>2 DEF ScanInv, ProgressInv, DoneInv, Reports
    <3> QED
      BY <3>1, <3>3 DEF ScanInv, InputsInv, EventsInv, KeysAreStripped
  <2> QED
    BY <2>1, ScanInvExtract, ScanInvWriteEvents, ScanInvScanColumn, ScanInvFinish DEF Next
<1> QED
  BY <1>1, ScanInvInit, PTL DEF Spec

\* FindingsAreExact asks of a column, a rule and a token.
Promised(i, r, token) ==
  LET c == change.columns[i]
  IN  /\ change.kind \in {"insert", "update"}
      /\ Included(filter.include_schemas, change.schema)
      /\ ~IsMatch(filter.exclude_tables, change.table)
      /\ ~IsMatch(filter.exclude_columns, c.name)
      /\ c.type \notin NonTextTypes
      /\ LET s == rules[r].scope
         IN  /\ Included(s.include_schemas, change.schema)
             /\ Included(s.include_tables, change.table)
             /\ Included(s.include_columns, c.name)
             /\ ~IsMatch(s.exclude_tables, change.table)
             /\ ~IsMatch(s.exclude_columns, c.name)
      /\ \E text \in CellToString(CellOf(i)) : token \in Detects(rules[r], text)

Report(i, r, token) == [rule |-> r, text |-> token, column |-> change.columns[i].name]

\* What the scanner reports in a column that the filter includes is what is promised of it.
LEMMA ReportedIsPromised ==
  ASSUME NEW e, e.schema = change.schema, e.table = change.table, Wanted,
         NEW i, NEW r, NEW token
  PROVE  ShouldIncludeColumn(filter, change.columns[i].name) /\ Reported(e, Scanned(i), r, token)
           <=> Promised(i, r, token)
<1> DEFINE col == change.columns[i]
           s == rules[r].scope
<1>1. /\ Scanned(i).name = col.name /\ Scanned(i).type = col.type
      /\ Scanned(i).value = IF IsScannableType(col.type) THEN CellToString(CellOf(i)) ELSE {}
  BY DEF Scanned
<1>2. ScopeMatches(s, e.schema, e.table, col.name)
        <=> /\ Included(s.include_schemas, change.schema)
            /\ Included(s.include_tables, change.table)
            /\ Included(s.include_columns, col.name)
            /\ ~IsMatch(s.exclude_tables, change.table)
            /\ ~IsMatch(s.exclude_columns, col.name)
  BY DEF ScopeMatches
<1>3. /\ change.kind \in {"insert", "update"}
      /\ Included(filter.include_schemas, change.schema)
      /\ ~IsMatch(filter.exclude_tables, change.table)
  BY DEF Wanted, MatchesSchema, MatchesTable, Included
<1>4. /\ IsScannableType(col.type) <=> col.type \notin NonTextTypes
      /\ ShouldIncludeColumn(filter, col.name) <=> ~IsMatch(filter.exclude_columns, col.name)
  BY DEF IsScannableType, ShouldIncludeColumn
<1>5. Reported(e, Scanned(i), r, token)
        <=> /\ IsScannableType(col.type)
            /\ \E text \in CellToString(CellOf(i)) : token \in Detects(rules[r], text)
            /\ ScopeMatches(s, e.schema, e.table, col.name)
  BY <1>1 DEF Reported
<1> QED
  BY <1>2, <1>3, <1>4, <1>5 DEF Promised

\* A rule detects tokens of the text only.
LEMMA DetectedInText ==
  ASSUME NEW rule, NEW text, NEW token \in Detects(rule, text)
  PROVE  token \in ToSet(text)
BY DEF Detects, ToSet

\* The right side of FindingsAreExact.
Exact == {x \in Expected : \E i \in ColumnsSent : /\ change.columns[i].name = x.column
                                                  /\ Promised(i, x.rule, x.text)}

LEMMA ExactFacts ==
  \A x : x \in Exact <=> \E i \in ColumnsSent : \E r \in DOMAIN rules : \E token :
                           Promised(i, r, token) /\ x = Report(i, r, token)
<1> DEFINE tokens == UNION {ToSet(text) : text \in UNION {CellToString(CellOf(j)) : j \in ColumnsSent}}
<1>1. \A x : x \in Expected <=> \E r \in DOMAIN rules : \E i \in ColumnsSent : \E token \in tokens :
                                  x = Report(i, r, token)
  BY DEF Expected, Report
<1>2. ASSUME NEW i \in ColumnsSent, NEW r, NEW token, Promised(i, r, token)
      PROVE  token \in tokens
  <2>1. PICK text \in CellToString(CellOf(i)) : token \in Detects(rules[r], text)
    BY <1>2 DEF Promised
  <2>2. token \in ToSet(text)
    BY <2>1, DetectedInText
  <2> QED
    BY <2>1, <2>2
<1> HIDE DEF tokens
<1>3. \A i, r, token : /\ Report(i, r, token).rule = r /\ Report(i, r, token).text = token
                       /\ Report(i, r, token).column = change.columns[i].name
  BY DEF Report
<1>4. ASSUME NEW x, NEW i \in ColumnsSent, NEW r \in DOMAIN rules, NEW token,
             Promised(i, r, token), x = Report(i, r, token)
      PROVE  x \in Exact
  <2>1. x \in Expected
    BY <1>1, <1>2, <1>4
  <2>2. change.columns[i].name = x.column /\ Promised(i, x.rule, x.text)
    BY <1>3, <1>4
  <2> QED
    BY <2>1, <2>2 DEF Exact
<1>5. ASSUME NEW x \in Exact
      PROVE  \E i \in ColumnsSent : \E r \in DOMAIN rules : \E token :
               Promised(i, r, token) /\ x = Report(i, r, token)
  <2>1. PICK i \in ColumnsSent : change.columns[i].name = x.column /\ Promised(i, x.rule, x.text)
    BY DEF Exact
  <2>2. PICK r \in DOMAIN rules, j \in ColumnsSent, token \in tokens : x = Report(j, r, token)
    BY <1>1 DEF Exact
  <2>3. x = Report(i, r, token) /\ Promised(i, r, token)
    BY <1>3, <2>1, <2>2 DEF Report
  <2> QED
    BY <2>3
<1> QED
  BY <1>4, <1>5

\* When a change is done, its findings report exactly what is promised.
LEMMA DoneIsExact ==
  ASSUME ScanInv, stage = "done"
  PROVE  Reports(ToSet(findings)) = Exact
<1>1. InputsInv /\ EventsInv /\ DoneInv
  BY DEF ScanInv
<1>2. Wanted <=> events # <<>>
  BY <1>1, ScannedEvent
<1>3. CASE events = <<>>
  <2>1. findings = <<>>
    BY <1>1, <1>3 DEF DoneInv
  <2>2. Reports(ToSet(findings)) = {}
    BY <2>1 DEF Reports, ToSet
  <2>3. \A i, r, token : Promised(i, r, token) => Wanted
    BY DEF Promised, Wanted, MatchesSchema, MatchesTable, Included
  <2>4. Exact = {}
    BY <1>2, <1>3, <2>3, ExactFacts
  <2> QED
    BY <2>2, <2>4
<1>4. CASE events # <<>>
  <2> DEFINE e == events[1]
             n == Len(e.columns) + 1
  <2>1. Wanted /\ IsFiltered(e)
    BY <1>1, <1>2, <1>4, ScannedEvent
  <2>2. Reports(ToSet(findings)) = Reports(FoundBefore(n))
    BY <1>1, <1>4 DEF DoneInv
  <2>3. /\ e.columns \in Seq(ScannedColumns) /\ e.schema = change.schema /\ e.table = change.table
        /\ \A c : c \in ToSet(e.columns)
                    <=> \E i \in ColumnsSent : /\ c = Scanned(i)
                                               /\ ShouldIncludeColumn(filter, change.columns[i].name)
    BY <2>1 DEF IsFiltered
  <2>4. n \in 1..(Len(e.columns) + 1) /\ 1..(n - 1) = DOMAIN e.columns
    BY <2>3
  <2>5. \A x : x \in FoundBefore(n) <=> \E c \in 1..(n - 1) : IsFinding(e, e.columns[c], x)
    BY <1>1, <2>1, <2>4, FoundBeforeFacts
  <2> HIDE DEF e, n
  <2>6. \A x : x \in FoundBefore(n) <=> \E col \in ToSet(e.columns) : IsFinding(e, col, x)
    BY <2>4, <2>5 DEF ToSet
  <2>7. \A x : x \in FoundBefore(n)
                 <=> \E i \in ColumnsSent : /\ ShouldIncludeColumn(filter, change.columns[i].name)
                                            /\ IsFinding(e, Scanned(i), x)
    BY <2>3, <2>6
  <2>8. \A x : x \in FoundBefore(n)
                 <=> \E i \in ColumnsSent : \E r \in DOMAIN rules : \E token :
                       Promised(i, r, token) /\ x = Finding(e, Scanned(i), r, token)
    <3>1. \A i, r, token :
            ShouldIncludeColumn(filter, change.columns[i].name) /\ Reported(e, Scanned(i), r, token)
              <=> Promised(i, r, token)
      BY <2>1, <2>3, ReportedIsPromised
    <3> QED
      BY <2>7, <3>1 DEF IsFinding
  <2> DEFINE report(f) == [rule |-> f.rule, text |-> f.text, column |-> f.column]
  <2>9. \A i, r, token : report(Finding(e, Scanned(i), r, token)) = Report(i, r, token)
    BY DEF Finding, Scanned, Report
  <2>10. \A x : x \in Reports(FoundBefore(n)) <=> \E f \in FoundBefore(n) : x = report(f)
    BY DEF Reports
  <2> HIDE DEF report
  <2>11. \A x : x \in Reports(FoundBefore(n)) <=> x \in Exact
    BY <2>8, <2>9, <2>10, ExactFacts
  <2>12. Reports(FoundBefore(n)) = Exact
    <3>1. \A x \in Reports(FoundBefore(n)) : x \in Exact
      BY <2>11
    <3>2. \A x \in Exact : x \in Reports(FoundBefore(n))
      BY <2>11
    <3> QED
      BY <3>1, <3>2
  <2> QED
    BY <2>2, <2>12
<1> QED
  BY <1>3, <1>4

\* A change is scanned for exactly what its rules define, whatever the rules, the filter,
\* the tables, the columns a partial update leaves out and the texts: the prefilter, the
\* indexes into the rules, the three phases and the aligning of partial rows with their
\* columns neither lose a finding nor give one to another rule or column.
THEOREM FindingsExact == Spec => []FindingsAreExact
<1>1. ScanInv => FindingsAreExact
  <2> SUFFICES ASSUME ScanInv, stage = "done"
               PROVE  {[rule |-> findings[i].rule, text |-> findings[i].text,
                        column |-> findings[i].column] : i \in DOMAIN findings} = Exact
    BY DEF FindingsAreExact, Exact, Promised
  <2>1. Reports(ToSet(findings)) = Exact
    BY DoneIsExact
  <2>2. {[rule |-> findings[i].rule, text |-> findings[i].text,
          column |-> findings[i].column] : i \in DOMAIN findings} = Reports(ToSet(findings))
    BY DEF Reports, ToSet
  <2> QED
    BY <2>1, <2>2
<1> QED
  BY <1>1, ScanInvHolds, PTL

\* No finding carries the value of a key column in which anything was found, and none
\* loses a key column in which nothing was found, however many findings and keys there are.
THEOREM KeysStripped == Spec => []KeysAreStripped
<1>1. ScanInv => KeysAreStripped
  BY DEF ScanInv
<1> QED
  BY <1>1, ScanInvHolds, PTL

\* The keys of an event are the key columns of the change that have a value, each under
\* its own name, whichever columns a partial update leaves out, from extraction on.
THEOREM KeysAligned == Spec => []KeysAreAligned
<1>1. ScanInv => KeysAreAligned
  <2> SUFFICES ASSUME ScanInv, NEW e \in ToSet(events)
               PROVE  \A k : k \in ToSet(e.keys) <=> k \in KeysSent
    BY DEF KeysAreAligned, KeysSent
  <2>1. InputsInv /\ EventsInv /\ change \in Changes
    BY DEF ScanInv, InputsInv
  <2>2. stage # "arrived" /\ events # <<>>
    BY <2>1 DEF EventsInv, ToSet
  <2>3. CASE stage \in {"scanning", "done"}
    BY <2>1, <2>2, <2>3, ScannedEvent DEF IsFiltered
  <2>4. CASE stage = "extracted"
    <3>1. events = ExtractScanEvents(change)
      BY <2>1, <2>4 DEF EventsInv
    <3>2. change.kind \in {"insert", "update"}
      BY <2>1, <2>2, <3>1, ExtractedFacts
    <3>3. PICK pairs \in Seq(Pairs) :
            /\ events = <<ScanEvent(change, pairs)>>
            /\ \A x : x \in ToSet(pairs) <=> \E i \in ColumnsSent : x = Sent(i)
      BY <2>1, <3>1, <3>2, ExtractedFacts
    <3>4. e = ScanEvent(change, pairs)
      BY <3>3 DEF ToSet
    <3>5. e.keys = PrimaryKeys(pairs)
      BY <3>4 DEF ScanEvent
    <3>6. \A k : k \in ToSet(PrimaryKeys(pairs)) <=> k \in KeysSent
      BY <2>1, <3>2, <3>3, EventFacts
    <3> QED
      BY <3>5, <3>6
  <2> QED
    BY <2>1, <2>2, <2>3, <2>4 DEF EventsInv
<1> QED
  BY <1>1, ScanInvHolds, PTL

=============================================================================
