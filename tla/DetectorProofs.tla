--------------------------- MODULE DetectorProofs ---------------------------
(***************************************************************************)
(* Proofs about Detectors, for every text, every limit and every phone     *)
(* library: each of the five detectors reports a text of its format and    *)
(* misses none that stands apart, the formats being those of MCDetectors.  *)
(*                                                                         *)
(* A scan is a loop that jumps: what Walk reports is what some place it    *)
(* comes to reports, and every place it jumps over is known to begin       *)
(* nothing.  Where an inner loop ends is a least or greatest place, and    *)
(* the bytes in front of it are known.                                     *)
(*                                                                         *)
(* A validator computes over the text from one end, its format is stated   *)
(* from the other or by place: both are recursions over the places of the  *)
(* text, and an induction over the places relates them (the sum of Luhn,   *)
(* the remainder of an IBAN, the digits kept of a number).                 *)
(*                                                                         *)
(* That the text is a sequence of bytes is all the proofs need of the      *)
(* behaviour.                                                              *)
(***************************************************************************)
EXTENDS MCDetectors, WellFoundedInduction, FiniteSetTheorems, SequenceTheorems, TLAPS

---------------------------------------------------------------------------
(* Texts, least and greatest places *)

Texts == Seq(STRING)

LEMMA TextFacts ==
  ASSUME NEW t \in Texts
  PROVE  Len(t) \in Nat /\ DOMAIN t = 1..Len(t)
  BY DEF Texts

\* The ten digits, none of which is a mark.
LEMMA DigitsAreNoMarks ==
  /\ Digits = {"0", "1", "2", "3", "4", "5", "6", "7", "8", "9"}
  /\ Digits \cap {" ", "-", ".", "(", ")", "+", "@"} = {}
<1>1. Digits = {Numerals[i] : i \in 1..10}
  <2>1. DOMAIN Numerals = 1..10
    BY DEF Numerals
  <2> QED
    BY <2>1 DEF Digits, ToSet
<1>2. {Numerals[i] : i \in 1..10} = {"0", "1", "2", "3", "4", "5", "6", "7", "8", "9"}
  <2>1. \A b : b \in {Numerals[i] : i \in 1..10} <=> \E i \in 1..10 : b = Numerals[i]
    OBVIOUS
  <2>2. \A b : (\E i \in 1..10 : b = Numerals[i])
                <=> b \in {"0", "1", "2", "3", "4", "5", "6", "7", "8", "9"}
    BY DEF Numerals
  <2> QED
    BY <2>1, <2>2
<1>3. Digits = {"0", "1", "2", "3", "4", "5", "6", "7", "8", "9"}
  BY <1>1, <1>2
<1> QED
  BY <1>3

\* A set of natural numbers that is not empty has a least element.
LEMMA LeastElement ==
  ASSUME NEW S \in SUBSET Nat, S # {}
  PROVE  \E n \in S : \A k \in S : n <= k
<1>1. PICK n \in S : \A k \in S : ~ <<k, n>> \in OpToRel(<, Nat)
  BY NatLessThanWellFounded, WFMin
<1>2. \A k \in S : <<k, n>> \in Nat \X Nat
  OBVIOUS
<1>3. \A k \in S : ~ k < n
  BY <1>1, <1>2 DEF OpToRel
<1>4. \A k \in S : k \in Nat /\ n \in Nat
  OBVIOUS
<1>5. \A k \in S : n <= k
  BY <1>3, <1>4
<1> QED
  BY <1>5

\* A set that contains 0 and with every number below n the next one contains 0..n.
LEMMA SetInduction ==
  ASSUME NEW n \in Nat, NEW G,
         0 \in G, \A k \in 1..n : k - 1 \in G => k \in G
  PROVE  \A k \in 0..n : k \in G
<1> DEFINE Bad == {k \in 0..n : k \notin G}
<1>1. SUFFICES ASSUME Bad # {}
               PROVE  FALSE
  OBVIOUS
<1>2. PICK k \in Bad : \A j \in Bad : k <= j
  <2>1. Bad \in SUBSET Nat
    OBVIOUS
  <2> HIDE DEF Bad
  <2> QED
    BY <1>1, <2>1, LeastElement
<1>3. k \in 1..n /\ k - 1 \in 0..n
  OBVIOUS
<1>4. k - 1 \in G
  BY <1>2, <1>3
<1> QED
  BY <1>3, <1>4

LEMMA LeastOf ==
  ASSUME NEW S \in SUBSET Nat, S # {}
  PROVE  Min(S) \in S /\ \A k \in S : Min(S) <= k
<1>1. \E n \in S : \A k \in S : n <= k
  BY LeastElement
<1> QED
  BY <1>1 DEF Min

LEMMA GreatestOf ==
  ASSUME NEW n \in Nat, NEW S \in SUBSET (0..n), S # {}
  PROVE  Max(S) \in S /\ \A k \in S : k <= Max(S)
<1> DEFINE Gaps == {n - k : k \in S}
<1>1. Gaps \in SUBSET Nat /\ Gaps # {}
  <2>1. \A k \in S : n - k \in Nat
    OBVIOUS
  <2>2. Gaps \subseteq Nat
    BY <2>1
  <2>3. PICK k \in S : TRUE
    OBVIOUS
  <2>4. n - k \in Gaps
    OBVIOUS
  <2> QED
    BY <2>2, <2>4
<1>2. PICK g \in Gaps : \A h \in Gaps : g <= h
  <2> HIDE DEF Gaps
  <2> QED
    BY <1>1, LeastElement
<1>3. PICK m \in S : g = n - m
  OBVIOUS
<1>4. ASSUME NEW k \in S
      PROVE  m >= k
  <2>1. n - k \in Gaps
    OBVIOUS
  <2>2. n - m <= n - k
    BY <1>2, <1>3, <2>1
  <2>3. m \in Int /\ k \in Int /\ n \in Int
    BY <1>3
  <2> QED
    BY <2>2, <2>3
<1>5. \E x \in S : \A y \in S : x >= y
  BY <1>4
<1>6. Max(S) \in S /\ \A k \in S : Max(S) >= k
  BY <1>5 DEF Max
<1>7. \A k \in S : k \in Int
  OBVIOUS
<1> QED
  BY <1>6, <1>7

\* How many there are is a number, none before the first place, and grows with a place.
LEMMA CountedNat ==
  ASSUME NEW t, NEW i \in Nat, NEW j \in Nat, NEW bytes
  PROVE  Counted(t, i, j, bytes) \in Nat
<1> DEFINE C == {k \in i..j : t[k] \in bytes}
<1>1. IsFiniteSet(i..j) /\ C \in SUBSET (i..j)
  BY FS_Interval
<1> HIDE DEF C
<1>2. IsFiniteSet(C)
  BY <1>1, FS_Subset
<1> QED
  BY <1>2, FS_CardinalityType DEF Counted, C

LEMMA CountedNone ==
  ASSUME NEW t, NEW i \in Nat, NEW bytes
  PROVE  Counted(t, i, i - 1, bytes) = 0
<1>1. {k \in i..(i - 1) : t[k] \in bytes} = {}
  OBVIOUS
<1> QED
  BY <1>1, FS_EmptySet DEF Counted

LEMMA CountedSome ==
  ASSUME NEW t, NEW i \in Nat, NEW j \in Nat, NEW bytes, Counted(t, i, j, bytes) > 0
  PROVE  \E k \in i..j : t[k] \in bytes
<1>1. {k \in i..j : t[k] \in bytes} # {}
  BY FS_EmptySet DEF Counted
<1> QED
  BY <1>1

LEMMA CountedStep ==
  ASSUME NEW t, NEW i \in Nat, NEW j \in Nat, j >= i, NEW bytes
  PROVE  /\ t[j] \in bytes => Counted(t, i, j, bytes) = Counted(t, i, j - 1, bytes) + 1
         /\ t[j] \notin bytes => Counted(t, i, j, bytes) = Counted(t, i, j - 1, bytes)
<1> DEFINE C(h) == {k \in i..h : t[k] \in bytes}
<1>1. j - 1 \in Int /\ j \in i..j /\ j \notin C(j - 1) /\ i..j = (i..(j - 1)) \cup {j}
  OBVIOUS
<1>2. CASE t[j] \in bytes
  <2>1. C(j) = C(j - 1) \cup {j}
    BY <1>1, <1>2
  <2>2. IsFiniteSet(i..(j - 1)) /\ C(j - 1) \in SUBSET (i..(j - 1))
    BY <1>1, FS_Interval
  <2> HIDE DEF C
  <2>3. IsFiniteSet(C(j - 1))
    BY <2>2, FS_Subset
  <2>4. Cardinality(C(j)) = Cardinality(C(j - 1)) + 1
    BY <1>1, <2>1, <2>3, FS_AddElement
  <2> QED
    BY <1>2, <2>4 DEF Counted, C
<1>3. CASE t[j] \notin bytes
  <2>1. C(j) = C(j - 1)
    BY <1>1, <1>3
  <2> QED
    BY <1>3, <2>1 DEF Counted
<1> QED
  BY <1>2, <1>3

---------------------------------------------------------------------------
(* The loop over a text *)

\* The places it comes to: from the first on, and then always to the next, nothing between.
Visits(V, n, next) == /\ V \subseteq 1..n
                      /\ n > 0 => 1 \in V
                      /\ \A i \in V : next[i] <= n => next[i] \in V
                      /\ \A i, j \in V : i < j => next[i] <= j

Advances(n, next) == \A i \in 1..n : next[i] \in (i + 1)..(n + 1)

\* A function that meets the recursion of Walk.
Walks(from, n, report, next) ==
  /\ \A i \in 1..(n + 1) : from[i] = IF i > n THEN {} ELSE report[i] \cup from[next[i]]
  /\ Walk(n, report, next) = from[1]

LEMMA WalkRecursion ==
  ASSUME NEW n \in Nat, NEW report, NEW next, Advances(n, next)
  PROVE  \E from : Walks(from, n, report, next)
<1> DEFINE IsPart(f, k) ==
             f = [i \in k..(n + 1) |-> IF i > n THEN {} ELSE report[i] \cup f[next[i]]]
           G == {d \in 0..n : \E f : IsPart(f, n + 1 - d)}
<1>1. 0 \in G
  <2>1. IsPart([i \in (n + 1)..(n + 1) |-> {}], n + 1)
    OBVIOUS
  <2>2. n + 1 - 0 = n + 1 /\ 0 \in 0..n
    OBVIOUS
  <2> HIDE DEF IsPart
  <2> QED
    BY <2>1, <2>2
<1>2. ASSUME NEW d \in 1..n, d - 1 \in G
      PROVE  d \in G
  <2> DEFINE k == n + 1 - d
  <2>1. k \in 1..n /\ n + 1 - (d - 1) = k + 1
    OBVIOUS
  <2>2. PICK f : IsPart(f, k + 1)
    <3> HIDE DEF IsPart, k
    <3> QED
      BY <1>2, <2>1
  <2> DEFINE g == [i \in k..(n + 1) |-> IF i = k THEN report[k] \cup f[next[k]] ELSE f[i]]
  <2>3. \A i \in (k + 1)..(n + 1) :
          f[i] = IF i > n THEN {} ELSE report[i] \cup f[next[i]]
    BY <2>2
  <2> HIDE DEF k
  <2>4. \A i \in 1..n : next[i] \in (i + 1)..(n + 1)
    BY DEF Advances
  <2>5. ASSUME NEW i \in k..(n + 1)
        PROVE  g[i] = IF i > n THEN {} ELSE report[i] \cup g[next[i]]
    <3>1. CASE i = k
      <4>1. next[k] \in (k + 1)..(n + 1)
        BY <2>1, <2>4
      <4>2. g[next[k]] = f[next[k]]
        BY <2>1, <4>1
      <4>3. g[k] = report[k] \cup f[next[k]] /\ ~(k > n)
        BY <2>1
      <4> HIDE DEF g
      <4> QED
        BY <3>1, <4>2, <4>3
    <3>2. CASE i # k /\ i <= n
      <4>1. i \in (k + 1)..(n + 1) /\ i \in 1..n
        BY <2>1, <3>2
      <4>2. next[i] \in (i + 1)..(n + 1)
        BY <2>4, <4>1
      <4>3. next[i] \in k..(n + 1) /\ next[i] # k
        BY <2>1, <4>1, <4>2
      <4>4. g[next[i]] = f[next[i]] /\ g[i] = f[i]
        BY <3>2, <4>3
      <4> QED
        BY <2>3, <3>2, <4>1, <4>4
    <3>3. CASE i > n
      <4>1. i \in (k + 1)..(n + 1) /\ i # k
        BY <2>1, <3>3
      <4> QED
        BY <2>3, <3>3, <4>1
    <3> QED
      BY <2>1, <3>1, <3>2, <3>3
  <2>6. IsPart(g, k)
    <3>1. g = [i \in k..(n + 1) |-> g[i]]
      OBVIOUS
    <3> HIDE DEF g
    <3> QED
      BY <2>5, <3>1
  <2> HIDE DEF g, IsPart
  <2> QED
    BY <2>6 DEF k
<1>3. n \in G
  <2> HIDE DEF G
  <2>1. \A d \in 0..n : d \in G
    BY <1>1, <1>2, SetInduction
  <2> QED
    BY <2>1
<1>4. \E f : IsPart(f, 1)
  <2>1. n + 1 - n = 1
    OBVIOUS
  <2> HIDE DEF IsPart
  <2> QED
    BY <1>3, <2>1
<1> DEFINE from == CHOOSE f : IsPart(f, 1)
<1>5. IsPart(from, 1)
  <2> HIDE DEF IsPart
  <2> QED
    BY <1>4
<1>6. Walk(n, report, next) = from[1]
  BY DEF Walk
<1> HIDE DEF from
<1>7. \A i \in 1..(n + 1) : from[i] = IF i > n THEN {} ELSE report[i] \cup from[next[i]]
  BY <1>5
<1>8. Walks(from, n, report, next)
  BY <1>6, <1>7 DEF Walks
<1> QED
  BY <1>8

\* The result is what is reported at the places the loop comes to.
LEMMA WalkFacts ==
  ASSUME NEW n \in Nat, NEW report, NEW next, Advances(n, next)
  PROVE  \E V : /\ Visits(V, n, next)
                /\ Walk(n, report, next) = UNION {report[i] : i \in V}
<1>1. PICK from : Walks(from, n, report, next)
  BY WalkRecursion
<1>2. /\ from[n + 1] = {}
      /\ \A i \in 1..n : from[i] = report[i] \cup from[next[i]]
      /\ Walk(n, report, next) = from[1]
  <2>1. /\ n + 1 \in 1..(n + 1) /\ n + 1 > n
        /\ \A i \in 1..n : i \in 1..(n + 1) /\ ~(i > n)
    OBVIOUS
  <2> QED
    BY <1>1, <2>1 DEF Walks
<1>3. \A i \in 1..n : next[i] \in (i + 1)..(n + 1)
  BY DEF Advances
<1> DEFINE Sees(V, k) == /\ V \subseteq k..n
                         /\ k <= n => k \in V
                         /\ \A i \in V : next[i] <= n => next[i] \in V
                         /\ \A i, j \in V : i < j => next[i] <= j
                         /\ from[k] = UNION {report[i] : i \in V}
           \* by strong induction: for all places behind
           G == {d \in 0..n : \A k \in (n + 1 - d)..(n + 1) : \E V : Sees(V, k)}
<1>4. 0 \in G
  <2>1. \A k \in (n + 1 - 0)..(n + 1) : k = n + 1
    OBVIOUS
  <2>2. from[n + 1] = {}
    BY <1>2
  <2>3. Sees({}, n + 1)
    BY <2>2
  <2> HIDE DEF Sees
  <2> QED
    BY <2>1, <2>3
<1>5. ASSUME NEW d \in 1..n, d - 1 \in G
      PROVE  d \in G
  <2> DEFINE k == n + 1 - d
  <2>1. k \in 1..n /\ n + 1 - (d - 1) = k + 1
    OBVIOUS
  <2>2. \A j \in (k + 1)..(n + 1) : \E V : Sees(V, j)
    <3> HIDE DEF Sees, k
    <3> QED
      BY <1>5, <2>1
  <2> HIDE DEF k
  <2>3. next[k] \in (k + 1)..(n + 1)
    BY <1>3, <2>1
  <2>4. PICK V : Sees(V, next[k])
    <3> HIDE DEF Sees
    <3> QED
      BY <2>2, <2>3
  <2>5. Sees(V \cup {k}, k)
    <3>1. /\ V \subseteq next[k]..n
          /\ next[k] <= n => next[k] \in V
          /\ \A i \in V : next[i] <= n => next[i] \in V
          /\ \A i, j \in V : i < j => next[i] <= j
          /\ from[next[k]] = UNION {report[i] : i \in V}
      BY <2>4
    <3> HIDE DEF Sees
    <3>2. V \cup {k} \subseteq k..n
      BY <2>1, <2>3, <3>1
    <3>3. \A i \in V \cup {k} : next[i] <= n => next[i] \in V \cup {k}
      BY <3>1
    <3>4. ASSUME NEW i \in V \cup {k}, NEW j \in V \cup {k}, i < j
          PROVE  next[i] <= j
      <4>1. CASE i = k
        <5>1. j \in V
          BY <2>1, <3>4, <4>1
        <5> QED
          BY <2>3, <3>1, <4>1, <5>1
      <4>2. CASE i # k /\ j # k
        BY <3>1, <3>4, <4>2
      <4>3. CASE i # k /\ j = k
        <5>1. i >= next[k]
          BY <3>1, <4>3
        <5> QED
          BY <2>1, <2>3, <3>1, <3>4, <4>3, <5>1
      <4> QED
        BY <4>1, <4>2, <4>3
    <3>5. from[k] = report[k] \cup from[next[k]]
      BY <1>2, <2>1
    <3>6. UNION {report[i] : i \in V \cup {k}} = report[k] \cup UNION {report[i] : i \in V}
      OBVIOUS
    <3>7. from[k] = UNION {report[i] : i \in V \cup {k}}
      BY <3>1, <3>5, <3>6
    <3> QED
      BY <3>2, <3>3, <3>4, <3>7 DEF Sees
  <2> HIDE DEF Sees
  <2>6. ASSUME NEW j \in k..(n + 1)
        PROVE  \E W : Sees(W, j)
    <3>1. CASE j = k
      BY <2>5, <3>1
    <3>2. CASE j # k
      <4>1. j \in (k + 1)..(n + 1)
        BY <2>1, <3>2
      <4> QED
        BY <2>2, <4>1
    <3> QED
      BY <3>1, <3>2
  <2> QED
    BY <2>6 DEF k
<1>6. n \in G
  <2> HIDE DEF G
  <2>1. \A d \in 0..n : d \in G
    BY <1>4, <1>5, SetInduction
  <2> QED
    BY <2>1
<1>7. \E V : Sees(V, 1)
  <2>1. 1 \in (n + 1 - n)..(n + 1)
    OBVIOUS
  <2> HIDE DEF Sees
  <2> QED
    BY <1>6, <2>1
<1>8. PICK V : Sees(V, 1)
  <2> HIDE DEF Sees
  <2> QED
    BY <1>7
<1>9. Visits(V, n, next) /\ Walk(n, report, next) = UNION {report[i] : i \in V}
  BY <1>2, <1>8 DEF Visits
<1> QED
  BY <1>9

---------------------------------------------------------------------------
(* What the detectors report *)

\* Where a loop over the places from i on stops: at the first of those it does not pass.
LEMMA StopFacts ==
  ASSUME NEW i \in Nat, NEW last \in Nat, i <= last, NEW S \in SUBSET (i..last), last \in S
  PROVE  /\ Min(S) \in i..last /\ Min(S) \in S
         /\ \A k \in i..(Min(S) - 1) : k \notin S
<1>1. S \in SUBSET Nat /\ S # {}
  OBVIOUS
<1>2. Min(S) \in S /\ \A k \in S : Min(S) <= k
  BY <1>1, LeastOf
<1>3. Min(S) \in i..last
  BY <1>2
<1>4. \A k \in i..(Min(S) - 1) : ~(Min(S) <= k)
  BY <1>3
<1> QED
  BY <1>2, <1>3, <1>4

\* A span of the text that has none of the bytes on either side.
StandsAlone(t, span, bytes) == /\ span \in (DOMAIN t) \X (DOMAIN t)
                               /\ span[1] <= span[2]
                               /\ ~At(t, span[1] - 1, bytes)
                               /\ ~At(t, span[2] + 1, bytes)

Apart(S) == \A s, o \in S : s = o \/ o[1] > s[2] \/ o[2] < s[1]

\* What a loop reports at a place that it comes to begins there and ends before the next
\* one: no two reports overlap.
LEMMA WalksApart ==
  ASSUME NEW n \in Nat, NEW report, NEW next, Advances(n, next),
         \A i \in 1..n : \A s \in report[i] : s[1] = i /\ s[2] \in Int /\ s[2] < next[i],
         \A i \in 1..n : \A s, o \in report[i] : s = o
  PROVE  Apart(Walk(n, report, next))
<1>1. PICK V : /\ Visits(V, n, next)
               /\ Walk(n, report, next) = UNION {report[i] : i \in V}
  BY WalkFacts
<1>2. V \subseteq 1..n /\ \A i, j \in V : i < j => next[i] <= j
  BY <1>1 DEF Visits
<1>3. SUFFICES ASSUME NEW i \in V, NEW j \in V, NEW s \in report[i], NEW o \in report[j], s # o
               PROVE  o[1] > s[2] \/ o[2] < s[1]
  BY <1>1 DEF Apart
<1>4. /\ i \in 1..n /\ j \in 1..n /\ i # j
      /\ s[1] = i /\ s[2] \in Int /\ s[2] < next[i] /\ o[1] = j /\ o[2] \in Int /\ o[2] < next[j]
      /\ next[i] \in Int /\ next[j] \in Int
  BY <1>2, <1>3 DEF Advances
<1>5. CASE i < j
  <2>1. next[i] <= j
    BY <1>2, <1>5
  <2> QED
    BY <1>4, <2>1
<1>6. CASE j < i
  <2>1. next[j] <= i
    BY <1>2, <1>6
  <2> QED
    BY <1>4, <2>1
<1> QED
  BY <1>4, <1>5, <1>6

\* Whether the loop over a card number passes the byte at j.
CardGoes(t, i, j) ==
  /\ Counted(t, i, j - 1, Digits) < MaxCard
  /\ \/ At(t, j, Digits)
     \/ Counted(t, i, j - 1, Digits) > 0 /\ At(t, j, {" ", "-"}) /\ At(t, j + 1, Digits)

LEMMA CardRunFacts ==
  ASSUME NEW t \in Texts, NEW i \in DOMAIN t, t[i] \in Digits
  PROVE  LET j == CardRun(t, i)[1]
         IN  /\ j \in (i + 1)..(Len(t) + 1)
             /\ CardRun(t, i)[2] = Counted(t, i, j - 1, Digits)
             /\ ~CardGoes(t, i, j)
             /\ \A k \in i..(j - 1) : CardGoes(t, i, k)
<1> DEFINE S == {j \in i..(Len(t) + 1) : ~CardGoes(t, i, j)}
           j == CardRun(t, i)[1]
<1>1. Len(t) \in Nat /\ DOMAIN t = 1..Len(t) /\ i \in 1..Len(t)
  BY TextFacts
<1>2. j = Min(S) /\ CardRun(t, i)[2] = Counted(t, i, j - 1, Digits)
  BY DEF CardRun, CardGoes
<1>3. Len(t) + 1 \in S
  <2>1. ~CardGoes(t, i, Len(t) + 1)
    <3>1. Len(t) + 1 \notin DOMAIN t
      BY <1>1
    <3> QED
      BY <3>1 DEF CardGoes, At
  <2> QED
    BY <1>1, <2>1
<1>4. CardGoes(t, i, i)
  <2>1. Counted(t, i, i - 1, Digits) = 0
    BY <1>1, CountedNone
  <2>2. MaxCard \in Nat \ {0}
    BY DetectorsAssumption DEF DetectorsAssumption
  <2>3. At(t, i, Digits)
    BY DEF At
  <2> QED
    BY <2>1, <2>2, <2>3 DEF CardGoes
<1>5. /\ j \in i..(Len(t) + 1) /\ j \in S
      /\ \A k \in i..(j - 1) : k \notin S
  <2>1. S \in SUBSET (i..(Len(t) + 1)) /\ i \in Nat /\ Len(t) + 1 \in Nat /\ i <= Len(t) + 1
    BY <1>1
  <2> HIDE DEF S, j
  <2> QED
    BY <1>2, <1>3, <2>1, StopFacts
<1>6. \A k \in i..(j - 1) : CardGoes(t, i, k)
  <2> HIDE DEF j
  <2>1. \A k \in i..(j - 1) : k \in i..(Len(t) + 1)
    BY <1>1, <1>5
  <2> QED
    BY <1>5, <2>1
<1>7. ~CardGoes(t, i, j) /\ j # i
  BY <1>4, <1>5
<1> HIDE DEF j
<1>8. j \in (i + 1)..(Len(t) + 1)
  BY <1>1, <1>5, <1>7
<1> QED
  BY <1>2, <1>6, <1>7, <1>8 DEF j

LEMMA WalkReports ==
  ASSUME NEW n \in Nat, NEW report, NEW next, Advances(n, next)
  PROVE  \A s \in Walk(n, report, next) : \E i \in 1..n : s \in report[i]
<1>1. PICK V : /\ Visits(V, n, next)
               /\ Walk(n, report, next) = UNION {report[i] : i \in V}
  BY WalkFacts
<1>2. V \subseteq 1..n
  BY <1>1 DEF Visits
<1> QED
  BY <1>1, <1>2

\* A card number starts at a digit that no byte of a word precedes.
CardTried(t, i) == t[i] \in Digits /\ ~At(t, i - 1, WordBytes)
CardsFrom(t) == [i \in DOMAIN t |-> IF CardTried(t, i) THEN CardAt(t, i) ELSE {}]
CardsNext(t) == [i \in DOMAIN t |-> IF CardTried(t, i) THEN CardRun(t, i)[1] ELSE i + 1]

LEMMA ScanCardsFacts ==
  ASSUME NEW t \in Texts
  PROVE  /\ ScanCards(t) = Walk(Len(t), CardsFrom(t), CardsNext(t))
         /\ Advances(Len(t), CardsNext(t))
         /\ \A i \in DOMAIN t : \A s \in CardsFrom(t)[i] :
              /\ CardTried(t, i) /\ s = <<i, CardsNext(t)[i] - 1>>
              /\ CardsNext(t)[i] = CardRun(t, i)[1]
              /\ CardRun(t, i)[2] \in MinCard..MaxCard
              /\ ~At(t, CardsNext(t)[i], WordBytes)
<1>1. Len(t) \in Nat /\ DOMAIN t = 1..Len(t)
  BY TextFacts
<1>2. ScanCards(t) = Walk(Len(t), CardsFrom(t), CardsNext(t))
  BY DEF ScanCards, CardsFrom, CardsNext, CardTried
<1>3. ASSUME NEW i \in DOMAIN t
      PROVE  CardsNext(t)[i] \in (i + 1)..(Len(t) + 1)
  <2>1. CASE CardTried(t, i)
    <3>1. CardRun(t, i)[1] \in (i + 1)..(Len(t) + 1)
      BY <2>1, CardRunFacts DEF CardTried
    <3> QED
      BY <2>1, <3>1 DEF CardsNext
  <2>2. CASE ~CardTried(t, i)
    <3>1. i + 1 \in (i + 1)..(Len(t) + 1)
      BY <1>1
    <3> QED
      BY <2>2, <3>1 DEF CardsNext
  <2> QED
    BY <2>1, <2>2
<1>4. ASSUME NEW i \in DOMAIN t, NEW s \in CardsFrom(t)[i]
      PROVE  /\ CardTried(t, i) /\ s = <<i, CardsNext(t)[i] - 1>>
             /\ CardsNext(t)[i] = CardRun(t, i)[1]
             /\ CardRun(t, i)[2] \in MinCard..MaxCard
             /\ ~At(t, CardsNext(t)[i], WordBytes)
  <2>1. CardTried(t, i) /\ s \in CardAt(t, i)
    BY <1>4 DEF CardsFrom
  <2>2. CardsNext(t)[i] = CardRun(t, i)[1]
    BY <2>1 DEF CardsNext
  <2>3. /\ s = <<i, CardRun(t, i)[1] - 1>>
        /\ CardRun(t, i)[2] \in MinCard..MaxCard
        /\ ~At(t, CardRun(t, i)[1], WordBytes)
    BY <2>1 DEF CardAt
  <2> QED
    BY <2>1, <2>2, <2>3
<1> QED
  BY <1>1, <1>2, <1>3, <1>4 DEF Advances

\* Card numbers begin and end where a word does, and no digit is part of two.
LEMMA CardsStandAlone ==
  ASSUME NEW t \in Texts
  PROVE  /\ \A s \in ScanCards(t) : StandsAlone(t, s, WordBytes)
         /\ Apart(ScanCards(t))
<1> DEFINE report == CardsFrom(t)
           next == CardsNext(t)
<1>1. Len(t) \in Nat /\ DOMAIN t = 1..Len(t)
  BY TextFacts
<1>2. /\ ScanCards(t) = Walk(Len(t), report, next)
      /\ Advances(Len(t), next)
      /\ \A i \in DOMAIN t : \A s \in report[i] :
           /\ CardTried(t, i) /\ s = <<i, next[i] - 1>>
           /\ ~At(t, next[i], WordBytes)
  BY ScanCardsFacts
<1> HIDE DEF report, next
<1>3. \A i \in 1..Len(t) : next[i] \in (i + 1)..(Len(t) + 1)
  BY <1>2 DEF Advances
<1>4. ASSUME NEW s \in ScanCards(t)
      PROVE  StandsAlone(t, s, WordBytes)
  <2>1. PICK i \in 1..Len(t) : s \in report[i]
    BY <1>1, <1>2, <1>4, WalkReports
  <2>2. /\ ~At(t, i - 1, WordBytes) /\ s = <<i, next[i] - 1>> /\ ~At(t, next[i], WordBytes)
    BY <1>1, <1>2, <2>1 DEF CardTried
  <2>3. next[i] \in (i + 1)..(Len(t) + 1)
    BY <1>3
  <2>4. s[1] = i /\ s[2] = next[i] - 1 /\ s[2] + 1 = next[i] /\ s[2] \in 1..Len(t) /\ s[1] <= s[2]
    BY <1>1, <2>2, <2>3
  <2> QED
    BY <1>1, <2>2, <2>4 DEF StandsAlone
<1>5. Apart(ScanCards(t))
  <2>1. \A i \in 1..Len(t) : \A s \in report[i] : s[1] = i /\ s[2] \in Int /\ s[2] < next[i]
    BY <1>1, <1>2, <1>3
  <2>2. \A i \in 1..Len(t) : \A s, o \in report[i] : s = o
    BY <1>1, <1>2
  <2>3. Apart(Walk(Len(t), report, next))
    BY <1>1, <1>2, <2>1, <2>2, WalksApart
  <2> QED
    BY <1>2, <2>3
<1> QED
  BY <1>4, <1>5

\* What a social security number is found by: digits, separators, no word on either side.
SsnBytes(t, i) ==
  /\ i \in 1..(Len(t) - 10)
  /\ ~At(t, i - 1, WordBytes)
  /\ ~At(t, i + 11, WordBytes)
  /\ \A k \in {0, 1, 2, 4, 5, 7, 8, 9, 10} : t[i + k] \in Digits
  /\ t[i + 3] \in {"-", " ", "."}
  /\ t[i + 6] = t[i + 3]

LEMMA SsnsAreApart ==
  ASSUME NEW t \in Texts, NEW i, NEW j, SsnBytes(t, i), SsnBytes(t, j), i < j
  PROVE  j > i + 10
<1>1. Len(t) \in Nat /\ DOMAIN t = 1..Len(t)
  BY TextFacts
<1>2. /\ i \in 1..(Len(t) - 10) /\ j \in 1..(Len(t) - 10)
      /\ \A k \in {0, 1, 2, 4, 5, 7, 8, 9, 10} : t[i + k] \in Digits
      /\ t[j + 3] \in {"-", " ", "."}
      /\ ~At(t, j - 1, WordBytes)
  BY DEF SsnBytes
<1>3. Digits \subseteq WordBytes /\ Digits \cap {"-", " ", "."} = {}
  BY DigitsAreNoMarks DEF WordBytes, Alphanumeric
<1>4. i \in Int /\ j \in Int /\ i >= 1 /\ j - 1 \in DOMAIN t
  <2>1. PICK n \in Nat : n = Len(t)
    BY <1>1
  <2>2. i \in 1..(n - 10) /\ j \in 1..(n - 10) /\ DOMAIN t = 1..n
    BY <1>1, <1>2, <2>1
  <2>3. i \in Int /\ j \in Int /\ i >= 1 /\ j <= n - 10
    BY <2>2
  <2>4. i < j
    OBVIOUS
  <2>5. j - 1 \in 1..n
    BY <2>3, <2>4
  <2> QED
    BY <2>2, <2>3, <2>5
<1>5. SUFFICES ASSUME j <= i + 10
               PROVE  FALSE
  BY <1>4
<1>6. j = i + 4 \/ j = i + 7
  <2>1. PICK d \in 0..9 : j - 1 = i + d
    <3>1. j - 1 - i \in 0..9 /\ j - 1 = i + (j - 1 - i)
      BY <1>4, <1>5
    <3> QED
      BY <3>1
  <2>2. t[i + d] \notin WordBytes
    BY <1>2, <1>4, <2>1 DEF At
  <2>3. d \notin {0, 1, 2, 4, 5, 7, 8, 9, 10}
    BY <1>2, <1>3, <2>2
  <2>4. d = 3 \/ d = 6
    BY <2>1, <2>3
  <2> QED
    BY <1>4, <2>1, <2>4
<1>7. j + 3 = i + 7 \/ j + 3 = i + 10
  BY <1>4, <1>6
<1>8. t[i + 7] \in Digits /\ t[i + 10] \in Digits
  BY <1>2
<1> QED
  BY <1>2, <1>3, <1>7, <1>8

LEMMA SsnsStandAlone ==
  ASSUME NEW t \in Texts
  PROVE  /\ \A s \in ScanSsns(t) : StandsAlone(t, s, WordBytes)
         /\ Apart(ScanSsns(t))
<1>1. Len(t) \in Nat /\ DOMAIN t = 1..Len(t)
  BY TextFacts
<1>2. \A s \in ScanSsns(t) : \E i \in 1..(Len(t) - 10) : s = <<i, i + 10>> /\ SsnBytes(t, i)
  BY DEF ScanSsns, SsnBytes
<1>3. ASSUME NEW s \in ScanSsns(t)
      PROVE  StandsAlone(t, s, WordBytes)
  <2>1. PICK i \in 1..(Len(t) - 10) : s = <<i, i + 10>> /\ SsnBytes(t, i)
    BY <1>2
  <2>2. s[1] = i /\ s[2] = i + 10 /\ s[2] + 1 = i + 11 /\ i \in 1..Len(t) /\ i + 10 \in 1..Len(t)
    BY <1>1, <2>1
  <2>3. ~At(t, i - 1, WordBytes) /\ ~At(t, i + 11, WordBytes)
    BY <2>1 DEF SsnBytes
  <2>4. s \in (DOMAIN t) \X (DOMAIN t)
    BY <1>1, <2>1, <2>2
  <2> QED
    BY <2>2, <2>3, <2>4 DEF StandsAlone
<1>4. ASSUME NEW s \in ScanSsns(t), NEW o \in ScanSsns(t)
      PROVE  s = o \/ o[1] > s[2] \/ o[2] < s[1]
  <2>1. PICK i \in 1..(Len(t) - 10) : s = <<i, i + 10>> /\ SsnBytes(t, i)
    BY <1>2
  <2>2. PICK j \in 1..(Len(t) - 10) : o = <<j, j + 10>> /\ SsnBytes(t, j)
    BY <1>2
  <2>3. CASE i < j
    BY <2>1, <2>2, <2>3, SsnsAreApart
  <2>4. CASE j < i
    <3>1. i > j + 10
      BY <2>1, <2>2, <2>4, SsnsAreApart
    <3> QED
      BY <2>1, <2>2, <3>1
  <2>5. CASE i = j
    BY <2>1, <2>2, <2>5
  <2> QED
    BY <1>1, <2>3, <2>4, <2>5
<1> QED
  BY <1>3, <1>4 DEF Apart

\* Whether the loop over an IBAN of a length passes the byte at j.
IbanGoes(t, i, length, j) ==
  /\ 2 + Counted(t, i + 2, j - 1, Alphanumeric) < length
  /\ \/ At(t, j, Alphanumeric)
     \/ /\ 2 + Counted(t, i + 2, j - 1, Alphanumeric) > 2
        /\ At(t, j, {" ", "-"})
        /\ At(t, j + 1, Alphanumeric)

\* Where the loop over an IBAN of that length stops.
IbanStop(t, i, length) == Min({j \in (i + 2)..(Len(t) + 1) : ~IbanGoes(t, i, length, j)})

LEMMA IbanCandidateIs ==
  ASSUME NEW t, NEW i, NEW length
  PROVE  IbanCandidate(t, i, length) =
           IF /\ At(t, i + 2, Digits) /\ At(t, i + 3, Digits)
              /\ 2 + Counted(t, i + 2, IbanStop(t, i, length) - 1, Alphanumeric) = length
              /\ ~At(t, IbanStop(t, i, length), Alphanumeric)
              /\ IbanIsValid(SubSeq(t, i, IbanStop(t, i, length) - 1))
           THEN {<<i, IbanStop(t, i, length) - 1>>} ELSE {}
  BY DEF IbanCandidate, IbanGoes, IbanStop

LEMMA IbanStopFacts ==
  ASSUME NEW t \in Texts, NEW i \in 1..(Len(t) - 1), NEW length
  PROVE  /\ IbanStop(t, i, length) \in (i + 2)..(Len(t) + 1)
         /\ ~IbanGoes(t, i, length, IbanStop(t, i, length))
         /\ \A k \in (i + 2)..(IbanStop(t, i, length) - 1) : IbanGoes(t, i, length, k)
<1> DEFINE S == {j \in (i + 2)..(Len(t) + 1) : ~IbanGoes(t, i, length, j)}
           stop == IbanStop(t, i, length)
<1>1. PICK n \in Nat : n = Len(t) /\ DOMAIN t = 1..n
  BY TextFacts
<1>2. n + 1 \in S
  <2>1. n + 1 \notin DOMAIN t
    BY <1>1
  <2>2. ~IbanGoes(t, i, length, n + 1)
    BY <2>1 DEF IbanGoes, At
  <2>3. i \in 1..(n - 1)
    BY <1>1
  <2>4. n + 1 \in (i + 2)..(n + 1)
    BY <2>3
  <2> QED
    BY <1>1, <2>2, <2>4
<1>3. stop = Min(S)
  BY DEF IbanStop
<1>4. /\ i + 2 \in Nat /\ n + 1 \in Nat /\ i + 2 <= n + 1
      /\ S \in SUBSET ((i + 2)..(n + 1))
  BY <1>1
<1> HIDE DEF stop
<1>5. /\ stop \in (i + 2)..(n + 1) /\ stop \in S
      /\ \A k \in (i + 2)..(stop - 1) : k \notin S
  <2> HIDE DEF S
  <2> QED
    BY <1>2, <1>3, <1>4, StopFacts
<1>6. \A k \in (i + 2)..(stop - 1) : IbanGoes(t, i, length, k)
  <2>1. \A k \in (i + 2)..(stop - 1) : k \in (i + 2)..(n + 1)
    BY <1>1, <1>5
  <2> QED
    BY <1>1, <1>5, <2>1
<1> QED
  BY <1>1, <1>5, <1>6 DEF stop

LEMMA IbanCandidateFacts ==
  ASSUME NEW t \in Texts, NEW i \in 1..(Len(t) - 1), NEW length,
         NEW s \in IbanCandidate(t, i, length)
  PROVE  /\ s[1] = i /\ s[2] \in DOMAIN t /\ i <= s[2]
         /\ s = <<s[1], s[2]>>
         /\ ~At(t, s[2] + 1, Alphanumeric)
<1> DEFINE stop == IbanStop(t, i, length)
<1>1. s = <<i, stop - 1>> /\ ~At(t, stop, Alphanumeric)
  BY IbanCandidateIs
<1>2. stop \in (i + 2)..(Len(t) + 1)
  BY IbanStopFacts
<1> HIDE DEF stop
<1>3. stop - 1 \in 1..Len(t) /\ i <= stop - 1 /\ stop - 1 + 1 = stop
  BY <1>2, TextFacts
<1> QED
  BY <1>1, <1>3, TextFacts

LEMMA IbansStandAlone ==
  ASSUME NEW t \in Texts
  PROVE  \A s \in ScanIbans(t) : StandsAlone(t, s, Alphanumeric)
<1>1. PICK n \in Nat : n = Len(t) /\ DOMAIN t = 1..n
  BY TextFacts
<1>2. ASSUME NEW s \in ScanIbans(t)
      PROVE  StandsAlone(t, s, Alphanumeric)
  <2>1. PICK i \in 1..(Len(t) - 1) :
          /\ ~At(t, i - 1, Alphanumeric)
          /\ \E m \in CountryLength(t[i] \o t[i + 1]) : s \in IbanCandidate(t, i, m)
    BY <1>2 DEF ScanIbans
  <2>2. PICK m : s \in IbanCandidate(t, i, m)
    BY <2>1
  <2>3. /\ s[1] = i /\ s[2] \in DOMAIN t /\ i <= s[2] /\ s = <<s[1], s[2]>>
        /\ ~At(t, s[2] + 1, Alphanumeric)
    BY <2>2, IbanCandidateFacts
  <2>4. i \in DOMAIN t
    BY <1>1, <2>1
  <2>5. s \in (DOMAIN t) \X (DOMAIN t)
    BY <2>3, <2>4
  <2> QED
    BY <2>1, <2>3, <2>5 DEF StandsAlone
<1> QED
  BY <1>2

\* Whether the loop over a telephone number passes the byte at j.
DialGoes(t, i, separators, max, j) ==
  /\ Counted(t, i, j - 1, Digits) < max
  /\ At(t, j, Digits) \/ (Counted(t, i, j - 1, Digits) > 0 /\ At(t, j, separators))

LEMMA DialRunFacts ==
  ASSUME NEW t \in Texts, NEW i \in 1..(Len(t) + 1), NEW separators, NEW max,
         DialRun(t, i, separators, max).count > 0
  PROVE  LET end == DialRun(t, i, separators, max).end
         IN  end \in i..Len(t) /\ t[end] \in Digits
<1> DEFINE S == {j \in i..(Len(t) + 1) : ~DialGoes(t, i, separators, max, j)}
           stop == Min(S)
           Dialling == {k \in i..(stop - 1) : t[k] \in Digits}
           D == {i - 1} \cup Dialling
<1>1. PICK n \in Nat : n = Len(t) /\ DOMAIN t = 1..n
  BY TextFacts
<1>2. /\ DialRun(t, i, separators, max).end = Max(D)
      /\ DialRun(t, i, separators, max).count = Counted(t, i, stop - 1, Digits)
  BY DEF DialRun, DialGoes
<1>3. n + 1 \in S
  <2>1. n + 1 \notin DOMAIN t
    BY <1>1
  <2>2. ~DialGoes(t, i, separators, max, n + 1)
    BY <2>1 DEF DialGoes, At
  <2> QED
    BY <1>1, <2>2
<1>4. stop \in i..(n + 1)
  <2>1. i \in Nat /\ n + 1 \in Nat /\ i <= n + 1 /\ S \in SUBSET (i..(n + 1))
    BY <1>1
  <2> HIDE DEF S
  <2> QED
    BY <1>3, <2>1, StopFacts
<1> HIDE DEF S, stop
<1>5. i \in 1..(n + 1) /\ i \in Nat
  BY <1>1
<1>6. stop - 1 \in Nat /\ stop - 1 <= n
  BY <1>4, <1>5
<1>7. PICK k \in i..(stop - 1) : t[k] \in Digits
  <2>1. Counted(t, i, stop - 1, Digits) > 0
    BY <1>2
  <2>2. \A j \in Nat : Counted(t, i, j, Digits) > 0 => \E k \in i..j : t[k] \in Digits
    BY <1>5, CountedSome
  <2> QED
    BY <1>6, <2>1, <2>2
<1>8. Max(D) \in D /\ k <= Max(D)
  <2>1. k \in D
    BY <1>7
  <2>2. D \in SUBSET (0..n)
    BY <1>5, <1>6
  <2> HIDE DEF D
  <2> QED
    BY <2>1, <2>2, GreatestOf
<1>9. Max(D) \in Dialling
  <2>1. k \in Int /\ k >= i
    BY <1>5, <1>6, <1>7
  <2>2. Max(D) # i - 1
    <3> HIDE DEF D
    <3> QED
      BY <1>5, <1>8, <2>1
  <2> QED
    BY <1>8, <2>2
<1>10. Max(D) \in i..n /\ t[Max(D)] \in Digits
  <2> DEFINE m == Max(D)
  <2>1. m \in i..(stop - 1) /\ t[m] \in Digits
    BY <1>9
  <2> HIDE DEF m
  <2>2. m \in i..n
    BY <1>5, <1>6, <2>1
  <2> QED
    BY <2>1, <2>2 DEF m
<1> QED
  BY <1>1, <1>2, <1>10

\* Where a number that starts at i may end: at a digit that no letter or digit follows.
PhoneEnd(t, i, e) == e \in i..Len(t) /\ t[e] \in Digits /\ ~At(t, e + 1, Alphanumeric)

LEMMA PhoneAtFacts ==
  ASSUME NEW t \in Texts, NEW i \in DOMAIN t, NEW e \in PhoneAt(t, i)
  PROVE  PhoneEnd(t, i, e) /\ PhoneAt(t, i) = {e}
<1>1. PICK n \in Nat : n = Len(t) /\ DOMAIN t = 1..n /\ i \in 1..n
  BY TextFacts
<1>2. ASSUME NEW end, e \in Dialled(t, i, end)
      PROVE  Dialled(t, i, end) = {e} /\ e = end /\ ~At(t, e + 1, Alphanumeric)
  BY <1>2 DEF Dialled
<1>3. ASSUME NEW first \in DOMAIN t, first > i, e \in ParseInternational(t, i, first)
      PROVE  PhoneEnd(t, i, e) /\ ParseInternational(t, i, first) = {e}
  <2> DEFINE run == DialRun(t, first, {" ", "-", ".", "(", ")"}, MaxDial)
  <2>1. run.count \in MinDial..MaxDial /\ ParseInternational(t, i, first) = Dialled(t, i, run.end)
    BY <1>3 DEF ParseInternational
  <2>2. MinDial \in Nat \ {0} /\ MaxDial \in Nat
    BY DetectorsAssumption DEF DetectorsAssumption
  <2>3. run.count > 0
    <3> HIDE DEF run
    <3> QED
      BY <2>1, <2>2
  <2>4. first \in 1..(Len(t) + 1) /\ first \in Int
    BY <1>1
  <2>5. run.end \in first..Len(t) /\ t[run.end] \in Digits
    BY <2>3, <2>4, DialRunFacts
  <2> HIDE DEF run
  <2>6. run.end \in i..Len(t)
    BY <1>1, <1>3, <2>4, <2>5
  <2>7. Dialled(t, i, run.end) = {e} /\ e = run.end /\ ~At(t, e + 1, Alphanumeric)
    BY <1>2, <1>3, <2>1
  <2> QED
    BY <2>1, <2>5, <2>6, <2>7 DEF PhoneEnd
<1>4. ASSUME e \in ParseNanp(t, i)
      PROVE  PhoneEnd(t, i, e) /\ ParseNanp(t, i) = {e}
  <2> DEFINE first == IF t[i] = "(" THEN i + 1 ELSE i
             run == DialRun(t, first, {")", "-", ".", " "}, 10)
  <2>1. run.count = 10 /\ ParseNanp(t, i) = Dialled(t, i, run.end)
    BY <1>4 DEF ParseNanp
  <2>2. first \in 1..(Len(t) + 1) /\ first \in Int /\ i <= first
    BY <1>1
  <2> HIDE DEF first
  <2>3. run.count > 0
    <3> HIDE DEF run
    <3> QED
      BY <2>1
  <2>4. run.end \in first..Len(t) /\ t[run.end] \in Digits
    BY <2>2, <2>3, DialRunFacts
  <2> HIDE DEF run
  <2>5. run.end \in i..Len(t)
    BY <1>1, <2>2, <2>4
  <2>6. Dialled(t, i, run.end) = {e} /\ e = run.end /\ ~At(t, e + 1, Alphanumeric)
    BY <1>2, <1>4, <2>1
  <2> QED
    BY <2>1, <2>4, <2>5, <2>6 DEF PhoneEnd
<1>5. \/ /\ At(t, i + 1, Digits)
         /\ PhoneAt(t, i) = ParseInternational(t, i, i + 1)
      \/ /\ At(t, i + 2, Digits)
         /\ PhoneAt(t, i) = ParseInternational(t, i, i + 2)
      \/ PhoneAt(t, i) = ParseNanp(t, i)
      \/ PhoneAt(t, i) = {}
  BY DEF PhoneAt
<1>6. CASE At(t, i + 1, Digits) /\ PhoneAt(t, i) = ParseInternational(t, i, i + 1)
  <2>1. i + 1 \in DOMAIN t /\ i + 1 > i
    BY <1>1, <1>6 DEF At
  <2> QED
    BY <1>3, <1>6, <2>1
<1>7. CASE At(t, i + 2, Digits) /\ PhoneAt(t, i) = ParseInternational(t, i, i + 2)
  <2>1. i + 2 \in DOMAIN t /\ i + 2 > i
    BY <1>1, <1>7 DEF At
  <2> QED
    BY <1>3, <1>7, <2>1
<1>8. CASE PhoneAt(t, i) = ParseNanp(t, i)
  BY <1>4, <1>8
<1> QED
  BY <1>5, <1>6, <1>7, <1>8

\* Where the search for telephone numbers comes to, and what it reports there.
PhoneEnds(t) == [i \in DOMAIN t |-> IF At(t, i - 1, Alphanumeric) THEN {} ELSE PhoneAt(t, i)]
PhonesFrom(t) == [i \in DOMAIN t |-> {<<i, e>> : e \in PhoneEnds(t)[i]}]
PhonesNext(t) == [i \in DOMAIN t |-> IF PhoneEnds(t)[i] = {} THEN i + 1 ELSE Max(PhoneEnds(t)[i]) + 1]

\* What is reported at a place: nothing, or one number that nothing is glued to.
PhoneFrom(t, i, e) == /\ e \in PhoneAt(t, i) /\ PhoneEnd(t, i, e) /\ ~At(t, i - 1, Alphanumeric)
                      /\ PhonesFrom(t)[i] = {<<i, e>>} /\ PhonesNext(t)[i] = e + 1

LEMMA ScanPhonesFacts ==
  ASSUME NEW t \in Texts
  PROVE  /\ ScanPhones(t) = Walk(Len(t), PhonesFrom(t), PhonesNext(t))
         /\ Advances(Len(t), PhonesNext(t))
         /\ \A i \in 1..Len(t) : \/ PhonesFrom(t)[i] = {} /\ PhonesNext(t)[i] = i + 1
                                 \/ \E e : PhoneFrom(t, i, e)
<1>1. PICK n \in Nat : n = Len(t) /\ DOMAIN t = 1..n
  BY TextFacts
<1>2. ScanPhones(t) = Walk(Len(t), PhonesFrom(t), PhonesNext(t))
  BY DEF ScanPhones, PhonesFrom, PhonesNext, PhoneEnds
<1>3. ASSUME NEW i \in 1..n, NEW e \in PhoneEnds(t)[i]
      PROVE  PhoneFrom(t, i, e)
  <2>1. ~At(t, i - 1, Alphanumeric) /\ PhoneEnds(t)[i] = PhoneAt(t, i) /\ i \in DOMAIN t
    BY <1>1, <1>3 DEF PhoneEnds
  <2>2. e \in PhoneAt(t, i)
    BY <1>3, <2>1
  <2>3. PhoneEnd(t, i, e) /\ PhoneEnds(t)[i] = {e}
    BY <2>1, <2>2, PhoneAtFacts
  <2>4. Max({e}) = e
    <3>1. e \in i..n
      BY <1>1, <2>3 DEF PhoneEnd
    <3>2. {e} \in SUBSET (0..n)
      BY <3>1
    <3> QED
      BY <3>2, GreatestOf
  <2>5. PhonesNext(t)[i] = e + 1
    BY <2>1, <2>3, <2>4 DEF PhonesNext
  <2>6. PhonesFrom(t)[i] = {<<i, e>>}
    BY <2>1, <2>3 DEF PhonesFrom
  <2> QED
    BY <2>1, <2>2, <2>3, <2>5, <2>6 DEF PhoneFrom
<1>4. ASSUME NEW i \in 1..n, PhoneEnds(t)[i] = {}
      PROVE  PhonesFrom(t)[i] = {} /\ PhonesNext(t)[i] = i + 1
  BY <1>1, <1>4 DEF PhonesFrom, PhonesNext
<1>5. \A i \in 1..n : \/ PhonesFrom(t)[i] = {} /\ PhonesNext(t)[i] = i + 1
                      \/ \E e : PhoneFrom(t, i, e)
  BY <1>3, <1>4
<1>6. ASSUME NEW i \in 1..n
      PROVE  PhonesNext(t)[i] \in (i + 1)..(n + 1)
  <2>1. ASSUME NEW e, PhoneFrom(t, i, e)
        PROVE  PhonesNext(t)[i] \in (i + 1)..(n + 1)
    <3>1. e \in i..n /\ PhonesNext(t)[i] = e + 1
      BY <1>1, <2>1 DEF PhoneFrom, PhoneEnd
    <3> QED
      BY <3>1
  <2> QED
    BY <1>5, <2>1
<1>7. Advances(Len(t), PhonesNext(t))
  BY <1>1, <1>6 DEF Advances
<1> QED
  BY <1>1, <1>2, <1>5, <1>7

\* Telephone numbers stand between bytes that are no letters or digits, and no two overlap.
LEMMA PhonesStandAlone ==
  ASSUME NEW t \in Texts
  PROVE  /\ \A s \in ScanPhones(t) : StandsAlone(t, s, Alphanumeric)
         /\ Apart(ScanPhones(t))
<1>1. PICK n \in Nat : n = Len(t) /\ DOMAIN t = 1..n
  BY TextFacts
<1>2. /\ ScanPhones(t) = Walk(n, PhonesFrom(t), PhonesNext(t))
      /\ Advances(n, PhonesNext(t))
      /\ \A i \in 1..n : \/ PhonesFrom(t)[i] = {} /\ PhonesNext(t)[i] = i + 1
                         \/ \E e : PhoneFrom(t, i, e)
  BY <1>1, ScanPhonesFacts
<1>3. ASSUME NEW i \in 1..n, NEW s \in PhonesFrom(t)[i]
      PROVE  /\ s[1] = i /\ s[2] \in i..n /\ s = <<s[1], s[2]>> /\ PhonesFrom(t)[i] = {s}
             /\ PhonesNext(t)[i] = s[2] + 1
             /\ ~At(t, i - 1, Alphanumeric) /\ ~At(t, s[2] + 1, Alphanumeric)
  <2>1. PICK e : PhoneFrom(t, i, e)
    BY <1>2, <1>3
  <2> QED
    BY <1>1, <1>3, <2>1 DEF PhoneFrom, PhoneEnd
<1>4. ASSUME NEW s \in ScanPhones(t)
      PROVE  StandsAlone(t, s, Alphanumeric)
  <2>1. PICK i \in 1..n : s \in PhonesFrom(t)[i]
    BY <1>2, <1>4, WalkReports
  <2>2. /\ s[1] = i /\ s[2] \in i..n /\ s = <<s[1], s[2]>>
        /\ ~At(t, i - 1, Alphanumeric) /\ ~At(t, s[2] + 1, Alphanumeric)
    BY <1>3, <2>1
  <2>3. s[1] \in 1..n /\ s[2] \in 1..n /\ s[1] <= s[2]
    BY <2>2
  <2>4. s \in (DOMAIN t) \X (DOMAIN t)
    BY <1>1, <2>2, <2>3
  <2> QED
    BY <2>2, <2>3, <2>4 DEF StandsAlone
<1>5. Apart(ScanPhones(t))
  <2>1. \A i \in 1..n : \A s \in PhonesFrom(t)[i] :
           s[1] = i /\ s[2] \in Int /\ s[2] < PhonesNext(t)[i]
    BY <1>3
  <2>2. \A i \in 1..n : \A s, o \in PhonesFrom(t)[i] : s = o
    BY <1>3
  <2> QED
    BY <1>2, <2>1, <2>2, WalksApart
<1> QED
  BY <1>4, <1>5

\* A place n steps of d away, behind bytes of the set only: as far as there are any, or max.
Reached(t, i, d, bytes, max, n) ==
  /\ Reach(t, i, d, bytes, max) = i + d * n
  /\ n \in 0..max
  /\ \A k \in 1..n : At(t, i + d * k, bytes)
  /\ n = max \/ ~At(t, i + d * (n + 1), bytes)

LEMMA ReachFacts ==
  ASSUME NEW t, NEW i \in Int, NEW d \in Int, NEW bytes, NEW max \in Nat
  PROVE  \E n : Reached(t, i, d, bytes, max, n)
<1> DEFINE ok(n) == \A k \in 1..n : At(t, i + d * k, bytes)
           S == {n \in 0..max : n = max \/ ~ok(n + 1)}
           n == CHOOSE n \in 0..max : ok(n) /\ (n = max \/ ~ok(n + 1))
<1>1. /\ Min(S) \in 0..max /\ Min(S) \in S
      /\ \A k \in 0..(Min(S) - 1) : k \notin S
  <2>1. S \in SUBSET (0..max) /\ max \in S /\ 0 <= max
    OBVIOUS
  <2> HIDE DEF S
  <2> QED
    BY <2>1, StopFacts
<1>2. ok(Min(S))
  <2> DEFINE m == Min(S)
  <2>1. CASE m = 0
    BY <2>1
  <2>2. CASE m # 0
    <3>1. m - 1 \in 0..(m - 1) /\ m - 1 \in 0..max /\ m - 1 + 1 = m
      BY <1>1, <2>2
    <3>2. m - 1 \notin S
      BY <1>1, <3>1
    <3> HIDE DEF m
    <3>3. ok(m - 1 + 1)
      BY <3>1, <3>2
    <3> HIDE DEF ok
    <3> QED
      BY <3>1, <3>3 DEF m
  <2> QED
    BY <2>1, <2>2
<1>3. \E x \in 0..max : ok(x) /\ (x = max \/ ~ok(x + 1))
  <2> HIDE DEF ok
  <2> QED
    BY <1>1, <1>2
<1>4. n \in 0..max /\ ok(n) /\ (n = max \/ ~ok(n + 1))
  <2> HIDE DEF ok
  <2> QED
    BY <1>3
<1>5. Reach(t, i, d, bytes, max) = i + d * n
  BY DEF Reach
<1> HIDE DEF n
<1>6. n = max \/ ~At(t, i + d * (n + 1), bytes)
  <2>1. CASE ~ok(n + 1)
    <3>1. PICK k \in 1..(n + 1) : ~At(t, i + d * k, bytes)
      BY <2>1
    <3>2. k \notin 1..n
      BY <1>4, <3>1
    <3>3. k = n + 1
      BY <1>4, <3>1, <3>2
    <3> QED
      BY <3>1, <3>3
  <2> QED
    BY <1>4, <2>1
<1>7. Reached(t, i, d, bytes, max, n)
  BY <1>4, <1>5, <1>6 DEF Reached
<1> QED
  BY <1>7

\* What is left when the dots and hyphens at the end are not counted in.
Trimmed(t, at, end, e) == /\ e \in at..end
                          /\ \A k \in (e + 1)..end : t[k] \in {".", "-"}
                          /\ e = at \/ t[e] \notin {".", "-"}

LEMMA TrimmedExists ==
  ASSUME NEW t, NEW at \in Nat, NEW end \in Nat, at <= end
  PROVE  \E e \in at..end : Trimmed(t, at, end, e)
<1> DEFINE S == {at} \cup {k \in at..end : t[k] \notin {".", "-"}}
           e == Max(S)
<1>1. e \in S /\ \A k \in S : k <= e
  <2>1. S \in SUBSET (0..end) /\ S # {}
    OBVIOUS
  <2> HIDE DEF S
  <2> QED
    BY <2>1, GreatestOf
<1>2. e \in at..end /\ (e = at \/ t[e] \notin {".", "-"})
  <2> HIDE DEF e
  <2> QED
    BY <1>1
<1>3. ASSUME NEW k \in (e + 1)..end
      PROVE  t[k] \in {".", "-"}
  <2>1. k \in at..end /\ ~(k <= e)
    <3> HIDE DEF e
    <3> QED
      BY <1>2, <1>3
  <2>2. k \notin S
    BY <1>1, <2>1
  <2> QED
    BY <2>1, <2>2
<1> HIDE DEF e, S
<1> QED
  BY <1>2, <1>3 DEF Trimmed

\* Whether no byte of a word precedes the place, or what precedes the at sign is longer
\* than a local part can be.
StartsLocalPart(t, i) == ~At(t, i - 1, WordBytes) \/ At(t, i + MaxLocal, {"@"})

LEMMA NoMarkIsInAWord ==
  WordBytes \cap {".", "-"} = {}
<1>1. \A i \in DOMAIN Letters : Letters[i] \notin {".", "-"}
  <2>1. DOMAIN Letters = 1..26
    BY DEF Letters
  <2>2. \A i \in 1..26 : Letters[i] \notin {".", "-"}
    BY DEF Letters
  <2> QED
    BY <2>1, <2>2
<1>2. Uppers \cap {".", "-"} = {}
  BY <1>1 DEF Uppers, ToSet
<1> QED
  BY <1>2, DigitsAreNoMarks DEF WordBytes, Alphanumeric, Alphabetic, Lowers

LEMMA EmailsStandAlone ==
  ASSUME NEW t \in Texts
  PROVE  \A s \in ScanEmails(t) :
           /\ s \in (DOMAIN t) \X (DOMAIN t) /\ s[1] <= s[2]
           /\ StartsLocalPart(t, s[1])
           /\ ~At(t, s[2] + 1, WordBytes)
<1>1. PICK n \in Nat : n = Len(t) /\ DOMAIN t = 1..n
  BY TextFacts
<1>2. SUFFICES ASSUME NEW at \in DOMAIN t, t[at] = "@", NEW s \in EmailCandidate(t, at)
               PROVE  /\ s \in (DOMAIN t) \X (DOMAIN t) /\ s[1] <= s[2]
                      /\ StartsLocalPart(t, s[1])
                      /\ ~At(t, s[2] + 1, WordBytes)
  BY DEF ScanEmails
<1> DEFINE start == Reach(t, at, -1, LocalBytes, MaxLocal)
           end == Reach(t, at, 1, Alphanumeric \cup {"-", "."}, MaxDomain)
           trimmed == CHOOSE e \in at..end : Trimmed(t, at, end, e)
<1>3. at \in 1..n /\ at \in Int /\ MaxLocal \in Nat \ {0} /\ MaxDomain \in Nat \ {0}
  BY <1>1, DetectorsAssumption DEF DetectorsAssumption
<1>4. start # at /\ end # at /\ ~At(t, end + 1, WordBytes)
  BY <1>2 DEF EmailCandidate
<1>5. s = <<start, trimmed>>
  <2>1. trimmed = CHOOSE e \in at..end : /\ \A k \in (e + 1)..end : t[k] \in {".", "-"}
                                         /\ e = at \/ t[e] \notin {".", "-"}
    <3> DEFINE T(e) == /\ \A k \in (e + 1)..end : t[k] \in {".", "-"}
                       /\ e = at \/ t[e] \notin {".", "-"}
    <3> HIDE DEF end
    <3>1. \A e \in at..end : Trimmed(t, at, end, e) <=> T(e)
      BY DEF Trimmed
    <3> QED
      BY <3>1
  <2> QED
    BY <1>2, <1>4, <2>1 DEF EmailCandidate
<1>6. start \in 1..(at - 1) /\ StartsLocalPart(t, start)
  <2>1. PICK m : Reached(t, at, -1, LocalBytes, MaxLocal, m)
    <3>1. -1 \in Int /\ MaxLocal \in Nat /\ at \in Int
      BY <1>3
    <3> QED
      BY <3>1, ReachFacts
  <2>2. /\ start = at + (-1) * m /\ m \in 0..MaxLocal
        /\ \A k \in 1..m : At(t, at + (-1) * k, LocalBytes)
        /\ m = MaxLocal \/ ~At(t, at + (-1) * (m + 1), LocalBytes)
    BY <2>1 DEF Reached
  <2> HIDE DEF start
  <2>3. m \in Nat /\ m # 0 /\ start = at - m
    BY <1>3, <1>4, <2>1, <2>2
  <2>4. start \in DOMAIN t
    <3>1. m \in 1..m
      BY <2>3
    <3> QED
      BY <2>1, <2>2, <3>1 DEF At
  <2>5. start \in 1..(at - 1)
    BY <1>1, <1>3, <2>3, <2>4
  <2>6. CASE m = MaxLocal
    <3>1. start + MaxLocal = at
      BY <1>3, <2>3, <2>6
    <3> QED
      BY <1>2, <2>5, <3>1 DEF StartsLocalPart, At
  <2>7. CASE ~At(t, at + (-1) * (m + 1), LocalBytes)
    <3>1. at + (-1) * (m + 1) = start - 1
      BY <1>3, <2>3
    <3>2. WordBytes \subseteq LocalBytes
      BY DEF LocalBytes
    <3>3. ~At(t, start - 1, WordBytes)
      BY <2>7, <3>1, <3>2 DEF At
    <3> QED
      BY <2>5, <3>3 DEF StartsLocalPart
  <2> QED
    BY <2>2, <2>6, <2>7
<1>7. end \in (at + 1)..n
  <2>1. PICK m : Reached(t, at, 1, Alphanumeric \cup {"-", "."}, MaxDomain, m)
    <3>1. 1 \in Int /\ MaxDomain \in Nat /\ at \in Int
      BY <1>3
    <3> QED
      BY <3>1, ReachFacts
  <2>2. /\ end = at + 1 * m /\ m \in 0..MaxDomain
        /\ \A k \in 1..m : At(t, at + 1 * k, Alphanumeric \cup {"-", "."})
    BY <2>1 DEF Reached
  <2> HIDE DEF end
  <2>3. m \in Nat /\ m # 0 /\ end = at + m
    BY <1>3, <1>4, <2>1, <2>2
  <2>4. end \in DOMAIN t
    <3>1. m \in 1..m
      BY <2>3
    <3> QED
      BY <2>1, <2>2, <3>1 DEF At
  <2> QED
    BY <1>1, <1>3, <2>3, <2>4
<1>8. Trimmed(t, at, end, trimmed)
  <2>1. at \in Nat /\ end \in Nat /\ at <= end
    BY <1>3, <1>7
  <2> HIDE DEF end
  <2>2. \E e \in at..end : Trimmed(t, at, end, e)
    BY <2>1, TrimmedExists
  <2> QED
    BY <2>2
<1> HIDE DEF start, end, trimmed
<1>9. trimmed \in at..end /\ \A k \in (trimmed + 1)..end : t[k] \in {".", "-"}
  BY <1>8 DEF Trimmed
<1>10. ~At(t, trimmed + 1, WordBytes)
  <2>1. CASE trimmed = end
    BY <1>4, <2>1
  <2>2. CASE trimmed # end
    <3>1. trimmed + 1 \in (trimmed + 1)..end
      BY <1>3, <1>7, <1>9, <2>2
    <3>2. t[trimmed + 1] \in {".", "-"}
      BY <1>9, <3>1
    <3>3. WordBytes \cap {".", "-"} = {}
      BY NoMarkIsInAWord
    <3> QED
      BY <3>2, <3>3 DEF At
  <2> QED
    BY <2>1, <2>2
<1>11. s[1] = start /\ s[2] = trimmed /\ start \in 1..n /\ trimmed \in 1..n /\ start <= trimmed
  BY <1>3, <1>5, <1>6, <1>7, <1>9
<1>12. s \in (DOMAIN t) \X (DOMAIN t)
  BY <1>1, <1>5, <1>11
<1> QED
  BY <1>6, <1>10, <1>11, <1>12

---------------------------------------------------------------------------
(* What the walk over card numbers cannot miss *)

\* Digits and single separators, from a digit to a digit.
CardShape(t, a, b) ==
  /\ a \in DOMAIN t /\ b \in DOMAIN t /\ a <= b
  /\ t[a] \in Digits /\ t[b] \in Digits
  /\ \A k \in a..b : t[k] \in Digits \/ (t[k] \in {" ", "-"} /\ k > a /\ t[k - 1] \in Digits)

\* No digit precedes the place, nor follows it, at once or behind a single separator.
NoDigitBefore(t, a) == ~At(t, a - 1, Digits) /\ ~(At(t, a - 1, {" ", "-"}) /\ At(t, a - 2, Digits))
NoDigitAfter(t, b) == ~At(t, b + 1, Digits) /\ ~(At(t, b + 1, {" ", "-"}) /\ At(t, b + 2, Digits))

LEMMA CountedGrows ==
  ASSUME NEW t, NEW i \in Nat, NEW bytes, NEW j \in Nat, NEW k \in Nat, j <= k
  PROVE  Counted(t, i, j, bytes) <= Counted(t, i, k, bytes)
<1> DEFINE C(m) == {x \in i..m : t[x] \in bytes}
<1>1. IsFiniteSet(i..k) /\ C(k) \in SUBSET (i..k)
  BY FS_Interval
<1>2. C(j) \in SUBSET C(k)
  OBVIOUS
<1>3. Counted(t, i, j, bytes) = Cardinality(C(j)) /\ Counted(t, i, k, bytes) = Cardinality(C(k))
  BY DEF Counted
<1> HIDE DEF C
<1>4. IsFiniteSet(C(k))
  BY <1>1, FS_Subset
<1> QED
  BY <1>2, <1>3, <1>4, FS_Subset

\* The loop from the first digit of a card number stops right behind the last.
LEMMA CardLoopEnds ==
  ASSUME NEW t \in Texts, NEW a, NEW b, CardShape(t, a, b), NoDigitAfter(t, b),
         Counted(t, a, b, Digits) <= MaxCard
  PROVE  CardRun(t, a)[1] = b + 1 /\ CardRun(t, a)[2] = Counted(t, a, b, Digits)
<1> DEFINE j == CardRun(t, a)[1]
<1>1. PICK n \in Nat : n = Len(t) /\ DOMAIN t = 1..n
  BY TextFacts
<1>2. a \in 1..n /\ a >= 1 /\ b <= n /\ a <= b /\ a \in Nat /\ b \in Nat /\ n \in Nat
  <2>1. a \in 1..n /\ b \in 1..n /\ a <= b
    BY <1>1 DEF CardShape
  <2> QED
    BY <2>1
<1>11. /\ t[a] \in Digits /\ t[b] \in Digits
       /\ \A k \in a..b : t[k] \in Digits \/ (t[k] \in {" ", "-"} /\ k > a /\ t[k - 1] \in Digits)
  BY DEF CardShape
<1>3. /\ j \in (a + 1)..(n + 1)
      /\ CardRun(t, a)[2] = Counted(t, a, j - 1, Digits)
      /\ ~CardGoes(t, a, j)
      /\ \A k \in a..(j - 1) : CardGoes(t, a, k)
  BY <1>1, <1>2, <1>11, CardRunFacts
<1> HIDE DEF j
<1>12. j \in Int /\ j > a /\ j <= n + 1
  BY <1>2, <1>3
<1>4. MaxCard \in Nat
  BY DetectorsAssumption DEF DetectorsAssumption
<1>5. Digits \cap {" ", "-"} = {}
  BY DigitsAreNoMarks
<1>6. /\ \A k \in Nat : Counted(t, a, k, Digits) \in Nat
      /\ \A k \in Nat : k >= a =>
           /\ t[k] \in Digits => Counted(t, a, k, Digits) = Counted(t, a, k - 1, Digits) + 1
           /\ t[k] \notin Digits => Counted(t, a, k, Digits) = Counted(t, a, k - 1, Digits)
  <2>1. a \in Nat
    BY <1>2
  <2>2. \A k \in Nat : Counted(t, a, k, Digits) \in Nat
    BY <2>1, CountedNat
  <2>3. \A k \in Nat : k >= a =>
          /\ t[k] \in Digits => Counted(t, a, k, Digits) = Counted(t, a, k - 1, Digits) + 1
          /\ t[k] \notin Digits => Counted(t, a, k, Digits) = Counted(t, a, k - 1, Digits)
    BY <2>1, CountedStep
  <2> QED
    BY <2>2, <2>3
<1>7. ASSUME NEW k \in a..b
      PROVE  CardGoes(t, a, k)
  <2>1. k \in Nat /\ k - 1 \in Nat /\ k >= a /\ k <= b /\ k \in DOMAIN t
    <3>1. k \in a..b
      OBVIOUS
    <3>2. k \in Nat /\ k - 1 \in Nat /\ k >= a /\ k <= b /\ k \in 1..n
      BY <1>2, <3>1
    <3> QED
      BY <1>1, <3>2
  <2>2. CASE t[k] \in Digits
    <3>1. Counted(t, a, k, Digits) = Counted(t, a, k - 1, Digits) + 1
      BY <1>6, <2>1, <2>2
    <3>2. Counted(t, a, k, Digits) <= Counted(t, a, b, Digits)
      BY <1>2, <2>1, CountedGrows
    <3>3. Counted(t, a, k - 1, Digits) \in Nat /\ Counted(t, a, b, Digits) \in Nat
      BY <1>2, <1>6, <2>1
    <3>4. Counted(t, a, k - 1, Digits) < MaxCard
      BY <1>4, <3>1, <3>2, <3>3
    <3>5. At(t, k, Digits)
      BY <2>1, <2>2 DEF At
    <3> QED
      BY <3>4, <3>5 DEF CardGoes
  <2>3. CASE t[k] \notin Digits
    <3>1. t[k] \in {" ", "-"}
      BY <1>11, <2>3
    <3>11. k > a /\ k # b
      BY <1>11, <2>3
    <3>12. k < b
      BY <1>2, <2>1, <3>11
    <3>2. k + 1 \in a..b /\ k + 1 \in Nat /\ k + 1 \in DOMAIN t /\ k + 1 - 1 = k
      <4>1. k + 1 \in a..b /\ k + 1 \in Nat /\ k + 1 \in 1..n /\ k + 1 - 1 = k
        BY <1>2, <2>1, <3>12
      <4> QED
        BY <1>1, <4>1
    <3>3. t[k + 1] \in Digits
      <4>1. PICK m \in a..b : m = k + 1
        BY <3>2
      <4>2. t[m] \in Digits \/ t[m - 1] \in Digits
        BY <1>11
      <4>3. m - 1 = k
        BY <3>2, <4>1
      <4> QED
        BY <2>3, <4>1, <4>2, <4>3
    <3>4. /\ Counted(t, a, k + 1, Digits) = Counted(t, a, k, Digits) + 1
          /\ Counted(t, a, k, Digits) = Counted(t, a, k - 1, Digits)
      <4>1. k + 1 >= a
        BY <1>2, <2>1
      <4> QED
        BY <1>6, <2>1, <2>3, <3>2, <3>3, <4>1
    <3>5. /\ Counted(t, a, k + 1, Digits) <= Counted(t, a, b, Digits)
          /\ Counted(t, a, a, Digits) <= Counted(t, a, k - 1, Digits)
      <4>1. k + 1 <= b /\ a <= k - 1 /\ a \in Nat /\ b \in Nat
        BY <1>2, <2>1, <3>11, <3>12
      <4> QED
        BY <1>2, <2>1, <3>2, <4>1, CountedGrows
    <3>6. Counted(t, a, a, Digits) = Counted(t, a, a - 1, Digits) + 1 /\ a - 1 \in Nat
      <4>1. a - 1 \in Nat /\ a >= a
        BY <1>2
      <4> QED
        BY <1>2, <1>6, <1>11, <4>1
    <3>7. /\ Counted(t, a, a - 1, Digits) \in Nat /\ Counted(t, a, k - 1, Digits) \in Nat
          /\ Counted(t, a, b, Digits) \in Nat
      BY <1>2, <1>6, <2>1, <3>6
    <3>8. Counted(t, a, k - 1, Digits) < MaxCard
      BY <1>4, <3>4, <3>5, <3>7
    <3>9. Counted(t, a, k - 1, Digits) > 0
      BY <3>5, <3>6, <3>7
    <3>10. At(t, k, {" ", "-"}) /\ At(t, k + 1, Digits)
      BY <2>1, <3>1, <3>2, <3>3 DEF At
    <3> QED
      BY <3>8, <3>9, <3>10 DEF CardGoes
  <2> QED
    BY <2>2, <2>3
<1>8. ~CardGoes(t, a, b + 1)
  <2>1. b + 1 - 1 = b /\ b + 1 + 1 = b + 2
    BY <1>2
  <2> QED
    BY <2>1 DEF CardGoes, NoDigitAfter
<1>9. j = b + 1
  <2>1. ~(j <= b)
    <3> SUFFICES ASSUME j <= b
                 PROVE  FALSE
      OBVIOUS
    <3>1. j \in a..b
      BY <1>2, <1>12
    <3> QED
      BY <1>3, <1>7, <3>1
  <2>2. ~(j > b + 1)
    <3> SUFFICES ASSUME j > b + 1
                 PROVE  FALSE
      OBVIOUS
    <3>1. b + 1 \in a..(j - 1)
      BY <1>2, <1>12
    <3> QED
      BY <1>3, <1>8, <3>1
  <2> QED
    BY <1>2, <1>12, <2>1, <2>2
<1>10. j - 1 = b
  BY <1>2, <1>9
<1> QED
  BY <1>3, <1>9, <1>10 DEF j

\* The walk comes to every place before which there is no digit: a number that it tried
\* and rejected does not reach over it.
LEMMA PlaceIsVisited ==
  ASSUME NEW t \in Texts, NEW V, Visits(V, Len(t), CardsNext(t)),
         NEW a \in DOMAIN t, NoDigitBefore(t, a)
  PROVE  a \in V
<1>1. PICK n \in Nat : n = Len(t) /\ DOMAIN t = 1..n /\ a \in 1..n
  BY TextFacts
<1>2. /\ V \subseteq 1..n /\ 1 \in V
      /\ \A i \in V : CardsNext(t)[i] <= n => CardsNext(t)[i] \in V
  <2>1. n > 0
    BY <1>1
  <2> QED
    BY <1>1, <2>1 DEF Visits
<1> DEFINE S == {x \in V : x <= a}
           v == Max(S)
<1>3. v \in S /\ \A k \in S : k <= v
  <2>1. S \in SUBSET (0..n) /\ 1 \in S
    <3>1. \A x \in V : x \in 0..n
      BY <1>2
    <3>2. 1 <= a
      BY <1>1
    <3> QED
      BY <1>2, <3>1, <3>2
  <2> HIDE DEF S
  <2> QED
    BY <2>1, GreatestOf
<1>4. v \in V /\ v \in 1..n /\ v <= a /\ \A k \in V : k <= a => k <= v
  <2> HIDE DEF v
  <2> QED
    BY <1>2, <1>3
<1> HIDE DEF v, S
<1>5. CASE v = a
  BY <1>4, <1>5
<1>6. CASE v # a
  <2> DEFINE j == CardsNext(t)[v]
  <2>1. j \in (v + 1)..(n + 1)
    BY <1>1, <1>4, ScanCardsFacts DEF Advances
  <2>2. j > a
    <3>1. CASE j <= n
      <4>1. j \in V /\ ~(j <= v)
        BY <1>2, <1>4, <2>1, <3>1
      <4>2. ~(j <= a)
        BY <1>4, <4>1
      <4> HIDE DEF j
      <4> QED
        BY <1>1, <2>1, <4>2
    <3>2. CASE ~(j <= n)
      <4> HIDE DEF j
      <4> QED
        BY <1>1, <2>1, <3>2
    <3> QED
      BY <3>1, <3>2
  <2>3. CardTried(t, v)
    <3>1. j # v + 1
      <4> HIDE DEF j
      <4> QED
        BY <1>1, <1>4, <1>6, <2>2
    <3>2. v \in DOMAIN t
      BY <1>1, <1>4
    <3> QED
      BY <3>1, <3>2 DEF CardsNext
  <2>4. j = CardRun(t, v)[1]
    BY <1>1, <1>4, <2>3 DEF CardsNext
  <2> HIDE DEF j
  <2>5. t[v] \in Digits /\ \A k \in v..(j - 1) : CardGoes(t, v, k)
    <3>1. v \in DOMAIN t /\ t[v] \in Digits
      BY <1>1, <1>4, <2>3 DEF CardTried
    <3> QED
      BY <2>4, <3>1, CardRunFacts
  <2>6. a - 1 \in v..(j - 1) /\ v \in Int /\ a \in Int
    BY <1>1, <1>4, <1>6, <2>1, <2>2
  <2>7. At(t, a - 1, Digits) \/ At(t, a - 1, {" ", "-"})
    BY <2>5, <2>6 DEF CardGoes
  <2>8. At(t, a - 1, {" ", "-"}) /\ ~At(t, a - 1, Digits)
    BY <2>7 DEF NoDigitBefore
  <2>9. a - 1 # v
    BY <2>5, <2>8 DEF At
  <2>10. a - 2 \in v..(j - 1) /\ a - 2 + 1 = a - 1
    BY <2>1, <2>6, <2>9
  <2>11. At(t, a - 2, Digits) \/ At(t, a - 1, Digits)
    BY <2>5, <2>10 DEF CardGoes
  <2> QED
    BY <2>8, <2>11 DEF NoDigitBefore
<1> QED
  BY <1>5, <1>6

\* Every card number of a text that no digit touches is found.
LEMMA NoCardIsMissed ==
  ASSUME NEW t \in Texts, NEW a, NEW b, CardShape(t, a, b),
         Counted(t, a, b, Digits) \in MinCard..MaxCard, Luhn(SubSeq(t, a, b)),
         ~At(t, a - 1, WordBytes), ~At(t, b + 1, WordBytes),
         NoDigitBefore(t, a), NoDigitAfter(t, b)
  PROVE  <<a, b>> \in ScanCards(t)
<1>1. PICK n \in Nat : n = Len(t) /\ DOMAIN t = 1..n
  BY TextFacts
<1>2. /\ ScanCards(t) = Walk(n, CardsFrom(t), CardsNext(t))
      /\ Advances(n, CardsNext(t))
  BY <1>1, ScanCardsFacts
<1>3. PICK V : /\ Visits(V, n, CardsNext(t))
               /\ Walk(n, CardsFrom(t), CardsNext(t)) = UNION {CardsFrom(t)[i] : i \in V}
  BY <1>2, WalkFacts
<1>4. a \in DOMAIN t /\ a \in Int /\ b \in Int /\ t[a] \in Digits
  <2>1. a \in 1..n /\ b \in 1..n /\ t[a] \in Digits
    BY <1>1 DEF CardShape
  <2> QED
    BY <1>1, <2>1
<1>5. a \in V
  BY <1>1, <1>3, <1>4, PlaceIsVisited
<1>6. CardRun(t, a)[1] = b + 1 /\ CardRun(t, a)[2] = Counted(t, a, b, Digits)
  <2>1. MinCard \in Nat /\ MaxCard \in Nat
    BY DetectorsAssumption DEF DetectorsAssumption
  <2>2. Counted(t, a, b, Digits) <= MaxCard
    BY <2>1
  <2> QED
    BY <2>2, CardLoopEnds
<1>7. b + 1 - 1 = b
  BY <1>4
<1>8. CardAt(t, a) = {<<a, b>>}
  <2> DEFINE j == CardRun(t, a)[1]
  <2>1. CardAt(t, a) = IF /\ CardRun(t, a)[2] \in MinCard..MaxCard
                          /\ ~At(t, j, WordBytes)
                          /\ Luhn(SubSeq(t, a, j - 1))
                       THEN {<<a, j - 1>>} ELSE {}
    BY DEF CardAt
  <2>2. j = b + 1 /\ j - 1 = b
    BY <1>4, <1>6
  <2> HIDE DEF j
  <2> QED
    BY <1>6, <2>1, <2>2
<1>9. CardsFrom(t)[a] = {<<a, b>>}
  BY <1>4, <1>8 DEF CardsFrom, CardTried
<1> QED
  BY <1>2, <1>3, <1>5, <1>9

---------------------------------------------------------------------------
(* The two definitions of an e-mail address *)

\* Where the labels behind the at sign start: there, and behind every dot.
Starts(s, at) == {at + 1} \cup {i + 1 : i \in {k \in (at + 1)..Len(s) : s[k] = "."}}

\* The last byte of a label: no dot up to it, and then one or the end.
EndsLabel(s, i, e) == /\ e \in (i - 1)..Len(s)
                      /\ \A k \in i..e : s[k] # "."
                      /\ e = Len(s) \/ s[e + 1] = "."

LEMMA LabelEndFacts ==
  ASSUME NEW s \in Texts, NEW i \in 1..(Len(s) + 1)
  PROVE  EndsLabel(s, i, LabelEnd(s, i))
<1> DEFINE n == Len(s)
           S == {e \in (i - 1)..n : e = n \/ s[e + 1] = "."}
           least == Min(S)
           Ends(e) == ~(\E k \in i..e : s[k] = ".") /\ (e = n \/ s[e + 1] = ".")
<1>1. n \in Nat /\ i \in 1..(n + 1) /\ i - 1 \in Nat
  BY TextFacts
<1>2. /\ least \in (i - 1)..n /\ least \in S
      /\ \A k \in (i - 1)..(least - 1) : k \notin S
  <2>1. S \in SUBSET ((i - 1)..n) /\ n \in S /\ i - 1 <= n
    BY <1>1
  <2> HIDE DEF S, n
  <2> QED
    BY <1>1, <2>1, StopFacts
<1> HIDE DEF least, n
<1>3. ASSUME NEW k \in i..least
      PROVE  s[k] # "."
  <2>1. k - 1 \in (i - 1)..(least - 1) /\ k - 1 \in (i - 1)..n /\ k - 1 + 1 = k
    BY <1>1, <1>2
  <2>2. k - 1 \notin S
    BY <1>2, <2>1
  <2> QED
    BY <2>1, <2>2
<1>4. \E e \in (i - 1)..n : Ends(e)
  BY <1>2, <1>3
<1>5. LabelEnd(s, i) = CHOOSE e \in (i - 1)..n : Ends(e)
  BY DEF LabelEnd, n
<1>6. LabelEnd(s, i) \in (i - 1)..n /\ Ends(LabelEnd(s, i))
  <2> HIDE DEF Ends
  <2> QED
    BY <1>4, <1>5
<1> QED
  BY <1>6 DEF EndsLabel, n

\* Every byte behind the at sign is a dot or in a label.
LEMMA LabelOfByte ==
  ASSUME NEW s \in Texts, NEW at \in DOMAIN s, NEW k \in (at + 1)..Len(s), s[k] # "."
  PROVE  \E i \in Starts(s, at) : /\ i \in (at + 1)..k
                                  /\ k <= LabelEnd(s, i)
                                  /\ EndsLabel(s, i, LabelEnd(s, i))
<1>1. PICK n \in Nat : n = Len(s) /\ DOMAIN s = 1..n
  BY TextFacts
<1>2. at \in 1..n /\ at \in Nat /\ k \in Nat /\ at + 1 <= k /\ k <= n
  BY <1>1
<1> DEFINE S == {i \in Starts(s, at) : i <= k}
           i == Max(S)
<1>3. \A x \in Starts(s, at) : x \in Nat /\ x >= at + 1
  <2>1. \A x \in (at + 1)..n : x + 1 \in Nat /\ x + 1 >= at + 1
    BY <1>2
  <2>2. at + 1 \in Nat /\ at + 1 >= at + 1
    BY <1>2
  <2> QED
    BY <1>1, <2>1, <2>2 DEF Starts
<1>4. i \in S /\ \A x \in S : x <= i
  <2>1. S \in SUBSET (0..n)
    <3>1. \A x \in S : x \in 0..n
      BY <1>2, <1>3
    <3> QED
      BY <3>1
  <2>2. at + 1 \in S
    BY <1>2 DEF Starts
  <2> HIDE DEF S
  <2> QED
    BY <2>1, <2>2, GreatestOf
<1>5. i \in Starts(s, at) /\ i <= k /\ \A x \in Starts(s, at) : x <= k => x <= i
  <2> HIDE DEF i
  <2> QED
    BY <1>4
<1> HIDE DEF i, S
<1>6. i \in Nat /\ i >= at + 1
  BY <1>3, <1>5
<1>7. ASSUME NEW x \in i..k
      PROVE  s[x] # "."
  <2>1. CASE x = k
    BY <2>1
  <2>2. CASE x # k /\ s[x] = "."
    <3>1. x \in (at + 1)..n /\ x + 1 <= k /\ ~(x + 1 <= i)
      BY <1>2, <1>5, <1>6, <1>7, <2>2
    <3>2. x + 1 \in Starts(s, at)
      BY <1>1, <2>2, <3>1 DEF Starts
    <3> QED
      BY <1>5, <3>1, <3>2
  <2> QED
    BY <2>1, <2>2
<1> DEFINE e == LabelEnd(s, i)
<1>8. EndsLabel(s, i, e)
  <2>1. i \in 1..(n + 1)
    BY <1>2, <1>5, <1>6
  <2> QED
    BY <1>1, <2>1, LabelEndFacts
<1>9. k <= e
  <2>1. e \in (i - 1)..n /\ (e = n \/ s[e + 1] = ".")
    BY <1>1, <1>8 DEF EndsLabel
  <2> HIDE DEF e
  <2> SUFFICES ASSUME e < k
               PROVE  FALSE
    BY <1>2, <1>6, <2>1
  <2>2. e + 1 \in i..k /\ e # n
    BY <1>2, <1>6, <2>1
  <2> QED
    BY <1>7, <2>1, <2>2
<1>10. i \in (at + 1)..k
  BY <1>2, <1>5, <1>6
<1> QED
  BY <1>5, <1>8, <1>9, <1>10

LEMMA StartsFacts ==
  ASSUME NEW s \in Texts, NEW at \in DOMAIN s
  PROVE  /\ IsFiniteSet(Starts(s, at))
         /\ at + 1 \in Starts(s, at)
         /\ \A k \in (at + 1)..Len(s) : s[k] = "." => k + 1 \in Starts(s, at)
         /\ \A x \in Starts(s, at) :
              /\ x \in (at + 1)..(Len(s) + 1)
              /\ x # at + 1 => x - 1 \in (at + 1)..Len(s) /\ s[x - 1] = "."
<1>1. PICK n \in Nat : n = Len(s) /\ DOMAIN s = 1..n /\ at \in 1..n
  BY TextFacts
<1>2. \A x \in Starts(s, at) : x = at + 1 \/ \E k \in (at + 1)..n : x = k + 1 /\ s[k] = "."
  BY <1>1 DEF Starts
<1>3. ASSUME NEW x \in Starts(s, at)
      PROVE  /\ x \in (at + 1)..(n + 1)
             /\ x # at + 1 => x - 1 \in (at + 1)..n /\ s[x - 1] = "."
  <2>1. CASE x = at + 1
    <3>1. at + 1 \in (at + 1)..(n + 1)
      BY <1>1
    <3> QED
      BY <2>1, <3>1
  <2>2. CASE x # at + 1
    <3>1. PICK k \in (at + 1)..n : x = k + 1 /\ s[k] = "."
      BY <1>2, <2>2
    <3>2. x - 1 = k /\ x \in (at + 1)..(n + 1)
      BY <1>1, <3>1
    <3> QED
      BY <3>1, <3>2
  <2> QED
    BY <2>1, <2>2
<1>4. IsFiniteSet(Starts(s, at))
  <2>1. IsFiniteSet((at + 1)..(n + 1))
    BY <1>1, FS_Interval
  <2>2. Starts(s, at) \in SUBSET ((at + 1)..(n + 1))
    BY <1>3
  <2> QED
    BY <2>1, <2>2, FS_Subset
<1>5. /\ at + 1 \in Starts(s, at)
      /\ \A k \in (at + 1)..n : s[k] = "." => k + 1 \in Starts(s, at)
  BY <1>1 DEF Starts
<1> QED
  BY <1>1, <1>3, <1>4, <1>5

\* What EmailIsValid asks of the bytes before and behind the at sign.
ValidLocal(s, at) ==
  /\ at - 1 \in 1..MaxLocal
  /\ s[1] # "." /\ s[at - 1] # "."
  /\ ~\E i \in 1..(at - 2) : s[i] = "." /\ s[i + 1] = "."
  /\ \A i \in 1..(at - 1) : s[i] \in LocalBytes

ValidDomain(s, at, last) ==
  /\ Len(s) - at \in 1..MaxDomain
  /\ \A i \in Starts(s, at) : LabelIsValid(s, i, LabelEnd(s, i))
  /\ Cardinality(Starts(s, at)) >= 2
  /\ last < Len(s)
  /\ \A k \in last..Len(s) : s[k] \in Alphabetic

\* The greatest place a label starts at.
IsLast(s, at, last) == last \in Starts(s, at) /\ \A k \in Starts(s, at) : k <= last

\* The same in one piece, byte by byte.
DomainBytes == Alphanumeric \cup {"-", "."}

DomainShape(s, at) ==
  /\ Len(s) - at <= MaxDomain
  /\ \A k \in (at + 1)..Len(s) : s[k] \in DomainBytes
  /\ s[at + 1] \notin {".", "-"} /\ s[Len(s)] \notin {".", "-"}
  /\ \A k \in (at + 2)..Len(s) : s[k] = "." => s[k - 1] \notin {".", "-"}
  /\ \A k \in (at + 2)..Len(s) : s[k] = "-" => s[k - 1] # "."
  /\ \A i \in (at + 1)..(Len(s) - MaxLabel) : \E k \in i..(i + MaxLabel) : s[k] = "."
  /\ \E i \in (at + 2)..(Len(s) - 2) : s[i] = "." /\ \A k \in (i + 1)..Len(s) : s[k] \in Alphabetic

\* A label of a domain in one piece is valid.
LEMMA ShapedLabels ==
  ASSUME NEW s \in Texts, NEW at \in 1..(Len(s) - 1), DomainShape(s, at), NEW i \in Starts(s, at)
  PROVE  LabelIsValid(s, i, LabelEnd(s, i))
<1> DEFINE e == LabelEnd(s, i)
<1>1. PICK n \in Nat : n = Len(s) /\ DOMAIN s = 1..n
  BY TextFacts
<1>2. at \in Nat /\ at >= 1 /\ at < n /\ at \in DOMAIN s
  BY <1>1
<1>3. MaxLabel \in Nat /\ MaxLabel >= 1
  BY DetectorsAssumption DEF DetectorsAssumption
<1>4. /\ i \in (at + 1)..(n + 1)
      /\ i # at + 1 => i - 1 \in (at + 1)..n /\ s[i - 1] = "."
  BY <1>1, <1>2, StartsFacts
<1>5. s[n] # "." /\ s[n] # "-" /\ s[at + 1] # "." /\ s[at + 1] # "-"
  BY <1>1 DEF DomainShape
<1>6. i \in (at + 1)..n
  <2>1. CASE i = at + 1
    BY <1>2, <2>1
  <2>2. CASE i # at + 1
    <3>1. i - 1 # n
      BY <1>4, <1>5, <2>2
    <3> QED
      BY <1>2, <1>4, <3>1
  <2> QED
    BY <2>1, <2>2
<1>7. i \in Nat /\ i <= n /\ i >= at + 1
  BY <1>2, <1>6
<1>8. s[i] # "." /\ s[i] # "-"
  <2>1. CASE i = at + 1
    BY <1>5, <2>1
  <2>2. CASE i # at + 1
    <3>1. i \in (at + 2)..n
      BY <1>2, <1>7, <2>2
    <3> QED
      BY <1>1, <1>4, <2>2, <3>1 DEF DomainShape
  <2> QED
    BY <2>1, <2>2
<1>9. EndsLabel(s, i, e)
  <2>1. i \in 1..(Len(s) + 1)
    BY <1>1, <1>2, <1>7
  <2> QED
    BY <2>1, LabelEndFacts
<1> HIDE DEF e
<1>10. /\ e \in Int /\ e >= i - 1 /\ e <= n
       /\ \A k \in i..e : s[k] # "."
       /\ e = n \/ s[e + 1] = "."
  <2>1. e \in (i - 1)..n /\ (\A k \in i..e : s[k] # ".") /\ (e = n \/ s[e + 1] = ".")
    BY <1>1, <1>9 DEF EndsLabel
  <2>2. e \in Int /\ e >= i - 1 /\ e <= n
    BY <1>7, <2>1
  <2> QED
    BY <2>1, <2>2
<1>11. e >= i
  <2> SUFFICES ASSUME e < i
               PROVE  FALSE
    BY <1>7, <1>10
  <2>1. e + 1 = i /\ e # n
    BY <1>7, <1>10
  <2> QED
    BY <1>8, <1>10, <2>1
<1>12. e - i + 1 <= MaxLabel
  <2> SUFFICES ASSUME ~(e - i + 1 <= MaxLabel)
               PROVE  FALSE
    OBVIOUS
  <2>1. i \in (at + 1)..(n - MaxLabel) /\ i + MaxLabel <= e
    BY <1>2, <1>3, <1>7, <1>10
  <2>2. PICK k \in i..(i + MaxLabel) : s[k] = "."
    BY <1>1, <2>1 DEF DomainShape
  <2>3. k \in i..e
    BY <1>3, <1>7, <1>10, <2>1
  <2> QED
    BY <1>10, <2>2, <2>3
<1>13. s[e] # "-"
  <2>1. CASE e = n
    BY <1>5, <2>1
  <2>2. CASE e # n
    <3>1. e + 1 \in (at + 2)..n /\ e + 1 - 1 = e
      BY <1>2, <1>7, <1>10, <1>11, <2>2
    <3>2. s[e + 1 - 1] # "-"
      BY <1>1, <1>10, <2>2, <3>1 DEF DomainShape
    <3> QED
      BY <3>1, <3>2
  <2> QED
    BY <2>1, <2>2
<1>14. ASSUME NEW k \in i..e
       PROVE  s[k] \in Alphanumeric \cup {"-"}
  <2>1. k \in (at + 1)..n
    BY <1>2, <1>7, <1>10
  <2>2. s[k] \in DomainBytes /\ s[k] # "."
    BY <1>1, <1>10, <2>1 DEF DomainShape
  <2> QED
    BY <2>2 DEF DomainBytes
<1>15. e - i + 1 \in 1..MaxLabel
  BY <1>3, <1>7, <1>10, <1>11, <1>12
<1> QED
  BY <1>8, <1>13, <1>14, <1>15 DEF LabelIsValid, e

LEMMA LastExists ==
  ASSUME NEW s \in Texts, NEW at \in DOMAIN s
  PROVE  \E last \in Starts(s, at) : \A k \in Starts(s, at) : k <= last
<1> DEFINE S == Starts(s, at)
<1>1. PICK n \in Nat : n = Len(s) /\ DOMAIN s = 1..n /\ at \in 1..n
  BY TextFacts
<1>2. S \in SUBSET (0..(n + 1)) /\ at + 1 \in S
  <2>1. \A x \in S : x \in (at + 1)..(n + 1)
    BY <1>1, StartsFacts
  <2>2. \A x \in (at + 1)..(n + 1) : x \in 0..(n + 1)
    BY <1>1
  <2>3. at + 1 \in S
    BY StartsFacts
  <2> QED
    BY <2>1, <2>2, <2>3
<1> HIDE DEF S
<1>3. n + 1 \in Nat
  OBVIOUS
<1>4. Max(S) \in S /\ \A k \in S : k <= Max(S)
  BY <1>2, <1>3, GreatestOf
<1> QED
  BY <1>4 DEF S

LEMMA NoMarkIsALetter ==
  /\ Alphabetic \cap {".", "-"} = {}
  /\ "@" \notin DomainBytes /\ "@" \notin LocalBytes
<1>1. \A i \in DOMAIN Letters : Letters[i] # "@"
  <2>1. DOMAIN Letters = 1..26
    BY DEF Letters
  <2>2. \A i \in 1..26 : Letters[i] # "@"
    BY DEF Letters
  <2> QED
    BY <2>1, <2>2
<1>2. "@" \notin Uppers
  BY <1>1 DEF Uppers, ToSet
<1>3. "@" \notin Alphanumeric
  BY <1>2, DigitsAreNoMarks DEF Alphanumeric, Alphabetic, Lowers
<1> QED
  BY <1>3, NoMarkIsInAWord DEF WordBytes, Alphanumeric, DomainBytes, LocalBytes

LEMMA ShapedDomains ==
  ASSUME NEW s \in Texts, NEW at \in 1..(Len(s) - 1), DomainShape(s, at),
         NEW last, IsLast(s, at, last)
  PROVE  ValidDomain(s, at, last)
<1>1. PICK n \in Nat : n = Len(s) /\ DOMAIN s = 1..n
  BY TextFacts
<1>2. at \in Nat /\ at >= 1 /\ at < n /\ at \in DOMAIN s
  BY <1>1
<1>3. PICK dot \in (at + 2)..(n - 2) : s[dot] = "." /\ \A k \in (dot + 1)..n : s[k] \in Alphabetic
  BY <1>1 DEF DomainShape
<1>4. dot \in Nat /\ dot >= at + 2 /\ dot <= n - 2 /\ dot \in (at + 1)..n
  BY <1>2
<1>5. at + 1 \in Starts(s, at) /\ dot + 1 \in Starts(s, at)
  BY <1>1, <1>2, <1>3, <1>4, StartsFacts
<1>6. last = dot + 1
  <2>1. last \in Starts(s, at) /\ dot + 1 <= last
    BY <1>5 DEF IsLast
  <2>2. /\ last \in (at + 1)..(n + 1)
        /\ last # at + 1 => last - 1 \in (at + 1)..n /\ s[last - 1] = "."
    BY <1>1, <1>2, <2>1, StartsFacts
  <2> SUFFICES ASSUME last # dot + 1
               PROVE  FALSE
    OBVIOUS
  <2>3. last - 1 \in (dot + 1)..n /\ last # at + 1
    BY <1>2, <1>4, <2>1, <2>2
  <2>4. s[last - 1] \in Alphabetic /\ s[last - 1] = "."
    BY <1>3, <2>2, <2>3
  <2> QED
    BY <2>4, NoMarkIsALetter
<1>7. last < n /\ \A k \in last..n : s[k] \in Alphabetic
  BY <1>3, <1>4, <1>6
<1>8. Cardinality(Starts(s, at)) >= 2
  <2>1. at + 1 # dot + 1
    BY <1>2, <1>4
  <2>2. Cardinality({at + 1} \cup {dot + 1}) = 2 /\ IsFiniteSet({at + 1} \cup {dot + 1})
    <3>1. IsFiniteSet({at + 1}) /\ Cardinality({at + 1}) = 1 /\ dot + 1 \notin {at + 1}
      BY <2>1, FS_Singleton
    <3> DEFINE S == {at + 1}
               x == dot + 1
    <3> HIDE DEF S, x
    <3>2. /\ IsFiniteSet(S \cup {x})
          /\ Cardinality(S \cup {x}) = IF x \in S THEN Cardinality(S) ELSE Cardinality(S) + 1
      BY <3>1, FS_AddElement DEF S
    <3>3. IsFiniteSet(S \cup {x}) /\ Cardinality(S \cup {x}) = 2
      BY <3>1, <3>2 DEF S, x
    <3> QED
      BY <3>3 DEF S, x
  <2>3. {at + 1} \cup {dot + 1} \in SUBSET Starts(s, at)
    BY <1>5
  <2>4. IsFiniteSet(Starts(s, at))
    BY <1>2, StartsFacts
  <2>5. Cardinality({at + 1} \cup {dot + 1}) <= Cardinality(Starts(s, at))
    BY <2>3, <2>4, FS_Subset
  <2>6. Cardinality(Starts(s, at)) \in Nat
    BY <2>4, FS_CardinalityType
  <2> QED
    BY <2>2, <2>5, <2>6
<1>9. n - at \in 1..MaxDomain
  <2>1. n - at <= MaxDomain
    BY <1>1 DEF DomainShape
  <2>2. MaxDomain \in Nat
    BY DetectorsAssumption DEF DetectorsAssumption
  <2> QED
    BY <1>2, <2>1, <2>2
<1>10. \A i \in Starts(s, at) : LabelIsValid(s, i, LabelEnd(s, i))
  BY ShapedLabels
<1> QED
  BY <1>1, <1>7, <1>8, <1>9, <1>10 DEF ValidDomain

\* A valid domain, byte by byte.
LEMMA ValidDomains ==
  ASSUME NEW s \in Texts, NEW at \in DOMAIN s, NEW last, IsLast(s, at, last),
         ValidDomain(s, at, last)
  PROVE  at < Len(s) /\ DomainShape(s, at)
<1>1. PICK n \in Nat : n = Len(s) /\ DOMAIN s = 1..n /\ at \in 1..n
  BY TextFacts
<1>2. at \in Nat /\ at >= 1 /\ at < n /\ n - at <= MaxDomain
  <2>1. n - at \in 1..MaxDomain
    BY <1>1 DEF ValidDomain
  <2> QED
    BY <1>1, <2>1
<1>3. MaxLabel \in Nat /\ MaxLabel >= 1
  BY DetectorsAssumption DEF DetectorsAssumption
\* A label is neither empty nor too long, and begins and ends with no hyphen.
<1>4. ASSUME NEW i \in Starts(s, at), NEW e, EndsLabel(s, i, e), e = LabelEnd(s, i)
      PROVE  /\ i \in Int /\ e \in Int /\ i <= e /\ e <= n /\ e - i + 1 <= MaxLabel
             /\ s[i] # "." /\ s[i] # "-" /\ s[e] # "-"
             /\ \A k \in i..e : s[k] # "." /\ s[k] \in DomainBytes
  <2>1. LabelIsValid(s, i, e)
    BY <1>4 DEF ValidDomain
  <2>2. i \in (at + 1)..(n + 1) /\ e \in (i - 1)..n
    BY <1>1, <1>4, StartsFacts DEF EndsLabel
  <2>3. i \in Int /\ e \in Int /\ e <= n
    BY <1>2, <2>2
  <2>4. e - i + 1 \in 1..MaxLabel
    BY <2>1 DEF LabelIsValid
  <2>5. i <= e /\ e - i + 1 <= MaxLabel
    BY <1>3, <2>3, <2>4
  <2>6. s[i] # "-" /\ s[e] # "-" /\ \A k \in i..e : s[k] # "." /\ s[k] \in DomainBytes
    BY <1>4, <2>1 DEF LabelIsValid, EndsLabel, DomainBytes
  <2>7. i \in i..e
    BY <2>3, <2>5
  <2> QED
    BY <2>3, <2>5, <2>6, <2>7
\* So a start is at a byte that is no mark.
<1>5. ASSUME NEW i \in Starts(s, at)
      PROVE  i <= n /\ s[i] \notin {".", "-"}
  <2>1. i \in 1..(n + 1)
    <3>1. i \in (at + 1)..(n + 1)
      BY <1>1, StartsFacts
    <3> QED
      BY <1>2, <3>1
  <2>2. EndsLabel(s, i, LabelEnd(s, i))
    BY <1>1, <2>1, LabelEndFacts
  <2>3. /\ i \in Int /\ LabelEnd(s, i) \in Int /\ i <= LabelEnd(s, i) /\ LabelEnd(s, i) <= n
        /\ s[i] # "." /\ s[i] # "-"
    BY <1>4, <2>2
  <2>4. i <= n
    BY <2>3
  <2> QED
    BY <2>3, <2>4
<1>6. ASSUME NEW k \in (at + 1)..n, s[k] = "."
      PROVE  k + 1 <= n /\ s[k + 1] \notin {".", "-"}
  <2>1. k + 1 \in Starts(s, at)
    BY <1>1, <1>6, StartsFacts
  <2> QED
    BY <1>5, <2>1
\* And every other byte is in a label.
<1>7. ASSUME NEW k \in (at + 1)..n, s[k] # "."
      PROVE  \E i \in Starts(s, at) : /\ i \in (at + 1)..k /\ k <= LabelEnd(s, i)
                                      /\ EndsLabel(s, i, LabelEnd(s, i))
  BY <1>1, <1>7, LabelOfByte
<1>8. ASSUME NEW k \in (at + 1)..n
      PROVE  s[k] \in DomainBytes
  <2>1. CASE s[k] = "."
    BY <2>1 DEF DomainBytes
  <2>2. CASE s[k] # "."
    <3>1. PICK i \in Starts(s, at) : /\ i \in (at + 1)..k /\ k <= LabelEnd(s, i)
                                     /\ EndsLabel(s, i, LabelEnd(s, i))
      BY <1>7, <2>2
    <3>2. LabelEnd(s, i) \in Int /\ \A x \in i..LabelEnd(s, i) : s[x] \in DomainBytes
      BY <1>4, <3>1
    <3>3. k \in i..LabelEnd(s, i)
      BY <1>2, <3>1, <3>2
    <3> QED
      BY <3>2, <3>3
  <2> QED
    BY <2>1, <2>2
<1>9. s[at + 1] \notin {".", "-"}
  BY <1>1, <1>5, StartsFacts
<1>10. last \in Starts(s, at) /\ last < n /\ \A k \in last..n : s[k] \in Alphabetic
  BY <1>1 DEF IsLast, ValidDomain
<1>11. /\ last \in Int /\ last >= at + 1
       /\ last # at + 1 => last - 1 \in (at + 1)..n /\ s[last - 1] = "."
  <2>1. /\ last \in (at + 1)..(n + 1)
        /\ last # at + 1 => last - 1 \in (at + 1)..n /\ s[last - 1] = "."
    BY <1>1, <1>10, StartsFacts
  <2> QED
    BY <1>2, <2>1
<1>12. s[n] \notin {".", "-"}
  <2>1. n \in last..n
    BY <1>10, <1>11
  <2>2. s[n] \in Alphabetic
    BY <1>10, <2>1
  <2> QED
    BY <2>2, NoMarkIsALetter
<1>13. ASSUME NEW k \in (at + 2)..n, s[k] \in {".", "-"}
       PROVE  s[k - 1] # "."
  <2>1. k - 1 \in (at + 1)..n /\ k - 1 + 1 = k
    BY <1>2
  <2>2. s[k - 1] = "." => s[k - 1 + 1] \notin {".", "-"}
    BY <1>6, <2>1
  <2> QED
    BY <1>13, <2>1, <2>2
<1>14. ASSUME NEW k \in (at + 2)..n, s[k] = "."
       PROVE  s[k - 1] # "-"
  <2> DEFINE j == k - 1
  <2>1. j \in (at + 1)..n /\ j + 1 = k /\ j \in Int
    BY <1>2
  <2> SUFFICES ASSUME s[j] = "-"
               PROVE  FALSE
    OBVIOUS
  <2> HIDE DEF j
  <2>2. PICK i \in Starts(s, at) : /\ i \in (at + 1)..j /\ j <= LabelEnd(s, i)
                                   /\ EndsLabel(s, i, LabelEnd(s, i))
    BY <1>7, <2>1
  <2> DEFINE e == LabelEnd(s, i)
  <2>3. e \in Int /\ s[e] # "-" /\ i \in Int /\ i <= j /\ \A x \in i..e : s[x] # "."
    <3>1. e \in Int /\ i \in Int /\ s[e] # "-" /\ \A x \in i..e : s[x] # "."
      BY <1>4, <2>2
    <3>2. i <= j
      BY <1>2, <2>1, <2>2
    <3> QED
      BY <3>1, <3>2
  <2> HIDE DEF e
  <2>4. j <= e /\ j # e
    BY <2>2, <2>3 DEF e
  <2>5. j + 1 \in i..e
    BY <2>1, <2>3, <2>4
  <2> QED
    BY <1>14, <2>1, <2>3, <2>5
<1>15. ASSUME NEW i \in (at + 1)..(n - MaxLabel)
       PROVE  \E k \in i..(i + MaxLabel) : s[k] = "."
  <2> SUFFICES ASSUME \A k \in i..(i + MaxLabel) : s[k] # "."
               PROVE  FALSE
    OBVIOUS
  <2>1. i \in (at + 1)..n /\ i \in i..(i + MaxLabel) /\ i \in Int /\ i + MaxLabel <= n
    BY <1>2, <1>3
  <2>2. PICK j \in Starts(s, at) : /\ j \in (at + 1)..i /\ i <= LabelEnd(s, j)
                                   /\ EndsLabel(s, j, LabelEnd(s, j))
    BY <1>7, <2>1
  <2> DEFINE e == LabelEnd(s, j)
  <2>3. j \in Int /\ e \in Int /\ e - j + 1 <= MaxLabel /\ (e = n \/ s[e + 1] = ".")
    BY <1>1, <1>4, <2>2 DEF EndsLabel
  <2>4. i <= e /\ j <= i
    BY <1>2, <2>1, <2>2
  <2> HIDE DEF e
  <2>5. e # n
    BY <1>3, <2>1, <2>3, <2>4
  <2>6. e + 1 \in i..(i + MaxLabel)
    BY <1>3, <2>1, <2>3, <2>4
  <2> QED
    BY <2>3, <2>5, <2>6
<1>16. \E i \in (at + 2)..(n - 2) : s[i] = "." /\ \A k \in (i + 1)..n : s[k] \in Alphabetic
  <2>1. last # at + 1
    <3> SUFFICES ASSUME last = at + 1
                 PROVE  FALSE
      OBVIOUS
    <3>1. Starts(s, at) = {at + 1}
      <4>1. ASSUME NEW x \in Starts(s, at)
            PROVE  x = at + 1
        <5>1. x <= at + 1
          BY DEF IsLast
        <5>2. x \in (at + 1)..(n + 1)
          BY <1>1, StartsFacts
        <5> QED
          BY <1>2, <5>1, <5>2
      <4> QED
        BY <1>10, <4>1
    <3>2. Cardinality(Starts(s, at)) = 1
      BY <3>1, FS_Singleton
    <3>3. Cardinality(Starts(s, at)) >= 2
      BY DEF ValidDomain
    <3> QED
      BY <3>2, <3>3
  <2> DEFINE i == last - 1
  <2>2. i \in (at + 1)..n /\ s[i] = "." /\ i + 1 = last /\ i \in Int
    BY <1>11, <2>1
  <2>3. i # at + 1
    BY <1>9, <2>2
  <2> HIDE DEF i
  <2>4. i \in (at + 2)..(n - 2)
    BY <1>2, <1>10, <2>2, <2>3
  <2> QED
    BY <1>10, <2>2, <2>4
<1>17. /\ \A k \in (at + 2)..n : s[k] = "." => s[k - 1] \notin {".", "-"}
       /\ \A k \in (at + 2)..n : s[k] = "-" => s[k - 1] # "."
  BY <1>13, <1>14
<1> QED
  BY <1>1, <1>2, <1>8, <1>9, <1>12, <1>15, <1>16, <1>17 DEF DomainShape

EmailShape(s, at) == at \in DOMAIN s /\ s[at] = "@" /\ ValidLocal(s, at) /\ DomainShape(s, at)

AtSigns(s) == {i \in DOMAIN s : s[i] = "@"}

LEMMA EmailIsValidParts ==
  ASSUME NEW s
  PROVE  LET at == CHOOSE i \in AtSigns(s) : TRUE
             last == CHOOSE i \in Starts(s, at) : \A k \in Starts(s, at) : k <= i
         IN  EmailIsValid(s) <=> /\ Cardinality(AtSigns(s)) = 1
                                 /\ ValidLocal(s, at)
                                 /\ ValidDomain(s, at, last)
  BY DEF EmailIsValid, ValidLocal, ValidDomain, Starts, AtSigns

LEMMA AtSignsAreFinite ==
  ASSUME NEW s \in Texts
  PROVE  IsFiniteSet(AtSigns(s))
<1>1. Len(s) \in Nat /\ DOMAIN s = 1..Len(s)
  BY TextFacts
<1>2. IsFiniteSet(1..Len(s)) /\ AtSigns(s) \in SUBSET (1..Len(s))
  BY <1>1, FS_Interval DEF AtSigns
<1> QED
  BY <1>2, FS_Subset

LEMMA ValidIsShaped ==
  ASSUME NEW s \in Texts, EmailIsValid(s)
  PROVE  \E at : EmailShape(s, at)
<1> DEFINE at == CHOOSE i \in AtSigns(s) : TRUE
           last == CHOOSE i \in Starts(s, at) : \A k \in Starts(s, at) : k <= i
<1>1. Cardinality(AtSigns(s)) = 1 /\ ValidLocal(s, at) /\ ValidDomain(s, at, last)
  BY EmailIsValidParts
<1>2. \E x : AtSigns(s) = {x}
  BY <1>1, AtSignsAreFinite, FS_Singleton
<1>3. at \in AtSigns(s)
  BY <1>2
<1> HIDE DEF at
<1>4. at \in DOMAIN s /\ s[at] = "@"
  BY <1>3 DEF AtSigns
<1>5. IsLast(s, at, last)
  BY <1>4, LastExists DEF IsLast
<1> HIDE DEF last
<1>6. DomainShape(s, at)
  BY <1>1, <1>4, <1>5, ValidDomains
<1> QED
  BY <1>1, <1>4, <1>6 DEF EmailShape

LEMMA OneAtSign ==
  ASSUME NEW s \in Texts, NEW at, EmailShape(s, at)
  PROVE  AtSigns(s) = {at}
<1>1. PICK n \in Nat : n = Len(s) /\ DOMAIN s = 1..n
  BY TextFacts
<1>2. at \in 1..n /\ s[at] = "@" /\ ValidLocal(s, at) /\ DomainShape(s, at)
  BY <1>1 DEF EmailShape
<1>3. ASSUME NEW k \in 1..n, k # at
      PROVE  s[k] # "@"
  <2>1. CASE k < at
    <3>1. k \in 1..(at - 1)
      BY <1>2, <2>1
    <3>2. s[k] \in LocalBytes
      BY <1>2, <3>1 DEF ValidLocal
    <3> QED
      BY <3>2, NoMarkIsALetter
  <2>2. CASE k > at
    <3>1. k \in (at + 1)..n
      BY <1>2, <2>2
    <3>2. s[k] \in DomainBytes
      BY <1>1, <1>2, <3>1 DEF DomainShape
    <3> QED
      BY <3>2, NoMarkIsALetter
  <2> QED
    BY <1>2, <1>3, <2>1, <2>2
<1> QED
  BY <1>1, <1>2, <1>3 DEF AtSigns

LEMMA ShapedIsLong ==
  ASSUME NEW s \in Texts, NEW at, EmailShape(s, at)
  PROVE  at \in 2..(Len(s) - 1)
<1>1. PICK n \in Nat : n = Len(s) /\ DOMAIN s = 1..n
  BY TextFacts
<1>2. at \in 1..n /\ ValidLocal(s, at) /\ DomainShape(s, at)
  BY <1>1 DEF EmailShape
<1>3. PICK dot : dot \in (at + 2)..(n - 2)
  BY <1>1, <1>2 DEF DomainShape
<1>4. at - 1 \in 1..MaxLocal
  BY <1>2 DEF ValidLocal
<1>5. MaxLocal \in Nat
  BY DetectorsAssumption DEF DetectorsAssumption
<1>6. at >= 2 /\ at <= n - 1 /\ at \in Int
  BY <1>2, <1>3, <1>4, <1>5
<1> QED
  BY <1>1, <1>6

LEMMA ShapedIsValid ==
  ASSUME NEW s \in Texts, NEW x, EmailShape(s, x)
  PROVE  EmailIsValid(s)
<1> DEFINE at == CHOOSE i \in AtSigns(s) : TRUE
           last == CHOOSE i \in Starts(s, at) : \A k \in Starts(s, at) : k <= i
<1>1. AtSigns(s) = {x}
  BY OneAtSign
<1>2. at = x
  BY <1>1
<1>3. Cardinality(AtSigns(s)) = 1
  BY <1>1, FS_Singleton
<1>4. EmailIsValid(s) <=> /\ Cardinality(AtSigns(s)) = 1
                          /\ ValidLocal(s, at)
                          /\ ValidDomain(s, at, last)
  BY EmailIsValidParts
<1> HIDE DEF at
<1>5. at \in DOMAIN s /\ at \in 1..(Len(s) - 1) /\ ValidLocal(s, at) /\ DomainShape(s, at)
  <2>1. x \in 2..(Len(s) - 1) /\ Len(s) \in Nat
    BY ShapedIsLong, TextFacts
  <2>2. x \in 1..(Len(s) - 1)
    BY <2>1
  <2> QED
    BY <1>2, <2>2 DEF EmailShape
<1>6. IsLast(s, at, last)
  BY <1>5, LastExists DEF IsLast
<1> HIDE DEF last
<1>7. ValidDomain(s, at, last)
  BY <1>5, <1>6, ShapedDomains
<1> QED
  BY <1>3, <1>4, <1>5, <1>7

\* The bytes of a part of the text from a to b.
LEMMA PartFacts ==
  ASSUME NEW s \in Texts, NEW a \in Nat, NEW b \in Nat, 1 <= a, a <= b, b <= Len(s)
  PROVE  LET p == SubSeq(s, a, b)
         IN  /\ p \in Texts /\ Len(p) = b - a + 1 /\ DOMAIN p = 1..(b - a + 1)
             /\ \A i \in 1..(b - a + 1) : p[i] = s[a + i - 1]
             /\ \A k \in a..b : k - a + 1 \in 1..(b - a + 1) /\ p[k - a + 1] = s[k]
<1> DEFINE p == SubSeq(s, a, b)
<1>1. s \in Seq(STRING) /\ Len(s) \in Nat
  BY TextFacts DEF Texts
<1>2. \A k \in a..b : k \in 1..Len(s)
  BY <1>1
<1>3. p \in Texts /\ Len(p) = b - a + 1
  BY <1>1, <1>2 DEF Texts
<1>4. \A i \in 1..(b - a + 1) : p[i] = s[a + i - 1]
  BY <1>1, <1>2
<1>5. DOMAIN p = 1..(b - a + 1)
  BY <1>3, TextFacts
<1> HIDE DEF p
<1>6. ASSUME NEW k \in a..b
      PROVE  k - a + 1 \in 1..(b - a + 1) /\ p[k - a + 1] = s[k]
  <2>1. k - a + 1 \in 1..(b - a + 1) /\ a + (k - a + 1) - 1 = k
    OBVIOUS
  <2>2. p[k - a + 1] = s[a + (k - a + 1) - 1]
    BY <1>4, <2>1
  <2> QED
    BY <2>1, <2>2
<1> QED
  BY <1>3, <1>4, <1>5, <1>6 DEF p

\* Words of the bytes joined by single dots, as bytes of the text.
DottedFrom(s, a, b, bytes) ==
  /\ s[a] # "." /\ s[b] # "."
  /\ \A k \in a..b : s[k] \in bytes
  /\ \A k \in (a + 1)..b : s[k] = "." => s[k - 1] # "."

LEMMA DottedParts ==
  ASSUME NEW s \in Texts, NEW a \in Nat, NEW b \in Nat, 1 <= a, a <= b, b <= Len(s), NEW bytes
  PROVE  Dotted(SubSeq(s, a, b), bytes) <=> DottedFrom(s, a, b, bytes)
<1> DEFINE p == SubSeq(s, a, b)
           n == b - a + 1
<1>1. /\ p \in Texts /\ Len(p) = n /\ DOMAIN p = 1..n
      /\ \A i \in 1..n : p[i] = s[a + i - 1]
      /\ \A k \in a..b : k - a + 1 \in 1..n /\ p[k - a + 1] = s[k]
  BY PartFacts
<1> HIDE DEF p
<1>2. n \in Nat /\ n >= 1 /\ a + 1 - 1 = a /\ a + n - 1 = b
  OBVIOUS
<1>3. p[1] = s[a] /\ p[n] = s[b] /\ p # <<>>
  <2>1. 1 \in 1..n /\ n \in 1..n
    BY <1>2
  <2>2. p[1] = s[a + 1 - 1] /\ p[n] = s[a + n - 1]
    BY <1>1, <2>1
  <2>3. Len(<<>>) = 0 /\ Len(p) # 0
    BY <1>1, <1>2
  <2>4. p # <<>>
    BY <2>3
  <2> QED
    BY <1>2, <2>2, <2>4
<1>4. ToSet(p) \subseteq bytes <=> \A k \in a..b : s[k] \in bytes
  <2>1. ToSet(p) = {p[i] : i \in 1..n}
    BY <1>1 DEF ToSet
  <2>2. \A i \in 1..n : a + i - 1 \in a..b
    BY <1>2
  <2>3. ASSUME ToSet(p) \subseteq bytes, NEW k \in a..b
        PROVE  s[k] \in bytes
    <3>1. k - a + 1 \in 1..n /\ p[k - a + 1] = s[k]
      BY <1>1
    <3> HIDE DEF n
    <3> QED
      BY <2>1, <2>3, <3>1
  <2>4. ASSUME \A k \in a..b : s[k] \in bytes, NEW i \in 1..n
        PROVE  p[i] \in bytes
    <3>1. a + i - 1 \in a..b
      BY <2>2
    <3>2. p[i] = s[a + i - 1]
      BY <1>1
    <3> QED
      BY <2>4, <3>1, <3>2
  <2> HIDE DEF n
  <2> QED
    BY <2>1, <2>3, <2>4
<1>5. (\A i \in 2..n : p[i] = "." => p[i - 1] # ".")
        <=> \A k \in (a + 1)..b : s[k] = "." => s[k - 1] # "."
  <2>1. ASSUME \A i \in 2..n : p[i] = "." => p[i - 1] # ".", NEW k \in (a + 1)..b, s[k] = "."
        PROVE  s[k - 1] # "."
    <3>1. k \in a..b /\ k - 1 \in a..b /\ k - a + 1 \in 2..n /\ k - 1 - a + 1 = k - a + 1 - 1
      OBVIOUS
    <3>2. p[k - a + 1] = s[k] /\ p[k - 1 - a + 1] = s[k - 1]
      BY <1>1, <3>1
    <3> DEFINE j == k - a + 1
    <3>3. j \in 2..n /\ p[j] = s[k] /\ p[j - 1] = s[k - 1]
      BY <3>1, <3>2
    <3> HIDE DEF j, n
    <3> QED
      BY <2>1, <3>3
  <2>2. ASSUME \A k \in (a + 1)..b : s[k] = "." => s[k - 1] # ".", NEW i \in 2..n, p[i] = "."
        PROVE  p[i - 1] # "."
    <3>1. i \in 1..n /\ i - 1 \in 1..n /\ a + i - 1 \in (a + 1)..b /\ a + (i - 1) - 1 = a + i - 1 - 1
      OBVIOUS
    <3>2. p[i] = s[a + i - 1] /\ p[i - 1] = s[a + (i - 1) - 1]
      BY <1>1, <3>1
    <3> DEFINE j == a + i - 1
    <3>3. j \in (a + 1)..b /\ p[i] = s[j] /\ p[i - 1] = s[j - 1]
      BY <3>1, <3>2
    <3> HIDE DEF j, n
    <3> QED
      BY <2>2, <3>3
  <2> HIDE DEF n
  <2> QED
    BY <2>1, <2>2
<1> HIDE DEF n
<1> QED
  BY <1>1, <1>3, <1>4, <1>5 DEF Dotted, DottedFrom, p

\* What IsEmail asks of the domain besides, and the same as bytes of the text.
HyphensInside(p) == \A i \in DOMAIN p : p[i] = "-" => /\ i # 1 /\ i # Len(p)
                                                      /\ p[i - 1] # "." /\ p[i + 1] # "."
ShortLabels(p) == \A i \in 1..(Len(p) - MaxLabel) : \E k \in i..(i + MaxLabel) : p[k] = "."
LettersLast(p) == \E i \in 2..(Len(p) - 2) :
                    p[i] = "." /\ \A k \in (i + 1)..Len(p) : p[k] \in Alphabetic

DomainMarks(s, at) ==
  /\ s[at + 1] # "-" /\ s[Len(s)] # "-"
  /\ \A k \in (at + 2)..Len(s) : s[k] = "-" => s[k - 1] # "."
  /\ \A k \in (at + 2)..Len(s) : s[k] = "." => s[k - 1] # "-"
DomainLabels(s, at) ==
  \A i \in (at + 1)..(Len(s) - MaxLabel) : \E k \in i..(i + MaxLabel) : s[k] = "."
DomainLetters(s, at) ==
  \E i \in (at + 2)..(Len(s) - 2) : s[i] = "." /\ \A k \in (i + 1)..Len(s) : s[k] \in Alphabetic

\* The part behind the at sign, byte by byte.
Behind(s, at, p) == /\ DOMAIN p = 1..(Len(s) - at) /\ Len(p) = Len(s) - at
                    /\ \A i \in 1..(Len(s) - at) : p[i] = s[at + i]

LEMMA BehindFacts ==
  ASSUME NEW s \in Texts, NEW at \in 1..(Len(s) - 1)
  PROVE  Behind(s, at, SubSeq(s, at + 1, Len(s)))
<1> DEFINE p == SubSeq(s, at + 1, Len(s))
           n == Len(s)
<1>1. n \in Nat /\ at \in 1..(n - 1)
  BY TextFacts
<1> HIDE DEF n
<1>2. /\ at + 1 \in Nat /\ n \in Nat /\ 1 <= at + 1 /\ at + 1 <= n /\ n <= n
      /\ n - (at + 1) + 1 = n - at
  BY <1>1
<1>3. /\ Len(p) = n - (at + 1) + 1 /\ DOMAIN p = 1..(n - (at + 1) + 1)
      /\ \A i \in 1..(n - (at + 1) + 1) : p[i] = s[at + 1 + i - 1]
  BY <1>2, PartFacts DEF n
<1> HIDE DEF p
<1>4. \A i \in 1..(n - at) : at + 1 + i - 1 = at + i
  BY <1>1
<1> QED
  BY <1>2, <1>3, <1>4 DEF Behind, n, p

LEMMA HyphensAgree ==
  ASSUME NEW s \in Texts, NEW at \in 1..(Len(s) - 1), NEW p, Behind(s, at, p)
  PROVE  HyphensInside(p) <=> DomainMarks(s, at)
<1>1. PICK n \in Nat : n = Len(s) /\ DOMAIN s = 1..n
  BY TextFacts
<1>2. PICK m \in Nat : m = n - at
  <2>1. n - at \in Nat
    BY <1>1
  <2> QED
    BY <2>1
<1>3. at \in Nat /\ at >= 1 /\ n = at + m /\ m >= 1
  BY <1>1, <1>2
<1>4. DOMAIN p = 1..m /\ Len(p) = m /\ \A i \in 1..m : p[i] = s[at + i]
  BY <1>1, <1>2 DEF Behind
<1>5. ASSUME HyphensInside(p)
      PROVE  DomainMarks(s, at)
  <2>1. \A i \in 1..m : p[i] = "-" => i # 1 /\ i # m /\ p[i - 1] # "." /\ p[i + 1] # "."
    BY <1>4, <1>5 DEF HyphensInside
  <2>2. s[at + 1] # "-" /\ s[n] # "-"
    <3>1. 1 \in 1..m /\ m \in 1..m
      BY <1>3
    <3> QED
      BY <1>3, <1>4, <2>1, <3>1
  <2>3. ASSUME NEW k \in (at + 2)..n
        PROVE  /\ s[k] = "-" => s[k - 1] # "."
               /\ s[k] = "." => s[k - 1] # "-"
    <3>1. PICK i \in 2..m : k = at + i
      <4>1. k - at \in 2..m /\ k = at + (k - at)
        BY <1>3
      <4> QED
        BY <4>1
    <3>2. i \in 1..m /\ i - 1 \in 1..m /\ k - 1 = at + (i - 1) /\ i - 1 + 1 = i
      BY <1>3, <3>1
    <3>3. p[i] = s[k] /\ p[i - 1] = s[k - 1]
      BY <1>4, <3>1, <3>2
    <3>4. p[i] = "-" => p[i - 1] # "."
      BY <2>1, <3>2
    <3>5. p[i - 1] = "-" => p[i - 1 + 1] # "."
      BY <2>1, <3>2
    <3> QED
      BY <3>2, <3>3, <3>4, <3>5
  <2> QED
    BY <1>1, <2>2, <2>3 DEF DomainMarks
<1>6. ASSUME DomainMarks(s, at)
      PROVE  HyphensInside(p)
  <2>1. /\ s[at + 1] # "-" /\ s[n] # "-"
        /\ \A k \in (at + 2)..n : s[k] = "-" => s[k - 1] # "."
        /\ \A k \in (at + 2)..n : s[k] = "." => s[k - 1] # "-"
    BY <1>1, <1>6 DEF DomainMarks
  <2>2. ASSUME NEW i \in 1..m, p[i] = "-"
        PROVE  i # 1 /\ i # m /\ p[i - 1] # "." /\ p[i + 1] # "."
    <3>1. s[at + i] = "-"
      BY <1>4, <2>2
    <3>2. i # 1 /\ i # m
      BY <1>3, <2>1, <3>1
    <3>3. /\ i - 1 \in 1..m /\ at + i \in (at + 2)..n /\ at + i - 1 = at + (i - 1)
          /\ i + 1 \in 1..m /\ at + (i + 1) \in (at + 2)..n /\ at + (i + 1) - 1 = at + i
      BY <1>3, <3>2
    <3>4. s[at + (i - 1)] # "."
      BY <2>1, <3>1, <3>3
    <3>5. s[at + (i + 1)] # "."
      BY <2>1, <3>1, <3>3
    <3> QED
      BY <1>4, <3>2, <3>3, <3>4, <3>5
  <2> QED
    BY <1>4, <2>2 DEF HyphensInside
<1> QED
  BY <1>5, <1>6

LEMMA LabelsAgree ==
  ASSUME NEW s \in Texts, NEW at \in 1..(Len(s) - 1), NEW p, Behind(s, at, p)
  PROVE  ShortLabels(p) <=> DomainLabels(s, at)
<1>1. PICK n \in Nat : n = Len(s) /\ DOMAIN s = 1..n
  BY TextFacts
<1>2. PICK m \in Nat : m = n - at
  <2>1. n - at \in Nat
    BY <1>1
  <2> QED
    BY <2>1
<1>3. at \in Nat /\ at >= 1 /\ n = at + m /\ m >= 1 /\ MaxLabel \in Nat
  BY <1>1, <1>2, DetectorsAssumption DEF DetectorsAssumption
<1>4. Len(p) = m /\ \A i \in 1..m : p[i] = s[at + i]
  BY <1>1, <1>2 DEF Behind
<1>5. ASSUME ShortLabels(p), NEW j \in (at + 1)..(n - MaxLabel)
      PROVE  \E k \in j..(j + MaxLabel) : s[k] = "."
  <2>1. PICK i \in 1..(m - MaxLabel) : j = at + i
    <3>1. j - at \in 1..(m - MaxLabel) /\ j = at + (j - at)
      BY <1>3
    <3> QED
      BY <3>1
  <2>2. PICK k \in i..(i + MaxLabel) : p[k] = "."
    BY <1>4, <1>5 DEF ShortLabels
  <2>3. k \in 1..m /\ at + k \in j..(j + MaxLabel)
    BY <1>3, <2>1
  <2> QED
    BY <1>4, <2>2, <2>3
<1>6. ASSUME DomainLabels(s, at), NEW i \in 1..(m - MaxLabel)
      PROVE  \E k \in i..(i + MaxLabel) : p[k] = "."
  <2>1. at + i \in (at + 1)..(n - MaxLabel)
    BY <1>3
  <2>2. PICK k \in (at + i)..(at + i + MaxLabel) : s[k] = "."
    BY <1>1, <1>6, <2>1 DEF DomainLabels
  <2>3. PICK h \in i..(i + MaxLabel) : k = at + h
    <3>1. k - at \in i..(i + MaxLabel) /\ k = at + (k - at)
      BY <1>3
    <3> QED
      BY <3>1
  <2>4. h \in 1..m
    BY <1>3
  <2> QED
    BY <1>4, <2>2, <2>3, <2>4
<1> QED
  BY <1>1, <1>4, <1>5, <1>6 DEF ShortLabels, DomainLabels

LEMMA LettersAgree ==
  ASSUME NEW s \in Texts, NEW at \in 1..(Len(s) - 1), NEW p, Behind(s, at, p)
  PROVE  LettersLast(p) <=> DomainLetters(s, at)
<1>1. PICK n \in Nat : n = Len(s) /\ DOMAIN s = 1..n
  BY TextFacts
<1>2. PICK m \in Nat : m = n - at
  <2>1. n - at \in Nat
    BY <1>1
  <2> QED
    BY <2>1
<1>3. at \in Nat /\ at >= 1 /\ n = at + m /\ m >= 1
  BY <1>1, <1>2
<1>4. Len(p) = m /\ \A i \in 1..m : p[i] = s[at + i]
  BY <1>1, <1>2 DEF Behind
<1>5. ASSUME LettersLast(p)
      PROVE  DomainLetters(s, at)
  <2>1. PICK i \in 2..(m - 2) : p[i] = "." /\ \A k \in (i + 1)..m : p[k] \in Alphabetic
    BY <1>4, <1>5 DEF LettersLast
  <2>2. i \in 1..m /\ at + i \in (at + 2)..(n - 2)
    BY <1>3
  <2>3. ASSUME NEW j \in (at + i + 1)..n
        PROVE  s[j] \in Alphabetic
    <3>1. j - at \in (i + 1)..m /\ j - at \in 1..m /\ at + (j - at) = j
      BY <1>3, <2>2
    <3>2. p[j - at] \in Alphabetic /\ p[j - at] = s[at + (j - at)]
      BY <1>4, <2>1, <3>1
    <3> QED
      BY <3>1, <3>2
  <2>4. s[at + i] = "."
    BY <1>4, <2>1, <2>2
  <2> QED
    BY <1>1, <2>2, <2>3, <2>4 DEF DomainLetters
<1>6. ASSUME DomainLetters(s, at)
      PROVE  LettersLast(p)
  <2>1. PICK j \in (at + 2)..(n - 2) : s[j] = "." /\ \A k \in (j + 1)..n : s[k] \in Alphabetic
    BY <1>1, <1>6 DEF DomainLetters
  <2>2. PICK i \in 2..(m - 2) : j = at + i
    <3>1. j - at \in 2..(m - 2) /\ j = at + (j - at)
      BY <1>3
    <3> QED
      BY <3>1
  <2>3. i \in 1..m
    BY <1>3
  <2>4. ASSUME NEW k \in (i + 1)..m
        PROVE  p[k] \in Alphabetic
    <3>1. at + k \in (j + 1)..n /\ k \in 1..m
      BY <1>3, <2>2, <2>3
    <3> QED
      BY <1>4, <2>1, <3>1
  <2>5. p[i] = "."
    BY <1>4, <2>1, <2>2, <2>3
  <2> QED
    BY <1>4, <2>4, <2>5 DEF LettersLast
<1> QED
  BY <1>5, <1>6

\* The body of IsEmail, for the place of the at sign.
EmailAt(s, at) ==
  LET local == SubSeq(s, 1, at - 1)
      domain == SubSeq(s, at + 1, Len(s))
  IN  /\ s[at] = "@"
      /\ Dotted(local, LocalBytes) /\ Len(local) <= MaxLocal
      /\ Dotted(domain, DomainBytes) /\ Len(domain) <= MaxDomain
      /\ HyphensInside(domain) /\ ShortLabels(domain) /\ LettersLast(domain)

LEMMA EmailAtAgrees ==
  ASSUME NEW s \in Texts, NEW at \in 2..(Len(s) - 1)
  PROVE  EmailAt(s, at) <=> EmailShape(s, at)
<1> DEFINE local == SubSeq(s, 1, at - 1)
           domain == SubSeq(s, at + 1, Len(s))
<1>1. PICK n \in Nat : n = Len(s) /\ DOMAIN s = 1..n
  BY TextFacts
<1>2. /\ at \in Nat /\ at >= 2 /\ at <= n - 1 /\ at \in 1..(Len(s) - 1) /\ at \in DOMAIN s
      /\ at - 1 \in Nat /\ at + 1 \in Nat
  BY <1>1
<1>3. Dotted(local, LocalBytes) <=> DottedFrom(s, 1, at - 1, LocalBytes)
  <2>1. 1 \in Nat /\ 1 <= at - 1 /\ at - 1 <= n
    BY <1>2
  <2> HIDE DEF local
  <2> QED
    BY <1>1, <1>2, <2>1, DottedParts DEF local
<1>4. Dotted(domain, DomainBytes) <=> DottedFrom(s, at + 1, n, DomainBytes)
  <2>1. 1 <= at + 1 /\ at + 1 <= n /\ n <= n
    BY <1>2
  <2> QED
    BY <1>1, <1>2, <2>1, DottedParts
<1>5. Len(local) = at - 1
  <2>1. 1 \in Nat /\ 1 <= 1 /\ 1 <= at - 1 /\ at - 1 <= n /\ at - 1 - 1 + 1 = at - 1
    BY <1>2
  <2>2. Len(local) = at - 1 - 1 + 1
    BY <1>1, <1>2, <2>1, PartFacts
  <2> QED
    BY <2>1, <2>2
<1>6. Behind(s, at, domain)
  BY <1>2, BehindFacts
<1>7. Len(domain) = n - at
  BY <1>1, <1>6 DEF Behind
<1>8. /\ HyphensInside(domain) <=> DomainMarks(s, at)
      /\ ShortLabels(domain) <=> DomainLabels(s, at)
      /\ LettersLast(domain) <=> DomainLetters(s, at)
  <2> HIDE DEF domain
  <2> QED
    BY <1>2, <1>6, HyphensAgree, LabelsAgree, LettersAgree
<1>9. EmailAt(s, at) <=>
        /\ s[at] = "@"
        /\ DottedFrom(s, 1, at - 1, LocalBytes) /\ at - 1 <= MaxLocal
        /\ DottedFrom(s, at + 1, n, DomainBytes) /\ n - at <= MaxDomain
        /\ DomainMarks(s, at) /\ DomainLabels(s, at) /\ DomainLetters(s, at)
  BY <1>3, <1>4, <1>5, <1>7, <1>8 DEF EmailAt
<1> HIDE DEF local, domain
<1>10. DottedFrom(s, 1, at - 1, LocalBytes) /\ at - 1 <= MaxLocal <=> ValidLocal(s, at)
  <2>1. MaxLocal \in Nat
    BY DetectorsAssumption DEF DetectorsAssumption
  <2>2. at - 1 \in 1..MaxLocal <=> at - 1 <= MaxLocal
    BY <1>2, <2>1
  <2>3. ASSUME \A k \in 2..(at - 1) : s[k] = "." => s[k - 1] # ".",
               NEW i \in 1..(at - 2), s[i] = ".", s[i + 1] = "."
        PROVE  FALSE
    <3>1. i + 1 \in 2..(at - 1) /\ i + 1 - 1 = i
      BY <1>2
    <3>2. s[i + 1 - 1] # "."
      BY <2>3, <3>1
    <3> QED
      BY <2>3, <3>1, <3>2
  <2>4. ASSUME ~\E i \in 1..(at - 2) : s[i] = "." /\ s[i + 1] = ".",
               NEW k \in 2..(at - 1), s[k] = "."
        PROVE  s[k - 1] # "."
    <3>1. k - 1 \in 1..(at - 2) /\ k - 1 + 1 = k
      BY <1>2
    <3> QED
      BY <2>4, <3>1
  <2>5. 1 + 1 = 2
    OBVIOUS
  <2> QED
    BY <2>2, <2>3, <2>4, <2>5 DEF DottedFrom, ValidLocal
<1>11. /\ DottedFrom(s, at + 1, n, DomainBytes) /\ n - at <= MaxDomain
       /\ DomainMarks(s, at) /\ DomainLabels(s, at) /\ DomainLetters(s, at)
       <=> DomainShape(s, at)
  <2>1. at + 1 + 1 = at + 2
    BY <1>2
  <2> QED
    BY <1>1, <2>1 DEF DottedFrom, DomainMarks, DomainLabels, DomainLetters, DomainShape
<1> QED
  BY <1>2, <1>9, <1>10, <1>11 DEF EmailShape

\* The validator and the format agree on every string.
LEMMA EmailValidatorIsExact ==
  ASSUME NEW s \in Texts
  PROVE  EmailIsValid(s) <=> IsEmail(s)
<1>1. IsEmail(s) <=> \E at \in 2..(Len(s) - 1) : EmailAt(s, at)
  BY DEF IsEmail, EmailAt, HyphensInside, ShortLabels, LettersLast, DomainBytes
<1>2. EmailIsValid(s) <=> \E at : EmailShape(s, at)
  BY ValidIsShaped, ShapedIsValid
<1>3. (\E at : EmailShape(s, at)) <=> \E at \in 2..(Len(s) - 1) : EmailShape(s, at)
  BY ShapedIsLong
<1> QED
  BY <1>1, <1>2, <1>3, EmailAtAgrees

---------------------------------------------------------------------------
(* What the search around an at sign cannot miss *)

\* An address from a to b of the text, by the limits of the search.
EmailWithin(t, a, at, b) ==
  /\ a \in Nat /\ at \in Nat /\ b \in Nat /\ 1 <= a /\ a < at /\ at < b /\ b <= Len(t)
  /\ at - a <= MaxLocal /\ b - at <= MaxDomain
  /\ t[at] = "@" /\ t[b] \notin {".", "-"}
  /\ \A k \in a..(at - 1) : t[k] \in LocalBytes
  /\ \A k \in (at + 1)..b : t[k] \in DomainBytes

LEMMA PlaceInPart ==
  ASSUME NEW a \in Int, NEW x \in Int, NEW m \in Int, NEW k \in Int
  PROVE  /\ a + (k - a + 1) - 1 = k /\ k - a + 1 \in Int
         /\ k >= a => k - a + 1 >= 1
         /\ k <= a + x - 1 - 1 => k - a + 1 <= x - 1
         /\ k >= a + x - 1 + 1 => k - a + 1 >= x + 1
         /\ k <= a + m - 1 => k - a + 1 <= m
  OBVIOUS

LEMMA EmailsWithin ==
  ASSUME NEW t \in Texts, NEW a \in DOMAIN t, NEW b \in DOMAIN t, a <= b,
         IsEmail(SubSeq(t, a, b))
  PROVE  \E at : EmailWithin(t, a, at, b)
<1> DEFINE p == SubSeq(t, a, b)
<1>1. PICK n \in Nat : n = Len(t) /\ DOMAIN t = 1..n
  BY TextFacts
<1>2. a \in Nat /\ b \in Nat /\ 1 <= a /\ a <= b /\ b <= Len(t) /\ n = Len(t)
  BY <1>1
<1>3. PICK m \in Nat : m = b - a + 1
  <2>1. b - a + 1 \in Nat
    BY <1>2
  <2> QED
    BY <2>1
<1>4. /\ p \in Texts /\ Len(p) = m
      /\ \A i \in 1..m : p[i] = t[a + i - 1]
  BY <1>2, <1>3, PartFacts
<1> HIDE DEF p
<1>5. PICK x : EmailShape(p, x) /\ x \in 2..(m - 1)
  <2>1. EmailIsValid(p)
    BY <1>4, EmailValidatorIsExact DEF p
  <2> QED
    BY <1>4, <2>1, ValidIsShaped, ShapedIsLong
<1>6. /\ p[x] = "@" /\ p[m] \notin {".", "-"} /\ x - 1 <= MaxLocal /\ m - x <= MaxDomain
      /\ \A k \in 1..(x - 1) : p[k] \in LocalBytes
      /\ \A k \in (x + 1)..m : p[k] \in DomainBytes
  <2>1. MaxLocal \in Nat
    BY DetectorsAssumption DEF DetectorsAssumption
  <2>2. x - 1 \in 1..MaxLocal
    BY <1>5 DEF EmailShape, ValidLocal
  <2>3. x - 1 <= MaxLocal
    BY <2>1, <2>2
  <2> QED
    BY <1>4, <1>5, <2>3 DEF EmailShape, ValidLocal, DomainShape
<1>7. PICK at \in Nat : at = a + x - 1
  <2>1. a + x - 1 \in Nat
    BY <1>2, <1>5
  <2> QED
    BY <2>1
<1>8. /\ x \in Int /\ x >= 2 /\ x <= m - 1 /\ a < at /\ at < b
      /\ at - a = x - 1 /\ b - at = m - x /\ b = a + m - 1
  BY <1>2, <1>3, <1>5, <1>7
<1>9. t[at] = "@" /\ t[b] = p[m]
  <2>1. x \in 1..m /\ m \in 1..m
    BY <1>8
  <2> QED
    BY <1>4, <1>6, <1>7, <1>8, <2>1
<1>10. ASSUME NEW k \in a..(at - 1)
       PROVE  t[k] \in LocalBytes
  <2>1. k \in Int /\ k >= a /\ k <= at - 1
    BY <1>2, <1>7
  <2>2. PICK j \in Int : j = k - a + 1
    BY <1>2, <2>1
  <2>3. j >= 1 /\ j <= x - 1 /\ k = a + j - 1
    <3>1. a \in Int /\ x \in Int /\ m \in Int
      BY <1>2, <1>8
    <3> QED
      BY <1>7, <2>1, <2>2, <3>1, PlaceInPart
  <2>4. j \in 1..(x - 1) /\ j \in 1..m
    BY <1>8, <2>3
  <2> QED
    BY <1>4, <1>6, <2>3, <2>4
<1>11. ASSUME NEW k \in (at + 1)..b
       PROVE  t[k] \in DomainBytes
  <2>1. k \in Int /\ k >= at + 1 /\ k <= b
    BY <1>2, <1>7
  <2>2. PICK j \in Int : j = k - a + 1
    BY <1>2, <2>1
  <2>3. j >= x + 1 /\ j <= m /\ k = a + j - 1
    <3>1. a \in Int /\ x \in Int /\ m \in Int
      BY <1>2, <1>8
    <3> QED
      BY <1>7, <1>8, <2>1, <2>2, <3>1, PlaceInPart
  <2>4. j \in (x + 1)..m /\ j \in 1..m
    BY <1>8, <2>3
  <2> QED
    BY <1>4, <1>6, <2>3, <2>4
<1> QED
  BY <1>2, <1>6, <1>8, <1>9, <1>10, <1>11 DEF EmailWithin

LEMMA EmailStart ==
  ASSUME NEW t \in Texts, NEW a, NEW at, NEW b, EmailWithin(t, a, at, b),
         ~At(t, a - 1, LocalBytes)
  PROVE  Reach(t, at, -1, LocalBytes, MaxLocal) = a
<1>1. PICK n \in Nat : n = Len(t) /\ DOMAIN t = 1..n
  BY TextFacts
<1>2. /\ a \in Nat /\ at \in Nat /\ 1 <= a /\ a < at /\ at <= n /\ at - a <= MaxLocal
      /\ MaxLocal \in Nat
  <2>1. /\ a \in Nat /\ at \in Nat /\ b \in Nat /\ 1 <= a /\ a < at /\ at < b /\ b <= n
        /\ at - a <= MaxLocal
    BY <1>1 DEF EmailWithin
  <2>2. MaxLocal \in Nat
    BY DetectorsAssumption DEF DetectorsAssumption
  <2> QED
    BY <2>1, <2>2
<1>3. \A k \in a..(at - 1) : t[k] \in LocalBytes
  BY DEF EmailWithin
<1>4. PICK m : Reached(t, at, -1, LocalBytes, MaxLocal, m)
  <2>1. -1 \in Int /\ MaxLocal \in Nat /\ at \in Int
    BY <1>2
  <2> QED
    BY <2>1, ReachFacts
<1>5. /\ Reach(t, at, -1, LocalBytes, MaxLocal) = at + (-1) * m
      /\ m \in 0..MaxLocal
      /\ \A k \in 1..m : At(t, at + (-1) * k, LocalBytes)
      /\ m = MaxLocal \/ ~At(t, at + (-1) * (m + 1), LocalBytes)
  BY <1>4 DEF Reached
<1>6. m \in Nat /\ m <= MaxLocal
  BY <1>2, <1>5
<1>7. ~(m < at - a)
  <2> SUFFICES ASSUME m < at - a
               PROVE  FALSE
    OBVIOUS
  <2>1. PICK k \in a..(at - 1) : k = at + (-1) * (m + 1)
    <3>1. at + (-1) * (m + 1) \in a..(at - 1)
      BY <1>2, <1>6
    <3> QED
      BY <3>1
  <2>2. m # MaxLocal
    BY <1>2, <1>6
  <2>3. k \in DOMAIN t
    BY <1>1, <1>2
  <2>4. At(t, k, LocalBytes)
    BY <1>3, <2>3 DEF At
  <2> QED
    BY <1>5, <2>1, <2>2, <2>4
<1>8. ~(m > at - a)
  <2> SUFFICES ASSUME m > at - a
               PROVE  FALSE
    OBVIOUS
  <2>1. PICK k \in 1..m : a - 1 = at + (-1) * k
    <3>1. at - a + 1 \in 1..m /\ a - 1 = at + (-1) * (at - a + 1)
      BY <1>2, <1>6
    <3> QED
      BY <3>1
  <2> QED
    BY <1>5, <2>1
<1>9. m = at - a
  BY <1>2, <1>6, <1>7, <1>8
<1>10. at + (-1) * m = a
  BY <1>2, <1>9
<1> QED
  BY <1>5, <1>10

\* Dots and hyphens behind an address, up to a byte that is of no word.
Rest(t, b, r) == /\ r \in Nat
                 /\ \A k \in 1..r : At(t, b + k, {".", "-"})
                 /\ ~At(t, b + r + 1, DomainBytes)
                 /\ ~At(t, b + r + 1, WordBytes)

LEMMA EmailEnd ==
  ASSUME NEW t \in Texts, NEW a, NEW at, NEW b, EmailWithin(t, a, at, b), NEW r, Rest(t, b, r)
  PROVE  LET end == Reach(t, at, 1, Alphanumeric \cup {"-", "."}, MaxDomain)
         IN  /\ end \in b..(b + r)
             /\ ~At(t, end + 1, WordBytes)
<1> DEFINE end == Reach(t, at, 1, Alphanumeric \cup {"-", "."}, MaxDomain)
<1>1. PICK n \in Nat : n = Len(t) /\ DOMAIN t = 1..n
  BY TextFacts
<1>2. /\ at \in Nat /\ b \in Nat /\ at < b /\ b <= n /\ b - at <= MaxDomain /\ r \in Nat
      /\ MaxDomain \in Nat /\ at >= 1
  <2>1. /\ a \in Nat /\ at \in Nat /\ b \in Nat /\ 1 <= a /\ a < at /\ at < b /\ b <= n
        /\ b - at <= MaxDomain
    BY <1>1 DEF EmailWithin
  <2>2. MaxDomain \in Nat /\ r \in Nat
    BY DetectorsAssumption DEF DetectorsAssumption, Rest
  <2> QED
    BY <2>1, <2>2
<1>3. \A k \in (at + 1)..b : t[k] \in DomainBytes
  BY DEF EmailWithin
<1>4. /\ \A k \in 1..r : At(t, b + k, {".", "-"})
      /\ ~At(t, b + r + 1, DomainBytes)
      /\ ~At(t, b + r + 1, WordBytes)
  BY DEF Rest
<1>5. PICK m : Reached(t, at, 1, DomainBytes, MaxDomain, m)
  <2>1. 1 \in Int /\ MaxDomain \in Nat /\ at \in Int
    BY <1>2
  <2> QED
    BY <2>1, ReachFacts
<1>6. /\ end = at + m /\ m \in Nat /\ m <= MaxDomain
      /\ \A k \in 1..m : At(t, at + k, DomainBytes)
      /\ m = MaxDomain \/ ~At(t, at + m + 1, DomainBytes)
  <2>1. /\ Reach(t, at, 1, DomainBytes, MaxDomain) = at + 1 * m
        /\ m \in 0..MaxDomain
        /\ \A k \in 1..m : At(t, at + 1 * k, DomainBytes)
        /\ m = MaxDomain \/ ~At(t, at + 1 * (m + 1), DomainBytes)
    BY <1>5 DEF Reached
  <2>2. end = Reach(t, at, 1, DomainBytes, MaxDomain)
    BY DEF DomainBytes
  <2> HIDE DEF end
  <2>3. m \in Nat /\ m <= MaxDomain /\ at + 1 * m = at + m /\ at + 1 * (m + 1) = at + m + 1
    BY <1>2, <2>1
  <2>4. \A k \in 1..m : at + 1 * k = at + k
    BY <1>2, <2>3
  <2> QED
    BY <2>1, <2>2, <2>3, <2>4
<1> HIDE DEF end
<1>7. end >= b
  <2> SUFFICES ASSUME end < b
               PROVE  FALSE
    BY <1>2, <1>6
  <2>1. at + m + 1 \in (at + 1)..b /\ m # MaxDomain
    BY <1>2, <1>6
  <2>2. at + m + 1 \in DOMAIN t
    BY <1>1, <1>2, <2>1
  <2>3. At(t, at + m + 1, DomainBytes)
    BY <1>3, <2>1, <2>2 DEF At
  <2> QED
    BY <1>6, <2>1, <2>3
<1>8. end <= b + r
  <2> SUFFICES ASSUME end > b + r
               PROVE  FALSE
    BY <1>2, <1>6
  <2>1. PICK k \in 1..m : at + k = b + r + 1
    <3>1. b + r + 1 - at \in 1..m /\ at + (b + r + 1 - at) = b + r + 1
      BY <1>2, <1>6
    <3> QED
      BY <3>1
  <2> QED
    BY <1>4, <1>6, <2>1
<1>9. ~At(t, end + 1, WordBytes)
  <2>1. CASE end = b + r
    BY <1>4, <2>1
  <2>2. CASE end # b + r
    <3>1. PICK k \in 1..r : b + k = end + 1
      <4>1. end + 1 - b \in 1..r /\ b + (end + 1 - b) = end + 1
        BY <1>2, <1>6, <1>7, <1>8, <2>2
      <4> QED
        BY <4>1
    <3>2. t[end + 1] \in {".", "-"}
      BY <1>4, <3>1 DEF At
    <3> QED
      BY <3>2, NoMarkIsInAWord DEF At
  <2> QED
    BY <2>1, <2>2
<1>10. end \in b..(b + r)
  BY <1>2, <1>6, <1>7, <1>8
<1> QED
  BY <1>9, <1>10 DEF end

LEMMA EmailCandidates ==
  ASSUME NEW t \in Texts, NEW a, NEW at, NEW b, EmailWithin(t, a, at, b),
         ~At(t, a - 1, LocalBytes), NEW r, Rest(t, b, r)
  PROVE  EmailCandidate(t, at) = {<<a, b>>}
<1> DEFINE start == Reach(t, at, -1, LocalBytes, MaxLocal)
           end == Reach(t, at, 1, Alphanumeric \cup {"-", "."}, MaxDomain)
           T(e) == /\ \A k \in (e + 1)..end : t[k] \in {".", "-"}
                   /\ e = at \/ t[e] \notin {".", "-"}
           trimmed == CHOOSE e \in at..end : T(e)
<1>1. /\ a \in Nat /\ at \in Nat /\ b \in Nat /\ a < at /\ at < b
      /\ t[b] \notin {".", "-"}
  BY DEF EmailWithin
<1>2. start = a
  BY EmailStart
<1>3. end \in b..(b + r) /\ ~At(t, end + 1, WordBytes)
  BY EmailEnd
<1>4. r \in Nat /\ \A k \in 1..r : At(t, b + k, {".", "-"})
  BY DEF Rest
<1>5. EmailCandidate(t, at) = IF start = at \/ end = at \/ At(t, end + 1, WordBytes)
                              THEN {} ELSE {<<start, trimmed>>}
  BY DEF EmailCandidate
<1> HIDE DEF start, end
<1>6. end \in Nat /\ end >= b /\ end <= b + r /\ start # at /\ end # at
  BY <1>1, <1>2, <1>3, <1>4
<1>7. ASSUME NEW k \in (b + 1)..end
      PROVE  t[k] \in {".", "-"}
  <2>1. PICK j \in 1..r : k = b + j
    <3>1. k - b \in 1..r /\ k = b + (k - b)
      BY <1>1, <1>4, <1>6
    <3> QED
      BY <3>1
  <2> QED
    BY <1>4, <2>1 DEF At
<1>8. b \in at..end /\ T(b)
  BY <1>1, <1>6, <1>7
<1>9. ASSUME NEW e \in at..end, T(e)
      PROVE  e = b
  <2>1. e \in Int /\ at <= e /\ e <= end
    BY <1>1, <1>6
  <2>2. ~(e < b)
    <3> SUFFICES ASSUME e < b
                 PROVE  FALSE
      OBVIOUS
    <3>1. b \in (e + 1)..end
      BY <1>1, <1>6, <2>1
    <3> QED
      BY <1>1, <1>9, <3>1
  <2>3. ~(e > b)
    <3> SUFFICES ASSUME e > b
                 PROVE  FALSE
      OBVIOUS
    <3>1. e \in (b + 1)..end /\ e # at
      BY <1>1, <1>6, <2>1
    <3> QED
      BY <1>7, <1>9, <3>1
  <2> QED
    BY <1>1, <2>1, <2>2, <2>3
<1>10. trimmed = b
  <2> HIDE DEF T
  <2> QED
    BY <1>8, <1>9
<1> HIDE DEF trimmed
<1> QED
  BY <1>2, <1>3, <1>5, <1>6, <1>10

\* Every e-mail address of a text that stands apart from others is found.
LEMMA NoEmailIsMissed ==
  ASSUME NEW t \in Texts, NEW a \in DOMAIN t, NEW b \in DOMAIN t, a <= b,
         IsEmail(SubSeq(t, a, b)), ~At(t, a - 1, LocalBytes), NEW r, Rest(t, b, r)
  PROVE  <<a, b>> \in ScanEmails(t)
<1>1. PICK at : EmailWithin(t, a, at, b)
  BY EmailsWithin
<1>2. PICK n \in Nat : n = Len(t) /\ DOMAIN t = 1..n
  BY TextFacts
<1>3. at \in DOMAIN t /\ t[at] = "@"
  <2>1. /\ a \in Nat /\ at \in Nat /\ b \in Nat /\ 1 <= a /\ a < at /\ at < b /\ b <= n
    BY <1>1, <1>2 DEF EmailWithin
  <2>2. at \in 1..n
    BY <2>1
  <2> QED
    BY <1>1, <1>2, <2>2 DEF EmailWithin
<1>4. EmailCandidate(t, at) = {<<a, b>>}
  BY <1>1, EmailCandidates
<1>5. SubSeq(t, a, b) \in Texts
  <2>1. a \in Nat /\ b \in Nat /\ 1 <= a /\ b <= Len(t)
    BY <1>2
  <2> QED
    BY <2>1, PartFacts
<1>6. EmailIsValid(SubSeq(t, a, b))
  BY <1>5, EmailValidatorIsExact
<1> DEFINE span == <<a, b>>
<1>7. span \in UNION {EmailCandidate(t, i) : i \in {i \in DOMAIN t : t[i] = "@"}}
  BY <1>3, <1>4
<1>8. span[1] = a /\ span[2] = b
  OBVIOUS
<1> HIDE DEF span
<1>9. span \in ScanEmails(t)
  BY <1>6, <1>7, <1>8 DEF ScanEmails
<1> QED
  BY <1>9 DEF span

---------------------------------------------------------------------------
(* The texts of the behaviour, and whole words *)

\* What the edits keep: one of the five detectors, and a text.
TextInv == /\ detector \in DOMAIN Seeds
           /\ text \in Texts

LEMMA EditsKeepTexts ==
  TextInv /\ [Next]_vars => TextInv'
<1> SUFFICES ASSUME TextInv, [Next]_vars
             PROVE  TextInv'
  OBVIOUS
<1>1. detector \in DOMAIN Seeds /\ text \in Seq(STRING) /\ Len(text) \in Nat
  BY DEF TextInv, Texts
<1>2. Alphabet[detector] \subseteq STRING
  BY <1>1, SeedsAssumption DEF SeedsAssumption
<1>3. ASSUME NEW new \in Texts, Edit(new)
      PROVE  TextInv'
  BY <1>1, <1>3 DEF Edit, TextInv
<1>4. CASE Insert
  <2>1. PICK i \in 1..(Len(text) + 1), b \in Alphabet[detector] : Edit(InsertAt(text, i, b))
    BY <1>4 DEF Insert
  <2>2. SubSeq(text, 1, i - 1) \in Seq(STRING) /\ SubSeq(text, i, Len(text)) \in Seq(STRING)
    <3>1. \A k \in 1..(i - 1) : k \in 1..Len(text)
      BY <1>1
    <3>2. \A k \in i..Len(text) : k \in 1..Len(text)
      BY <1>1
    <3> QED
      BY <1>1, <3>1, <3>2
  <2>3. <<b>> \in Seq(STRING)
    BY <1>2
  <2>4. InsertAt(text, i, b) \in Texts
    BY <2>2, <2>3 DEF InsertAt, Texts
  <2> QED
    BY <1>3, <2>1, <2>4
<1>5. CASE Replace
  <2>1. PICK i \in DOMAIN text, b \in Alphabet[detector] : Edit([text EXCEPT ![i] = b])
    BY <1>5 DEF Replace
  <2>2. [text EXCEPT ![i] = b] \in Texts
    BY <1>1, <1>2 DEF Texts
  <2> QED
    BY <1>3, <2>1, <2>2
<1>6. CASE Delete
  <2>1. PICK i \in DOMAIN text : Edit(RemoveAt(text, i))
    BY <1>6 DEF Delete
  <2>2. SubSeq(text, 1, i - 1) \in Seq(STRING) /\ SubSeq(text, i + 1, Len(text)) \in Seq(STRING)
    <3>1. i \in 1..Len(text)
      BY <1>1
    <3>2. \A k \in 1..(i - 1) : k \in 1..Len(text)
      BY <1>1, <3>1
    <3>3. \A k \in (i + 1)..Len(text) : k \in 1..Len(text)
      BY <1>1, <3>1
    <3> QED
      BY <1>1, <3>1, <3>2, <3>3
  <2>3. RemoveAt(text, i) \in Texts
    BY <2>2 DEF RemoveAt, Texts
  <2> QED
    BY <1>3, <2>1, <2>3
<1>7. CASE UNCHANGED vars
  BY <1>7 DEF TextInv, vars
<1> QED
  BY <1>4, <1>5, <1>6, <1>7 DEF Next

\* What a detector reports, and what of it is apart.
LEMMA ScansStandAlone ==
  ASSUME TextInv
  PROVE  ReportsStandAlone
<1>1. /\ text \in Texts
      /\ detector \in {"credit_card", "email", "iban", "phone", "ssn"}
  BY SeedsAssumption DEF SeedsAssumption, TextInv
<1>2. ASSUME NEW S, \A s \in S : StandsAlone(text, s, Glue), Apart(S), Scan(detector, text) = S
      PROVE  ReportsStandAlone
  <2>1. \A s \in S : s \in Spans /\ Alone(s)
    BY <1>2 DEF StandsAlone, Spans, Alone
  <2>2. \A s, o \in S : o = s \/ o[1] > s[2] \/ o[2] < s[1]
    BY <1>2 DEF Apart
  <2> QED
    BY <1>2, <2>1, <2>2 DEF ReportsStandAlone
<1>3. CASE detector = "credit_card"
  <2>1. Scan(detector, text) = ScanCards(text) /\ Glue = WordBytes
    BY <1>3 DEF Scan, Glue
  <2> QED
    BY <1>1, <1>2, <2>1, CardsStandAlone
<1>4. CASE detector = "ssn"
  <2>1. Scan(detector, text) = ScanSsns(text) /\ Glue = WordBytes
    BY <1>4 DEF Scan, Glue
  <2> QED
    BY <1>1, <1>2, <2>1, SsnsStandAlone
<1>5. CASE detector = "phone"
  <2>1. Scan(detector, text) = ScanPhones(text) /\ Glue = Alphanumeric
    BY <1>5 DEF Scan, Glue
  <2> QED
    BY <1>1, <1>2, <2>1, PhonesStandAlone
<1>6. CASE detector = "iban"
  <2>1. Scan(detector, text) = ScanIbans(text) /\ Glue = Alphanumeric
    BY <1>6 DEF Scan, Glue
  <2>2. \A s \in ScanIbans(text) : s \in Spans /\ Alone(s)
    BY <1>1, <2>1, IbansStandAlone DEF StandsAlone, Spans, Alone
  <2> QED
    BY <1>6, <2>1, <2>2 DEF ReportsStandAlone
<1>7. CASE detector = "email"
  <2>1. Scan(detector, text) = ScanEmails(text) /\ Glue = WordBytes
    BY <1>7 DEF Scan, Glue
  <2>2. \A s \in ScanEmails(text) :
          /\ s \in Spans
          /\ Alone(s) \/ (At(text, s[1] + MaxLocal, {"@"}) /\ ~At(text, s[2] + 1, Glue))
    BY <1>1, <2>1, EmailsStandAlone DEF Spans, Alone, StartsLocalPart
  <2> QED
    BY <1>7, <2>1, <2>2 DEF ReportsStandAlone
<1> QED
  BY <1>1, <1>3, <1>4, <1>5, <1>6, <1>7

\* Whatever the text, what a detector reports is no part of a longer word, and no byte is
\* part of two card numbers, social security numbers or telephone numbers.
THEOREM DetectorsReportWholeWords == Spec => []ReportsStandAlone
<1>1. Init => TextInv
  BY SeedsAssumption DEF SeedsAssumption, Init, TextInv, Texts
<1>2. TextInv /\ [Next]_vars => TextInv'
  BY EditsKeepTexts
<1>3. TextInv => ReportsStandAlone
  BY ScansStandAlone
<1> QED
  BY <1>1, <1>2, <1>3, PTL DEF Spec

---------------------------------------------------------------------------
(* The places around a report *)

\* The places the isolation of a report is about.
LEMMA PastBehind ==
  ASSUME text \in Texts, NEW i \in DOMAIN text, NEW bytes
  PROVE  \E r \in Nat : /\ Past(i, 1, bytes) = i + r + 1
                        /\ \A k \in 1..r : At(text, i + k, bytes)
                        /\ ~At(text, i + r + 1, bytes)
<1>1. PICK n \in Nat : n = Len(text) /\ DOMAIN text = 1..n
  BY TextFacts
<1>2. i \in Int /\ i >= 1 /\ n \in Nat
  BY <1>1
<1>3. PICK r : Reached(text, i, 1, bytes, n, r)
  <2>1. 1 \in Int
    OBVIOUS
  <2> QED
    BY <1>2, <2>1, ReachFacts
<1>4. /\ Reach(text, i, 1, bytes, n) = i + 1 * r
      /\ r \in 0..n
      /\ \A k \in 1..r : At(text, i + 1 * k, bytes)
      /\ r = n \/ ~At(text, i + 1 * (r + 1), bytes)
  BY <1>3 DEF Reached
<1>5. r \in Nat /\ r <= n
  BY <1>2, <1>4
<1>6. \A k \in 1..r : At(text, i + k, bytes)
  <2>1. \A k \in 1..r : i + 1 * k = i + k
    BY <1>2, <1>5
  <2> QED
    BY <1>4, <2>1
<1>7. ~At(text, i + r + 1, bytes)
  <2>1. CASE r = n
    <3>1. i + r + 1 \notin DOMAIN text
      BY <1>1, <1>2, <2>1
    <3> QED
      BY <3>1 DEF At
  <2>2. CASE r # n
    <3>1. i + 1 * (r + 1) = i + r + 1
      BY <1>2, <1>5
    <3> QED
      BY <1>4, <2>2, <3>1
  <2> QED
    BY <2>1, <2>2
<1>8. Past(i, 1, bytes) = i + r + 1
  <2>1. Past(i, 1, bytes) = Reach(text, i, 1, bytes, n) + 1
    BY <1>1 DEF Past
  <2>2. i + 1 * r + 1 = i + r + 1
    BY <1>2, <1>5
  <2> QED
    BY <1>4, <2>1, <2>2
<1> QED
  BY <1>5, <1>6, <1>7, <1>8

LEMMA PastBefore ==
  ASSUME text \in Texts, NEW i \in DOMAIN text, NEW bytes
  PROVE  \E r \in Nat : /\ Past(i, -1, bytes) = i - r - 1
                        /\ \A k \in 1..r : At(text, i - k, bytes)
                        /\ ~At(text, i - r - 1, bytes)
<1>1. PICK n \in Nat : n = Len(text) /\ DOMAIN text = 1..n
  BY TextFacts
<1>2. i \in Int /\ i <= n /\ n \in Nat
  BY <1>1
<1>3. PICK r : Reached(text, i, -1, bytes, n, r)
  <2>1. -1 \in Int
    OBVIOUS
  <2> QED
    BY <1>2, <2>1, ReachFacts
<1>4. /\ Reach(text, i, -1, bytes, n) = i + (-1) * r
      /\ r \in 0..n
      /\ \A k \in 1..r : At(text, i + (-1) * k, bytes)
      /\ r = n \/ ~At(text, i + (-1) * (r + 1), bytes)
  BY <1>3 DEF Reached
<1>5. r \in Nat /\ r <= n
  BY <1>2, <1>4
<1>6. \A k \in 1..r : At(text, i - k, bytes)
  <2>1. \A k \in 1..r : i + (-1) * k = i - k
    BY <1>2, <1>5
  <2> QED
    BY <1>4, <2>1
<1>7. ~At(text, i - r - 1, bytes)
  <2>1. CASE r = n
    <3>1. i - r - 1 \notin DOMAIN text
      BY <1>1, <1>2, <2>1
    <3> QED
      BY <3>1 DEF At
  <2>2. CASE r # n
    <3>1. i + (-1) * (r + 1) = i - r - 1
      BY <1>2, <1>5
    <3> QED
      BY <1>4, <2>2, <3>1
  <2> QED
    BY <2>1, <2>2
<1>8. Past(i, -1, bytes) = i - r - 1
  <2>1. Past(i, -1, bytes) = Reach(text, i, -1, bytes, n) + (-1)
    BY <1>1 DEF Past
  <2>2. i + (-1) * r + (-1) = i - r - 1
    BY <1>2, <1>5
  <2> QED
    BY <1>4, <2>1, <2>2
<1> QED
  BY <1>5, <1>6, <1>7, <1>8

---------------------------------------------------------------------------
(* Recursions over a text: the bytes kept, and sums *)

\* A function of the numbers to n that meets a recursion with values in V.
Steps(step, n, V) == \A i \in 1..n, v \in V : step[<<i, v>>] \in V

Recurs(f, n, V, base, step) == /\ f \in [0..n -> V]
                               /\ f[0] = base
                               /\ \A i \in 1..n : f[i] = step[<<i, f[i - 1]>>]

LEMMA Recursion ==
  ASSUME NEW n \in Nat, NEW V, NEW base \in V, NEW step, Steps(step, n, V)
  PROVE  \E f : Recurs(f, n, V, base, step)
<1> USE DEF Steps, Recurs
<1> DEFINE IsPart(f, k) == Recurs(f, k, V, base, step)
           G == {k \in 0..n : \E f : IsPart(f, k)}
<1>1. 0 \in G
  <2> DEFINE f == [i \in 0..0 |-> base]
  <2>1. IsPart(f, 0)
    OBVIOUS
  <2> HIDE DEF IsPart, f
  <2> QED
    BY <2>1
<1>2. ASSUME NEW k \in 1..n, k - 1 \in G
      PROVE  k \in G
  <2>1. PICK f : IsPart(f, k - 1)
    BY <1>2
  <2> DEFINE g == [i \in 0..k |-> IF i = k THEN step[<<k, f[k - 1]>>] ELSE f[i]]
  <2>2. f[k - 1] \in V /\ step[<<k, f[k - 1]>>] \in V
    BY <2>1
  <2>3. g \in [0..k -> V]
    BY <2>1, <2>2
  <2>4. g[0] = base
    BY <2>1
  <2>5. ASSUME NEW i \in 1..k
        PROVE  g[i] = step[<<i, g[i - 1]>>]
    <3>1. CASE i = k
      <4>1. g[k - 1] = f[k - 1] /\ g[k] = step[<<k, f[k - 1]>>]
        OBVIOUS
      <4> QED
        BY <3>1, <4>1
    <3>2. CASE i # k
      <4>1. i \in 1..(k - 1)
        BY <3>2
      <4>2. g[i] = f[i] /\ g[i - 1] = f[i - 1]
        BY <3>2
      <4> QED
        BY <2>1, <4>1, <4>2
    <3> QED
      BY <3>1, <3>2
  <2>6. IsPart(g, k)
    <3> HIDE DEF g
    <3> QED
      BY <2>3, <2>4, <2>5
  <2> HIDE DEF IsPart, g
  <2> QED
    BY <2>6
<1>3. n \in G
  <2> HIDE DEF G
  <2>1. \A k \in 0..n : k \in G
    BY <1>1, <1>2, SetInduction
  <2> QED
    BY <2>1
<1>4. PICK f : IsPart(f, n)
  BY <1>3
<1> QED
  BY <1>4

\* What meets the recursion where its values are in V has all its values there.
LEMMA RecursionIsMet ==
  ASSUME NEW n \in Nat, NEW V, NEW base \in V, NEW step, Steps(step, n, V),
         NEW f, f = [i \in 0..n |-> f[i]], f[0] = base,
         \A i \in 1..n : f[i - 1] \in V => f[i] = step[<<i, f[i - 1]>>]
  PROVE  Recurs(f, n, V, base, step)
<1> DEFINE G == {k \in 0..n : f[k] \in V}
<1>1. 0 \in G
  OBVIOUS
<1>2. ASSUME NEW k \in 1..n, k - 1 \in G
      PROVE  k \in G
  <2>1. f[k - 1] \in V /\ f[k] = step[<<k, f[k - 1]>>]
    BY <1>2
  <2>2. step[<<k, f[k - 1]>>] \in V
    BY <2>1 DEF Steps
  <2> QED
    BY <2>1, <2>2
<1>3. \A k \in 0..n : k \in G
  <2> HIDE DEF G
  <2> QED
    BY <1>1, <1>2, SetInduction
<1>4. \A k \in 0..n : f[k] \in V
  BY <1>3
<1>5. f \in [0..n -> V]
  BY <1>4
<1>6. \A i \in 1..n : f[i] = step[<<i, f[i - 1]>>]
  BY <1>4
<1> QED
  BY <1>5, <1>6 DEF Recurs

\* The bytes kept of each front part of a text.
Keeps(f, t, bytes) ==
  /\ f \in [0..Len(t) -> Seq(STRING)]
  /\ f[0] = <<>>
  /\ \A i \in 1..Len(t) : f[i] = IF t[i] \in bytes THEN Append(f[i - 1], t[i]) ELSE f[i - 1]
  /\ Kept(t, bytes) = f[Len(t)]

LEMMA KeptRecursion ==
  ASSUME NEW t \in Texts, NEW bytes
  PROVE  \E f : Keeps(f, t, bytes)
<1> DEFINE n == Len(t)
           V == Seq(STRING)
           step == [p \in (1..n) \X V |-> IF t[p[1]] \in bytes THEN Append(p[2], t[p[1]]) ELSE p[2]]
           Meets(f) == f = [i \in 0..n |->
                              IF i = 0 THEN <<>>
                              ELSE IF t[i] \in bytes THEN Append(f[i - 1], t[i]) ELSE f[i - 1]]
<1>1. n \in Nat /\ \A i \in 1..n : t[i] \in STRING
  BY TextFacts DEF Texts
<1>2. \A i \in 1..n, v \in V :
        step[<<i, v>>] = IF t[i] \in bytes THEN Append(v, t[i]) ELSE v
  OBVIOUS
<1>3. ASSUME NEW i \in 1..n, NEW v \in V
      PROVE  step[<<i, v>>] \in V
  <2>1. t[i] \in STRING
    BY <1>1
  <2>2. Append(v, t[i]) \in V
    BY <2>1
  <2> QED
    BY <1>2, <2>2
<1>4. PICK f \in [0..n -> V] : f[0] = <<>> /\ \A i \in 1..n : f[i] = step[<<i, f[i - 1]>>]
  <2> HIDE DEF step
  <2> DEFINE base == <<>>
  <2>1. base \in V /\ Steps(step, n, V)
    BY <1>3 DEF Steps
  <2> HIDE DEF V, base
  <2>2. PICK f : Recurs(f, n, V, base, step)
    BY <1>1, <2>1, Recursion
  <2> QED
    BY <2>2 DEF base, Recurs
<1>5. \A i \in 1..n : f[i - 1] \in V /\ step[<<i, f[i - 1]>>] = IF t[i] \in bytes THEN Append(f[i - 1], t[i]) ELSE f[i - 1]
  <2>1. \A i \in 1..n : f[i - 1] \in V
    BY <1>1
  <2> HIDE DEF V, step
  <2> QED
    BY <1>2, <2>1
<1>6. \A i \in 0..n : f[i] = IF i = 0 THEN <<>>
                             ELSE IF t[i] \in bytes THEN Append(f[i - 1], t[i]) ELSE f[i - 1]
  <2> HIDE DEF step
  <2>2. \A i \in 0..n : i # 0 => i \in 1..n
    BY <1>1
  <2> QED
    BY <1>4, <1>5, <2>2
<1>7. Meets(f)
  <2>1. f = [i \in 0..n |-> f[i]]
    OBVIOUS
  <2> QED
    BY <1>6, <2>1
<1> DEFINE kept == CHOOSE g : Meets(g)
<1>8. Meets(kept)
  <2> HIDE DEF Meets
  <2> QED
    BY <1>7
<1>9. Kept(t, bytes) = kept[n]
  BY DEF Kept
<1> HIDE DEF kept
<1>10. /\ DOMAIN kept = 0..n
       /\ kept[0] = <<>>
       /\ \A i \in 1..n : kept[i] = IF t[i] \in bytes THEN Append(kept[i - 1], t[i]) ELSE kept[i - 1]
  <2>1. kept = [i \in 0..n |->
                  IF i = 0 THEN <<>>
                  ELSE IF t[i] \in bytes THEN Append(kept[i - 1], t[i]) ELSE kept[i - 1]]
    BY <1>8
  <2>2. DOMAIN kept = 0..n
    BY <2>1
  <2>3. kept[0] = <<>>
    <3>1. 0 \in 0..n
      BY <1>1
    <3> QED
      BY <2>1, <3>1
  <2>4. ASSUME NEW i \in 1..n
        PROVE  kept[i] = IF t[i] \in bytes THEN Append(kept[i - 1], t[i]) ELSE kept[i - 1]
    <3>1. i \in 0..n /\ i # 0
      BY <1>1
    <3> QED
      BY <2>1, <3>1
  <2> QED
    BY <2>2, <2>3, <2>4
<1>11. Recurs(kept, n, V, <<>>, step)
  <2> DEFINE base == <<>>
  <2>1. base \in V /\ Steps(step, n, V)
    <3> HIDE DEF step
    <3> QED
      BY <1>3 DEF Steps
  <2>2. \A i \in 1..n : kept[i - 1] \in V => kept[i] = step[<<i, kept[i - 1]>>]
    <3>1. ASSUME NEW i \in 1..n, kept[i - 1] \in V
          PROVE  step[<<i, kept[i - 1]>>] =
                   IF t[i] \in bytes THEN Append(kept[i - 1], t[i]) ELSE kept[i - 1]
      <4> HIDE DEF V, step
      <4> QED
        BY <1>2, <3>1
    <3> HIDE DEF V, step
    <3> QED
      BY <1>10, <3>1
  <2>3. kept[0] = base /\ kept = [i \in 0..n |-> kept[i]]
    BY <1>8, <1>10
  <2> HIDE DEF V, base, step
  <2>4. Recurs(kept, n, V, base, step)
    BY <1>1, <2>1, <2>2, <2>3, RecursionIsMet
  <2> QED
    BY <2>4 DEF base
<1>12. kept \in [0..n -> V]
  <2> HIDE DEF V, step
  <2> QED
    BY <1>11 DEF Recurs
<1> QED
  BY <1>9, <1>10, <1>12 DEF Keeps

\* What is kept is of the set, and as many as there are.
LEMMA KeptFacts ==
  ASSUME NEW t \in Texts, NEW bytes
  PROVE  /\ Kept(t, bytes) \in Seq(bytes) /\ Kept(t, bytes) \in Texts
         /\ Len(Kept(t, bytes)) = Counted(t, 1, Len(t), bytes)
<1>1. PICK f : Keeps(f, t, bytes)
  BY KeptRecursion
<1> DEFINE n == Len(t)
           G == {k \in 0..n : f[k] \in Seq(bytes) /\ Len(f[k]) = Counted(t, 1, k, bytes)}
<1>2. n \in Nat
  BY TextFacts
<1>3. /\ f[0] = <<>>
      /\ \A i \in 1..n : f[i] = IF t[i] \in bytes THEN Append(f[i - 1], t[i]) ELSE f[i - 1]
      /\ Kept(t, bytes) = f[n] /\ f[n] \in Seq(STRING)
  BY <1>1, <1>2 DEF Keeps
<1>4. /\ \A k \in 1..n :
           /\ t[k] \in bytes => Counted(t, 1, k, bytes) = Counted(t, 1, k - 1, bytes) + 1
           /\ t[k] \notin bytes => Counted(t, 1, k, bytes) = Counted(t, 1, k - 1, bytes)
      /\ Counted(t, 1, 0, bytes) = 0
  <2>1. 1 \in Nat /\ \A k \in 1..n : k \in Nat /\ k >= 1
    BY <1>2
  <2>2. Counted(t, 1, 0, bytes) = 0
    <3>1. {k \in 1..0 : t[k] \in bytes} = {}
      OBVIOUS
    <3> QED
      BY <3>1, FS_EmptySet DEF Counted
  <2> DEFINE i == 1
  <2>4. i \in Nat
    OBVIOUS
  <2> HIDE DEF i
  <2>6. \A k \in Nat : k >= i =>
           /\ t[k] \in bytes => Counted(t, i, k, bytes) = Counted(t, i, k - 1, bytes) + 1
           /\ t[k] \notin bytes => Counted(t, i, k, bytes) = Counted(t, i, k - 1, bytes)
    BY <2>4, CountedStep
  <2>3. \A k \in Nat : k >= 1 =>
           /\ t[k] \in bytes => Counted(t, 1, k, bytes) = Counted(t, 1, k - 1, bytes) + 1
           /\ t[k] \notin bytes => Counted(t, 1, k, bytes) = Counted(t, 1, k - 1, bytes)
    BY <2>6 DEF i
  <2> QED
    BY <2>1, <2>2, <2>3
<1>5. 0 \in G
  <2>1. f[0] \in Seq(bytes) /\ Len(f[0]) = 0
    BY <1>3
  <2> QED
    BY <1>2, <1>4, <2>1
<1>6. ASSUME NEW k \in 1..n, k - 1 \in G
      PROVE  k \in G
  <2>1. f[k - 1] \in Seq(bytes) /\ Len(f[k - 1]) = Counted(t, 1, k - 1, bytes)
    BY <1>6
  <2>2. CASE t[k] \in bytes
    <3>1. f[k] = Append(f[k - 1], t[k])
      BY <1>3, <2>2
    <3>2. f[k] \in Seq(bytes) /\ Len(f[k]) = Len(f[k - 1]) + 1
      BY <2>1, <2>2, <3>1
    <3> QED
      BY <1>2, <1>4, <2>1, <2>2, <3>2
  <2>3. CASE t[k] \notin bytes
    BY <1>2, <1>3, <1>4, <2>1, <2>3
  <2> QED
    BY <2>2, <2>3
<1>7. n \in G
  <2> HIDE DEF G
  <2>1. \A k \in 0..n : k \in G
    BY <1>2, <1>5, <1>6, SetInduction
  <2> QED
    BY <1>2, <2>1
<1> QED
  BY <1>3, <1>7 DEF Texts

\* The sums of the first terms.
Sums(sum, n, term) == /\ sum \in [0..n -> Nat]
                      /\ sum[0] = 0
                      /\ \A k \in 1..n : sum[k] = sum[k - 1] + term[k]
                      /\ Total(n, term) = sum[n]

LEMMA TotalRecursion ==
  ASSUME NEW n \in Nat, NEW term \in [1..n -> Nat]
  PROVE  \E sum : Sums(sum, n, term)
<1> DEFINE step == [p \in (1..n) \X Nat |-> p[2] + term[p[1]]]
           Meets(f) == f = [k \in 0..n |-> IF k = 0 THEN 0 ELSE f[k - 1] + term[k]]
           zero == 0
           sum == CHOOSE f : Meets(f)
<1>1. \A k \in 1..n, v \in Nat : step[<<k, v>>] = v + term[k]
  OBVIOUS
<1>2. zero \in Nat /\ Steps(step, n, Nat)
  BY <1>1 DEF Steps
<1>3. PICK f : Recurs(f, n, Nat, zero, step)
  <2> HIDE DEF step, zero
  <2> QED
    BY <1>2, Recursion
<1>4. Meets(f)
  <2>1. f = [k \in 0..n |-> f[k]] /\ f[0] = 0 /\ \A k \in 1..n : f[k] = f[k - 1] + term[k]
    <3> HIDE DEF step
    <3>1. \A k \in 1..n : f[k - 1] \in Nat
      BY <1>3 DEF Recurs
    <3> QED
      BY <1>1, <1>3, <3>1 DEF Recurs
  <2>2. \A k \in 0..n : f[k] = IF k = 0 THEN 0 ELSE f[k - 1] + term[k]
    <3>1. \A k \in 0..n : k # 0 => k \in 1..n
      OBVIOUS
    <3> QED
      BY <2>1, <3>1
  <2> QED
    BY <2>1, <2>2
<1>5. Meets(sum)
  <2> HIDE DEF Meets
  <2> QED
    BY <1>4
<1>6. Total(n, term) = sum[n]
  BY DEF Total
<1> HIDE DEF sum
<1>7. /\ sum = [k \in 0..n |-> sum[k]] /\ sum[0] = zero
      /\ \A k \in 1..n : sum[k] = sum[k - 1] + term[k]
  BY <1>5
<1>8. Recurs(sum, n, Nat, zero, step)
  <2>1. \A k \in 1..n : sum[k - 1] \in Nat => sum[k] = step[<<k, sum[k - 1]>>]
    BY <1>1, <1>7
  <2> HIDE DEF step, zero
  <2> QED
    BY <1>2, <1>7, <2>1, RecursionIsMet
<1> QED
  BY <1>6, <1>7, <1>8 DEF Recurs, Sums

\* The same terms in the other order have the same sum.
LEMMA TotalReversed ==
  ASSUME NEW n \in Nat, NEW term \in [1..n -> Nat], NEW back \in [1..n -> Nat],
         \A k \in 1..n : back[k] = term[n + 1 - k]
  PROVE  Total(n, back) = Total(n, term)
<1>1. PICK f : Sums(f, n, term)
  BY TotalRecursion
<1>2. PICK r : Sums(r, n, back)
  BY TotalRecursion
<1> DEFINE G == {k \in 0..n : r[k] + f[n - k] = f[n]}
<1>3. 0 \in G
  BY <1>1, <1>2 DEF Sums
<1>4. ASSUME NEW k \in 1..n, k - 1 \in G
      PROVE  k \in G
  <2>1. n - (k - 1) = n - k + 1 /\ n - k + 1 \in 1..n /\ n - k + 1 - 1 = n - k /\ n + 1 - k = n - k + 1
    OBVIOUS
  <2>2. r[k] = r[k - 1] + back[k] /\ r[k - 1] \in Nat
    BY <1>2 DEF Sums
  <2>3. f[n - k + 1] = f[n - k] + term[n - k + 1] /\ f[n - k] \in Nat
    BY <1>1, <2>1 DEF Sums
  <2>4. back[k] = term[n - k + 1] /\ back[k] \in Nat
    BY <2>1
  <2>5. r[k - 1] + f[n - k + 1] = f[n]
    BY <1>4, <2>1
  <2> HIDE DEF G
  <2>6. r[k] + f[n - k] = f[n]
    BY <2>2, <2>3, <2>4, <2>5
  <2> QED
    BY <2>6 DEF G
<1>5. n \in G
  <2> HIDE DEF G
  <2>1. \A k \in 0..n : k \in G
    BY <1>3, <1>4, SetInduction
  <2> QED
    BY <2>1
<1>6. r[n] + f[0] = f[n] /\ r[n] \in Nat /\ f[0] = 0
  BY <1>1, <1>2, <1>5 DEF Sums
<1> QED
  BY <1>1, <1>2, <1>6 DEF Sums

LEMMA DigitValue ==
  ASSUME NEW b \in Digits
  PROVE  /\ Value(b) \in 0..9 /\ Numerals[Value(b) + 1] = b
         /\ Value(b) = 0 <=> b = "0"
         /\ Value(b) = 6 <=> b = "6"
         /\ Value(b) = 9 <=> b = "9"
<1> DEFINE i == CHOOSE i \in DOMAIN Numerals : Numerals[i] = b
<1>1. DOMAIN Numerals = 1..10
  BY DEF Numerals
<1>2. \E j \in DOMAIN Numerals : Numerals[j] = b
  BY DEF Digits, ToSet
<1>3. i \in 1..10 /\ Numerals[i] = b
  BY <1>1, <1>2
<1>4. Value(b) = i - 1
  BY DEF Value
<1> HIDE DEF i
<1>5. Value(b) \in 0..9 /\ Numerals[Value(b) + 1] = b
  <2>1. i - 1 + 1 = i
    BY <1>3
  <2> QED
    BY <1>3, <1>4, <2>1
<1>6. \A v \in 0..9 : /\ v = 0 <=> Numerals[v + 1] = "0"
                      /\ v = 6 <=> Numerals[v + 1] = "6"
                      /\ v = 9 <=> Numerals[v + 1] = "9"
  BY DEF Numerals
<1> QED
  BY <1>5, <1>6

\* Doubling every second digit from the right, walking from there or from the left.
LEMMA LuhnIsExact ==
  ASSUME NEW s \in Texts
  PROVE  Luhn(s) <=> LET digits == Kept(s, Digits)
                     IN  Len(digits) \in MinCard..MaxCard /\ LuhnSum(digits) % 10 = 0
<1> DEFINE digits == Kept(s, Digits)
           n == Len(digits)
           back == [k \in 1..n |-> LET v == Value(digits[n + 1 - k])
                                   IN  IF k % 2 = 0 THEN LuhnDouble[v + 1] ELSE v]
           term == [i \in 1..n |-> LET v == Value(digits[i])
                                   IN  IF (n - i) % 2 = 0 THEN v
                                       ELSE ((2 * v) \div 10) + ((2 * v) % 10)]
<1>1. /\ Luhn(s) <=> (n \in MinCard..MaxCard /\ Total(n, back) % 10 = 0)
      /\ LuhnSum(digits) = Total(n, term)
  BY DEF Luhn, LuhnSum
<1>2. digits \in Seq(Digits)
  BY KeptFacts
<1> HIDE DEF digits
<1>3. n \in Nat /\ \A k \in 1..n : digits[k] \in Digits
  BY <1>2
<1> HIDE DEF n
<1>4. \A v \in 0..9 : /\ LuhnDouble[v + 1] = ((2 * v) \div 10) + ((2 * v) % 10)
                      /\ LuhnDouble[v + 1] \in Nat
  BY DEF LuhnDouble
<1>5. ASSUME NEW k \in 1..n
      PROVE  term[k] \in Nat /\ back[k] \in Nat /\ back[k] = term[n + 1 - k]
  <2>1. n + 1 - k \in 1..n /\ n - (n + 1 - k) = k - 1
    BY <1>3
  <2>2. Value(digits[k]) \in 0..9 /\ Value(digits[n + 1 - k]) \in 0..9
    BY <1>3, <2>1, DigitValue
  <2>3. (k - 1) % 2 = 0 <=> k % 2 # 0
    BY <1>3
  <2>4. term[k] \in Nat
    <3>1. \A v \in 0..9 : v \in Nat /\ ((2 * v) \div 10) + ((2 * v) % 10) \in Nat
      OBVIOUS
    <3>2. term[k] = LET v == Value(digits[k])
                    IN  IF (n - k) % 2 = 0 THEN v ELSE ((2 * v) \div 10) + ((2 * v) % 10)
      OBVIOUS
    <3> QED
      BY <2>2, <3>1, <3>2
  <2>5. back[k] \in Nat
    BY <1>4, <2>2
  <2>6. term[n + 1 - k] = LET v == Value(digits[n + 1 - k])
                          IN  IF (k - 1) % 2 = 0 THEN v ELSE ((2 * v) \div 10) + ((2 * v) % 10)
    BY <2>1
  <2>7. back[k] = LET v == Value(digits[n + 1 - k])
                  IN  IF k % 2 = 0 THEN ((2 * v) \div 10) + ((2 * v) % 10) ELSE v
    BY <1>4, <2>2
  <2> QED
    BY <2>3, <2>4, <2>5, <2>6, <2>7
<1>6. term \in [1..n -> Nat] /\ back \in [1..n -> Nat]
  <2>1. \A k \in 1..n : term[k] \in Nat /\ back[k] \in Nat
    BY <1>5
  <2>2. DOMAIN term = 1..n /\ DOMAIN back = 1..n
    OBVIOUS
  <2>3. term = [k \in 1..n |-> term[k]] /\ back = [k \in 1..n |-> back[k]]
    OBVIOUS
  <2> HIDE DEF term, back
  <2> QED
    BY <2>1, <2>3
<1>7. Total(n, back) = Total(n, term)
  <2> HIDE DEF term, back
  <2> QED
    BY <1>3, <1>5, <1>6, TotalReversed
<1> QED
  BY <1>1, <1>7 DEF n, digits

---------------------------------------------------------------------------
(* Card numbers *)

\* The separators of a card number.
CardMarks == {" ", "-"}

\* What the walk over card numbers cannot miss, as the run states it.
LEMMA IsolatedCards ==
  ASSUME TextInv, detector = "credit_card",
         NEW span \in Spans, Alone(span), Isolated(span)
  PROVE  NoDigitBefore(text, span[1]) /\ NoDigitAfter(text, span[2])
<1> DEFINE a == span[1]
           b == span[2]
           seps == {" ", "-"}
<1>1. text \in Texts /\ a \in DOMAIN text /\ b \in DOMAIN text
  BY DEF TextInv, Spans
<1>2. PICK n \in Nat : n = Len(text) /\ DOMAIN text = 1..n
  BY <1>1, TextFacts
<1>3. a \in Int /\ b \in Int
  BY <1>1, <1>2
<1>4. Digits \subseteq WordBytes /\ Digits \cap seps = {}
  BY DigitsAreNoMarks DEF WordBytes, Alphanumeric
<1>5. ~At(text, a - 1, Digits) /\ ~At(text, b + 1, Digits)
  <2>1. ~At(text, a - 1, WordBytes) /\ ~At(text, b + 1, WordBytes)
    BY DEF Alone, Glue
  <2> QED
    BY <1>4, <2>1 DEF At
<1>6. ~At(text, Past(a, -1, seps), Digits) /\ ~At(text, Past(b, 1, seps), Digits)
  BY DEF Isolated
<1> HIDE DEF a, b, seps
<1>7. ~(At(text, a - 1, seps) /\ At(text, a - 2, Digits))
  <2> SUFFICES ASSUME At(text, a - 1, seps), At(text, a - 2, Digits)
               PROVE  FALSE
    OBVIOUS
  <2>1. PICK r \in Nat : /\ Past(a, -1, seps) = a - r - 1
                         /\ \A k \in 1..r : At(text, a - k, seps)
                         /\ ~At(text, a - r - 1, seps)
    BY <1>1, PastBefore
  <2>2. r # 0
    <3>1. a - 0 - 1 = a - 1
      BY <1>3
    <3> QED
      BY <2>1, <3>1
  <2>3. r < 2
    <3> SUFFICES ASSUME r >= 2
                 PROVE  FALSE
      OBVIOUS
    <3>1. 2 \in 1..r
      OBVIOUS
    <3>2. At(text, a - 2, seps)
      BY <2>1, <3>1
    <3> QED
      BY <1>4, <3>2 DEF At
  <2>4. a - r - 1 = a - 2
    BY <1>3, <2>2, <2>3
  <2> QED
    BY <1>6, <2>1, <2>4
<1>8. ~(At(text, b + 1, seps) /\ At(text, b + 2, Digits))
  <2> SUFFICES ASSUME At(text, b + 1, seps), At(text, b + 2, Digits)
               PROVE  FALSE
    OBVIOUS
  <2>1. PICK r \in Nat : /\ Past(b, 1, seps) = b + r + 1
                         /\ \A k \in 1..r : At(text, b + k, seps)
                         /\ ~At(text, b + r + 1, seps)
    BY <1>1, PastBehind
  <2>2. r # 0
    <3>1. b + 0 + 1 = b + 1
      BY <1>3
    <3> QED
      BY <2>1, <3>1
  <2>3. r < 2
    <3> SUFFICES ASSUME r >= 2
                 PROVE  FALSE
      OBVIOUS
    <3>1. 2 \in 1..r
      OBVIOUS
    <3>2. At(text, b + 2, seps)
      BY <2>1, <3>1
    <3> QED
      BY <1>4, <3>2 DEF At
  <2>4. b + r + 1 = b + 2
    BY <1>3, <2>2, <2>3
  <2> QED
    BY <1>6, <2>1, <2>4
<1> QED
  BY <1>5, <1>7, <1>8 DEF NoDigitBefore, NoDigitAfter, a, b, seps

\* A part of the text has as many of the bytes as there are in the text there.
LEMMA KeptOfPart ==
  ASSUME NEW t \in Texts, NEW a \in Nat, NEW b \in Nat, 1 <= a, a <= b, b <= Len(t), NEW bytes
  PROVE  /\ Kept(SubSeq(t, a, b), bytes) \in Seq(bytes)
         /\ Len(Kept(SubSeq(t, a, b), bytes)) = Counted(t, a, b, bytes)
<1> DEFINE p == SubSeq(t, a, b)
           i == 1
<1>1. PICK m \in Nat : m = b - a + 1
  <2>1. b - a + 1 \in Nat
    OBVIOUS
  <2> QED
    BY <2>1
<1>2. p \in Texts /\ Len(p) = m /\ \A k \in 1..m : p[k] = t[a + k - 1]
  BY <1>1, PartFacts
<1>3. /\ Kept(p, bytes) \in Seq(bytes)
      /\ Len(Kept(p, bytes)) = Counted(p, i, m, bytes)
  <2> HIDE DEF p
  <2> QED
    BY <1>2, KeptFacts
<1> DEFINE G == {k \in 0..m : Counted(p, i, k, bytes) = Counted(t, a, a + k - 1, bytes)}
<1> HIDE DEF p
<1>4. /\ Counted(p, i, i - 1, bytes) = 0
      /\ \A k \in Nat : k >= i =>
           /\ p[k] \in bytes => Counted(p, i, k, bytes) = Counted(p, i, k - 1, bytes) + 1
           /\ p[k] \notin bytes => Counted(p, i, k, bytes) = Counted(p, i, k - 1, bytes)
  <2>1. i \in Nat
    OBVIOUS
  <2> HIDE DEF i
  <2>2. Counted(p, i, i - 1, bytes) = 0
    BY <2>1, CountedNone
  <2>3. \A k \in Nat : k >= i =>
          /\ p[k] \in bytes => Counted(p, i, k, bytes) = Counted(p, i, k - 1, bytes) + 1
          /\ p[k] \notin bytes => Counted(p, i, k, bytes) = Counted(p, i, k - 1, bytes)
    BY <2>1, CountedStep
  <2> QED
    BY <2>2, <2>3
<1>5. /\ Counted(t, a, a - 1, bytes) = 0
      /\ \A k \in Nat : k >= a =>
           /\ t[k] \in bytes => Counted(t, a, k, bytes) = Counted(t, a, k - 1, bytes) + 1
           /\ t[k] \notin bytes => Counted(t, a, k, bytes) = Counted(t, a, k - 1, bytes)
  <2>1. Counted(t, a, a - 1, bytes) = 0
    BY CountedNone
  <2>2. \A k \in Nat : k >= a =>
          /\ t[k] \in bytes => Counted(t, a, k, bytes) = Counted(t, a, k - 1, bytes) + 1
          /\ t[k] \notin bytes => Counted(t, a, k, bytes) = Counted(t, a, k - 1, bytes)
    BY CountedStep
  <2> QED
    BY <2>1, <2>2
<1>6. 0 \in G
  <2>1. a + 0 - 1 = a - 1 /\ i - 1 = 0
    OBVIOUS
  <2> HIDE DEF i
  <2>2. Counted(p, i, 0, bytes) = 0 /\ Counted(t, a, a + 0 - 1, bytes) = 0
    BY <1>4, <1>5, <2>1
  <2> QED
    BY <1>1, <2>2
<1>7. ASSUME NEW k \in 1..m, k - 1 \in G
      PROVE  k \in G
  <2>1. k \in Nat /\ k >= i
    OBVIOUS
  <2> HIDE DEF i
  <2>2. PICK l \in Nat : l = a + k - 1 /\ l >= a /\ a + (k - 1) - 1 = l - 1
    <3>1. a + k - 1 \in Nat /\ a + k - 1 >= a /\ a + (k - 1) - 1 = a + k - 1 - 1
      BY <1>1
    <3> QED
      BY <3>1
  <2>3. Counted(p, i, k - 1, bytes) = Counted(t, a, l - 1, bytes) /\ p[k] = t[l]
    BY <1>2, <1>7, <2>2
  <2>4. Counted(p, i, k, bytes) = Counted(t, a, l, bytes)
    BY <1>4, <1>5, <2>1, <2>2, <2>3
  <2> QED
    BY <2>2, <2>4
<1>8. m \in G
  <2> HIDE DEF G
  <2>1. \A k \in 0..m : k \in G
    BY <1>1, <1>6, <1>7, SetInduction
  <2> QED
    BY <1>1, <2>1
<1>9. a + m - 1 = b
  BY <1>1
<1> QED
  BY <1>3, <1>8, <1>9 DEF p

\* The bytes of a set with single marks between them, as bytes of the text.
GroupedFrom(t, a, b, bytes, marks) ==
  /\ t[a] \in bytes /\ t[b] \in bytes
  /\ \A k \in a..b : t[k] \in bytes \/ (t[k] \in marks /\ k > a /\ t[k - 1] \in bytes)

LEMMA GroupedAgrees ==
  ASSUME NEW t \in Texts, NEW a \in Nat, NEW b \in Nat, 1 <= a, a <= b, b <= Len(t),
         NEW bytes, NEW marks, bytes \cap marks = {}
  PROVE  Grouped(SubSeq(t, a, b), bytes, marks) <=> GroupedFrom(t, a, b, bytes, marks)
<1> DEFINE p == SubSeq(t, a, b)
<1>1. PICK m \in Nat : m = b - a + 1
  <2>1. b - a + 1 \in Nat
    OBVIOUS
  <2> QED
    BY <2>1
<1>2. /\ Len(p) = m /\ DOMAIN p = 1..m
      /\ \A i \in 1..m : p[i] = t[a + i - 1]
  BY <1>1, PartFacts
<1> HIDE DEF p
<1>3. m >= 1 /\ a + 1 - 1 = a /\ a + m - 1 = b
  BY <1>1
<1>4. p[1] = t[a] /\ p[m] = t[b]
  <2>1. 1 \in 1..m /\ m \in 1..m
    BY <1>3
  <2>2. p[1] = t[a + 1 - 1] /\ p[m] = t[a + m - 1]
    BY <1>2, <2>1
  <2> QED
    BY <1>3, <2>2
<1>5. ASSUME Grouped(p, bytes, marks)
      PROVE  GroupedFrom(t, a, b, bytes, marks)
  <2>1. /\ p[1] \in bytes /\ p[m] \in bytes
        /\ \A i \in 1..m : p[i] \in bytes \/ (p[i] \in marks /\ p[i - 1] \in bytes)
    BY <1>2, <1>5 DEF Grouped
  <2>2. ASSUME NEW k \in a..b, t[k] \notin bytes
        PROVE  t[k] \in marks /\ k > a /\ t[k - 1] \in bytes
    <3>1. k \in Int /\ k > a /\ k <= b
      BY <1>4, <2>1, <2>2
    <3>2. PICK j \in Int : j = k - a + 1
      BY <3>1
    <3>3. j \in 1..m /\ j - 1 \in 1..m /\ k = a + j - 1 /\ k - 1 = a + (j - 1) - 1
      BY <1>1, <3>1, <3>2
    <3>4. p[j] = t[k] /\ p[j - 1] = t[k - 1]
      BY <1>2, <3>3
    <3> QED
      BY <2>1, <2>2, <3>1, <3>3, <3>4
  <2>3. \A k \in a..b : t[k] \in bytes \/ (t[k] \in marks /\ k > a /\ t[k - 1] \in bytes)
    BY <2>2
  <2> QED
    BY <1>4, <2>1, <2>3 DEF GroupedFrom
<1>6. ASSUME GroupedFrom(t, a, b, bytes, marks)
      PROVE  Grouped(p, bytes, marks)
  <2>1. ASSUME NEW i \in 1..m
        PROVE  p[i] \in bytes \/ (p[i] \in marks /\ p[i - 1] \in bytes)
    <3>1. PICK k \in Int : k = a + i - 1
      OBVIOUS
    <3>2. k \in a..b /\ (k > a => i - 1 \in 1..m) /\ k - 1 = a + (i - 1) - 1
      BY <1>1, <3>1
    <3>3. t[k] \in bytes \/ (t[k] \in marks /\ k > a /\ t[k - 1] \in bytes)
      BY <1>6, <3>2 DEF GroupedFrom
    <3>4. p[i] = t[k] /\ (k > a => p[i - 1] = t[k - 1])
      BY <1>2, <3>1, <3>2
    <3> QED
      BY <3>3, <3>4
  <2>2. p[1] \in bytes /\ p[m] \in bytes
    BY <1>4, <1>6 DEF GroupedFrom
  <2> QED
    BY <1>2, <2>1, <2>2 DEF Grouped
<1> QED
  BY <1>5, <1>6 DEF p

LEMMA DigitsAndCardMarks ==
  Digits \cap CardMarks = {} /\ Digits \subseteq WordBytes /\ Digits \subseteq Alphanumeric
  BY DigitsAreNoMarks DEF CardMarks, WordBytes, Alphanumeric

\* What is reported as a card number is one.
LEMMA CardsAreGenuine ==
  ASSUME NEW t \in Texts, NEW s \in ScanCards(t)
  PROVE  IsCard(SubSeq(t, s[1], s[2]))
<1>1. PICK n \in Nat : n = Len(t) /\ DOMAIN t = 1..n
  BY TextFacts
<1>2. /\ ScanCards(t) = Walk(n, CardsFrom(t), CardsNext(t))
      /\ Advances(n, CardsNext(t))
  BY <1>1, ScanCardsFacts
<1>3. PICK i \in 1..n : s \in CardsFrom(t)[i]
  BY <1>2, WalkReports
<1>4. CardTried(t, i) /\ s \in CardAt(t, i)
  BY <1>1, <1>3 DEF CardsFrom
<1> DEFINE j == CardRun(t, i)[1]
<1>5. /\ s = <<i, j - 1>> /\ Luhn(SubSeq(t, i, j - 1)) /\ ~At(t, j, WordBytes)
  BY <1>4 DEF CardAt
<1>6. /\ j \in (i + 1)..(n + 1)
      /\ \A k \in i..(j - 1) : CardGoes(t, i, k)
  BY <1>1, <1>4, CardRunFacts DEF CardTried
<1> HIDE DEF j
<1>7. PICK b \in Nat : b = j - 1 /\ b + 1 = j /\ i <= b /\ b <= n /\ i \in Nat /\ 1 <= i
  BY <1>1, <1>6
<1>8. ASSUME NEW k \in i..b, t[k] \notin Digits
      PROVE  t[k] \in CardMarks /\ k > i /\ t[k - 1] \in Digits /\ At(t, k + 1, Digits)
  <2>1. At(t, k, CardMarks) /\ At(t, k + 1, Digits)
    BY <1>6, <1>7, <1>8 DEF CardGoes, At, CardMarks
  <2>2. k > i
    BY <1>4, <1>7, <1>8 DEF CardTried
  <2>3. k - 1 \in i..b /\ k - 1 + 1 = k
    BY <1>7, <2>2
  <2>4. t[k - 1] \in Digits
    <3>1. At(t, k - 1, Digits) \/ At(t, k, Digits)
      BY <1>6, <1>7, <2>3 DEF CardGoes
    <3> QED
      BY <1>8, <3>1 DEF At
  <2> QED
    BY <2>1, <2>2, <2>4 DEF At
<1>9. GroupedFrom(t, i, b, Digits, CardMarks)
  <2>1. t[i] \in Digits
    BY <1>4 DEF CardTried
  <2>2. t[b] \in Digits
    <3>1. ~At(t, b + 1, Digits)
      BY <1>5, <1>7, DigitsAndCardMarks DEF At
    <3>2. b \in i..b
      BY <1>7
    <3> QED
      BY <1>8, <3>1, <3>2
  <2>3. \A k \in i..b : t[k] \in Digits \/ (t[k] \in CardMarks /\ k > i /\ t[k - 1] \in Digits)
    BY <1>8
  <2> QED
    BY <2>1, <2>2, <2>3 DEF GroupedFrom
<1> DEFINE p == SubSeq(t, i, b)
<1>10. Grouped(p, Digits, CardMarks) /\ p \in Texts
  BY <1>1, <1>7, <1>9, GroupedAgrees, DigitsAndCardMarks, PartFacts
<1>11. Luhn(p)
  BY <1>5, <1>7
<1>12. s[1] = i /\ s[2] = b
  BY <1>5, <1>7
<1> HIDE DEF p
<1>13. IsCard(p)
  BY <1>10, <1>11, LuhnIsExact DEF IsCard, CardMarks
<1> QED
  BY <1>12, <1>13 DEF p

\* And every card number that stands apart is reported.
LEMMA CardsAreAllFound ==
  ASSUME TextInv, detector = "credit_card", NEW span \in Spans, IsCard(Part(span)),
         Alone(span), Isolated(span)
  PROVE  span \in ScanCards(text)
<1> DEFINE a == span[1]
           b == span[2]
<1>1. /\ text \in Texts /\ a \in DOMAIN text /\ b \in DOMAIN text /\ a <= b
      /\ span = <<a, b>>
  <2>1. span \in (DOMAIN text) \X (DOMAIN text) /\ span[1] <= span[2] /\ text \in Texts
    BY DEF TextInv, Spans
  <2> QED
    BY <2>1
<1>2. NoDigitBefore(text, a) /\ NoDigitAfter(text, b)
  BY IsolatedCards
<1>3. ~At(text, a - 1, WordBytes) /\ ~At(text, b + 1, WordBytes)
  BY DEF Alone, Glue
<1>4. IsCard(SubSeq(text, a, b))
  BY DEF Part
<1> HIDE DEF a, b
<1>5. /\ Len(text) \in Nat /\ a \in Nat /\ b \in Nat /\ 1 <= a /\ b <= Len(text)
  <2>1. Len(text) \in Nat /\ DOMAIN text = 1..Len(text)
    BY <1>1, TextFacts
  <2> QED
    BY <1>1, <2>1
<1> DEFINE p == SubSeq(text, a, b)
<1>6. p \in Texts
  BY <1>1, <1>5, PartFacts
<1>7. Len(Kept(p, Digits)) = Counted(text, a, b, Digits)
  BY <1>1, <1>5, KeptOfPart
<1>8. Grouped(p, Digits, CardMarks) <=> GroupedFrom(text, a, b, Digits, CardMarks)
  BY <1>1, <1>5, GroupedAgrees, DigitsAndCardMarks
<1> HIDE DEF p
<1>9. Grouped(p, Digits, CardMarks) /\ Luhn(p) /\ Counted(text, a, b, Digits) \in MinCard..MaxCard
  BY <1>4, <1>6, <1>7, LuhnIsExact DEF IsCard, CardMarks, p
<1>10. CardShape(text, a, b)
  BY <1>1, <1>8, <1>9 DEF CardShape, GroupedFrom, CardMarks
<1> QED
  BY <1>1, <1>2, <1>3, <1>9, <1>10, NoCardIsMissed DEF p

---------------------------------------------------------------------------
(* Social security numbers *)

\* The numbers that the first digits spell.
Reads(read, s) == /\ read \in [0..Len(s) -> Nat]
                  /\ read[0] = 0
                  /\ \A i \in 1..Len(s) : read[i] = 10 * read[i - 1] + Value(s[i])
                  /\ Number(s) = {read[Len(s)]}

LEMMA NumberRecursion ==
  ASSUME NEW s \in Seq(Digits), Len(s) > 0
  PROVE  \E read : Reads(read, s)
<1> DEFINE n == Len(s)
           step == [p \in (1..n) \X Nat |-> 10 * p[2] + Value(s[p[1]])]
           Meets(f) == f = [i \in 0..n |-> IF i = 0 THEN 0 ELSE 10 * f[i - 1] + Value(s[i])]
           zero == 0
           read == CHOOSE f : Meets(f)
<1>1. n \in Nat /\ \A i \in 1..n : s[i] \in Digits /\ Value(s[i]) \in Nat
  BY DigitValue
<1>2. Number(s) = {read[n]}
  <2>1. s[1] \in Digits
    BY <1>1
  <2>2. s[1] # "+"
    BY <2>1, DigitsAreNoMarks
  <2>3. ToSet(s) \subseteq Digits
    BY <1>1 DEF ToSet
  <2> QED
    BY <2>2, <2>3 DEF Number
<1> HIDE DEF n
<1>3. \A i \in 1..n, v \in Nat : step[<<i, v>>] = 10 * v + Value(s[i])
  OBVIOUS
<1>4. zero \in Nat /\ Steps(step, n, Nat)
  <2>1. \A i \in 1..n, v \in Nat : 10 * v + Value(s[i]) \in Nat
    BY <1>1
  <2> HIDE DEF step
  <2> QED
    BY <1>3, <2>1 DEF Steps
<1>5. PICK f : Recurs(f, n, Nat, zero, step)
  <2> HIDE DEF step, zero
  <2> QED
    BY <1>1, <1>4, Recursion
<1>6. Meets(f)
  <2>1. f = [i \in 0..n |-> f[i]] /\ f[0] = 0 /\ \A i \in 1..n : f[i] = 10 * f[i - 1] + Value(s[i])
    <3> HIDE DEF step
    <3>1. \A i \in 1..n : f[i - 1] \in Nat
      <4>1. \A i \in 1..n : i - 1 \in 0..n
        BY <1>1
      <4> QED
        BY <1>5, <4>1 DEF Recurs
    <3> QED
      BY <1>3, <1>5, <3>1 DEF Recurs
  <2>2. \A i \in 0..n : f[i] = IF i = 0 THEN 0 ELSE 10 * f[i - 1] + Value(s[i])
    <3>1. \A i \in 0..n : i # 0 => i \in 1..n
      BY <1>1
    <3> QED
      BY <2>1, <3>1
  <2> QED
    BY <2>1, <2>2
<1>7. Meets(read)
  <2> HIDE DEF Meets
  <2> QED
    BY <1>6
<1> HIDE DEF read
<1>8. /\ read = [i \in 0..n |-> read[i]] /\ read[0] = zero
      /\ \A i \in 1..n : read[i] = 10 * read[i - 1] + Value(s[i])
  <2>1. 0 \in 0..n /\ \A i \in 1..n : i \in 0..n /\ i # 0
    BY <1>1
  <2>2. read = [i \in 0..n |-> IF i = 0 THEN 0 ELSE 10 * read[i - 1] + Value(s[i])]
    BY <1>7
  <2>3. read = [i \in 0..n |-> read[i]]
    BY <2>2
  <2>4. \A i \in 0..n : read[i] = IF i = 0 THEN 0 ELSE 10 * read[i - 1] + Value(s[i])
    BY <2>2
  <2> QED
    BY <2>1, <2>3, <2>4
<1>9. Recurs(read, n, Nat, zero, step)
  <2>1. \A i \in 1..n : read[i - 1] \in Nat => read[i] = step[<<i, read[i - 1]>>]
    BY <1>3, <1>8
  <2> HIDE DEF step, zero
  <2> QED
    BY <1>1, <1>4, <1>8, <2>1, RecursionIsMet
<1> QED
  BY <1>2, <1>8, <1>9 DEF Recurs, Reads, n

LEMMA NumberOfTwo ==
  ASSUME NEW s \in Seq(Digits), Len(s) = 2
  PROVE  \E x \in 0..9, y \in 0..9 :
           /\ Number(s) = {10 * x + y}
           /\ x = 0 <=> s[1] = "0"
           /\ y = 0 <=> s[2] = "0"
<1>1. PICK read : Reads(read, s)
  BY NumberRecursion
<1>2. Value(s[1]) \in 0..9 /\ (Value(s[1]) = 0 <=> s[1] = "0")
  <2>1. \A i \in 1..Len(s) : s[i] \in Digits
    BY ElementOfSeq
  <2>2. s[1] \in Digits
    BY <2>1
  <2> QED
    BY <2>2, DigitValue
<1>3. Value(s[2]) \in 0..9 /\ (Value(s[2]) = 0 <=> s[2] = "0")
  <2>1. \A i \in 1..Len(s) : s[i] \in Digits
    BY ElementOfSeq
  <2>2. s[2] \in Digits
    BY <2>1
  <2> QED
    BY <2>2, DigitValue
<1>4. /\ read[0] = 0
      /\ \A i \in 1..2 : read[i] = 10 * read[i - 1] + Value(s[i])
      /\ Number(s) = {read[2]}
  BY <1>1 DEF Reads
<1>5. read[1] = 10 * read[0] + Value(s[1]) /\ read[2] = 10 * read[1] + Value(s[2])
  BY <1>4
<1>6. read[2] = 10 * Value(s[1]) + Value(s[2])
  BY <1>2, <1>3, <1>4, <1>5
<1> QED
  BY <1>2, <1>3, <1>4, <1>6

LEMMA NumberOfThree ==
  ASSUME NEW s \in Seq(Digits), Len(s) = 3
  PROVE  \E x \in 0..9, y \in 0..9, z \in 0..9 :
           /\ Number(s) = {100 * x + 10 * y + z}
           /\ x = 0 <=> s[1] = "0"
           /\ y = 0 <=> s[2] = "0"
           /\ z = 0 <=> s[3] = "0"
           /\ x = 6 <=> s[1] = "6"
           /\ y = 6 <=> s[2] = "6"
           /\ z = 6 <=> s[3] = "6"
           /\ x = 9 <=> s[1] = "9"
<1>1. PICK read : Reads(read, s)
  BY NumberRecursion
<1>2. /\ s[1] \in Digits /\ s[2] \in Digits /\ s[3] \in Digits
  <2>1. \A i \in 1..Len(s) : s[i] \in Digits
    BY ElementOfSeq
  <2> QED
    BY <2>1
<1>3. PICK x \in 0..9 : /\ Value(s[1]) = x
                        /\ x = 0 <=> s[1] = "0"
                        /\ x = 6 <=> s[1] = "6"
                        /\ x = 9 <=> s[1] = "9"
  BY <1>2, DigitValue
<1>4. PICK y \in 0..9 : Value(s[2]) = y /\ (y = 0 <=> s[2] = "0") /\ (y = 6 <=> s[2] = "6")
  BY <1>2, DigitValue
<1>5. PICK z \in 0..9 : Value(s[3]) = z /\ (z = 0 <=> s[3] = "0") /\ (z = 6 <=> s[3] = "6")
  BY <1>2, DigitValue
<1>6. /\ read[0] = 0
      /\ \A i \in 1..3 : read[i] = 10 * read[i - 1] + Value(s[i])
      /\ Number(s) = {read[3]}
  BY <1>1 DEF Reads
<1>7. /\ read[1] = 10 * read[0] + x
      /\ read[2] = 10 * read[1] + y
      /\ read[3] = 10 * read[2] + z
  BY <1>3, <1>4, <1>5, <1>6
<1>8. read[3] = 100 * x + 10 * y + z
  BY <1>6, <1>7
<1>9. Number(s) = {100 * x + 10 * y + z}
  BY <1>6, <1>8
<1>10. WITNESS x \in 0..9, y \in 0..9, z \in 0..9
<1> QED
  BY <1>3, <1>4, <1>5, <1>9

LEMMA NumberOfFour ==
  ASSUME NEW s \in Seq(Digits), Len(s) = 4
  PROVE  \E v \in Nat : /\ Number(s) = {v}
                        /\ v = 0 <=> \A i \in 1..4 : s[i] = "0"
<1>1. PICK read : Reads(read, s)
  BY NumberRecursion
<1>2. \A i \in 1..4 : s[i] \in Digits
  <2>1. \A i \in 1..Len(s) : s[i] \in Digits
    BY ElementOfSeq
  <2> QED
    BY <2>1
<1>3. \A i \in 1..4 : Value(s[i]) \in 0..9 /\ (Value(s[i]) = 0 <=> s[i] = "0")
  BY <1>2, DigitValue
<1>4. /\ read[0] = 0
      /\ \A i \in 1..4 : read[i] = 10 * read[i - 1] + Value(s[i])
      /\ Number(s) = {read[4]}
  BY <1>1 DEF Reads
<1>5. /\ read[1] = 10 * read[0] + Value(s[1])
      /\ read[2] = 10 * read[1] + Value(s[2])
      /\ read[3] = 10 * read[2] + Value(s[3])
      /\ read[4] = 10 * read[3] + Value(s[4])
  BY <1>4
<1>6. PICK a \in 0..9, b \in 0..9, c \in 0..9, d \in 0..9 :
        a = Value(s[1]) /\ b = Value(s[2]) /\ c = Value(s[3]) /\ d = Value(s[4])
  <2>1. Value(s[1]) \in 0..9 /\ Value(s[2]) \in 0..9 /\ Value(s[3]) \in 0..9 /\ Value(s[4]) \in 0..9
    BY <1>3
  <2> QED
    BY <2>1
<1>7. read[4] = 1000 * a + 100 * b + 10 * c + d
  <2>1. read[1] = a /\ read[2] = 10 * read[1] + b /\ read[3] = 10 * read[2] + c /\ read[4] = 10 * read[3] + d
    BY <1>4, <1>5, <1>6
  <2>2. read[2] = 10 * a + b
    BY <2>1
  <2>3. read[3] = 100 * a + 10 * b + c
    BY <2>1, <2>2
  <2> QED
    BY <2>1, <2>3
<1>8. /\ read[4] \in Nat
      /\ read[4] = 0 <=> a = 0 /\ b = 0 /\ c = 0 /\ d = 0
  BY <1>7
<1>9. (\A i \in 1..4 : s[i] = "0") <=> a = 0 /\ b = 0 /\ c = 0 /\ d = 0
  <2>1. (\A i \in 1..4 : s[i] = "0") <=> s[1] = "0" /\ s[2] = "0" /\ s[3] = "0" /\ s[4] = "0"
    OBVIOUS
  <2>2. /\ Value(s[1]) = 0 <=> s[1] = "0"
        /\ Value(s[2]) = 0 <=> s[2] = "0"
        /\ Value(s[3]) = 0 <=> s[3] = "0"
        /\ Value(s[4]) = 0 <=> s[4] = "0"
    BY <1>3
  <2> QED
    BY <1>6, <2>1, <2>2
<1> QED
  BY <1>4, <1>8, <1>9

SsnMarks == {"-", " ", "."}

\* Digits but for the two separators.
SsnShape(s) == /\ Len(s) = 11
               /\ \A k \in (1..11) \ {4, 7} : s[k] \in Digits
               /\ s[4] \in SsnMarks /\ s[7] = s[4]

\* What the three numbers of it must not be.
SsnNumbers(s) == /\ ~(s[1] = "0" /\ s[2] = "0" /\ s[3] = "0")
                 /\ ~(s[1] = "6" /\ s[2] = "6" /\ s[3] = "6")
                 /\ s[1] # "9"
                 /\ ~(s[5] = "0" /\ s[6] = "0")
                 /\ ~(s[8] = "0" /\ s[9] = "0" /\ s[10] = "0" /\ s[11] = "0")

LEMMA BytesOfPart ==
  ASSUME NEW s \in Texts, NEW a \in Nat, NEW b \in Nat, 1 <= a, a <= b, b <= Len(s)
  PROVE  /\ SubSeq(s, a, b) \in Seq(STRING) /\ Len(SubSeq(s, a, b)) = b - a + 1
         /\ \A i \in 1..(b - a + 1) : SubSeq(s, a, b)[i] = s[a + i - 1]
  BY PartFacts DEF Texts

LEMMA DigitsOfPart ==
  ASSUME NEW s \in Texts, NEW a \in Nat, NEW b \in Nat, 1 <= a, a <= b, b <= Len(s),
         \A k \in a..b : s[k] \in Digits
  PROVE  /\ SubSeq(s, a, b) \in Seq(Digits) /\ Len(SubSeq(s, a, b)) = b - a + 1
         /\ \A i \in 1..(b - a + 1) : SubSeq(s, a, b)[i] = s[a + i - 1]
<1> DEFINE p == SubSeq(s, a, b)
<1>1. PICK m \in Nat : m = b - a + 1
  <2>1. b - a + 1 \in Nat
    OBVIOUS
  <2> QED
    BY <2>1
<1>2. p \in Seq(STRING) /\ Len(p) = m /\ \A i \in 1..m : p[i] = s[a + i - 1]
  BY <1>1, PartFacts DEF Texts
<1> HIDE DEF p
<1>3. \A i \in 1..m : p[i] \in Digits
  <2>1. \A i \in 1..m : a + i - 1 \in a..b
    BY <1>1
  <2> QED
    BY <1>2, <2>1
<1>4. p \in [1..m -> STRING]
  BY <1>2
<1>5. p = [i \in 1..m |-> p[i]]
  BY <1>4
<1>6. p \in [1..m -> Digits]
  BY <1>3, <1>5
<1>7. p \in Seq(Digits)
  BY <1>1, <1>6
<1> QED
  BY <1>1, <1>2, <1>7 DEF p

LEMMA SsnValidator ==
  ASSUME NEW s \in Texts, SsnShape(s)
  PROVE  SsnIsValid(s) <=> SsnNumbers(s)
<1> DEFINE p == SubSeq(s, 1, 3)
           q == SubSeq(s, 5, 6)
           r == SubSeq(s, 8, 11)
<1>1. Len(s) = 11 /\ \A k \in (1..11) \ {4, 7} : s[k] \in Digits
  BY DEF SsnShape
<1>2. p \in Seq(Digits) /\ Len(p) = 3 /\ p[1] = s[1] /\ p[2] = s[2] /\ p[3] = s[3]
  <2>1. \A k \in 1..3 : s[k] \in Digits
    BY <1>1
  <2>2. /\ p \in Seq(Digits) /\ Len(p) = 3 - 1 + 1
        /\ \A i \in 1..(3 - 1 + 1) : p[i] = s[1 + i - 1]
    BY <1>1, <2>1, DigitsOfPart
  <2> HIDE DEF p
  <2> QED
    BY <2>2
<1>3. q \in Seq(Digits) /\ Len(q) = 2 /\ q[1] = s[5] /\ q[2] = s[6]
  <2>1. \A k \in 5..6 : s[k] \in Digits
    BY <1>1
  <2>2. /\ q \in Seq(Digits) /\ Len(q) = 6 - 5 + 1
        /\ \A i \in 1..(6 - 5 + 1) : q[i] = s[5 + i - 1]
    BY <1>1, <2>1, DigitsOfPart
  <2> HIDE DEF q
  <2> QED
    BY <2>2
<1>4. r \in Seq(Digits) /\ Len(r) = 4 /\ r[1] = s[8] /\ r[2] = s[9] /\ r[3] = s[10] /\ r[4] = s[11]
  <2>1. \A k \in 8..11 : s[k] \in Digits
    BY <1>1
  <2>2. /\ r \in Seq(Digits) /\ Len(r) = 11 - 8 + 1
        /\ \A i \in 1..(11 - 8 + 1) : r[i] = s[8 + i - 1]
    BY <1>1, <2>1, DigitsOfPart
  <2> HIDE DEF r
  <2> QED
    BY <2>2
<1>5. SsnIsValid(s) <=> \E area \in Number(p), group \in Number(q), serial \in Number(r) :
                          area \notin {0, 666} /\ area < 900 /\ group # 0 /\ serial # 0
  <2> DEFINE Numbers == \E area \in Number(p), group \in Number(q), serial \in Number(r) :
                           area \notin {0, 666} /\ area < 900 /\ group # 0 /\ serial # 0
  <2>1. SsnIsValid(s) <=> Len(s) = 11 /\ s[4] \in SsnMarks /\ s[7] = s[4] /\ Numbers
    BY DEF SsnIsValid, SsnMarks
  <2> HIDE DEF Numbers
  <2>2. SsnIsValid(s) <=> Numbers
    BY <2>1 DEF SsnShape
  <2> QED
    BY <2>2 DEF Numbers
<1> HIDE DEF p, q, r
<1>6. PICK area \in Nat : /\ Number(p) = {area}
                          /\ area = 0 <=> s[1] = "0" /\ s[2] = "0" /\ s[3] = "0"
                          /\ area = 666 <=> s[1] = "6" /\ s[2] = "6" /\ s[3] = "6"
                          /\ area < 900 <=> s[1] # "9"
  <2>1. PICK x \in 0..9, y \in 0..9, z \in 0..9 :
           /\ Number(p) = {100 * x + 10 * y + z}
           /\ x = 0 <=> p[1] = "0"
           /\ y = 0 <=> p[2] = "0"
           /\ z = 0 <=> p[3] = "0"
           /\ x = 6 <=> p[1] = "6"
           /\ y = 6 <=> p[2] = "6"
           /\ z = 6 <=> p[3] = "6"
           /\ x = 9 <=> p[1] = "9"
    BY <1>2, NumberOfThree
  <2>2. /\ 100 * x + 10 * y + z \in Nat
        /\ 100 * x + 10 * y + z = 0 <=> x = 0 /\ y = 0 /\ z = 0
        /\ 100 * x + 10 * y + z = 666 <=> x = 6 /\ y = 6 /\ z = 6
        /\ 100 * x + 10 * y + z < 900 <=> x # 9
    OBVIOUS
  <2> QED
    BY <1>2, <2>1, <2>2
<1>7. PICK group \in Nat : Number(q) = {group} /\ (group = 0 <=> s[5] = "0" /\ s[6] = "0")
  <2>1. PICK x \in 0..9, y \in 0..9 : /\ Number(q) = {10 * x + y}
                                      /\ x = 0 <=> s[5] = "0"
                                      /\ y = 0 <=> s[6] = "0"
    BY <1>3, NumberOfTwo
  <2>2. 10 * x + y \in Nat /\ (10 * x + y = 0 <=> x = 0 /\ y = 0)
    OBVIOUS
  <2> QED
    BY <2>1, <2>2
<1>8. PICK serial \in Nat :
        /\ Number(r) = {serial}
        /\ serial = 0 <=> s[8] = "0" /\ s[9] = "0" /\ s[10] = "0" /\ s[11] = "0"
  <2>1. PICK v \in Nat : Number(r) = {v} /\ (v = 0 <=> \A i \in 1..4 : r[i] = "0")
    BY <1>4, NumberOfFour
  <2>2. (\A i \in 1..4 : r[i] = "0") <=> r[1] = "0" /\ r[2] = "0" /\ r[3] = "0" /\ r[4] = "0"
    OBVIOUS
  <2> QED
    BY <1>4, <2>1, <2>2
<1>9. SsnIsValid(s) <=> area \notin {0, 666} /\ area < 900 /\ group # 0 /\ serial # 0
  BY <1>5, <1>6, <1>7, <1>8
<1> QED
  BY <1>6, <1>7, <1>8, <1>9 DEF SsnNumbers

\* The format, byte by byte.
LEMMA SsnFormat ==
  ASSUME NEW s \in Texts
  PROVE  IsSsn(s) <=> SsnShape(s) /\ SsnNumbers(s)
<1>1. SUFFICES ASSUME Len(s) = 11
               PROVE  IsSsn(s) <=> SsnShape(s) /\ SsnNumbers(s)
  BY DEF IsSsn, SsnShape
<1>2. (\E sep \in SsnMarks : \A i \in 1..11 : IF i \in {4, 7} THEN s[i] = sep ELSE s[i] \in Digits)
        <=> SsnShape(s)
  <2>1. ASSUME NEW sep \in SsnMarks,
               \A i \in 1..11 : IF i \in {4, 7} THEN s[i] = sep ELSE s[i] \in Digits
        PROVE  SsnShape(s)
    BY <1>1, <2>1 DEF SsnShape
  <2>2. ASSUME SsnShape(s)
        PROVE  /\ s[4] \in SsnMarks
               /\ \A i \in 1..11 : IF i \in {4, 7} THEN s[i] = s[4] ELSE s[i] \in Digits
    BY <2>2 DEF SsnShape
  <2> QED
    BY <2>1, <2>2
<1> DEFINE p == SubSeq(s, 1, 3)
           q == SubSeq(s, 5, 6)
           r == SubSeq(s, 8, 11)
<1>3. p = <<s[1], s[2], s[3]>>
  <2> DEFINE a == 1
             b == 3
  <2>1. a \in Nat /\ b \in Nat /\ 1 <= a /\ a <= b /\ b <= Len(s)
    BY <1>1
  <2> HIDE DEF a, b
  <2>2. /\ SubSeq(s, a, b) \in Seq(STRING) /\ Len(SubSeq(s, a, b)) = b - a + 1
        /\ \A i \in 1..(b - a + 1) : SubSeq(s, a, b)[i] = s[a + i - 1]
    BY <2>1, BytesOfPart
  <2>3. /\ p \in Seq(STRING) /\ Len(p) = 3 - 1 + 1
        /\ \A i \in 1..(3 - 1 + 1) : p[i] = s[1 + i - 1]
    BY <2>2 DEF a, b
  <2> HIDE DEF p
  <2>4. Len(p) = 3 /\ p[1] = s[1] /\ p[2] = s[2] /\ p[3] = s[3]
    BY <2>3
  <2> QED
    BY <2>3, <2>4
<1>4. q = <<s[5], s[6]>>
  <2> DEFINE a == 5
             b == 6
  <2>1. a \in Nat /\ b \in Nat /\ 1 <= a /\ a <= b /\ b <= Len(s)
    BY <1>1
  <2> HIDE DEF a, b
  <2>2. /\ SubSeq(s, a, b) \in Seq(STRING) /\ Len(SubSeq(s, a, b)) = b - a + 1
        /\ \A i \in 1..(b - a + 1) : SubSeq(s, a, b)[i] = s[a + i - 1]
    BY <2>1, BytesOfPart
  <2>3. /\ q \in Seq(STRING) /\ Len(q) = 6 - 5 + 1
        /\ \A i \in 1..(6 - 5 + 1) : q[i] = s[5 + i - 1]
    BY <2>2 DEF a, b
  <2> HIDE DEF q
  <2>4. Len(q) = 2 /\ q[1] = s[5] /\ q[2] = s[6]
    BY <2>3
  <2> QED
    BY <2>3, <2>4
<1>5. r = <<s[8], s[9], s[10], s[11]>>
  <2> DEFINE a == 8
             b == 11
  <2>1. a \in Nat /\ b \in Nat /\ 1 <= a /\ a <= b /\ b <= Len(s)
    BY <1>1
  <2> HIDE DEF a, b
  <2>2. /\ SubSeq(s, a, b) \in Seq(STRING) /\ Len(SubSeq(s, a, b)) = b - a + 1
        /\ \A i \in 1..(b - a + 1) : SubSeq(s, a, b)[i] = s[a + i - 1]
    BY <2>1, BytesOfPart
  <2>3. /\ r \in Seq(STRING) /\ Len(r) = 11 - 8 + 1
        /\ \A i \in 1..(11 - 8 + 1) : r[i] = s[8 + i - 1]
    BY <2>2 DEF a, b
  <2> HIDE DEF r
  <2>4. Len(r) = 4 /\ r[1] = s[8] /\ r[2] = s[9] /\ r[3] = s[10] /\ r[4] = s[11]
    BY <2>3
  <2> QED
    BY <2>3, <2>4
<1>6. SsnNumbers(s) <=> /\ p \notin {<<"0", "0", "0">>, <<"6", "6", "6">>} /\ s[1] # "9"
                        /\ q # <<"0", "0">>
                        /\ r # <<"0", "0", "0", "0">>
  <2> HIDE DEF p, q, r
  <2>1. /\ p = <<"0", "0", "0">> <=> s[1] = "0" /\ s[2] = "0" /\ s[3] = "0"
        /\ p = <<"6", "6", "6">> <=> s[1] = "6" /\ s[2] = "6" /\ s[3] = "6"
    BY <1>3
  <2>2. q = <<"0", "0">> <=> s[5] = "0" /\ s[6] = "0"
    BY <1>4
  <2>3. r = <<"0", "0", "0", "0">> <=> s[8] = "0" /\ s[9] = "0" /\ s[10] = "0" /\ s[11] = "0"
    BY <1>5
  <2> QED
    BY <2>1, <2>2, <2>3 DEF SsnNumbers
<1> QED
  BY <1>1, <1>2, <1>6 DEF IsSsn, SsnMarks

\* What the search looks for is that shape between bytes that are of no word.
LEMMA SsnBytesAgree ==
  ASSUME NEW t \in Texts, NEW i \in 1..(Len(t) - 10)
  PROVE  /\ SubSeq(t, i, i + 10) \in Texts
         /\ SsnBytes(t, i) <=> /\ SsnShape(SubSeq(t, i, i + 10))
                               /\ ~At(t, i - 1, WordBytes) /\ ~At(t, i + 11, WordBytes)
<1> DEFINE p == SubSeq(t, i, i + 10)
<1>1. PICK n \in Nat : n = Len(t)
  BY TextFacts
<1>2. i \in Nat /\ i + 10 \in Nat /\ 1 <= i /\ i <= i + 10 /\ i + 10 <= n
  BY <1>1
<1>3. /\ p \in Seq(STRING) /\ Len(p) = i + 10 - i + 1
      /\ \A k \in 1..(i + 10 - i + 1) : p[k] = t[i + k - 1]
  <2> DEFINE e == i + 10
  <2>1. i \in Nat /\ e \in Nat /\ 1 <= i /\ i <= e /\ e <= Len(t)
    BY <1>1, <1>2
  <2> HIDE DEF e
  <2>2. /\ SubSeq(t, i, e) \in Seq(STRING) /\ Len(SubSeq(t, i, e)) = e - i + 1
        /\ \A k \in 1..(e - i + 1) : SubSeq(t, i, e)[k] = t[i + k - 1]
    BY <2>1, BytesOfPart
  <2> QED
    BY <2>2 DEF e
<1> HIDE DEF p
<1>4. i + 10 - i + 1 = 11
  BY <1>2
<1>5. /\ Len(p) = 11
      /\ p[1] = t[i + 0] /\ p[2] = t[i + 1] /\ p[3] = t[i + 2] /\ p[4] = t[i + 3]
      /\ p[5] = t[i + 4] /\ p[6] = t[i + 5] /\ p[7] = t[i + 6] /\ p[8] = t[i + 7]
      /\ p[9] = t[i + 8] /\ p[10] = t[i + 9] /\ p[11] = t[i + 10]
  <2>1. \A k \in 1..11 : p[k] = t[i + k - 1]
    BY <1>3, <1>4
  <2>2. i + 1 - 1 = i + 0 /\ i + 2 - 1 = i + 1 /\ i + 3 - 1 = i + 2 /\ i + 4 - 1 = i + 3
        /\ i + 5 - 1 = i + 4 /\ i + 6 - 1 = i + 5 /\ i + 7 - 1 = i + 6 /\ i + 8 - 1 = i + 7
        /\ i + 9 - 1 = i + 8 /\ i + 10 - 1 = i + 9 /\ i + 11 - 1 = i + 10
    BY <1>2
  <2>3. p[1] = t[i + 1 - 1] /\ p[2] = t[i + 2 - 1] /\ p[3] = t[i + 3 - 1] /\ p[4] = t[i + 4 - 1]
        /\ p[5] = t[i + 5 - 1] /\ p[6] = t[i + 6 - 1] /\ p[7] = t[i + 7 - 1] /\ p[8] = t[i + 8 - 1]
        /\ p[9] = t[i + 9 - 1] /\ p[10] = t[i + 10 - 1] /\ p[11] = t[i + 11 - 1]
    BY <2>1
  <2> QED
    BY <1>3, <1>4, <2>2, <2>3
<1>6. (\A k \in (1..11) \ {4, 7} : p[k] \in Digits)
        <=> \A k \in {0, 1, 2, 4, 5, 7, 8, 9, 10} : t[i + k] \in Digits
  <2>1. (\A k \in (1..11) \ {4, 7} : p[k] \in Digits)
          <=> /\ p[1] \in Digits /\ p[2] \in Digits /\ p[3] \in Digits /\ p[5] \in Digits
              /\ p[6] \in Digits /\ p[8] \in Digits /\ p[9] \in Digits /\ p[10] \in Digits
              /\ p[11] \in Digits
    <3>1. \A k \in (1..11) \ {4, 7} : k \in {1, 2, 3, 5, 6, 8, 9, 10, 11}
      OBVIOUS
    <3>2. \A k \in {1, 2, 3, 5, 6, 8, 9, 10, 11} : k \in (1..11) \ {4, 7}
      OBVIOUS
    <3> QED
      BY <3>1, <3>2
  <2>2. (\A k \in {0, 1, 2, 4, 5, 7, 8, 9, 10} : t[i + k] \in Digits)
          <=> /\ t[i + 0] \in Digits /\ t[i + 1] \in Digits /\ t[i + 2] \in Digits
              /\ t[i + 4] \in Digits /\ t[i + 5] \in Digits /\ t[i + 7] \in Digits
              /\ t[i + 8] \in Digits /\ t[i + 9] \in Digits /\ t[i + 10] \in Digits
    OBVIOUS
  <2> QED
    BY <1>5, <2>1, <2>2
<1>7. SsnBytes(t, i) <=> /\ ~At(t, i - 1, WordBytes) /\ ~At(t, i + 11, WordBytes)
                         /\ \A k \in {0, 1, 2, 4, 5, 7, 8, 9, 10} : t[i + k] \in Digits
                         /\ t[i + 3] \in SsnMarks /\ t[i + 6] = t[i + 3]
  BY DEF SsnBytes, SsnMarks
<1>8. SsnShape(p) <=> /\ \A k \in (1..11) \ {4, 7} : p[k] \in Digits
                      /\ t[i + 3] \in SsnMarks /\ t[i + 6] = t[i + 3]
  BY <1>5 DEF SsnShape
<1>9. p \in Texts
  BY <1>3 DEF Texts
<1>10. SsnBytes(t, i) <=> SsnShape(p) /\ ~At(t, i - 1, WordBytes) /\ ~At(t, i + 11, WordBytes)
  BY <1>6, <1>7, <1>8
<1> QED
  BY <1>9, <1>10 DEF p

LEMMA ScanSsnsIs ==
  ASSUME NEW t \in Texts
  PROVE  ScanSsns(t) = {<<i, i + 10>> : i \in {i \in 1..(Len(t) - 10) :
                          SsnBytes(t, i) /\ SsnIsValid(SubSeq(t, i, i + 10))}}
  BY DEF ScanSsns, SsnBytes

\* Social security numbers are those the format allows, and all that stand alone are found.
LEMMA SsnsAreGenuine ==
  ASSUME NEW t \in Texts, NEW s \in ScanSsns(t)
  PROVE  IsSsn(SubSeq(t, s[1], s[2]))
<1>1. PICK i \in 1..(Len(t) - 10) :
        s = <<i, i + 10>> /\ SsnBytes(t, i) /\ SsnIsValid(SubSeq(t, i, i + 10))
  BY ScanSsnsIs
<1> DEFINE p == SubSeq(t, i, i + 10)
<1>2. p \in Texts /\ SsnShape(p)
  BY <1>1, SsnBytesAgree
<1>3. s[1] = i /\ s[2] = i + 10 /\ SsnIsValid(p)
  BY <1>1
<1> HIDE DEF p
<1>4. IsSsn(p)
  BY <1>2, <1>3, SsnValidator, SsnFormat
<1> QED
  BY <1>3, <1>4 DEF p

LEMMA SsnsAreAllFound ==
  ASSUME NEW t \in Texts, NEW a \in DOMAIN t, NEW b \in DOMAIN t, a <= b,
         IsSsn(SubSeq(t, a, b)), ~At(t, a - 1, WordBytes), ~At(t, b + 1, WordBytes)
  PROVE  <<a, b>> \in ScanSsns(t)
<1> DEFINE p == SubSeq(t, a, b)
<1>1. PICK n \in Nat : n = Len(t) /\ DOMAIN t = 1..n
  BY TextFacts
<1>2. a \in Nat /\ b \in Nat /\ 1 <= a /\ b <= n
  BY <1>1
<1>3. p \in Texts /\ Len(p) = b - a + 1
  BY <1>1, <1>2, BytesOfPart DEF Texts
<1>4. SsnShape(p) /\ SsnNumbers(p)
  <2> HIDE DEF p
  <2> QED
    BY <1>3, SsnFormat DEF p
<1>5. b = a + 10
  <2>1. b - a + 1 = 11
    BY <1>3, <1>4 DEF SsnShape
  <2> QED
    BY <1>2, <2>1
<1>6. a \in 1..(Len(t) - 10) /\ b + 1 = a + 11
  BY <1>1, <1>2, <1>5
<1>7. SsnBytes(t, a)
  <2>1. SsnShape(SubSeq(t, a, a + 10))
    BY <1>4, <1>5
  <2>2. ~At(t, a + 11, WordBytes)
    BY <1>6
  <2> QED
    BY <1>6, <2>1, <2>2, SsnBytesAgree
<1>8. SsnIsValid(SubSeq(t, a, a + 10))
  <2> HIDE DEF p
  <2>1. SsnIsValid(p)
    BY <1>3, <1>4, SsnValidator
  <2> QED
    BY <1>5, <2>1 DEF p
<1> QED
  BY <1>5, <1>6, <1>7, <1>8, ScanSsnsIs

---------------------------------------------------------------------------
(* Where a walk comes to, and counts from the first place *)

\* A walk comes to a place, or jumps over it from one before.
LEMMA VisitedOrPassed ==
  ASSUME NEW n \in Nat, NEW next, Advances(n, next), NEW V, Visits(V, n, next), NEW a \in 1..n
  PROVE  a \in V \/ \E v \in V : v < a /\ next[v] > a
<1>1. /\ V \subseteq 1..n /\ 1 \in V
      /\ \A i \in V : next[i] <= n => next[i] \in V
  <2>1. n > 0
    OBVIOUS
  <2> QED
    BY <2>1 DEF Visits
<1> DEFINE S == {x \in V : x <= a}
           v == Max(S)
<1>2. v \in S /\ \A k \in S : k <= v
  <2>1. S \in SUBSET (0..n) /\ 1 \in S
    <3>1. \A x \in V : x \in 0..n
      BY <1>1
    <3>2. 1 <= a
      OBVIOUS
    <3> QED
      BY <1>1, <3>1, <3>2
  <2> HIDE DEF S
  <2> QED
    BY <2>1, GreatestOf
<1>3. v \in V /\ v \in 1..n /\ v <= a /\ \A k \in V : k <= a => k <= v
  <2> HIDE DEF v
  <2> QED
    BY <1>1, <1>2
<1> HIDE DEF v, S
<1>4. SUFFICES ASSUME v # a
               PROVE  next[v] > a
  BY <1>3
<1>5. next[v] \in (v + 1)..(n + 1)
  BY <1>3 DEF Advances
<1>6. CASE next[v] <= n
  <2>1. next[v] \in V /\ ~(next[v] <= v)
    BY <1>1, <1>3, <1>5, <1>6
  <2>2. ~(next[v] <= a)
    BY <1>3, <2>1
  <2> QED
    BY <1>5, <2>2
<1>7. CASE ~(next[v] <= n)
  BY <1>5, <1>7
<1> QED
  BY <1>6, <1>7

\* How many there are does not change where there are none.
LEMMA CountedSame ==
  ASSUME NEW t, NEW i \in Nat, NEW bytes, NEW j \in Nat, NEW k \in Nat, j <= k,
         \A x \in (j + 1)..k : t[x] \notin bytes
  PROVE  Counted(t, i, k, bytes) = Counted(t, i, j, bytes)
<1>1. {x \in i..k : t[x] \in bytes} = {x \in i..j : t[x] \in bytes}
  <2>1. \A x \in i..k : t[x] \in bytes => x \in i..j
    OBVIOUS
  <2>2. \A x \in i..j : x \in i..k
    OBVIOUS
  <2> QED
    BY <2>1, <2>2
<1> QED
  BY <1>1 DEF Counted

\* How many there are, by the first place.
LEMMA CountedFirst ==
  ASSUME NEW t, NEW i \in Nat, NEW bytes, NEW j \in Nat, i <= j
  PROVE  /\ t[i] \in bytes => Counted(t, i, j, bytes) = Counted(t, i + 1, j, bytes) + 1
         /\ t[i] \notin bytes => Counted(t, i, j, bytes) = Counted(t, i + 1, j, bytes)
<1> DEFINE C(k) == {x \in k..j : t[x] \in bytes}
<1>1. i..j = ((i + 1)..j) \cup {i} /\ i \notin C(i + 1)
  OBVIOUS
<1>2. IsFiniteSet(C(i + 1))
  <2>1. IsFiniteSet((i + 1)..j) /\ C(i + 1) \in SUBSET ((i + 1)..j)
    BY FS_Interval
  <2> HIDE DEF C
  <2> QED
    BY <2>1, FS_Subset
<1>3. CASE t[i] \in bytes
  <2>1. C(i) = C(i + 1) \cup {i}
    BY <1>1, <1>3
  <2> HIDE DEF C
  <2>2. Cardinality(C(i)) = Cardinality(C(i + 1)) + 1
    BY <1>1, <1>2, <2>1, FS_AddElement
  <2> QED
    BY <1>3, <2>2 DEF Counted, C
<1>4. CASE t[i] \notin bytes
  <2>1. C(i) = C(i + 1)
    BY <1>1, <1>4
  <2> QED
    BY <1>4, <2>1 DEF Counted
<1> QED
  BY <1>3, <1>4

---------------------------------------------------------------------------
(* Telephone numbers *)

\* Where the loop over a telephone number stops, and what it has found.
DialStops(t, i, separators, max, run, stop) ==
  /\ stop \in i..(Len(t) + 1)
  /\ ~DialGoes(t, i, separators, max, stop)
  /\ \A k \in i..(stop - 1) : DialGoes(t, i, separators, max, k)
  /\ run.count = Counted(t, i, stop - 1, Digits)
  /\ run.end = Max({i - 1} \cup {k \in i..(stop - 1) : t[k] \in Digits})
  /\ run.sep <=> \E k \in i..(stop - 1) : t[k] \in separators

LEMMA DialLoop ==
  ASSUME NEW t \in Texts, NEW i \in 1..(Len(t) + 1), NEW separators, NEW max
  PROVE  \E stop : DialStops(t, i, separators, max, DialRun(t, i, separators, max), stop)
<1> DEFINE S == {j \in i..(Len(t) + 1) : ~DialGoes(t, i, separators, max, j)}
           stop == Min(S)
           run == DialRun(t, i, separators, max)
<1>1. PICK n \in Nat : n = Len(t) /\ DOMAIN t = 1..n
  BY TextFacts
<1>2. /\ run.count = Counted(t, i, stop - 1, Digits)
      /\ run.end = Max({i - 1} \cup {k \in i..(stop - 1) : t[k] \in Digits})
      /\ run.sep <=> \E k \in i..(stop - 1) : t[k] \in separators
  BY DEF DialRun, DialGoes
<1>3. n + 1 \in S
  <2>1. n + 1 \notin DOMAIN t
    BY <1>1
  <2>2. ~DialGoes(t, i, separators, max, n + 1)
    BY <2>1 DEF DialGoes, At
  <2> QED
    BY <1>1, <2>2
<1>4. /\ stop \in i..(n + 1) /\ stop \in S
      /\ \A k \in i..(stop - 1) : k \notin S
  <2>1. i \in Nat /\ n + 1 \in Nat /\ i <= n + 1 /\ S \in SUBSET (i..(n + 1))
    BY <1>1
  <2> HIDE DEF S
  <2> QED
    BY <1>3, <2>1, StopFacts
<1> HIDE DEF stop, run
<1>5. \A k \in i..(stop - 1) : DialGoes(t, i, separators, max, k)
  <2>1. \A k \in i..(stop - 1) : k \in i..(n + 1)
    BY <1>1, <1>4
  <2> QED
    BY <1>1, <1>4, <2>1
<1>6. DialStops(t, i, separators, max, run, stop)
  BY <1>1, <1>2, <1>4, <1>5 DEF DialStops
<1> QED
  BY <1>6 DEF run

\* Digits and marks from a digit to a digit.
Dialling(t, i, e, marks) == /\ t[i] \in Digits /\ t[e] \in Digits
                            /\ \A k \in i..e : t[k] \in Digits \cup marks

\* What the loop has found when it found a digit.
LEMMA DialFinds ==
  ASSUME NEW t \in Texts, NEW i \in 1..(Len(t) + 1), NEW separators, NEW max \in Nat,
         DialRun(t, i, separators, max).count > 0
  PROVE  LET run == DialRun(t, i, separators, max)
         IN  /\ run.end \in i..Len(t) /\ Dialling(t, i, run.end, separators)
             /\ run.count = Counted(t, i, run.end, Digits)
             /\ run.count = max /\ run.sep => \E k \in i..run.end : t[k] \in separators
<1> DEFINE run == DialRun(t, i, separators, max)
           e == run.end
<1>1. PICK n \in Nat : n = Len(t) /\ DOMAIN t = 1..n /\ i \in Nat /\ 1 <= i
  BY TextFacts
<1>2. PICK stop : DialStops(t, i, separators, max, run, stop)
  BY DialLoop
<1>3. e \in i..n /\ t[e] \in Digits
  BY <1>1, DialRunFacts
<1> DEFINE D == {i - 1} \cup {k \in i..(stop - 1) : t[k] \in Digits}
<1>4. stop \in i..(n + 1) /\ stop - 1 \in Nat
  BY <1>1, <1>2 DEF DialStops
<1>5. e = Max(D)
  BY <1>2 DEF DialStops
<1>6. e \in D /\ \A k \in D : k <= e
  <2>1. D \in SUBSET (0..n) /\ D # {}
    <3>1. i - 1 \in 0..n /\ i - 1 \in D
      BY <1>1, <1>4
    <3>2. \A k \in i..(stop - 1) : k \in 0..n
      BY <1>1, <1>4
    <3> QED
      BY <3>1, <3>2
  <2> HIDE DEF D, e
  <2> QED
    BY <1>5, <2>1, GreatestOf
<1>7. run.count = Counted(t, i, stop - 1, Digits) /\ run.count > 0
  BY <1>2 DEF DialStops
<1>8. run.sep <=> \E k \in i..(stop - 1) : t[k] \in separators
  BY <1>2 DEF DialStops
<1>9. \A k \in i..(stop - 1) : DialGoes(t, i, separators, max, k)
  BY <1>2 DEF DialStops
<1> HIDE DEF run, e
<1>10. e \in i..(stop - 1) /\ \A k \in (e + 1)..(stop - 1) : t[k] \notin Digits
  <2>1. e # i - 1
    BY <1>1, <1>3
  <2>2. e \in i..(stop - 1)
    BY <1>6, <2>1
  <2>3. ASSUME NEW k \in (e + 1)..(stop - 1)
        PROVE  t[k] \notin Digits
    <3>1. k \in i..(stop - 1) /\ ~(k <= e)
      BY <1>1, <1>4, <2>2
    <3> QED
      BY <1>6, <3>1
  <2> QED
    BY <2>2, <2>3
<1> HIDE DEF D
<1>11. Counted(t, i, stop - 1, Digits) = Counted(t, i, e, Digits)
  <2>1. e \in Nat /\ e <= stop - 1
    BY <1>1, <1>4, <1>10
  <2> QED
    BY <1>1, <1>4, <1>10, <2>1, CountedSame
<1>12. \A k \in i..e : t[k] \in Digits \cup separators
  <2>1. \A k \in i..e : k \in i..(stop - 1)
    BY <1>1, <1>4, <1>10
  <2> QED
    BY <1>9, <2>1 DEF DialGoes, At
<1>13. t[i] \in Digits
  <2>1. i \in i..(stop - 1)
    BY <1>1, <1>4, <1>10
  <2>2. Counted(t, i, i - 1, Digits) = 0
    BY <1>1, CountedNone
  <2> QED
    BY <1>9, <2>1, <2>2 DEF DialGoes, At
<1>14. ASSUME run.count = max, run.sep
       PROVE  \E k \in i..e : t[k] \in separators
  <2>1. PICK k \in i..(stop - 1) : t[k] \in separators
    BY <1>8, <1>14
  <2>2. k \in i..e
    <3> SUFFICES ASSUME k > e
                 PROVE  FALSE
      BY <1>1, <1>4, <1>10
    <3>1. k - 1 \in Nat /\ e <= k - 1 /\ e \in Nat
      BY <1>1, <1>4, <1>10
    <3>2. Counted(t, i, k - 1, Digits) = Counted(t, i, e, Digits)
      <4>1. \A x \in (e + 1)..(k - 1) : x \in (e + 1)..(stop - 1)
        BY <1>1, <1>4, <1>10
      <4> QED
        BY <1>1, <1>10, <3>1, <4>1, CountedSame
    <3>3. Counted(t, i, k - 1, Digits) < max
      BY <1>9 DEF DialGoes
    <3> QED
      BY <1>7, <1>11, <1>14, <3>2, <3>3
  <2> QED
    BY <2>1, <2>2
<1> QED
  BY <1>1, <1>3, <1>7, <1>11, <1>12, <1>13, <1>14 DEF Dialling, e, run

\* Separators behind a number, up to a byte that is none and no digit.
DialRest(t, b, r) == /\ r \in Nat
                     /\ \A k \in 1..r : At(t, b + k, DialBytes)
                     /\ ~At(t, b + r + 1, DialBytes) /\ ~At(t, b + r + 1, Digits)

LEMMA DigitsAndDialBytes == Digits \cap DialBytes = {}
  BY DigitsAreNoMarks DEF DialBytes

\* The loop from the first digit of a number finds the last of them.
LEMMA DialEnds ==
  ASSUME NEW t \in Texts, NEW i \in DOMAIN t, NEW e \in DOMAIN t, i <= e,
         NEW separators \in SUBSET DialBytes, NEW max \in Nat,
         Dialling(t, i, e, separators), Counted(t, i, e, Digits) <= max,
         NEW r, DialRest(t, e, r)
  PROVE  LET run == DialRun(t, i, separators, max)
         IN  /\ run.end = e /\ run.count = Counted(t, i, e, Digits)
             /\ (\E k \in i..e : t[k] \in separators) => run.sep
<1> DEFINE run == DialRun(t, i, separators, max)
<1>1. PICK n \in Nat : n = Len(t) /\ DOMAIN t = 1..n
  BY TextFacts
<1>2. i \in Nat /\ e \in Nat /\ 1 <= i /\ e <= n /\ i \in 1..(n + 1)
  BY <1>1
<1>3. PICK stop : DialStops(t, i, separators, max, run, stop)
  BY <1>1, <1>2, DialLoop
<1> HIDE DEF run
<1>4. stop \in i..(n + 1) /\ ~DialGoes(t, i, separators, max, stop)
  BY <1>1, <1>3 DEF DialStops
<1>5. \A k \in i..(stop - 1) : DialGoes(t, i, separators, max, k)
  BY <1>3 DEF DialStops
<1>6. t[i] \in Digits /\ t[e] \in Digits /\ \A k \in i..e : t[k] \in Digits \cup separators
  BY DEF Dialling
<1>7. \A k \in Nat : Counted(t, i, k, Digits) \in Nat
  BY <1>2, CountedNat
<1>8. \A k \in Nat : k >= i =>
           /\ t[k] \in Digits => Counted(t, i, k, Digits) = Counted(t, i, k - 1, Digits) + 1
           /\ t[k] \notin Digits => Counted(t, i, k, Digits) = Counted(t, i, k - 1, Digits)
  BY <1>2, CountedStep
<1>9. ASSUME NEW k \in i..e
      PROVE  DialGoes(t, i, separators, max, k)
  <2>1. k \in Nat /\ k - 1 \in Nat /\ k \in DOMAIN t /\ k >= i /\ k <= e
    BY <1>1, <1>2
  <2>2. Counted(t, i, k - 1, Digits) < max
    <3>1. CASE k = e
      <4>1. Counted(t, i, e, Digits) = Counted(t, i, k - 1, Digits) + 1
        BY <1>2, <1>6, <1>8, <2>1, <3>1
      <4> QED
        BY <1>2, <1>7, <2>1, <4>1
    <3>2. CASE k # e
      <4>1. e - 1 \in Nat /\ k - 1 <= e - 1 /\ e >= i
        BY <1>2, <2>1
      <4>2. Counted(t, i, e, Digits) = Counted(t, i, e - 1, Digits) + 1
        BY <1>2, <1>6, <1>8, <4>1
      <4>3. Counted(t, i, k - 1, Digits) <= Counted(t, i, e - 1, Digits)
        BY <1>2, <2>1, <4>1, CountedGrows
      <4> QED
        BY <1>2, <1>7, <2>1, <4>1, <4>2, <4>3
    <3> QED
      BY <3>1, <3>2
  <2>3. CASE t[k] \in Digits
    BY <2>1, <2>2, <2>3 DEF DialGoes, At
  <2>4. CASE t[k] \notin Digits
    <3>1. t[k] \in separators /\ k # i
      BY <1>6, <2>4
    <3>2. i <= k - 1 /\ i >= i /\ i - 1 \in Nat
      BY <1>2, <2>1, <3>1
    <3>3. Counted(t, i, i, Digits) = Counted(t, i, i - 1, Digits) + 1
      BY <1>2, <1>6, <1>8, <3>2
    <3>4. Counted(t, i, i, Digits) <= Counted(t, i, k - 1, Digits)
      BY <1>2, <2>1, <3>2, CountedGrows
    <3>5. Counted(t, i, k - 1, Digits) > 0
      BY <1>2, <1>7, <2>1, <3>2, <3>3, <3>4
    <3> QED
      BY <2>1, <2>2, <3>1, <3>5 DEF DialGoes, At
  <2> QED
    BY <2>3, <2>4
<1>10. stop > e
  <2> SUFFICES ASSUME stop <= e
               PROVE  FALSE
    BY <1>2, <1>4
  <2>1. stop \in i..e
    BY <1>2, <1>4
  <2> QED
    BY <1>4, <1>9, <2>1
<1>11. /\ r \in Nat
       /\ \A k \in 1..r : At(t, e + k, DialBytes)
       /\ ~At(t, e + r + 1, DialBytes) /\ ~At(t, e + r + 1, Digits)
  BY DEF DialRest
<1>12. ASSUME NEW k \in (e + 1)..(stop - 1)
       PROVE  t[k] \notin Digits
  <2>1. k - e <= r
    <3> SUFFICES ASSUME k - e > r
                 PROVE  FALSE
      BY <1>2, <1>4, <1>11
    <3>1. e + r + 1 \in i..(stop - 1)
      BY <1>2, <1>4, <1>11
    <3>2. At(t, e + r + 1, Digits) \/ At(t, e + r + 1, separators)
      BY <1>5, <3>1 DEF DialGoes
    <3> QED
      BY <1>11, <3>2 DEF At
  <2>2. PICK d \in 1..r : k = e + d
    <3>1. k - e \in 1..r /\ k = e + (k - e)
      BY <1>2, <1>4, <1>11, <2>1
    <3> QED
      BY <3>1
  <2>3. At(t, k, DialBytes)
    BY <1>11, <2>2
  <2> QED
    BY <2>3, DigitsAndDialBytes DEF At
<1>13. Counted(t, i, stop - 1, Digits) = Counted(t, i, e, Digits)
  <2>1. stop - 1 \in Nat /\ e <= stop - 1
    BY <1>2, <1>4, <1>10
  <2> QED
    BY <1>2, <1>12, <2>1, CountedSame
<1> DEFINE D == {i - 1} \cup {k \in i..(stop - 1) : t[k] \in Digits}
<1>14. Max(D) = e
  <2>1. D \in SUBSET (0..n)
    <3>1. i - 1 \in 0..n
      BY <1>2
    <3>2. \A k \in i..(stop - 1) : k \in 0..n
      BY <1>2, <1>4
    <3> QED
      BY <3>1, <3>2
  <2>2. e \in D
    <3>1. e \in i..(stop - 1)
      BY <1>2, <1>4, <1>10
    <3> QED
      BY <1>6, <3>1
  <2>3. \A k \in D : k <= e
    <3>1. i - 1 <= e
      BY <1>2
    <3>2. \A k \in i..(stop - 1) : t[k] \in Digits => ~(k \in (e + 1)..(stop - 1))
      BY <1>12
    <3>3. \A k \in i..(stop - 1) : k \in (e + 1)..(stop - 1) \/ k <= e
      BY <1>2, <1>4
    <3> QED
      BY <3>1, <3>2, <3>3
  <2>4. Max(D) \in D /\ \A k \in D : k <= Max(D)
    <3> HIDE DEF D
    <3> QED
      BY <2>1, <2>2, GreatestOf
  <2> HIDE DEF D
  <2>5. Max(D) <= e /\ e <= Max(D) /\ Max(D) \in 0..n
    BY <2>1, <2>2, <2>3, <2>4
  <2> QED
    BY <1>2, <2>5
<1>15. run.end = e /\ run.count = Counted(t, i, e, Digits)
  BY <1>3, <1>13, <1>14 DEF DialStops
<1>16. ASSUME NEW k \in i..e, t[k] \in separators
       PROVE  run.sep
  <2>1. k \in i..(stop - 1)
    BY <1>2, <1>4, <1>10
  <2> QED
    BY <1>3, <1>16, <2>1 DEF DialStops
<1> QED
  BY <1>15, <1>16 DEF run

LEMMA KeptFirst ==
  ASSUME NEW t \in Texts, NEW bytes, Len(t) > 0, t[1] \in bytes
  PROVE  Kept(t, bytes)[1] = t[1]
<1>1. PICK f : Keeps(f, t, bytes)
  BY KeptRecursion
<1> DEFINE n == Len(t)
           G == {k \in 0..n : k > 0 => f[k] # <<>> /\ f[k][1] = t[1]}
<1>2. n \in Nat /\ \A k \in 1..n : t[k] \in STRING
  BY TextFacts DEF Texts
<1>3. /\ f \in [0..n -> Seq(STRING)]
      /\ f[0] = <<>>
      /\ \A i \in 1..n : f[i] = IF t[i] \in bytes THEN Append(f[i - 1], t[i]) ELSE f[i - 1]
      /\ Kept(t, bytes) = f[n]
  BY <1>1 DEF Keeps
<1>4. 0 \in G
  BY <1>2
<1>5. ASSUME NEW k \in 1..n, k - 1 \in G
      PROVE  k \in G
  <2>1. f[k - 1] \in Seq(STRING) /\ t[k] \in STRING
    <3>1. k - 1 \in 0..n
      BY <1>2
    <3> QED
      BY <1>2, <1>3, <3>1
  <2>2. CASE k = 1
    <3>1. f[1] = Append(<<>>, t[1])
      <4>1. k - 1 = 0 /\ t[k] \in bytes
        BY <2>2
      <4>2. f[k] = Append(f[k - 1], t[k])
        BY <1>3, <4>1
      <4> QED
        BY <1>3, <2>2, <4>1, <4>2
    <3> QED
      BY <1>2, <2>2, <3>1
  <2>3. CASE k # 1
    <3>1. f[k - 1] # <<>> /\ f[k - 1][1] = t[1]
      BY <1>2, <1>5, <2>3
    <3>2. f[k] # <<>> /\ f[k][1] = t[1]
      <4>1. CASE t[k] \in bytes
        <5>1. f[k] = Append(f[k - 1], t[k])
          BY <1>3, <4>1
        <5> QED
          BY <2>1, <3>1, <5>1
      <4>2. CASE t[k] \notin bytes
        BY <1>3, <3>1, <4>2
      <4> QED
        BY <4>1, <4>2
    <3> QED
      BY <1>2, <3>2
  <2> QED
    BY <2>2, <2>3
<1>6. n \in G
  <2> HIDE DEF G
  <2>1. \A k \in 0..n : k \in G
    BY <1>2, <1>4, <1>5, SetInduction
  <2> QED
    BY <1>2, <2>1
<1> QED
  BY <1>2, <1>3, <1>6

NanpMarks == {")", "-", ".", " "}

LEMMA NanpMarksFacts ==
  /\ NanpMarks = DialBytes \ {"("} /\ NanpMarks \in SUBSET DialBytes
  /\ "(" \notin Digits /\ "+" \notin Digits
  BY DigitsAreNoMarks DEF NanpMarks, DialBytes

\* The bytes of a part, as bytes of the text.
PartOf(p, t, a, b) == /\ a \in Nat /\ b \in Nat /\ 1 <= a /\ a <= b /\ b <= Len(t)
                      /\ p \in Seq(STRING) /\ Len(p) = b - a + 1
                      /\ \A i \in 1..(b - a + 1) : p[i] = t[a + i - 1]

LEMMA PartIsPartOf ==
  ASSUME NEW t \in Texts, NEW a \in Nat, NEW b \in Nat, 1 <= a, a <= b, b <= Len(t)
  PROVE  PartOf(SubSeq(t, a, b), t, a, b)
  BY BytesOfPart DEF PartOf

LEMMA BytesOfTail ==
  ASSUME NEW t \in Texts, NEW a, NEW b, NEW p, PartOf(p, t, a, b), NEW X
  PROVE  /\ ToSet(Tail(p)) \subseteq X <=> \A k \in (a + 1)..b : t[k] \in X
         /\ ToSet(p) \subseteq X <=> \A k \in a..b : t[k] \in X
<1>1. /\ a \in Nat /\ b \in Nat /\ 1 <= a /\ a <= b
      /\ p \in Seq(STRING)
  BY DEF PartOf
<1>2. PICK m \in Nat : m = b - a + 1
  <2>1. b - a + 1 \in Nat
    BY <1>1
  <2> QED
    BY <2>1
<1>3. Len(p) = m /\ \A i \in 1..m : p[i] = t[a + i - 1]
  BY <1>2 DEF PartOf
<1>4. m >= 1 /\ p # <<>>
  BY <1>1, <1>2, <1>3
<1>5. /\ DOMAIN Tail(p) = 1..(m - 1)
      /\ \A i \in 1..(m - 1) : Tail(p)[i] = p[i + 1]
  BY <1>1, <1>3, <1>4
<1>6. ASSUME ToSet(Tail(p)) \subseteq X, NEW k \in (a + 1)..b
      PROVE  t[k] \in X
  <2>1. PICK j \in Int : j = k - a
    BY <1>1
  <2>2. j \in 1..(m - 1) /\ j + 1 \in 1..m /\ a + (j + 1) - 1 = k
    BY <1>1, <1>2, <2>1
  <2>3. Tail(p)[j] \in X
    BY <1>5, <1>6, <2>2 DEF ToSet
  <2>4. Tail(p)[j] = p[j + 1] /\ p[j + 1] = t[a + (j + 1) - 1]
    BY <1>3, <1>5, <2>2
  <2> QED
    BY <2>2, <2>3, <2>4
<1>7. ASSUME \A k \in (a + 1)..b : t[k] \in X
      PROVE  ToSet(Tail(p)) \subseteq X
  <2>1. ASSUME NEW j \in 1..(m - 1)
        PROVE  Tail(p)[j] \in X
    <3>1. j + 1 \in 1..m /\ a + (j + 1) - 1 \in (a + 1)..b
      BY <1>1, <1>2
    <3>2. Tail(p)[j] = p[j + 1] /\ p[j + 1] = t[a + (j + 1) - 1]
      BY <1>3, <1>5, <3>1
    <3> QED
      BY <1>7, <3>1, <3>2
  <2> QED
    BY <1>5, <2>1 DEF ToSet
<1>8. DOMAIN p = 1..m
  BY <1>1, <1>3
<1>9. ASSUME ToSet(p) \subseteq X, NEW k \in a..b
      PROVE  t[k] \in X
  <2>1. PICK j \in Int : j = k - a + 1
    BY <1>1
  <2>2. j \in 1..m /\ a + j - 1 = k
    BY <1>1, <1>2, <2>1
  <2>3. p[j] \in X
    BY <1>8, <1>9, <2>2 DEF ToSet
  <2> QED
    BY <1>3, <2>2, <2>3
<1>10. ASSUME \A k \in a..b : t[k] \in X
       PROVE  ToSet(p) \subseteq X
  <2>1. ASSUME NEW j \in 1..m
        PROVE  p[j] \in X
    <3>1. a + j - 1 \in a..b
      BY <1>1, <1>2
    <3> QED
      BY <1>3, <1>10, <3>1
  <2> QED
    BY <1>8, <2>1 DEF ToSet
<1> QED
  BY <1>6, <1>7, <1>9, <1>10

\* A number whose digits begin at first, byte by byte.
International(t, first, b) == /\ first <= b /\ Dialling(t, first, b, DialBytes)
                              /\ Counted(t, first, b, Digits) \in MinDial..MaxDial

NanpFirst(t, a) == IF t[a] = "(" THEN a + 1 ELSE a

Nanp(t, a, first, b) == /\ first <= b /\ Dialling(t, first, b, NanpMarks)
                        /\ Counted(t, first, b, Digits) = 10
                        /\ \E k \in first..b : t[k] \in NanpMarks
                        /\ Kept(SubSeq(t, a, b), Digits)[1] \notin {"0", "1"}
                        /\ Kept(SubSeq(t, a, b), Digits)[4] \notin {"0", "1"}

PhoneShape(t, a, b) == /\ PhoneIsValid(SubSeq(t, a, b))
                       /\ \/ t[a] = "+" /\ International(t, a + 1, b)
                          \/ t[a] = "0" /\ t[a + 1] = "0" /\ International(t, a + 2, b)
                          \/ Nanp(t, a, NanpFirst(t, a), b)

\* What IsPhone says of the three kinds of number.
PlusNumber(s) == /\ s[1] = "+" /\ Len(s) > 1 /\ s[2] \in Digits
                 /\ ToSet(Tail(s)) \subseteq Digits \cup DialBytes
                 /\ Len(Kept(s, Digits)) \in MinDial..MaxDial
ZeroNumber(s) == /\ Len(s) > 2 /\ s[1] = "0" /\ s[2] = "0" /\ s[3] \in Digits
                 /\ ToSet(s) \subseteq Digits \cup DialBytes
                 /\ Len(Kept(s, Digits)) - 2 \in MinDial..MaxDial
NanpNumber(s) == /\ s[1] \in Digits \/ (s[1] = "(" /\ s[2] \in Digits)
                 /\ ToSet(Tail(s)) \subseteq Digits \cup (DialBytes \ {"("})
                 /\ Len(Kept(s, Digits)) = 10
                 /\ Kept(s, Digits)[1] \notin {"0", "1"} /\ Kept(s, Digits)[4] \notin {"0", "1"}
                 /\ \E i \in 2..Len(s) : s[i] \notin Digits

LEMMA IsPhoneKinds ==
  ASSUME NEW s
  PROVE  IsPhone(s) <=> /\ s[Len(s)] \in Digits /\ PhoneIsValid(s)
                        /\ PlusNumber(s) \/ ZeroNumber(s) \/ NanpNumber(s)
  BY DEF IsPhone, PlusNumber, ZeroNumber, NanpNumber

LEMMA PlusNumbers ==
  ASSUME NEW t \in Texts, NEW a \in Nat, NEW b \in Nat, 1 <= a, a <= b, b <= Len(t),
         t[b] \in Digits
  PROVE  PlusNumber(SubSeq(t, a, b)) <=> t[a] = "+" /\ International(t, a + 1, b)
<1> DEFINE p == SubSeq(t, a, b)
<1>1. PartOf(p, t, a, b) /\ Len(Kept(p, Digits)) = Counted(t, a, b, Digits)
  BY PartIsPartOf, KeptOfPart
<1> HIDE DEF p
<1>2. Len(p) = b - a + 1 /\ \A i \in 1..(b - a + 1) : p[i] = t[a + i - 1]
  BY <1>1 DEF PartOf
<1>3. p[1] = t[a] /\ (Len(p) > 1 <=> a + 1 <= b) /\ (a + 1 <= b => p[2] = t[a + 1])
  <2>1. 1 \in 1..(b - a + 1) /\ a + 1 - 1 = a
    OBVIOUS
  <2>2. p[1] = t[a + 1 - 1]
    BY <1>2, <2>1
  <2>3. a + 1 <= b => p[2] = t[a + 1]
    <3>1. a + 1 <= b => 2 \in 1..(b - a + 1) /\ a + 2 - 1 = a + 1
      OBVIOUS
    <3>2. a + 1 <= b => p[2] = t[a + 2 - 1]
      BY <1>2, <3>1
    <3> QED
      BY <3>1, <3>2
  <2>4. Len(p) > 1 <=> a + 1 <= b
    BY <1>2
  <2> QED
    BY <2>1, <2>2, <2>3, <2>4
<1>4. ToSet(Tail(p)) \subseteq Digits \cup DialBytes
        <=> \A k \in (a + 1)..b : t[k] \in Digits \cup DialBytes
  BY <1>1, BytesOfTail
<1>5. t[a] = "+" => Counted(t, a, b, Digits) = Counted(t, a + 1, b, Digits)
  BY NanpMarksFacts, CountedFirst
<1>6. PlusNumber(p) <=> /\ t[a] = "+" /\ a + 1 <= b /\ t[a + 1] \in Digits
                        /\ \A k \in (a + 1)..b : t[k] \in Digits \cup DialBytes
                        /\ Counted(t, a, b, Digits) \in MinDial..MaxDial
  BY <1>1, <1>3, <1>4 DEF PlusNumber
<1> QED
  BY <1>5, <1>6 DEF International, Dialling, p

LEMMA ZeroNumbers ==
  ASSUME NEW t \in Texts, NEW a \in Nat, NEW b \in Nat, 1 <= a, a <= b, b <= Len(t),
         t[b] \in Digits
  PROVE  ZeroNumber(SubSeq(t, a, b))
           <=> t[a] = "0" /\ t[a + 1] = "0" /\ International(t, a + 2, b)
<1> DEFINE p == SubSeq(t, a, b)
<1>1. PartOf(p, t, a, b) /\ Len(Kept(p, Digits)) = Counted(t, a, b, Digits)
  BY PartIsPartOf, KeptOfPart
<1> HIDE DEF p
<1>2. Len(p) = b - a + 1 /\ \A i \in 1..(b - a + 1) : p[i] = t[a + i - 1]
  BY <1>1 DEF PartOf
<1>3. Len(p) > 2 <=> a + 2 <= b
  BY <1>2
<1>4. ASSUME a + 2 <= b
      PROVE  p[1] = t[a] /\ p[2] = t[a + 1] /\ p[3] = t[a + 2]
  <2>1. /\ 1 \in 1..(b - a + 1) /\ 2 \in 1..(b - a + 1) /\ 3 \in 1..(b - a + 1)
        /\ a + 1 - 1 = a /\ a + 2 - 1 = a + 1 /\ a + 3 - 1 = a + 2
    BY <1>4
  <2>2. p[1] = t[a + 1 - 1] /\ p[2] = t[a + 2 - 1] /\ p[3] = t[a + 3 - 1]
    BY <1>2, <2>1
  <2> QED
    BY <2>1, <2>2
<1>5. ToSet(p) \subseteq Digits \cup DialBytes
        <=> \A k \in a..b : t[k] \in Digits \cup DialBytes
  BY <1>1, BytesOfTail
<1>6. "0" \in Digits
  BY DigitsAreNoMarks
<1>7. ASSUME a + 2 <= b, t[a] = "0", t[a + 1] = "0"
      PROVE  /\ Counted(t, a, b, Digits) = Counted(t, a + 2, b, Digits) + 2
             /\ Counted(t, a + 2, b, Digits) \in Nat
             /\ (\A k \in a..b : t[k] \in Digits \cup DialBytes)
                  <=> \A k \in (a + 2)..b : t[k] \in Digits \cup DialBytes
  <2>1. Counted(t, a, b, Digits) = Counted(t, a + 1, b, Digits) + 1
    BY <1>6, <1>7, CountedFirst
  <2>2. Counted(t, a + 1, b, Digits) = Counted(t, a + 2, b, Digits) + 1
    <3>1. PICK c \in Nat : c = a + 1 /\ c + 1 = a + 2 /\ c <= b
      BY <1>7
    <3>2. Counted(t, c, b, Digits) = Counted(t, c + 1, b, Digits) + 1
      BY <1>6, <1>7, <3>1, CountedFirst
    <3> QED
      BY <3>1, <3>2
  <2>3. Counted(t, a + 2, b, Digits) \in Nat
    <3>1. a + 2 \in Nat
      OBVIOUS
    <3> QED
      BY <3>1, CountedNat
  <2>4. \A k \in a..b : k = a \/ k = a + 1 \/ k \in (a + 2)..b
    OBVIOUS
  <2>5. \A k \in (a + 2)..b : k \in a..b
    OBVIOUS
  <2>6. Counted(t, a, b, Digits) = Counted(t, a + 2, b, Digits) + 2
    BY <2>1, <2>2, <2>3
  <2>7. (\A k \in a..b : t[k] \in Digits \cup DialBytes)
          <=> \A k \in (a + 2)..b : t[k] \in Digits \cup DialBytes
    BY <1>6, <1>7, <2>4, <2>5
  <2> QED
    BY <2>3, <2>6, <2>7
<1>8. ZeroNumber(p) <=> /\ a + 2 <= b /\ t[a] = "0" /\ t[a + 1] = "0" /\ t[a + 2] \in Digits
                        /\ \A k \in a..b : t[k] \in Digits \cup DialBytes
                        /\ Counted(t, a, b, Digits) - 2 \in MinDial..MaxDial
  BY <1>1, <1>3, <1>4, <1>5 DEF ZeroNumber
<1>9. \A c \in Nat : c + 2 - 2 = c
  OBVIOUS
<1>10. ZeroNumber(p) <=> /\ a + 2 <= b /\ t[a] = "0" /\ t[a + 1] = "0" /\ t[a + 2] \in Digits
                         /\ \A k \in (a + 2)..b : t[k] \in Digits \cup DialBytes
                         /\ Counted(t, a + 2, b, Digits) \in MinDial..MaxDial
  BY <1>7, <1>8, <1>9
<1> QED
  BY <1>10 DEF International, Dialling, p

LEMMA NanpNumbers ==
  ASSUME NEW t \in Texts, NEW a \in Nat, NEW b \in Nat, 1 <= a, a <= b, b <= Len(t),
         t[b] \in Digits
  PROVE  NanpNumber(SubSeq(t, a, b)) <=> Nanp(t, a, NanpFirst(t, a), b)
<1> DEFINE p == SubSeq(t, a, b)
           digits == Kept(p, Digits)
<1>1. PartOf(p, t, a, b) /\ Len(digits) = Counted(t, a, b, Digits)
  BY PartIsPartOf, KeptOfPart
<1> HIDE DEF p, digits
<1>2. Len(p) = b - a + 1 /\ \A i \in 1..(b - a + 1) : p[i] = t[a + i - 1]
  BY <1>1 DEF PartOf
<1>3. p[1] = t[a] /\ (a + 1 <= b => p[2] = t[a + 1])
  <2>1. 1 \in 1..(b - a + 1) /\ a + 1 - 1 = a
    OBVIOUS
  <2>2. p[1] = t[a + 1 - 1]
    BY <1>2, <2>1
  <2>3. a + 1 <= b => p[2] = t[a + 1]
    <3>1. a + 1 <= b => 2 \in 1..(b - a + 1) /\ a + 2 - 1 = a + 1
      OBVIOUS
    <3>2. a + 1 <= b => p[2] = t[a + 2 - 1]
      BY <1>2, <3>1
    <3> QED
      BY <3>1, <3>2
  <2> QED
    BY <2>1, <2>2, <2>3
<1>4. ToSet(Tail(p)) \subseteq Digits \cup (DialBytes \ {"("})
        <=> \A k \in (a + 1)..b : t[k] \in Digits \cup NanpMarks
  <2>1. ToSet(Tail(p)) \subseteq Digits \cup NanpMarks
          <=> \A k \in (a + 1)..b : t[k] \in Digits \cup NanpMarks
    BY <1>1, BytesOfTail
  <2>2. Digits \cup (DialBytes \ {"("}) = Digits \cup NanpMarks
    BY NanpMarksFacts
  <2> QED
    BY <2>1, <2>2
<1>5. (\E i \in 2..Len(p) : p[i] \notin Digits) <=> \E k \in (a + 1)..b : t[k] \notin Digits
  <2>1. ASSUME NEW i \in 2..Len(p), p[i] \notin Digits
        PROVE  \E k \in (a + 1)..b : t[k] \notin Digits
    <3>1. i \in 1..(b - a + 1) /\ a + i - 1 \in (a + 1)..b
      BY <1>2
    <3> QED
      BY <1>2, <2>1, <3>1
  <2>2. ASSUME NEW k \in (a + 1)..b, t[k] \notin Digits
        PROVE  \E i \in 2..Len(p) : p[i] \notin Digits
    <3>1. PICK j \in Int : j = k - a + 1
      OBVIOUS
    <3>2. j \in 1..(b - a + 1) /\ j \in 2..Len(p) /\ a + j - 1 = k
      BY <1>2, <3>1
    <3> QED
      BY <1>2, <2>2, <3>2
  <2> QED
    BY <2>1, <2>2
<1> DEFINE Others(x) == /\ \A k \in (a + 1)..b : t[k] \in Digits \cup NanpMarks
                        /\ x = 10
                        /\ digits[1] \notin {"0", "1"} /\ digits[4] \notin {"0", "1"}
                        /\ \E k \in (a + 1)..b : t[k] \notin Digits
<1>6. NanpNumber(p) <=> /\ t[a] \in Digits \/ (t[a] = "(" /\ p[2] \in Digits)
                        /\ Others(Counted(t, a, b, Digits))
  BY <1>1, <1>3, <1>4, <1>5 DEF NanpNumber, digits
<1>7. Digits \cap NanpMarks = {}
  BY NanpMarksFacts, DigitsAndDialBytes
<1>8. CASE t[a] = "("
  <2>1. a # b /\ a + 1 <= b /\ a + 1 \in (a + 1)..b
    BY <1>8, NanpMarksFacts
  <2>2. NanpFirst(t, a) = a + 1 /\ t[a] \notin Digits
    BY <1>8, NanpMarksFacts DEF NanpFirst
  <2>3. Counted(t, a, b, Digits) = Counted(t, a + 1, b, Digits)
    BY <2>2, CountedFirst
  <2>4. NanpNumber(p) <=> t[a + 1] \in Digits /\ Others(Counted(t, a + 1, b, Digits))
    <3> HIDE DEF Rest
    <3> QED
      BY <1>3, <1>6, <1>8, <2>1, <2>2, <2>3
  <2>5. (\A k \in (a + 1)..b : t[k] \in Digits \cup NanpMarks)
           => ((\E k \in (a + 1)..b : t[k] \notin Digits) <=> \E k \in (a + 1)..b : t[k] \in NanpMarks)
    BY <1>7
  <2>6. Nanp(t, a, a + 1, b) <=> t[a + 1] \in Digits /\ Others(Counted(t, a + 1, b, Digits))
    BY <2>1, <2>5 DEF Nanp, Dialling, digits, p
  <2> QED
    BY <2>2, <2>4, <2>6 DEF p
<1>9. CASE t[a] # "("
  <2>1. NanpFirst(t, a) = a
    BY <1>9 DEF NanpFirst
  <2>2. \A k \in a..b : k = a \/ k \in (a + 1)..b
    OBVIOUS
  <2>3. \A k \in (a + 1)..b : k \in a..b
    OBVIOUS
  <2>4. ASSUME t[a] \in Digits
        PROVE  /\ (\A k \in a..b : t[k] \in Digits \cup NanpMarks)
                    <=> \A k \in (a + 1)..b : t[k] \in Digits \cup NanpMarks
               /\ (\E k \in a..b : t[k] \in NanpMarks)
                    <=> \E k \in (a + 1)..b : t[k] \in NanpMarks
    BY <1>7, <2>2, <2>3, <2>4
  <2>5. (\A k \in (a + 1)..b : t[k] \in Digits \cup NanpMarks)
           => ((\E k \in (a + 1)..b : t[k] \notin Digits) <=> \E k \in (a + 1)..b : t[k] \in NanpMarks)
    BY <1>7
  <2>6. Nanp(t, a, a, b) <=> t[a] \in Digits /\ Others(Counted(t, a, b, Digits))
    BY <2>4, <2>5 DEF Nanp, Dialling, digits, p
  <2> QED
    BY <1>6, <1>9, <2>1, <2>6 DEF p
<1> QED
  BY <1>8, <1>9

\* The format, byte by byte.
LEMMA PhoneFormat ==
  ASSUME NEW t \in Texts, NEW a \in Nat, NEW b \in Nat, 1 <= a, a <= b, b <= Len(t)
  PROVE  IsPhone(SubSeq(t, a, b)) <=> PhoneShape(t, a, b)
<1> DEFINE p == SubSeq(t, a, b)
<1>1. p[Len(p)] = t[b]
  <2>1. Len(p) = b - a + 1 /\ \A i \in 1..(b - a + 1) : p[i] = t[a + i - 1]
    BY BytesOfPart
  <2> HIDE DEF p
  <2>2. b - a + 1 \in 1..(b - a + 1) /\ a + (b - a + 1) - 1 = b
    OBVIOUS
  <2>3. p[b - a + 1] = t[a + (b - a + 1) - 1]
    BY <2>1, <2>2
  <2> QED
    BY <2>1, <2>2, <2>3
<1>2. IsPhone(p) <=> /\ t[b] \in Digits /\ PhoneIsValid(p)
                     /\ PlusNumber(p) \/ ZeroNumber(p) \/ NanpNumber(p)
  <2> HIDE DEF p
  <2> QED
    BY <1>1, IsPhoneKinds
<1>3. PhoneShape(t, a, b) => t[b] \in Digits
  BY DEF PhoneShape, International, Nanp, Dialling
<1>4. t[b] \in Digits => /\ PlusNumber(p) <=> t[a] = "+" /\ International(t, a + 1, b)
                         /\ ZeroNumber(p) <=> t[a] = "0" /\ t[a + 1] = "0" /\ International(t, a + 2, b)
                         /\ NanpNumber(p) <=> Nanp(t, a, NanpFirst(t, a), b)
  BY PlusNumbers, ZeroNumbers, NanpNumbers
<1> QED
  BY <1>2, <1>3, <1>4 DEF PhoneShape

LEMMA ParsesAre ==
  ASSUME NEW t, NEW i, NEW first
  PROVE  /\ ParseInternational(t, i, first) =
              LET run == DialRun(t, first, DialBytes, MaxDial)
              IN  IF run.count \in MinDial..MaxDial THEN Dialled(t, i, run.end) ELSE {}
         /\ ParseNanp(t, i) =
              LET run == DialRun(t, NanpFirst(t, i), NanpMarks, 10)
                  digits == Kept(SubSeq(t, i, run.end), Digits)
              IN  IF /\ run.count = 10 /\ run.sep
                     /\ digits[1] \notin {"0", "1"} /\ digits[4] \notin {"0", "1"}
                  THEN Dialled(t, i, run.end) ELSE {}
  BY DEF ParseInternational, ParseNanp, DialBytes, NanpMarks, NanpFirst

LEMMA DialLimits ==
  MinDial \in Nat /\ MinDial > 0 /\ MaxDial \in Nat
  BY DetectorsAssumption DEF DetectorsAssumption

LEMMA DialsAll ==
  ASSUME NEW t \in Texts, NEW i \in DOMAIN t, NEW e \in DOMAIN t, i <= e, NEW max \in Nat,
         Counted(t, i, e, Digits) <= max, NEW r, DialRest(t, e, r),
         NEW separators, separators \in {DialBytes, NanpMarks}, Dialling(t, i, e, separators)
  PROVE  /\ DialRun(t, i, separators, max).end = e
         /\ DialRun(t, i, separators, max).count = Counted(t, i, e, Digits)
         /\ (\E k \in i..e : t[k] \in separators) => DialRun(t, i, separators, max).sep
<1>1. separators \in SUBSET DialBytes
  BY NanpMarksFacts
<1> QED
  BY <1>1, DialEnds

LEMMA PhoneAtKinds ==
  ASSUME NEW t, NEW i
  PROVE  /\ t[i] = "+" /\ At(t, i + 1, Digits) => PhoneAt(t, i) = ParseInternational(t, i, i + 1)
         /\ t[i] = "0" /\ At(t, i + 1, {"0"}) /\ At(t, i + 2, Digits) =>
              PhoneAt(t, i) = ParseInternational(t, i, i + 2)
         /\ t[i] \in {"("} \cup (Digits \ {"0", "1"}) => PhoneAt(t, i) = ParseNanp(t, i)
<1>1. t[i] = "+" /\ At(t, i + 1, Digits) => PhoneAt(t, i) = ParseInternational(t, i, i + 1)
  BY DigitsAreNoMarks DEF PhoneAt
<1>2. t[i] = "0" /\ At(t, i + 1, {"0"}) /\ At(t, i + 2, Digits) =>
              PhoneAt(t, i) = ParseInternational(t, i, i + 2)
  BY DigitsAreNoMarks DEF PhoneAt
<1>3. t[i] \in {"("} \cup (Digits \ {"0", "1"}) => PhoneAt(t, i) = ParseNanp(t, i)
  BY DigitsAreNoMarks DEF PhoneAt
<1> QED
  BY <1>1, <1>2, <1>3

\* What is found at a place is a number of one of the three kinds.
LEMMA PhoneAtIsOne ==
  ASSUME NEW t \in Texts, NEW i \in DOMAIN t, NEW e \in PhoneAt(t, i)
  PROVE  PhoneShape(t, i, e)
<1>1. PICK n \in Nat : n = Len(t) /\ DOMAIN t = 1..n /\ i \in 1..n
  BY TextFacts
<1>2. \A end : e \in Dialled(t, i, end) => e = end /\ PhoneIsValid(SubSeq(t, i, e))
  BY DEF Dialled
<1>3. ASSUME NEW first \in DOMAIN t, e \in ParseInternational(t, i, first)
      PROVE  International(t, first, e) /\ PhoneIsValid(SubSeq(t, i, e))
  <2> DEFINE run == DialRun(t, first, DialBytes, MaxDial)
  <2>1. run.count \in MinDial..MaxDial /\ e \in Dialled(t, i, run.end)
    BY <1>3, ParsesAre
  <2>2. run.count > 0
    <3> HIDE DEF run
    <3> QED
      BY <2>1, DialLimits
  <2>3. first \in 1..(Len(t) + 1) /\ MaxDial \in Nat
    BY <1>1, DialLimits
  <2>4. /\ run.end \in first..Len(t) /\ Dialling(t, first, run.end, DialBytes)
        /\ run.count = Counted(t, first, run.end, Digits)
    BY <2>2, <2>3, DialFinds
  <2> HIDE DEF run
  <2>5. e = run.end /\ PhoneIsValid(SubSeq(t, i, e))
    BY <1>2, <2>1
  <2>6. first <= e
    BY <1>1, <2>4, <2>5
  <2> QED
    BY <2>1, <2>4, <2>5, <2>6 DEF International
<1>4. ASSUME e \in ParseNanp(t, i)
      PROVE  Nanp(t, i, NanpFirst(t, i), e) /\ PhoneIsValid(SubSeq(t, i, e))
  <2> DEFINE first == NanpFirst(t, i)
             run == DialRun(t, first, NanpMarks, 10)
             digits == Kept(SubSeq(t, i, run.end), Digits)
  <2>1. /\ run.count = 10 /\ run.sep /\ e \in Dialled(t, i, run.end)
        /\ digits[1] \notin {"0", "1"} /\ digits[4] \notin {"0", "1"}
    BY <1>4, ParsesAre
  <2>2. first \in 1..(Len(t) + 1)
    BY <1>1 DEF NanpFirst
  <2> HIDE DEF first
  <2>3. run.count > 0
    <3> HIDE DEF run
    <3> QED
      BY <2>1
  <2> DEFINE max == 10
             found == DialRun(t, first, NanpMarks, max)
  <2>4. max \in Nat /\ found.count > 0 /\ found = run
    BY <2>3
  <2>5. /\ found.end \in first..Len(t) /\ Dialling(t, first, found.end, NanpMarks)
        /\ found.count = Counted(t, first, found.end, Digits)
        /\ found.count = max /\ found.sep => \E k \in first..found.end : t[k] \in NanpMarks
    <3> HIDE DEF max
    <3> QED
      BY <2>2, <2>4, DialFinds
  <2>6. /\ run.end \in first..Len(t) /\ Dialling(t, first, run.end, NanpMarks)
        /\ run.count = Counted(t, first, run.end, Digits)
        /\ \E k \in first..run.end : t[k] \in NanpMarks
    <3> HIDE DEF found, run
    <3> QED
      BY <2>1, <2>4, <2>5
  <2>7. e = run.end /\ PhoneIsValid(SubSeq(t, i, e))
    <3> HIDE DEF run
    <3> QED
      BY <1>2, <2>1
  <2>8. digits = Kept(SubSeq(t, i, e), Digits)
    BY <2>7
  <2>9. first <= e
    <3> HIDE DEF run
    <3> QED
      BY <1>1, <2>2, <2>6, <2>7
  <2> HIDE DEF run, digits
  <2> QED
    BY <2>1, <2>6, <2>7, <2>8, <2>9 DEF Nanp, first
<1>5. \/ /\ t[i] = "+" /\ At(t, i + 1, Digits)
         /\ PhoneAt(t, i) = ParseInternational(t, i, i + 1)
      \/ /\ t[i] = "0" /\ At(t, i + 1, {"0"}) /\ At(t, i + 2, Digits)
         /\ PhoneAt(t, i) = ParseInternational(t, i, i + 2)
      \/ PhoneAt(t, i) = ParseNanp(t, i)
      \/ PhoneAt(t, i) = {}
  BY DEF PhoneAt
<1>6. CASE t[i] = "+" /\ At(t, i + 1, Digits) /\ PhoneAt(t, i) = ParseInternational(t, i, i + 1)
  <2>1. i + 1 \in DOMAIN t
    BY <1>6 DEF At
  <2> QED
    BY <1>3, <1>6, <2>1 DEF PhoneShape
<1>7. CASE /\ t[i] = "0" /\ At(t, i + 1, {"0"}) /\ At(t, i + 2, Digits)
           /\ PhoneAt(t, i) = ParseInternational(t, i, i + 2)
  <2>1. i + 2 \in DOMAIN t /\ t[i + 1] = "0"
    BY <1>7 DEF At
  <2> QED
    BY <1>3, <1>7, <2>1 DEF PhoneShape
<1>8. CASE PhoneAt(t, i) = ParseNanp(t, i)
  BY <1>4, <1>8 DEF PhoneShape
<1> QED
  BY <1>5, <1>6, <1>7, <1>8

\* And a number that separators only follow is found where it starts.
LEMMA PhoneAtFindsIt ==
  ASSUME NEW t \in Texts, NEW a \in DOMAIN t, NEW b \in DOMAIN t, a <= b, PhoneShape(t, a, b),
         ~At(t, b + 1, Alphanumeric), NEW r, DialRest(t, b, r)
  PROVE  b \in PhoneAt(t, a)
<1>1. PICK n \in Nat : n = Len(t) /\ DOMAIN t = 1..n /\ a \in 1..n /\ b \in 1..n
  BY TextFacts
<1>2. PhoneIsValid(SubSeq(t, a, b))
  BY DEF PhoneShape
<1>3. b \in Dialled(t, a, b)
  BY <1>2 DEF Dialled
<1>4. ASSUME NEW first \in Nat, first >= 1, International(t, first, b)
      PROVE  b \in ParseInternational(t, a, first) /\ At(t, first, Digits)
  <2>1. /\ first <= b /\ Dialling(t, first, b, DialBytes)
        /\ Counted(t, first, b, Digits) \in MinDial..MaxDial
    BY <1>4 DEF International
  <2>2. first \in DOMAIN t /\ Counted(t, first, b, Digits) <= MaxDial
    BY <1>1, <1>4, <2>1, DialLimits
  <2> DEFINE run == DialRun(t, first, DialBytes, MaxDial)
             marks == DialBytes
  <2>3. run.end = b /\ run.count = Counted(t, first, b, Digits)
    <3>1. marks \in {DialBytes, NanpMarks} /\ Dialling(t, first, b, marks) /\ MaxDial \in Nat
      BY <2>1, DialLimits
    <3> HIDE DEF marks
    <3>2. /\ DialRun(t, first, marks, MaxDial).end = b
          /\ DialRun(t, first, marks, MaxDial).count = Counted(t, first, b, Digits)
      BY <2>1, <2>2, <3>1, DialsAll
    <3> QED
      BY <3>2 DEF marks
  <2>4. b \in ParseInternational(t, a, first)
    BY <1>3, <2>1, <2>3, ParsesAre
  <2> QED
    BY <2>1, <2>2, <2>4 DEF Dialling, At
<1>5. CASE t[a] = "+" /\ International(t, a + 1, b)
  <2>1. b \in ParseInternational(t, a, a + 1) /\ At(t, a + 1, Digits)
    BY <1>1, <1>4, <1>5
  <2> QED
    BY <1>5, <2>1, PhoneAtKinds
<1>6. CASE t[a] = "0" /\ t[a + 1] = "0" /\ International(t, a + 2, b)
  <2>1. b \in ParseInternational(t, a, a + 2) /\ At(t, a + 2, Digits)
    BY <1>1, <1>4, <1>6
  <2>2. At(t, a + 1, {"0"})
    <3>1. a + 1 \in DOMAIN t
      BY <1>1, <2>1 DEF At
    <3> QED
      BY <1>6, <3>1 DEF At
  <2> QED
    BY <1>6, <2>1, <2>2, PhoneAtKinds
<1>7. CASE Nanp(t, a, NanpFirst(t, a), b)
  <2> DEFINE first == NanpFirst(t, a)
             max == 10
             run == DialRun(t, first, NanpMarks, max)
             digits == Kept(SubSeq(t, a, b), Digits)
  <2>1. /\ first <= b /\ Dialling(t, first, b, NanpMarks)
        /\ Counted(t, first, b, Digits) = 10
        /\ \E k \in first..b : t[k] \in NanpMarks
        /\ digits[1] \notin {"0", "1"} /\ digits[4] \notin {"0", "1"}
    BY <1>7 DEF Nanp
  <2>2. first \in 1..n
    <3>1. first \in Nat /\ first >= 1
      BY <1>1 DEF NanpFirst
    <3> HIDE DEF first
    <3> QED
      BY <1>1, <2>1, <3>1
  <2>3. max \in Nat /\ Counted(t, first, b, Digits) <= max
    BY <2>1
  <2>4. run.end = b /\ run.count = 10 /\ run.sep
    <3>1. run.end = b /\ run.count = Counted(t, first, b, Digits) /\ run.sep
      <4> DEFINE marks == NanpMarks
      <4>1. /\ marks \in {DialBytes, NanpMarks} /\ Dialling(t, first, b, marks)
            /\ \E k \in first..b : t[k] \in marks
        BY <2>1
      <4>2. first \in DOMAIN t
        BY <1>1, <2>2
      <4> HIDE DEF first, max, marks, run
      <4>3. /\ DialRun(t, first, marks, max).end = b
            /\ DialRun(t, first, marks, max).count = Counted(t, first, b, Digits)
            /\ DialRun(t, first, marks, max).sep
        BY <2>1, <2>3, <4>1, <4>2, DialsAll
      <4> QED
        BY <4>3 DEF marks, run
    <3> HIDE DEF run
    <3> QED
      BY <2>1, <3>1
  <2>5. b \in ParseNanp(t, a)
    <3>1. DialRun(t, NanpFirst(t, a), NanpMarks, 10) = run
      OBVIOUS
    <3> HIDE DEF run
    <3> QED
      BY <1>3, <2>1, <2>4, <3>1, ParsesAre
  <2>6. t[a] \in {"("} \cup (Digits \ {"0", "1"})
    <3>1. CASE t[a] # "("
      <4>1. t[a] \in Digits
        BY <2>1, <3>1 DEF NanpFirst, Dialling
      <4> DEFINE p == SubSeq(t, a, b)
      <4>2. p \in Texts /\ Len(p) > 0 /\ p[1] = t[a]
        <5>1. a \in Nat /\ b \in Nat /\ 1 <= a /\ b <= Len(t)
          BY <1>1
        <5>2. p \in Seq(STRING) /\ Len(p) = b - a + 1 /\ \A i \in 1..(b - a + 1) : p[i] = t[a + i - 1]
          BY <5>1, BytesOfPart
        <5> HIDE DEF p
        <5>3. 1 \in 1..(b - a + 1) /\ a + 1 - 1 = a /\ b - a + 1 > 0
          BY <5>1
        <5>4. p[1] = t[a + 1 - 1]
          BY <5>2, <5>3
        <5> QED
          BY <5>2, <5>3, <5>4 DEF Texts
      <4> HIDE DEF p
      <4>3. Kept(p, Digits)[1] = t[a]
        BY <4>1, <4>2, KeptFirst
      <4> QED
        BY <2>1, <4>1, <4>3 DEF p
    <3> QED
      BY <3>1
  <2>7. PhoneAt(t, a) = ParseNanp(t, a)
    BY <2>6, PhoneAtKinds
  <2> QED
    BY <2>5, <2>7
<1> QED
  BY <1>5, <1>6, <1>7 DEF PhoneShape

\* What is reported as a telephone number is one.
LEMMA PhonesAreGenuine ==
  ASSUME NEW t \in Texts, NEW s \in ScanPhones(t)
  PROVE  IsPhone(SubSeq(t, s[1], s[2]))
<1>1. PICK n \in Nat : n = Len(t) /\ DOMAIN t = 1..n
  BY TextFacts
<1>2. PICK i \in 1..n : s \in PhonesFrom(t)[i]
  BY <1>1, ScanPhonesFacts, WalkReports
<1>3. PICK e : PhoneFrom(t, i, e)
  BY <1>1, <1>2, ScanPhonesFacts
<1>4. s[1] = i /\ s[2] = e /\ e \in PhoneAt(t, i) /\ e \in i..n
  BY <1>1, <1>2, <1>3 DEF PhoneFrom, PhoneEnd
<1>5. PhoneShape(t, i, e)
  BY <1>1, <1>4, PhoneAtIsOne
<1>6. i \in Nat /\ e \in Nat /\ 1 <= i /\ i <= e /\ e <= Len(t)
  BY <1>1, <1>4
<1>7. IsPhone(SubSeq(t, i, e))
  BY <1>5, <1>6, PhoneFormat
<1> QED
  BY <1>4, <1>7

\* The bytes of a number.
LEMMA PhoneBytes ==
  ASSUME NEW t, NEW a \in Nat, NEW b \in Nat, a <= b, PhoneShape(t, a, b)
  PROVE  /\ t[a] \in Digits \cup {"+", "("}
         /\ t[a] \in Digits \/ t[a + 1] \in Digits
         /\ \A k \in a..b : t[k] \in Digits \cup DialBytes \cup {"+"}
<1>1. ASSUME NEW first \in Nat, NEW marks, marks \in {DialBytes, NanpMarks},
             Dialling(t, first, b, marks)
      PROVE  /\ t[first] \in Digits
             /\ \A k \in first..b : t[k] \in Digits \cup DialBytes \cup {"+"}
  BY <1>1, NanpMarksFacts DEF Dialling
<1>2. "0" \in Digits /\ "(" \in DialBytes
  BY DigitsAreNoMarks DEF DialBytes
<1>3. /\ \A k \in a..b : k = a \/ k \in (a + 1)..b
      /\ \A k \in a..b : k = a \/ k = a + 1 \/ k \in (a + 2)..b
  OBVIOUS
<1>4. CASE t[a] = "+" /\ International(t, a + 1, b)
  <2>1. Dialling(t, a + 1, b, DialBytes) /\ a + 1 \in Nat
    BY <1>4 DEF International
  <2>2. t[a + 1] \in Digits /\ \A k \in (a + 1)..b : t[k] \in Digits \cup DialBytes \cup {"+"}
    BY <1>1, <2>1
  <2> QED
    BY <1>3, <1>4, <2>2
<1>5. CASE t[a] = "0" /\ t[a + 1] = "0" /\ International(t, a + 2, b)
  <2>1. Dialling(t, a + 2, b, DialBytes) /\ a + 2 \in Nat
    BY <1>5 DEF International
  <2>2. \A k \in (a + 2)..b : t[k] \in Digits \cup DialBytes \cup {"+"}
    BY <1>1, <2>1
  <2> QED
    BY <1>2, <1>3, <1>5, <2>2
<1>6. CASE Nanp(t, a, NanpFirst(t, a), b)
  <2>1. Dialling(t, NanpFirst(t, a), b, NanpMarks) /\ NanpFirst(t, a) \in Nat
    BY <1>6 DEF Nanp, NanpFirst
  <2>2. /\ t[NanpFirst(t, a)] \in Digits
        /\ \A k \in NanpFirst(t, a)..b : t[k] \in Digits \cup DialBytes \cup {"+"}
    BY <1>1, <2>1
  <2>3. CASE t[a] = "("
    <3>1. NanpFirst(t, a) = a + 1
      BY <2>3 DEF NanpFirst
    <3> QED
      BY <1>2, <1>3, <2>2, <2>3, <3>1
  <2>4. CASE t[a] # "("
    <3>1. NanpFirst(t, a) = a
      BY <2>4 DEF NanpFirst
    <3> QED
      BY <2>2, <3>1
  <2> QED
    BY <2>3, <2>4
<1> QED
  BY <1>4, <1>5, <1>6 DEF PhoneShape

\* Nothing before the number could begin one that goes on into it.
DialBefore(t, a, r) == /\ r \in Nat
                       /\ \A k \in 1..r : At(t, a - k, DialBytes \cup {"+"})
                       /\ ~At(t, a - r - 1, DialBytes \cup {"+"}) /\ ~At(t, a - r - 1, Digits)
                       /\ ~At(t, a - 1, {"(", "+"})

\* And every telephone number that stands apart is reported.
LEMMA NoPhoneIsMissed ==
  ASSUME NEW t \in Texts, NEW a \in DOMAIN t, NEW b \in DOMAIN t, a <= b, PhoneShape(t, a, b),
         ~At(t, a - 1, Alphanumeric), ~At(t, b + 1, Alphanumeric),
         NEW q, DialBefore(t, a, q), NEW r, DialRest(t, b, r)
  PROVE  <<a, b>> \in ScanPhones(t)
<1>1. PICK n \in Nat : n = Len(t) /\ DOMAIN t = 1..n /\ a \in 1..n
  BY TextFacts
<1>2. /\ ScanPhones(t) = Walk(n, PhonesFrom(t), PhonesNext(t))
      /\ Advances(n, PhonesNext(t))
      /\ \A i \in 1..n : \/ PhonesFrom(t)[i] = {} /\ PhonesNext(t)[i] = i + 1
                         \/ \E e : PhoneFrom(t, i, e)
  BY <1>1, ScanPhonesFacts
<1>3. PICK V : /\ Visits(V, n, PhonesNext(t))
               /\ Walk(n, PhonesFrom(t), PhonesNext(t)) = UNION {PhonesFrom(t)[i] : i \in V}
  BY <1>2, WalkFacts
<1>4. <<a, b>> \in PhonesFrom(t)[a]
  <2>1. b \in PhoneAt(t, a)
    BY PhoneAtFindsIt
  <2> QED
    BY <2>1 DEF PhonesFrom, PhoneEnds
<1>5. ASSUME NEW v \in V, v < a, PhonesNext(t)[v] > a
      PROVE  FALSE
  <2>1. v \in 1..n
    BY <1>3 DEF Visits
  <2>2. PICK e : PhoneFrom(t, v, e)
    <3>1. ~(PhonesNext(t)[v] = v + 1)
      BY <1>1, <1>5, <2>1
    <3> QED
      BY <1>2, <2>1, <3>1
  <2>3. e \in v..n /\ e + 1 > a /\ e \in PhoneAt(t, v)
    BY <1>1, <1>5, <2>2 DEF PhoneFrom, PhoneEnd
  <2>4. PhoneShape(t, v, e)
    BY <1>1, <2>1, <2>3, PhoneAtIsOne
  <2>5. v \in Nat /\ e \in Nat /\ v <= e /\ a <= e /\ a \in Nat
    BY <1>1, <2>1, <2>3
  <2>6. /\ t[v] \in Digits \cup {"+", "("}
        /\ t[v] \in Digits \/ t[v + 1] \in Digits
        /\ \A k \in v..e : t[k] \in Digits \cup DialBytes \cup {"+"}
    BY <2>4, <2>5, PhoneBytes
  <2>7. /\ q \in Nat
        /\ \A k \in 1..q : At(t, a - k, DialBytes \cup {"+"})
        /\ ~At(t, a - q - 1, DialBytes \cup {"+"}) /\ ~At(t, a - q - 1, Digits)
        /\ ~At(t, a - 1, {"(", "+"})
    BY DEF DialBefore
  <2>8. a - v \in 1..q
    <3> SUFFICES ASSUME a - v > q
                 PROVE  FALSE
      BY <1>5, <2>5, <2>7
    <3>1. a - q - 1 \in v..e /\ a - q - 1 \in 1..n
      BY <1>1, <2>1, <2>5, <2>7
    <3> QED
      BY <1>1, <2>6, <2>7, <3>1 DEF At
  <2>9. Digits \cap (DialBytes \cup {"+"}) = {}
    BY DigitsAndDialBytes, NanpMarksFacts
  <2>10. t[v] \notin Digits
    <3>1. a - (a - v) = v
      BY <2>5
    <3>2. At(t, a - (a - v), DialBytes \cup {"+"})
      BY <2>7, <2>8
    <3> QED
      BY <2>9, <3>1, <3>2 DEF At
  <2>11. CASE v + 1 = a
    <3>1. v = a - 1 /\ v \in DOMAIN t
      BY <1>1, <2>1, <2>5, <2>11
    <3> QED
      BY <2>6, <2>7, <2>10, <3>1 DEF At
  <2>12. CASE v + 1 # a
    <3>1. a - (v + 1) \in 1..q /\ a - (a - (v + 1)) = v + 1
      BY <1>5, <2>5, <2>7, <2>8, <2>12
    <3>2. At(t, a - (a - (v + 1)), DialBytes \cup {"+"})
      BY <2>7, <3>1
    <3> QED
      BY <2>6, <2>9, <2>10, <3>1, <3>2 DEF At
  <2> QED
    BY <2>11, <2>12
<1>6. a \in V
  BY <1>1, <1>2, <1>3, <1>5, VisitedOrPassed
<1> QED
  BY <1>2, <1>3, <1>4, <1>6

LEMMA PhonesAreAllFound ==
  ASSUME TextInv, detector = "phone", NEW span \in Spans, IsPhone(Part(span)),
         Alone(span), Isolated(span)
  PROVE  span \in ScanPhones(text)
<1> DEFINE a == span[1]
           b == span[2]
           before == DialBytes \cup {"+"}
<1>1. /\ text \in Texts /\ a \in DOMAIN text /\ b \in DOMAIN text /\ a <= b
      /\ span = <<a, b>>
  <2>1. span \in (DOMAIN text) \X (DOMAIN text) /\ span[1] <= span[2] /\ text \in Texts
    BY DEF TextInv, Spans
  <2> QED
    BY <2>1
<1>2. ~At(text, a - 1, Alphanumeric) /\ ~At(text, b + 1, Alphanumeric)
  BY DEF Alone, Glue
<1>3. IsPhone(SubSeq(text, a, b))
  BY DEF Part
<1>4. /\ ~At(text, a - 1, {"(", "+"})
      /\ ~At(text, Past(a, -1, before), Digits) /\ ~At(text, Past(b, 1, DialBytes), Digits)
  BY DEF Isolated
<1> HIDE DEF a, b, before
<1>5. PICK q \in Nat : /\ Past(a, -1, before) = a - q - 1
                       /\ \A k \in 1..q : At(text, a - k, before)
                       /\ ~At(text, a - q - 1, before)
  BY <1>1, PastBefore
<1>6. PICK r \in Nat : /\ Past(b, 1, DialBytes) = b + r + 1
                       /\ \A k \in 1..r : At(text, b + k, DialBytes)
                       /\ ~At(text, b + r + 1, DialBytes)
  BY <1>1, PastBehind
<1>7. DialBefore(text, a, q)
  BY <1>4, <1>5 DEF DialBefore, before
<1>8. DialRest(text, b, r)
  BY <1>4, <1>6 DEF DialRest
<1>9. PhoneShape(text, a, b)
  <2>1. Len(text) \in Nat /\ DOMAIN text = 1..Len(text)
    BY <1>1, TextFacts
  <2>2. a \in Nat /\ b \in Nat /\ 1 <= a /\ b <= Len(text)
    BY <1>1, <2>1
  <2> QED
    BY <1>1, <1>3, <2>2, PhoneFormat
<1> QED
  BY <1>1, <1>2, <1>7, <1>8, <1>9, NoPhoneIsMissed

---------------------------------------------------------------------------
(* IBANs *)

LEMMA LetterValue ==
  ASSUME NEW b \in Uppers
  PROVE  Value(b) \in 10..35
<1> DEFINE i == CHOOSE i \in DOMAIN Letters : Letters[i] = b
<1>1. DOMAIN Letters = 1..26
  BY DEF Letters
<1>2. \E j \in DOMAIN Letters : Letters[j] = b
  BY DEF Uppers, ToSet
<1>3. i \in 1..26
  BY <1>1, <1>2
<1>4. b \notin Digits
  <2>1. \A j \in 1..26 : Letters[j] \notin Digits
    BY DigitsAreNoMarks DEF Letters
  <2> QED
    BY <1>1, <1>2, <2>1
<1>5. Value(b) = 9 + i
  BY <1>4 DEF Value
<1> HIDE DEF i
<1> QED
  BY <1>3, <1>5

\* The characters of a rearranged IBAN, and what each multiplies what is before it by.
IbanBytes == Uppers \cup Digits
Shift(b) == IF b \in Digits THEN 10 ELSE 100

Rests(rest, m) == /\ rest \in [0..Len(m) -> Nat]
                  /\ rest[0] = 0
                  /\ \A i \in 1..Len(m) : rest[i] = (rest[i - 1] * Shift(m[i]) + Value(m[i])) % 97

Weighs(w, m) == /\ w \in [0..Len(m) -> Nat]
                /\ w[0] = 1
                /\ \A k \in 1..Len(m) : w[k] = (w[k - 1] * Shift(m[Len(m) + 1 - k])) % 97

LEMMA IbanByteFacts ==
  ASSUME NEW b \in IbanBytes
  PROVE  Value(b) \in Nat /\ Shift(b) \in {10, 100}
  BY LetterValue, DigitValue DEF IbanBytes, Shift

\* One step of the remainder is one weight more.
StepAgrees(r, v, w, s, x) ==
  (((r * x + v) % 97) * w + s) % 97 = (r * ((w * x) % 97) + (s + v * w)) % 97

LEMMA RemainderStep ==
  ASSUME NEW r \in Nat, NEW v \in Nat, NEW w \in Nat, NEW s \in Nat, NEW x, x \in {10, 100}
  PROVE  StepAgrees(r, v, w, s, x)
<1>1. \A a \in Int, k \in Int : (a + 97 * k) % 97 = a % 97
  OBVIOUS
<1>2. r * x \in Nat /\ w * x \in Nat /\ r * w \in Nat /\ v * w \in Nat
  OBVIOUS
<1>3. PICK p \in Nat, y \in Nat : p = (r * x + v) % 97 /\ r * x + v = p + 97 * y
  <2>1. PICK z \in Nat : z = r * x + v
    BY <1>2
  <2>2. z % 97 \in Nat /\ z \div 97 \in Nat /\ z = (z % 97) + 97 * (z \div 97)
    OBVIOUS
  <2> QED
    BY <2>1, <2>2
<1>4. PICK q \in Nat, u \in Nat : q = (w * x) % 97 /\ w * x = q + 97 * u
  <2>1. PICK z \in Nat : z = w * x
    BY <1>2
  <2>2. z % 97 \in Nat /\ z \div 97 \in Nat /\ z = (z % 97) + 97 * (z \div 97)
    OBVIOUS
  <2> QED
    BY <2>1, <2>2
<1>5. p * w + s + 97 * (y * w) = r * q + (s + v * w) + 97 * (r * u)
  <2>1. p * w + 97 * (y * w) = (p + 97 * y) * w
    OBVIOUS
  <2>2. (r * x + v) * w = r * (w * x) + v * w
    OBVIOUS
  <2>3. r * (q + 97 * u) = r * q + 97 * (r * u)
    OBVIOUS
  <2>4. p * w + 97 * (y * w) = r * q + 97 * (r * u) + v * w
    BY <1>3, <1>4, <2>1, <2>2, <2>3
  <2>5. p * w \in Int /\ r * q \in Int /\ y * w \in Int /\ r * u \in Int
    OBVIOUS
  <2> QED
    BY <1>2, <2>4, <2>5
<1>6. /\ p * w + s \in Int /\ y * w \in Int
      /\ r * q + (s + v * w) \in Int /\ r * u \in Int
  OBVIOUS
<1>7. /\ (p * w + s) % 97 = (p * w + s + 97 * (y * w)) % 97
      /\ (r * q + (s + v * w)) % 97 = (r * q + (s + v * w) + 97 * (r * u)) % 97
  BY <1>1, <1>6
<1> QED
  BY <1>3, <1>4, <1>5, <1>7 DEF StepAgrees

\* The number the weights give.
Spelled(m, w) == Total(Len(m), [k \in 1..Len(m) |-> Value(m[Len(m) + 1 - k]) * w[k - 1]])

\* The remainder, taken character by character, is that of the number the weights give.
LEMMA RemaindersAgree ==
  ASSUME NEW m \in Seq(IbanBytes), Len(m) > 0, NEW rest, Rests(rest, m), NEW w, Weighs(w, m)
  PROVE  Spelled(m, w) % 97 = rest[Len(m)]
<1> DEFINE n == Len(m)
           term == [k \in 1..n |-> Value(m[n + 1 - k]) * w[k - 1]]
<1>1. n \in Nat /\ n > 0 /\ \A i \in 1..n : Value(m[i]) \in Nat /\ Shift(m[i]) \in {10, 100}
  BY IbanByteFacts
<1>2. /\ rest \in [0..n -> Nat] /\ rest[0] = 0
      /\ \A i \in 1..n : rest[i] = (rest[i - 1] * Shift(m[i]) + Value(m[i])) % 97
  BY DEF Rests
<1>3. /\ w \in [0..n -> Nat] /\ w[0] = 1
      /\ \A k \in 1..n : w[k] = (w[k - 1] * Shift(m[n + 1 - k])) % 97
  BY DEF Weighs
<1> HIDE DEF n
<1>4. term \in [1..n -> Nat]
  <2>1. ASSUME NEW k \in 1..n
        PROVE  Value(m[n + 1 - k]) * w[k - 1] \in Nat
    <3>1. n + 1 - k \in 1..n /\ k - 1 \in 0..n
      BY <1>1
    <3>2. Value(m[n + 1 - k]) \in Nat /\ w[k - 1] \in Nat
      BY <1>1, <1>3, <3>1
    <3> QED
      BY <3>2
  <2> QED
    BY <2>1
<1>5. PICK sum : Sums(sum, n, term)
  <2> HIDE DEF term
  <2> QED
    BY <1>1, <1>4, TotalRecursion
<1>6. /\ sum \in [0..n -> Nat] /\ sum[0] = 0 /\ Total(n, term) = sum[n]
      /\ \A k \in 1..n : sum[k] = sum[k - 1] + Value(m[n + 1 - k]) * w[k - 1]
  BY <1>5 DEF Sums
<1> DEFINE G == {k \in 0..n : (rest[n - k] * w[k] + sum[k]) % 97 = rest[n]}
<1>7. 0 \in G
  <2>1. rest[n] = (rest[n - 1] * Shift(m[n]) + Value(m[n])) % 97
    BY <1>1, <1>2
  <2>2. rest[n - 1] \in Nat /\ Value(m[n]) \in Nat /\ Shift(m[n]) \in {10, 100}
    <3>1. n - 1 \in 0..n /\ n \in 1..n
      BY <1>1
    <3> QED
      BY <1>1, <1>2, <3>1
  <2>3. PICK z \in Nat : z = rest[n - 1] * Shift(m[n]) + Value(m[n])
    BY <2>2
  <2>4. rest[n] \in Nat /\ rest[n] % 97 = rest[n]
    BY <2>1, <2>3
  <2>5. rest[n - 0] * w[0] + sum[0] = rest[n]
    <3>1. n - 0 = n /\ rest[n] * 1 + 0 = rest[n]
      BY <1>1, <2>4
    <3> QED
      BY <1>3, <1>6, <3>1
  <2> QED
    BY <1>1, <2>4, <2>5
<1>8. ASSUME NEW k \in 1..n, k - 1 \in G
      PROVE  k \in G
  <2>1. PICK i \in Int : i = n + 1 - k
    BY <1>1
  <2>9. i \in 1..n /\ n - (k - 1) = i /\ n - k = i - 1
    BY <1>1, <2>1
  <2>2. PICK r \in Nat, v \in Nat, s \in Nat, u \in Nat :
          r = rest[i - 1] /\ v = Value(m[i]) /\ s = sum[k - 1] /\ u = w[k - 1]
    <3>1. i - 1 \in 0..n /\ k - 1 \in 0..n
      BY <1>1, <2>9
    <3>2. rest \in [0..n -> Nat] /\ sum \in [0..n -> Nat] /\ w \in [0..n -> Nat]
      BY <1>2, <1>3, <1>6
    <3>3. rest[i - 1] \in Nat /\ Value(m[i]) \in Nat /\ sum[k - 1] \in Nat /\ w[k - 1] \in Nat
      BY <1>1, <2>9, <3>1, <3>2
    <3> QED
      BY <3>3
  <2>3. PICK x : x = Shift(m[i]) /\ x \in {10, 100}
    BY <1>1, <2>9
  <2>4. rest[i] = (r * x + v) % 97
    BY <1>2, <2>2, <2>3, <2>9
  <2>5. w[k] = (u * x) % 97 /\ sum[k] = s + v * u
    BY <1>3, <1>6, <2>1, <2>2, <2>3
  <2>6. (rest[i] * u + s) % 97 = rest[n]
    BY <1>8, <2>2, <2>9
  <2>7. (r * ((u * x) % 97) + (s + v * u)) % 97 = rest[n]
    <3>1. StepAgrees(r, v, u, s, x)
      <4>1. r \in Nat /\ v \in Nat /\ u \in Nat /\ s \in Nat
        BY <2>2
      <4>2. x = 10 \/ x = 100
        BY <2>3
      <4> QED
        BY <4>1, <4>2, RemainderStep
    <3> QED
      BY <2>4, <2>6, <3>1 DEF StepAgrees
  <2>8. (rest[n - k] * w[k] + sum[k]) % 97 = rest[n]
    BY <2>2, <2>5, <2>7, <2>9
  <2> QED
    BY <2>8
<1>9. n \in G
  <2>1. n \in Nat /\ \A k \in 1..n : k - 1 \in G => k \in G
    <3> HIDE DEF G
    <3> QED
      BY <1>1, <1>8
  <2> HIDE DEF G
  <2>2. \A k \in 0..n : k \in G
    BY <1>7, <2>1, SetInduction
  <2> QED
    BY <2>1, <2>2
<1>10. sum[n] % 97 = rest[n]
  <2>1. (rest[n - n] * w[n] + sum[n]) % 97 = rest[n]
    BY <1>9
  <2>2. rest[n - n] = 0 /\ w[n] \in Nat /\ sum[n] \in Nat
    <3>1. n - n = 0 /\ n \in 0..n
      BY <1>1
    <3> QED
      BY <1>2, <1>3, <1>6, <3>1
  <2>3. rest[n - n] * w[n] + sum[n] = sum[n]
    BY <2>2
  <2> QED
    BY <2>1, <2>3
<1> QED
  BY <1>6, <1>10 DEF n, Spelled

\* No registered country has a shorter IBAN.
LEMMA CountryLengths ==
  ASSUME NEW code, NEW n \in CountryLength(code)
  PROVE  n \in Nat /\ n >= 15
<1>1. \E entry \in Registry : n = entry[1]
  BY DEF CountryLength
<1>2. \A entry \in Registry : entry[1] \in Nat /\ entry[1] >= 15
  BY DEF Registry
<1> QED
  BY <1>1, <1>2

\* Apart from the disputed countries, country_length and the registry agree.
LEMMA LengthsAgree ==
  ASSUME NEW code, code \notin Disputed
  PROVE  CountryLength(code) = SwiftLength(code)
<1>1. ASSUME NEW entry \in Registry, code \in entry[2]
      PROVE  \E other \in Swift : other[1] = entry[1] /\ code \in other[2]
  BY <1>1 DEF Registry, Swift, Disputed
<1>2. ASSUME NEW entry \in Swift, code \in entry[2]
      PROVE  \E other \in Registry : other[1] = entry[1] /\ code \in other[2]
  BY <1>2 DEF Registry, Swift, Disputed
<1> QED
  BY <1>1, <1>2 DEF CountryLength, SwiftLength

LEMMA NoLowersInIbans ==
  Alphanumeric \ Lowers \subseteq IbanBytes
  BY DEF Alphanumeric, Alphabetic, IbanBytes

\* The characters, the first four moved to the end.
LEMMA MovedBytes ==
  ASSUME NEW c \in Seq(IbanBytes), Len(c) >= 15
  PROVE  /\ SubSeq(c, 5, Len(c)) \o SubSeq(c, 1, 4) \in Seq(IbanBytes)
         /\ Len(SubSeq(c, 5, Len(c)) \o SubSeq(c, 1, 4)) = Len(c)
<1>1. SubSeq(c, 5, Len(c)) \in Seq(IbanBytes) /\ Len(SubSeq(c, 5, Len(c))) = Len(c) - 4
  OBVIOUS
<1>2. SubSeq(c, 1, 4) \in Seq(IbanBytes) /\ Len(SubSeq(c, 1, 4)) = 4
  OBVIOUS
<1> QED
  BY <1>1, <1>2

\* The recursions of the validator and of the format.
RestsOf(m, n) ==
  LET rest[i \in 0..n] ==
        IF i = 0 THEN 0
        ELSE (rest[i - 1] * (IF m[i] \in Digits THEN 10 ELSE 100) + Value(m[i])) % 97
  IN  rest

WeightsOf(m, n) ==
  LET weight[k \in 0..n] ==
        IF k = 0 THEN 1
        ELSE (weight[k - 1] * (IF m[n + 1 - k] \in Digits THEN 10 ELSE 100)) % 97
  IN  weight

LEMMA RestsFacts ==
  ASSUME NEW m \in Seq(IbanBytes), NEW n \in Nat, n = Len(m)
  PROVE  Rests(RestsOf(m, n), m)
<1> DEFINE step == [p \in (1..n) \X Nat |-> (p[2] * Shift(m[p[1]]) + Value(m[p[1]])) % 97]
           Meets(f) == f = [i \in 0..n |->
                              IF i = 0 THEN 0
                              ELSE (f[i - 1] * (IF m[i] \in Digits THEN 10 ELSE 100) + Value(m[i])) % 97]
           zero == 0
           rest == CHOOSE f : Meets(f)
<1>1. n \in Nat /\ \A i \in 1..n : Value(m[i]) \in Nat /\ Shift(m[i]) \in {10, 100}
  BY IbanByteFacts
<1>2. \A i \in 1..n, v \in Nat : step[<<i, v>>] = (v * Shift(m[i]) + Value(m[i])) % 97
  OBVIOUS
<1>3. \A i \in 1..n : \A v \in Nat : step[<<i, v>>] \in Nat
  <2> HIDE DEF step
  <2> SUFFICES ASSUME NEW i \in 1..n, NEW v \in Nat
               PROVE  step[<<i, v>>] \in Nat
    OBVIOUS
  <2>1. PICK z \in Nat : z = v * Shift(m[i]) + Value(m[i])
    BY <1>1
  <2>2. step[<<i, v>>] = z % 97
    BY <1>2, <2>1
  <2> QED
    BY <2>1, <2>2
<1>4. zero \in Nat /\ Steps(step, n, Nat)
  <2> HIDE DEF step
  <2> QED
    BY <1>3 DEF Steps
<1>5. PICK f : Recurs(f, n, Nat, zero, step)
  <2> HIDE DEF step, zero
  <2> QED
    BY <1>4, Recursion
<1>6. /\ f = [i \in 0..n |-> f[i]] /\ f[0] = 0
      /\ \A i \in 1..n : f[i] = (f[i - 1] * Shift(m[i]) + Value(m[i])) % 97
  <2> HIDE DEF step
  <2>1. f = [i \in 0..n |-> f[i]] /\ f[0] = 0
    BY <1>5 DEF Recurs
  <2>2. ASSUME NEW i \in 1..n
        PROVE  f[i] = (f[i - 1] * Shift(m[i]) + Value(m[i])) % 97
    <3>1. i - 1 \in 0..n
      BY <2>2
    <3>2. PICK v \in Nat : v = f[i - 1]
      BY <1>5, <3>1 DEF Recurs
    <3>3. f[i] = step[<<i, v>>]
      BY <1>5, <3>2 DEF Recurs
    <3>4. step[<<i, v>>] = (v * Shift(m[i]) + Value(m[i])) % 97
      BY <1>2
    <3> QED
      BY <3>2, <3>3, <3>4
  <2> QED
    BY <2>1, <2>2
<1>7. Meets(f)
  <2>1. \A i \in 0..n : f[i] = IF i = 0 THEN 0
                               ELSE (f[i - 1] * Shift(m[i]) + Value(m[i])) % 97
    <3>1. \A i \in 0..n : i # 0 => i \in 1..n
      OBVIOUS
    <3> QED
      BY <1>6, <3>1
  <2> QED
    BY <1>6, <2>1 DEF Shift
<1>8. Meets(rest)
  <2> HIDE DEF Meets
  <2> QED
    BY <1>7
<1> HIDE DEF rest
<1>9. /\ rest = [i \in 0..n |-> rest[i]] /\ rest[0] = zero
      /\ \A i \in 1..n : rest[i] = (rest[i - 1] * Shift(m[i]) + Value(m[i])) % 97
  <2>1. 0 \in 0..n /\ \A i \in 1..n : i \in 0..n /\ i # 0
    OBVIOUS
  <2>2. rest = [i \in 0..n |->
                  IF i = 0 THEN 0 ELSE (rest[i - 1] * Shift(m[i]) + Value(m[i])) % 97]
    BY <1>8 DEF Shift
  <2>3. rest = [i \in 0..n |-> rest[i]]
    BY <2>2
  <2>4. \A i \in 0..n : rest[i] = IF i = 0 THEN 0
                                  ELSE (rest[i - 1] * Shift(m[i]) + Value(m[i])) % 97
    BY <2>2
  <2> QED
    BY <2>1, <2>3, <2>4
<1>10. Recurs(rest, n, Nat, zero, step)
  <2>1. \A i \in 1..n : rest[i - 1] \in Nat => rest[i] = step[<<i, rest[i - 1]>>]
    BY <1>2, <1>9
  <2> HIDE DEF step, zero
  <2> QED
    BY <1>4, <1>9, <2>1, RecursionIsMet
<1>11. Rests(rest, m)
  BY <1>9, <1>10 DEF Recurs, Rests
<1> QED
  BY <1>11 DEF rest, RestsOf

LEMMA WeightsFacts ==
  ASSUME NEW m \in Seq(IbanBytes), NEW n \in Nat, n = Len(m)
  PROVE  Weighs(WeightsOf(m, n), m)
<1> DEFINE step == [p \in (1..n) \X Nat |-> (p[2] * Shift(m[n + 1 - p[1]])) % 97]
           Meets(f) == f = [i \in 0..n |->
                              IF i = 0 THEN 1
                              ELSE (f[i - 1] * (IF m[n + 1 - i] \in Digits THEN 10 ELSE 100)) % 97]
           one == 1
           weight == CHOOSE f : Meets(f)
<1>1. n \in Nat /\ \A i \in 1..n : Shift(m[n + 1 - i]) \in {10, 100}
  <2>1. \A i \in 1..n : n + 1 - i \in 1..n
    OBVIOUS
  <2> QED
    BY <2>1, IbanByteFacts
<1>2. \A i \in 1..n, v \in Nat : step[<<i, v>>] = (v * Shift(m[n + 1 - i])) % 97
  OBVIOUS
<1>3. \A i \in 1..n : \A v \in Nat : step[<<i, v>>] \in Nat
  <2> HIDE DEF step
  <2> SUFFICES ASSUME NEW i \in 1..n, NEW v \in Nat
               PROVE  step[<<i, v>>] \in Nat
    OBVIOUS
  <2>1. PICK z \in Nat : z = v * Shift(m[n + 1 - i])
    BY <1>1
  <2>2. step[<<i, v>>] = z % 97
    BY <1>2, <2>1
  <2> QED
    BY <2>1, <2>2
<1>4. one \in Nat /\ Steps(step, n, Nat)
  <2> HIDE DEF step
  <2> QED
    BY <1>3 DEF Steps
<1>5. PICK f : Recurs(f, n, Nat, one, step)
  <2> HIDE DEF step, one
  <2> QED
    BY <1>4, Recursion
<1>6. /\ f = [i \in 0..n |-> f[i]] /\ f[0] = 1
      /\ \A i \in 1..n : f[i] = (f[i - 1] * Shift(m[n + 1 - i])) % 97
  <2> HIDE DEF step
  <2>1. f = [i \in 0..n |-> f[i]] /\ f[0] = 1
    BY <1>5 DEF Recurs
  <2>2. ASSUME NEW i \in 1..n
        PROVE  f[i] = (f[i - 1] * Shift(m[n + 1 - i])) % 97
    <3>1. i - 1 \in 0..n
      BY <2>2
    <3>2. PICK v \in Nat : v = f[i - 1]
      BY <1>5, <3>1 DEF Recurs
    <3>3. f[i] = step[<<i, v>>]
      BY <1>5, <3>2 DEF Recurs
    <3>4. step[<<i, v>>] = (v * Shift(m[n + 1 - i])) % 97
      BY <1>2
    <3> QED
      BY <3>2, <3>3, <3>4
  <2> QED
    BY <2>1, <2>2
<1>7. Meets(f)
  <2>1. \A i \in 0..n : f[i] = IF i = 0 THEN 1
                               ELSE (f[i - 1] * Shift(m[n + 1 - i])) % 97
    <3>1. \A i \in 0..n : i # 0 => i \in 1..n
      OBVIOUS
    <3> QED
      BY <1>6, <3>1
  <2> QED
    BY <1>6, <2>1 DEF Shift
<1>8. Meets(weight)
  <2> HIDE DEF Meets
  <2> QED
    BY <1>7
<1> HIDE DEF weight
<1>9. /\ weight = [i \in 0..n |-> weight[i]] /\ weight[0] = one
      /\ \A i \in 1..n : weight[i] = (weight[i - 1] * Shift(m[n + 1 - i])) % 97
  <2>1. 0 \in 0..n /\ \A i \in 1..n : i \in 0..n /\ i # 0
    OBVIOUS
  <2>2. weight = [i \in 0..n |->
                  IF i = 0 THEN 1 ELSE (weight[i - 1] * Shift(m[n + 1 - i])) % 97]
    BY <1>8 DEF Shift
  <2>3. weight = [i \in 0..n |-> weight[i]]
    BY <2>2
  <2>4. \A i \in 0..n : weight[i] = IF i = 0 THEN 1
                                  ELSE (weight[i - 1] * Shift(m[n + 1 - i])) % 97
    BY <2>2
  <2> QED
    BY <2>1, <2>3, <2>4
<1>10. Recurs(weight, n, Nat, one, step)
  <2>1. \A i \in 1..n : weight[i - 1] \in Nat => weight[i] = step[<<i, weight[i - 1]>>]
    BY <1>2, <1>9
  <2> HIDE DEF step, one
  <2> QED
    BY <1>4, <1>9, <2>1, RecursionIsMet
<1>11. Weighs(weight, m)
  BY <1>9, <1>10 DEF Recurs, Weighs
<1> QED
  BY <1>11 DEF weight, WeightsOf

\* Both recursions give the same remainder.
LEMMA IbanValidatorIsExact ==
  ASSUME NEW s \in Texts, Len(Kept(s, Alphanumeric)) >= 15
  PROVE  IbanIsValid(s) <=> /\ ToSet(Kept(s, Alphanumeric)) \cap Lowers = {}
                            /\ Mod97(Kept(s, Alphanumeric)) = 1
<1> DEFINE compact == Kept(s, Alphanumeric)
           n == Len(compact)
           moved == SubSeq(compact, 5, n) \o SubSeq(compact, 1, 4)
           term == [k \in 1..n |-> Value(moved[n + 1 - k]) * WeightsOf(moved, n)[k - 1]]
<1>1. IbanIsValid(s) <=> n >= 15 /\ ToSet(compact) \cap Lowers = {} /\ RestsOf(moved, n)[n] = 1
  BY DEF IbanIsValid, RestsOf
<1>2. Mod97(compact) = Total(n, term) % 97
  BY DEF Mod97, WeightsOf
<1>3. compact \in Seq(Alphanumeric)
  BY KeptFacts
<1>4. SUFFICES ASSUME ToSet(compact) \cap Lowers = {}
               PROVE  RestsOf(moved, n)[n] = Total(n, term) % 97
  BY <1>1, <1>2
<1> HIDE DEF compact
<1>5. compact \in Seq(IbanBytes)
  <2>1. n \in Nat /\ DOMAIN compact = 1..n /\ compact = [i \in 1..n |-> compact[i]]
    BY <1>3
  <2>2. \A i \in 1..n : compact[i] \in IbanBytes
    <3>1. \A i \in 1..n : compact[i] \in Alphanumeric /\ compact[i] \in ToSet(compact)
      BY <1>3, <2>1, ElementOfSeq DEF ToSet
    <3> QED
      BY <1>4, <3>1, NoLowersInIbans
  <2> HIDE DEF n
  <2> QED
    BY <2>1, <2>2
<1>6. n \in Nat /\ n >= 15 /\ moved \in Seq(IbanBytes) /\ Len(moved) = n
  BY <1>5, MovedBytes DEF compact
<1> HIDE DEF n, moved
<1>7. Rests(RestsOf(moved, n), moved) /\ Weighs(WeightsOf(moved, n), moved)
  BY <1>6, RestsFacts, WeightsFacts
<1> DEFINE w == WeightsOf(moved, n)
           r == RestsOf(moved, n)
<1>8. Spelled(moved, w) % 97 = r[Len(moved)]
  <2> HIDE DEF w, r
  <2> QED
    BY <1>6, <1>7, RemaindersAgree DEF w, r
<1>9. Spelled(moved, w) = Total(n, term)
  BY <1>6 DEF Spelled
<1> QED
  BY <1>6, <1>8, <1>9

LEMMA CountedAtMost ==
  ASSUME NEW t, NEW i \in Nat, NEW j \in Nat, i <= j, NEW bytes
  PROVE  Counted(t, i, j, bytes) <= j - i + 1
<1> DEFINE C == {k \in i..j : t[k] \in bytes}
<1>1. IsFiniteSet(i..j) /\ Cardinality(i..j) = j - i + 1 /\ C \in SUBSET (i..j)
  BY FS_Interval
<1> HIDE DEF C
<1>2. Cardinality(C) <= Cardinality(i..j)
  BY <1>1, FS_Subset
<1> QED
  BY <1>1, <1>2 DEF Counted, C

LEMMA UppersAndDigits ==
  Uppers \subseteq Alphanumeric /\ Digits \subseteq Alphanumeric /\ Alphanumeric \cap CardMarks = {}
<1>1. Uppers \subseteq Alphanumeric /\ Digits \subseteq Alphanumeric
  BY DEF Alphanumeric, Alphabetic
<1>2. Alphanumeric \cap CardMarks = {}
  <2>1. Digits \cap CardMarks = {}
    BY DigitsAndCardMarks
  <2>2. Lowers \cap CardMarks = {}
    BY DEF Lowers, CardMarks
  <2>3. Uppers \cap CardMarks = {}
    <3>1. Uppers = {Letters[i] : i \in 1..26}
      <4>1. DOMAIN Letters = 1..26
        BY DEF Letters
      <4> QED
        BY <4>1 DEF Uppers, ToSet
    <3>2. \A l : l \in {Letters[i] : i \in 1..26}
                 => l \in {"A", "B", "C", "D", "E", "F", "G", "H", "I", "J", "K", "L", "M",
                          "N", "O", "P", "Q", "R", "S", "T", "U", "V", "W", "X", "Y", "Z"}
      BY DEF Letters
    <3>3. {"A", "B", "C", "D", "E", "F", "G", "H", "I", "J", "K", "L", "M", "N", "O", "P", "Q",
           "R", "S", "T", "U", "V", "W", "X", "Y", "Z"} \cap {" ", "-"} = {}
      OBVIOUS
    <3> QED
      BY <3>1, <3>2, <3>3 DEF CardMarks
  <2> QED
    BY <2>1, <2>2, <2>3 DEF Alphanumeric, Alphabetic
<1> QED
  BY <1>1, <1>2

\* An IBAN, byte by byte.
IbanShape(t, a, b) ==
  /\ a + 4 <= b /\ t[a] \in Uppers /\ t[a + 1] \in Uppers /\ t[a + 2] \in Digits /\ t[a + 3] \in Digits
  /\ GroupedFrom(t, a, b, Alphanumeric, CardMarks)
  /\ Counted(t, a, b, Alphanumeric) \in CountryLength(t[a] \o t[a + 1])
  /\ IbanIsValid(SubSeq(t, a, b))

LEMMA IbanFormat ==
  ASSUME NEW t \in Texts, NEW a \in Nat, NEW b \in Nat, 1 <= a, a <= b, b <= Len(t),
         SubSeq(t, a, b)[1] \o SubSeq(t, a, b)[2] \notin Disputed
  PROVE  IsIban(SubSeq(t, a, b)) <=> IbanShape(t, a, b)
<1> DEFINE p == SubSeq(t, a, b)
           compact == Kept(p, Alphanumeric)
<1>1. p \in Texts /\ Len(p) = b - a + 1 /\ \A i \in 1..(b - a + 1) : p[i] = t[a + i - 1]
  BY BytesOfPart DEF Texts
<1>2. Len(compact) = Counted(t, a, b, Alphanumeric)
  BY KeptOfPart
<1>3. Grouped(p, Alphanumeric, CardMarks) <=> GroupedFrom(t, a, b, Alphanumeric, CardMarks)
  BY GroupedAgrees, UppersAndDigits
<1> HIDE DEF p
<1>4. Len(p) > 4 <=> a + 4 <= b
  BY <1>1
<1>5. ASSUME a + 4 <= b
      PROVE  p[1] = t[a] /\ p[2] = t[a + 1] /\ p[3] = t[a + 2] /\ p[4] = t[a + 3]
  <2>1. /\ 1 \in 1..(b - a + 1) /\ 2 \in 1..(b - a + 1) /\ 3 \in 1..(b - a + 1)
        /\ 4 \in 1..(b - a + 1)
        /\ a + 1 - 1 = a /\ a + 2 - 1 = a + 1 /\ a + 3 - 1 = a + 2 /\ a + 4 - 1 = a + 3
    BY <1>5
  <2>2. p[1] = t[a + 1 - 1] /\ p[2] = t[a + 2 - 1] /\ p[3] = t[a + 3 - 1] /\ p[4] = t[a + 4 - 1]
    BY <1>1, <2>1
  <2> QED
    BY <2>1, <2>2
<1> DEFINE count == Counted(t, a, b, Alphanumeric)
<1>6. ASSUME NEW code, count \in CountryLength(code)
      PROVE  IbanIsValid(p) <=> ToSet(compact) \cap Lowers = {} /\ Mod97(compact) = 1
  <2>1. Len(compact) >= 15
    BY <1>2, <1>6, CountryLengths
  <2> QED
    BY <1>1, <2>1, IbanValidatorIsExact
<1>7. IsIban(p) <=> /\ Len(p) > 4 /\ {p[1], p[2]} \subseteq Uppers /\ {p[3], p[4]} \subseteq Digits
                    /\ Grouped(p, Alphanumeric, CardMarks)
                    /\ Len(compact) \in CountryLength(p[1] \o p[2])
                    /\ ToSet(compact) \cap Lowers = {}
                    /\ Mod97(compact) = 1
  <2>1. CountryLength(p[1] \o p[2]) = SwiftLength(p[1] \o p[2])
    BY LengthsAgree DEF p
  <2> QED
    BY <2>1 DEF IsIban, CardMarks
<1> HIDE DEF compact, count
<1>8. IsIban(p) <=> /\ a + 4 <= b /\ t[a] \in Uppers /\ t[a + 1] \in Uppers
                    /\ t[a + 2] \in Digits /\ t[a + 3] \in Digits
                    /\ GroupedFrom(t, a, b, Alphanumeric, CardMarks)
                    /\ count \in CountryLength(t[a] \o t[a + 1])
                    /\ ToSet(compact) \cap Lowers = {}
                    /\ Mod97(compact) = 1
  BY <1>2, <1>3, <1>4, <1>5, <1>7 DEF count
<1> QED
  BY <1>6, <1>8 DEF IbanShape, count, p

LEMMA CountedFromThird ==
  ASSUME NEW t, NEW a \in Nat, NEW b \in Nat, a + 1 <= b, t[a] \in Uppers, t[a + 1] \in Uppers
  PROVE  Counted(t, a, b, Alphanumeric) = 2 + Counted(t, a + 2, b, Alphanumeric)
<1>1. t[a] \in Alphanumeric /\ t[a + 1] \in Alphanumeric
  BY UppersAndDigits
<1>2. Counted(t, a, b, Alphanumeric) = Counted(t, a + 1, b, Alphanumeric) + 1
  BY <1>1, CountedFirst
<1>3. Counted(t, a + 1, b, Alphanumeric) = Counted(t, a + 2, b, Alphanumeric) + 1
  <2>1. PICK c \in Nat : c = a + 1 /\ c + 1 = a + 2 /\ c <= b
    <3>1. a + 1 \in Nat /\ a + 1 + 1 = a + 2
      OBVIOUS
    <3> QED
      BY <3>1
  <2>2. Counted(t, c, b, Alphanumeric) = Counted(t, c + 1, b, Alphanumeric) + 1
    BY <1>1, <2>1, CountedFirst
  <2> QED
    BY <2>1, <2>2
<1>4. Counted(t, a + 2, b, Alphanumeric) \in Nat
  <2>1. a + 2 \in Nat
    OBVIOUS
  <2> QED
    BY <2>1, CountedNat
<1> QED
  BY <1>2, <1>3, <1>4

\* What is reported as an IBAN is one, unless its country is disputed.
LEMMA IbansAreGenuine ==
  ASSUME NEW t \in Texts, NEW s \in ScanIbans(t)
  PROVE  LET part == SubSeq(t, s[1], s[2])
         IN  IsIban(part) \/ part[1] \o part[2] \in Disputed
<1>1. PICK n \in Nat : n = Len(t) /\ DOMAIN t = 1..n
  BY TextFacts
<1>2. PICK a \in 1..(Len(t) - 1) :
        /\ t[a] \in Uppers /\ t[a + 1] \in Uppers
        /\ \E m \in CountryLength(t[a] \o t[a + 1]) : s \in IbanCandidate(t, a, m)
  BY DEF ScanIbans
<1>3. PICK m \in CountryLength(t[a] \o t[a + 1]) : s \in IbanCandidate(t, a, m)
  BY <1>2
<1> DEFINE stop == IbanStop(t, a, m)
<1>4. /\ At(t, a + 2, Digits) /\ At(t, a + 3, Digits)
      /\ 2 + Counted(t, a + 2, stop - 1, Alphanumeric) = m
      /\ ~At(t, stop, Alphanumeric)
      /\ IbanIsValid(SubSeq(t, a, stop - 1)) /\ s = <<a, stop - 1>>
  BY <1>3, IbanCandidateIs
<1>5. /\ stop \in (a + 2)..(Len(t) + 1)
      /\ \A k \in (a + 2)..(stop - 1) : IbanGoes(t, a, m, k)
  BY IbanStopFacts
<1> HIDE DEF stop
<1>6. PICK b \in Nat : b = stop - 1 /\ b + 1 = stop /\ a + 1 <= b /\ b <= n /\ a \in Nat /\ 1 <= a
  <2>1. /\ stop - 1 \in Nat /\ stop - 1 + 1 = stop /\ a + 1 <= stop - 1 /\ stop - 1 <= n
        /\ a \in Nat /\ 1 <= a
    BY <1>1, <1>5
  <2> QED
    BY <2>1
<1>7. Counted(t, a, b, Alphanumeric) = m
  BY <1>2, <1>4, <1>6, CountedFromThird
<1>8. a + 4 <= b
  <2>1. m \in Nat /\ m >= 15
    BY <1>3, CountryLengths
  <2>2. Counted(t, a, b, Alphanumeric) <= b - a + 1
    BY <1>6, CountedAtMost
  <2> QED
    BY <1>6, <1>7, <2>1, <2>2
<1>9. t[a + 2] \in Digits /\ t[a + 3] \in Digits
  BY <1>4 DEF At
<1>10. ASSUME NEW k \in a..b, t[k] \notin Alphanumeric
       PROVE  t[k] \in CardMarks /\ k > a /\ t[k - 1] \in Alphanumeric /\ At(t, k + 1, Alphanumeric)
  <2>1. k # a /\ k # a + 1 /\ k # a + 2 /\ k # a + 3
    BY <1>2, <1>9, <1>10, UppersAndDigits
  <2>2. k \in (a + 2)..b /\ k > a /\ k - 1 \in (a + 2)..b /\ k - 1 + 1 = k
    BY <1>6, <2>1
  <2>3. At(t, k, CardMarks) /\ At(t, k + 1, Alphanumeric)
    BY <1>5, <1>6, <1>10, <2>2 DEF IbanGoes, At, CardMarks
  <2>4. At(t, k - 1, Alphanumeric) \/ At(t, k, Alphanumeric)
    BY <1>5, <1>6, <2>2 DEF IbanGoes
  <2> QED
    BY <1>10, <2>2, <2>3, <2>4 DEF At
<1>11. GroupedFrom(t, a, b, Alphanumeric, CardMarks)
  <2>1. t[a] \in Alphanumeric
    BY <1>2, UppersAndDigits
  <2>2. t[b] \in Alphanumeric
    <3>1. b \in a..b /\ ~At(t, b + 1, Alphanumeric)
      BY <1>4, <1>6
    <3> QED
      BY <1>10, <3>1
  <2> QED
    BY <1>10, <2>1, <2>2 DEF GroupedFrom
<1>12. IbanShape(t, a, b)
  BY <1>2, <1>3, <1>4, <1>6, <1>7, <1>8, <1>9, <1>11 DEF IbanShape
<1>13. IsIban(SubSeq(t, a, b)) \/ SubSeq(t, a, b)[1] \o SubSeq(t, a, b)[2] \in Disputed
  <2>1. a <= b /\ b <= Len(t)
    BY <1>1, <1>6
  <2> QED
    BY <1>6, <1>12, <2>1, IbanFormat
<1> QED
  BY <1>4, <1>6, <1>13

\* The loop over the characters of an IBAN stops right behind the last.
LEMMA IbanLoopEnds ==
  ASSUME NEW t \in Texts, NEW a \in Nat, NEW b \in Nat, 1 <= a, b <= Len(t), IbanShape(t, a, b)
  PROVE  IbanStop(t, a, Counted(t, a, b, Alphanumeric)) = b + 1
<1> DEFINE length == Counted(t, a, b, Alphanumeric)
           stop == IbanStop(t, a, length)
           C(k) == Counted(t, a + 2, k, Alphanumeric)
<1>1. PICK n \in Nat : n = Len(t) /\ DOMAIN t = 1..n
  BY TextFacts
<1>2. /\ a + 4 <= b /\ t[a] \in Uppers /\ t[a + 1] \in Uppers
      /\ t[a + 2] \in Alphanumeric /\ t[a + 3] \in Alphanumeric
  BY UppersAndDigits DEF IbanShape
<1>3. /\ t[b] \in Alphanumeric
      /\ \A k \in a..b : t[k] \in Alphanumeric \/ (t[k] \in CardMarks /\ t[k - 1] \in Alphanumeric)
  BY DEF IbanShape, GroupedFrom
<1>4. length = 2 + C(b)
  <2>1. a + 1 <= b
    BY <1>2
  <2> QED
    BY <1>2, <2>1, CountedFromThird
<1>5. \A k \in Nat : C(k) \in Nat
  <2>1. a + 2 \in Nat
    OBVIOUS
  <2> QED
    BY <2>1, CountedNat
<1>6. \A k \in Nat : k >= a + 2 =>
        /\ t[k] \in Alphanumeric => C(k) = C(k - 1) + 1
        /\ t[k] \notin Alphanumeric => C(k) = C(k - 1)
  <2>1. a + 2 \in Nat
    OBVIOUS
  <2> QED
    BY <2>1, CountedStep
<1>7. \A j \in Nat, k \in Nat : j <= k => C(j) <= C(k)
  <2>1. a + 2 \in Nat
    OBVIOUS
  <2> QED
    BY <2>1, CountedGrows
<1>8. /\ stop \in (a + 2)..(n + 1) /\ ~IbanGoes(t, a, length, stop)
      /\ \A k \in (a + 2)..(stop - 1) : IbanGoes(t, a, length, k)
  <2>1. a \in 1..(Len(t) - 1)
    BY <1>1, <1>2
  <2> HIDE DEF length
  <2> QED
    BY <1>1, <2>1, IbanStopFacts
<1>9. \A k : IbanGoes(t, a, length, k)
                <=> /\ 2 + C(k - 1) < length
                    /\ \/ At(t, k, Alphanumeric)
                       \/ 2 + C(k - 1) > 2 /\ At(t, k, CardMarks) /\ At(t, k + 1, Alphanumeric)
  BY DEF IbanGoes, CardMarks
<1>10. ASSUME NEW k \in (a + 2)..b
      PROVE  IbanGoes(t, a, length, k)
  <2>1. IbanGoes(t, a, length, k)
          <=> /\ 2 + C(k - 1) < length
              /\ \/ At(t, k, Alphanumeric)
                 \/ 2 + C(k - 1) > 2 /\ At(t, k, CardMarks) /\ At(t, k + 1, Alphanumeric)
    BY <1>9
  <2> HIDE DEF C, length
  <2>2. k \in Nat /\ k - 1 \in Nat /\ k >= a + 2 /\ k <= b /\ k \in DOMAIN t /\ k \in a..b
    <3>1. k \in Nat /\ k - 1 \in Nat /\ k >= a + 2 /\ k <= b /\ k \in 1..n /\ k \in a..b
      BY <1>1
    <3> QED
      BY <1>1, <3>1
  <2>3. CASE t[k] \in Alphanumeric
    <3>1. C(k) = C(k - 1) + 1 /\ C(k) <= C(b) /\ C(k - 1) \in Nat /\ C(b) \in Nat
      BY <1>5, <1>6, <1>7, <2>2, <2>3
    <3>2. At(t, k, Alphanumeric)
      BY <2>2, <2>3 DEF At
    <3>3. 2 + C(k - 1) < length
      BY <1>4, <3>1
    <3> QED
      BY <2>1, <3>2, <3>3
  <2>4. CASE t[k] \notin Alphanumeric
    <3>1. k # b /\ k # a + 2 /\ t[k] \in CardMarks
      BY <1>2, <1>3, <2>2, <2>4
    <3>2. /\ k < b /\ k > a + 2 /\ k + 1 \in a..b /\ k + 1 \in Nat /\ k + 1 - 1 = k /\ k + 1 <= b
          /\ k + 1 >= a + 2 /\ a + 2 <= k - 1 /\ a + 2 \in Nat /\ k + 1 \in 1..n
      BY <1>1, <2>2, <3>1
    <3>3. t[k + 1] \in Alphanumeric
      <4>1. t[k + 1] \in Alphanumeric \/ t[k + 1 - 1] \in Alphanumeric
        BY <1>3, <3>2
      <4> QED
        BY <2>4, <3>2, <4>1
    <3>4. C(k) = C(k - 1) /\ C(k + 1) = C(k + 1 - 1) + 1 /\ C(k + 1) <= C(b)
      BY <1>6, <1>7, <2>2, <2>4, <3>2, <3>3
    <3>5. C(a + 2) = C(a + 2 - 1) + 1 /\ C(a + 2) <= C(k - 1)
      <4>1. a + 2 >= a + 2
        OBVIOUS
      <4> QED
        BY <1>2, <1>6, <1>7, <2>2, <3>2, <4>1
    <3>6. C(k - 1) \in Nat /\ C(b) \in Nat /\ C(a + 2 - 1) \in Nat
      <4>1. a + 2 - 1 \in Nat
        OBVIOUS
      <4> QED
        BY <1>5, <2>2, <4>1
    <3>7. C(k + 1) = C(k) + 1
      BY <3>2, <3>4
    <3>8. 2 + C(k - 1) < length /\ 2 + C(k - 1) > 2
      <4> HIDE DEF C
      <4>1. C(k - 1) + 1 <= C(b) /\ C(a + 2 - 1) + 1 <= C(k - 1)
        BY <3>4, <3>5, <3>7
      <4> QED
        BY <1>4, <3>6, <4>1
    <3>9. At(t, k, CardMarks) /\ At(t, k + 1, Alphanumeric)
      BY <1>1, <2>2, <3>1, <3>2, <3>3 DEF At
    <3> QED
      BY <2>1, <3>8, <3>9
  <2> QED
    BY <2>3, <2>4
<1>11. ~IbanGoes(t, a, length, b + 1)
  <2>1. b + 1 - 1 = b
    OBVIOUS
  <2>2. ~(2 + C(b) < length)
    <3> HIDE DEF C, length
    <3> QED
      BY <1>4, <1>5
  <2>3. IbanGoes(t, a, length, b + 1) => 2 + C(b + 1 - 1) < length
    BY <1>9
  <2> HIDE DEF C, length
  <2> QED
    BY <2>1, <2>2, <2>3
<1> HIDE DEF stop, length, C
<1>12. ~(stop <= b)
  <2>1. stop <= b => stop \in (a + 2)..b
    BY <1>8
  <2> QED
    BY <1>8, <1>10, <2>1
<1>13. ~(stop > b + 1)
  <2>1. stop > b + 1 => b + 1 \in (a + 2)..(stop - 1)
    BY <1>2, <1>8
  <2> QED
    BY <1>8, <1>11, <2>1
<1>14. stop = b + 1
  BY <1>8, <1>12, <1>13
<1> QED
  BY <1>14 DEF stop, length

\* And every IBAN that stands alone is reported.
LEMMA NoIbanIsMissed ==
  ASSUME NEW t \in Texts, NEW a \in DOMAIN t, NEW b \in DOMAIN t, IbanShape(t, a, b),
         ~At(t, a - 1, Alphanumeric), ~At(t, b + 1, Alphanumeric)
  PROVE  <<a, b>> \in ScanIbans(t)
<1> DEFINE length == Counted(t, a, b, Alphanumeric)
           stop == IbanStop(t, a, length)
<1>1. PICK n \in Nat : n = Len(t) /\ DOMAIN t = 1..n
  BY TextFacts
<1>2. a \in Nat /\ b \in Nat /\ 1 <= a /\ b <= Len(t)
  BY <1>1
<1>3. stop = b + 1 /\ stop - 1 = b
  BY <1>2, IbanLoopEnds
<1>4. /\ a + 4 <= b /\ t[a] \in Uppers /\ t[a + 1] \in Uppers /\ t[a + 2] \in Digits /\ t[a + 3] \in Digits
      /\ length \in CountryLength(t[a] \o t[a + 1])
      /\ IbanIsValid(SubSeq(t, a, b))
  BY DEF IbanShape
<1>5. 2 + Counted(t, a + 2, stop - 1, Alphanumeric) = length
  <2>1. a + 1 <= b
    BY <1>2, <1>4
  <2> HIDE DEF stop
  <2> QED
    BY <1>2, <1>3, <1>4, <2>1, CountedFromThird
<1>6. At(t, a + 2, Digits) /\ At(t, a + 3, Digits) /\ a \in 1..(Len(t) - 1)
  <2>1. a + 2 \in 1..n /\ a + 3 \in 1..n /\ a \in 1..(n - 1)
    BY <1>1, <1>2, <1>4
  <2> QED
    BY <1>1, <1>4, <2>1 DEF At
<1> HIDE DEF stop, length
<1>7. <<a, b>> \in IbanCandidate(t, a, length)
  <2>1. /\ 2 + Counted(t, a + 2, IbanStop(t, a, length) - 1, Alphanumeric) = length
        /\ IbanStop(t, a, length) = b + 1 /\ IbanStop(t, a, length) - 1 = b
    BY <1>3, <1>5 DEF stop
  <2> QED
    BY <1>4, <1>6, <2>1, IbanCandidateIs
<1> QED
  BY <1>4, <1>6, <1>7 DEF ScanIbans

\* The span as two places.
LEMMA SpanPlaces ==
  ASSUME TextInv, NEW span \in Spans
  PROVE  /\ text \in Texts /\ span = <<span[1], span[2]>>
         /\ span[1] \in DOMAIN text /\ span[2] \in DOMAIN text /\ span[1] <= span[2]
         /\ span[1] \in Nat /\ span[2] \in Nat /\ 1 <= span[1] /\ span[2] <= Len(text)
<1>1. text \in Texts /\ span \in (DOMAIN text) \X (DOMAIN text) /\ span[1] <= span[2]
  BY DEF TextInv, Spans
<1>2. Len(text) \in Nat /\ DOMAIN text = 1..Len(text)
  BY <1>1, TextFacts
<1> QED
  BY <1>1, <1>2

LEMMA IbansAreAllFound ==
  ASSUME TextInv, detector = "iban", NEW span \in Spans, IsIban(Part(span)), Alone(span),
         ~InDispute(Part(span))
  PROVE  span \in ScanIbans(text)
<1> DEFINE a == span[1]
           b == span[2]
<1>1. ~At(text, a - 1, Alphanumeric) /\ ~At(text, b + 1, Alphanumeric)
  BY DEF Alone, Glue
<1>2. /\ IsIban(SubSeq(text, a, b))
      /\ SubSeq(text, a, b)[1] \o SubSeq(text, a, b)[2] \notin Disputed
  BY DEF Part, InDispute
<1>3. /\ text \in Texts /\ span = <<a, b>>
      /\ a \in DOMAIN text /\ b \in DOMAIN text /\ a <= b
      /\ a \in Nat /\ b \in Nat /\ 1 <= a /\ b <= Len(text)
  BY SpanPlaces
<1> HIDE DEF a, b
<1>4. IbanShape(text, a, b)
  BY <1>2, <1>3, IbanFormat
<1> QED
  BY <1>1, <1>3, <1>4, NoIbanIsMissed

---------------------------------------------------------------------------
(* E-mail addresses, and the five detectors together *)

\* The e-mail detector's reports are addresses, and every address that stands apart is one.
LEMMA EmailsAreGenuine ==
  ASSUME NEW t \in Texts, NEW s \in ScanEmails(t)
  PROVE  IsEmail(SubSeq(t, s[1], s[2]))
<1>1. s \in (DOMAIN t) \X (DOMAIN t) /\ s[1] <= s[2]
  BY EmailsStandAlone
<1>2. EmailIsValid(SubSeq(t, s[1], s[2]))
  BY DEF ScanEmails
<1>3. SubSeq(t, s[1], s[2]) \in Texts
  <2>1. Len(t) \in Nat /\ DOMAIN t = 1..Len(t)
    BY TextFacts
  <2>2. s[1] \in Nat /\ s[2] \in Nat /\ 1 <= s[1] /\ s[2] <= Len(t)
    BY <1>1, <2>1
  <2> QED
    BY <1>1, <2>2, PartFacts
<1> QED
  BY <1>2, <1>3, EmailValidatorIsExact

LEMMA EmailsAreAllFound ==
  ASSUME TextInv, detector = "email", NEW span \in Spans, IsEmail(Part(span)), Isolated(span)
  PROVE  span \in ScanEmails(text)
<1> DEFINE a == span[1]
           b == span[2]
           marks == {".", "-"}
<1>1. /\ text \in Texts /\ a \in DOMAIN text /\ b \in DOMAIN text /\ a <= b
      /\ span = <<a, b>>
  BY SpanPlaces
<1>2. IsEmail(SubSeq(text, a, b))
  BY DEF Part
<1>3. ~At(text, a - 1, LocalBytes) /\ ~At(text, Past(b, 1, marks), WordBytes)
  BY DEF Isolated
<1> HIDE DEF a, b, marks
<1>4. PICK r \in Nat : /\ Past(b, 1, marks) = b + r + 1
                       /\ \A k \in 1..r : At(text, b + k, marks)
                       /\ ~At(text, b + r + 1, marks)
  BY <1>1, PastBehind
<1>5. DomainBytes \subseteq WordBytes \cup marks
  BY DEF DomainBytes, WordBytes, marks
<1>6. ~At(text, b + r + 1, DomainBytes)
  BY <1>3, <1>4, <1>5 DEF At
<1>7. Rest(text, b, r)
  BY <1>3, <1>4, <1>6 DEF Rest, marks
<1> QED
  BY <1>1, <1>2, <1>3, <1>7, NoEmailIsMissed

LEMMA SsnsInText ==
  ASSUME TextInv, detector = "ssn", NEW span \in Spans, IsSsn(Part(span)), Alone(span)
  PROVE  span \in ScanSsns(text)
<1> DEFINE a == span[1]
           b == span[2]
<1>1. ~At(text, a - 1, WordBytes) /\ ~At(text, b + 1, WordBytes) /\ IsSsn(SubSeq(text, a, b))
  BY DEF Alone, Glue, Part
<1>2. /\ text \in Texts /\ a \in DOMAIN text /\ b \in DOMAIN text /\ a <= b
      /\ span = <<a, b>>
  BY SpanPlaces
<1> HIDE DEF a, b
<1> QED
  BY <1>1, <1>2, SsnsAreAllFound

LEMMA FiveDetectors ==
  ASSUME TextInv
  PROVE  /\ text \in Texts
         /\ \/ /\ detector = "credit_card" /\ Scan(detector, text) = ScanCards(text)
               /\ \A s : Genuine(s) <=> IsCard(s)
            \/ /\ detector = "ssn" /\ Scan(detector, text) = ScanSsns(text)
               /\ \A s : Genuine(s) <=> IsSsn(s)
            \/ /\ detector = "email" /\ Scan(detector, text) = ScanEmails(text)
               /\ \A s : Genuine(s) <=> IsEmail(s)
            \/ /\ detector = "iban" /\ Scan(detector, text) = ScanIbans(text)
               /\ \A s : Genuine(s) <=> IsIban(s)
            \/ /\ detector = "phone" /\ Scan(detector, text) = ScanPhones(text)
               /\ \A s : Genuine(s) <=> IsPhone(s)
<1>1. detector \in {"credit_card", "email", "iban", "phone", "ssn"} /\ text \in Texts
  BY SeedsAssumption DEF SeedsAssumption, TextInv
<1> QED
  BY <1>1 DEF Scan, Genuine

\* Whatever the text, what Detector::scan reports is a text of the detector's format, its
\* check sum included, and of the registered length for every country but the disputed ones.
THEOREM DetectorsReportTheirFormats == Spec => []ReportsAreGenuine
<1>1. Init => TextInv
  BY SeedsAssumption DEF SeedsAssumption, Init, TextInv, Texts
<1>2. TextInv /\ [Next]_vars => TextInv'
  BY EditsKeepTexts
<1>3. TextInv => ReportsAreGenuine
  <2> SUFFICES ASSUME TextInv, NEW span \in Scan(detector, text)
               PROVE  LET part == SubSeq(text, span[1], span[2])
                      IN  Genuine(part) \/ InDispute(part)
    BY DEF ReportsAreGenuine, Part
  <2> QED
    BY FiveDetectors, CardsAreGenuine, SsnsAreGenuine, EmailsAreGenuine, IbansAreGenuine,
       PhonesAreGenuine DEF InDispute
<1> QED
  BY <1>1, <1>2, <1>3, PTL DEF Spec

\* And every text of the format that stands alone and apart is reported, whatever the scan
\* tried and rejected before it came there; IBANs of the disputed countries aside.
THEOREM DetectorsMissNothing == Spec => []NoneIsMissed
<1>1. Init => TextInv
  BY SeedsAssumption DEF SeedsAssumption, Init, TextInv, Texts
<1>2. TextInv /\ [Next]_vars => TextInv'
  BY EditsKeepTexts
<1>3. TextInv => NoneIsMissed
  <2> SUFFICES ASSUME TextInv, NEW span \in Spans, Genuine(Part(span)), Alone(span), Isolated(span),
                      ~InDispute(Part(span))
               PROVE  span \in Scan(detector, text)
    BY DEF NoneIsMissed
  <2> QED
    BY FiveDetectors, CardsAreAllFound, SsnsInText, EmailsAreAllFound, IbansAreAllFound,
       PhonesAreAllFound
<1> QED
  BY <1>1, <1>2, <1>3, PTL DEF Spec

=============================================================================
