-------------------------- MODULE InductionLemmas --------------------------
(***************************************************************************)
(* What the proofs need of bounded naturals and of sequences, with induction *)
(* stated over sets, and what a fold is: FoldLeft chooses a function that   *)
(* satisfies an equation; the lemmas say that there is one, and that it     *)
(* takes the elements one after the other.                                  *)
(***************************************************************************)
EXTENDS Naturals, SequencesExt, FiniteSetTheorems, SequenceTheorems,
        WellFoundedInduction, TLAPS

\* A set of naturals that is not empty has a least element.
LEMMA MinOfNaturals ==
  ASSUME NEW S \in SUBSET Nat, S # {}
  PROVE  Min(S) \in S /\ \A x \in S : Min(S) <= x
<1> DEFINE R == {p \in Nat \X Nat : p[1] < p[2]}
<1>1. IsWellFoundedOn(R, Nat)
  BY NatLessThanWellFounded DEF OpToRel
<1>2. PICK x \in S : \A y \in S : ~(<<y, x>> \in R)
  BY <1>1, WFMin
<1>3. ASSUME NEW y \in S PROVE x <= y
  <2>1. SUFFICES ASSUME y < x PROVE FALSE
    OBVIOUS
  <2>2. <<y, x>> \in R BY <2>1
  <2> QED BY <1>2, <2>2
<1> QED BY <1>3 DEF Min

\* A bounded one has a greatest.
LEMMA MaxOfBounded ==
  ASSUME NEW n \in Nat, NEW S \in SUBSET (0..n), S # {}
  PROVE  Max(S) \in S /\ \A x \in S : x <= Max(S)
<1> DEFINE T == {n - x : x \in S}
<1>0. \A x \in S : x \in Nat /\ x <= n /\ n - x \in Nat OBVIOUS
<1>1. T \in SUBSET Nat /\ T # {} BY <1>0
<1>2. Min(T) \in T /\ \A t \in T : Min(T) <= t
  BY <1>1, MinOfNaturals
<1>3. PICK x \in S : Min(T) = n - x BY <1>2
<1>4. ASSUME NEW y \in S PROVE x >= y
  <2>1. n - y \in T OBVIOUS
  <2>2. n - x <= n - y BY <1>2, <1>3, <2>1
  <2> HIDE DEF T
  <2> QED BY <1>0, <2>2
<1>5. PICK m \in S : \A y \in S : m >= y BY <1>4
<1>6. Max(S) \in S /\ \A y \in S : Max(S) >= y BY <1>5 DEF Max
<1> QED BY <1>6

\* A concatenation holds the one sequence, then the other.
LEMMA Concatenation ==
  ASSUME NEW T, NEW s \in Seq(T), NEW t \in Seq(T)
  PROVE  /\ s \o t \in Seq(T) /\ Len(s \o t) = Len(s) + Len(t)
         /\ \A i \in 1..Len(s) : (s \o t)[i] = s[i]
         /\ \A i \in 1..Len(t) : (s \o t)[Len(s) + i] = t[i]
<1>1. Len(s) \in Nat /\ Len(t) \in Nat OBVIOUS
<1>2. s \o t \in Seq(T) /\ Len(s \o t) = Len(s) + Len(t)
  BY ConcatProperties
<1>3. \A i \in 1..(Len(s) + Len(t)) : (s \o t)[i] = IF i <= Len(s) THEN s[i] ELSE t[i - Len(s)]
  BY ConcatProperties
<1>4. ASSUME NEW i \in 1..Len(s) PROVE (s \o t)[i] = s[i]
  <2>1. i \in 1..(Len(s) + Len(t)) /\ i <= Len(s) BY <1>1
  <2> QED BY <1>3, <2>1
<1>5. ASSUME NEW i \in 1..Len(t) PROVE (s \o t)[Len(s) + i] = t[i]
  <2>1. /\ Len(s) + i \in 1..(Len(s) + Len(t)) /\ ~(Len(s) + i <= Len(s))
        /\ Len(s) + i - Len(s) = i
    BY <1>1
  <2> QED BY <1>3, <2>1
<1> QED BY <1>2, <1>4, <1>5

-----------------------------------------------------------------------------
(* Induction up to a bound, and folds *)

\* A set that holds 0, and with a number the next, holds all of them.
LEMMA BoundedInduction ==
  ASSUME NEW n \in Nat, NEW S, 0 \in S,
         \A k \in 0..n : k \in S /\ k < n => k + 1 \in S
  PROVE  \A k \in 0..n : k \in S
<1> DEFINE Missing == {k \in 0..n : k \notin S}
<1>1. SUFFICES ASSUME Missing # {} PROVE FALSE
  OBVIOUS
<1>2. Missing \in SUBSET Nat OBVIOUS
<1>3. Min(Missing) \in Missing /\ \A x \in Missing : Min(Missing) <= x
  BY <1>1, <1>2, MinOfNaturals
<1>4. PICK m \in Missing : \A x \in Missing : m <= x BY <1>3
<1>5. m # 0 /\ m \in 0..n /\ m \notin S BY <1>4
<1>6. m - 1 \in 0..n /\ m - 1 < n /\ ~(m <= m - 1) /\ (m - 1) + 1 = m BY <1>5
<1>7. m - 1 \in S BY <1>4, <1>6
<1>8. m \in S BY <1>6, <1>7
<1> QED BY <1>5, <1>8

\* The greatest of the numbers up to one, and what is left without it.
LEMMA MaxOfPrefix ==
  ASSUME NEW k \in Nat \ {0}
  PROVE  1..k # {} /\ Max(1..k) = k /\ (1..k) \ {k} = 1..(k - 1)
<1>1. 1..k \in SUBSET (0..k) /\ 1..k # {} /\ k \in Nat /\ k \in 1..k OBVIOUS
<1>2. Max(1..k) \in 1..k /\ \A x \in 1..k : x <= Max(1..k)
  BY <1>1, MaxOfBounded
<1> DEFINE m == Max(1..k)
<1>3. m \in 1..k /\ k <= m BY <1>1, <1>2
<1> HIDE DEF m
<1>4. m = k BY <1>3
<1> QED BY <1>1, <1>4 DEF m

\* The equation by which MapThenFoldSet folds g over 1..n.
IsFold(f, base, n, g) ==
  f = [s \in SUBSET (1..n) |-> IF s = {} THEN base ELSE g[<<f[s \ {Max(s)}], Max(s)>>]]

\* It has a solution.
LEMMA FoldExists ==
  ASSUME NEW T, NEW base \in T, NEW n \in Nat, NEW g \in [T \X (1..n) -> T]
  PROVE  \E f \in [SUBSET (1..n) -> T] : IsFold(f, base, n, g)
<1> USE DEF IsFold
<1> DEFINE Solves(f, k) == IsFold(f, base, k, g)
           S == {k \in 0..n : \E f \in [SUBSET (1..k) -> T] : Solves(f, k)}
<1>1. 0 \in S
  <2> DEFINE f == [s \in SUBSET (1..0) |-> base]
  <2>1. SUBSET (1..0) = {{}} OBVIOUS
  <2>2. f \in [SUBSET (1..0) -> T] /\ Solves(f, 0) BY <2>1
  <2> QED BY <2>2
<1>2. ASSUME NEW k \in 0..n, k \in S, k < n PROVE k + 1 \in S
  <2>1. PICK f \in [SUBSET (1..k) -> T] : Solves(f, k) BY <1>2
  <2>2. k + 1 \in 1..n /\ 1..k \subseteq 1..n /\ 1..k \subseteq 1..(k + 1) /\ k + 1 \in 0..n
    BY <1>2
  <2>3. \A s \in SUBSET (1..(k + 1)) :
          /\ k + 1 \notin s => s \in SUBSET (1..k)
          /\ s \ {k + 1} \in SUBSET (1..k)
    OBVIOUS
  <2> DEFINE h == [s \in SUBSET (1..(k + 1)) |->
                     IF k + 1 \in s THEN g[<<f[s \ {k + 1}], k + 1>>] ELSE f[s]]
  <2>4. h \in [SUBSET (1..(k + 1)) -> T]
    <3> SUFFICES ASSUME NEW s \in SUBSET (1..(k + 1)) PROVE h[s] \in T
      OBVIOUS
    <3>1. CASE k + 1 \in s
      <4>1. f[s \ {k + 1}] \in T BY <2>3
      <4>2. <<f[s \ {k + 1}], k + 1>> \in T \X (1..n) BY <2>2, <4>1
      <4> QED BY <3>1, <4>2
    <3>2. CASE k + 1 \notin s
      BY <2>3, <3>2
    <3> QED BY <3>1, <3>2
  <2>5. ASSUME NEW s \in SUBSET (1..(k + 1))
        PROVE  h[s] = IF s = {} THEN base ELSE g[<<h[s \ {Max(s)}], Max(s)>>]
    <3>1. CASE k + 1 \in s
      <4>1. s \in SUBSET (0..(k + 1)) /\ k + 1 \in Nat /\ s # {} BY <3>1
      <4>2. Max(s) \in s /\ \A x \in s : x <= Max(s) BY <4>1, MaxOfBounded
      <4> DEFINE m == Max(s)
      <4>3. m \in 1..(k + 1) /\ k + 1 <= m BY <3>1, <4>2
      <4> HIDE DEF m
      <4>4. m = k + 1 BY <4>3
      <4>5. s \ {k + 1} \in SUBSET (1..(k + 1)) /\ k + 1 \notin s \ {k + 1} OBVIOUS
      <4>6. h[s \ {k + 1}] = f[s \ {k + 1}] BY <4>5
      <4>7. h[s] = g[<<f[s \ {k + 1}], k + 1>>] BY <3>1
      <4> HIDE DEF h
      <4> QED BY <4>1, <4>4, <4>6, <4>7 DEF m
    <3>2. CASE k + 1 \notin s
      <4>1. s \in SUBSET (1..k) BY <2>3, <3>2
      <4>2. h[s] = f[s] BY <3>2
      <4>3. f[s] = IF s = {} THEN base ELSE g[<<f[s \ {Max(s)}], Max(s)>>]
        BY <2>1, <4>1
      <4>4. k + 1 \notin s \ {Max(s)} /\ s \ {Max(s)} \in SUBSET (1..(k + 1)) BY <3>2
      <4>5. h[s \ {Max(s)}] = f[s \ {Max(s)}] BY <4>4
      <4> HIDE DEF h
      <4> QED BY <4>2, <4>3, <4>5
    <3> QED BY <3>1, <3>2
  <2>6. h = [s \in SUBSET (1..(k + 1)) |-> h[s]] BY <2>4
  <2> HIDE DEF h
  <2>7. Solves(h, k + 1) BY <2>5, <2>6
  <2> QED BY <2>2, <2>4, <2>7
<1> HIDE DEF S
<1>3. \A k \in 0..n : k \in S BY <1>1, <1>2, BoundedInduction
<1>4. n \in S BY <1>3
<1> QED BY <1>4 DEF S

\* A fold goes through the positions of a sequence in their order: the greatest
\* of the first k is k, and the others are the first k - 1.
LEMMA PrefixesInOrder ==
  ASSUME NEW n \in Nat
  PROVE  /\ {} \in SUBSET (1..n) /\ 1..0 = {}
         /\ \A k \in 1..n : /\ 1..k \in SUBSET (1..n) /\ 1..k # {}
                            /\ Max(1..k) = k /\ (1..k) \ {k} = 1..(k - 1)
         /\ \A s \in SUBSET (1..n) :
              s # {} => /\ Max(s) \in s /\ Max(s) \in 1..n
                        /\ s \ {Max(s)} \in SUBSET (1..n)
<1>1. ASSUME NEW k \in 1..n
      PROVE  /\ 1..k \in SUBSET (1..n) /\ 1..k # {}
             /\ Max(1..k) = k /\ (1..k) \ {k} = 1..(k - 1)
  <2>1. k \in Nat \ {0} /\ 1..k \in SUBSET (1..n) OBVIOUS
  <2> QED BY <2>1, MaxOfPrefix
<1>2. ASSUME NEW s \in SUBSET (1..n), s # {}
      PROVE  Max(s) \in s /\ Max(s) \in 1..n /\ s \ {Max(s)} \in SUBSET (1..n)
  <2>1. s \in SUBSET (0..n) OBVIOUS
  <2>2. Max(s) \in s BY <1>2, <2>1, MaxOfBounded
  <2> QED BY <2>2
<1> QED BY <1>1, <1>2

\* g is applied to the numbers up to n in their order, with a last result.
Iterates(f, base, n, g, last) ==
  f[0] = base /\ f[n] = last /\ \A k \in 1..n : f[k] = g[<<f[k - 1], k>>]

\* The same equation where the fold is in T.
IsFoldWithin(T, c, base, n, g) ==
  /\ c[{}] = base
  /\ \A s \in SUBSET (1..n) :
       s # {} /\ c[s \ {Max(s)}] \in T => c[s] = g[<<c[s \ {Max(s)}], Max(s)>>]

\* It is enough: the numbers are taken in their order and T is never left.
LEMMA FoldInOrder ==
  ASSUME NEW T, NEW base \in T, NEW n \in Nat, NEW g \in [T \X (1..n) -> T],
         NEW c, IsFoldWithin(T, c, base, n, g)
  PROVE  \E f \in [0..n -> T] : Iterates(f, base, n, g, c[1..n])
<1> USE DEF IsFoldWithin
<1> DEFINE f == [k \in 0..n |-> c[1..k]]
<1>1. /\ f[0] = base /\ f[n] = c[1..n]
      /\ \A k \in 1..n : f[k] = c[1..k] /\ f[k - 1] = c[1..(k - 1)]
  OBVIOUS
<1>2. f = [k \in 0..n |-> f[k]] OBVIOUS
<1> HIDE DEF f
<1>3. ASSUME NEW k \in 1..n, f[k - 1] \in T PROVE f[k] = g[<<f[k - 1], k>>]
  <2>1. /\ 1..k \in SUBSET (1..n) /\ 1..k # {}
        /\ Max(1..k) = k /\ (1..k) \ {k} = 1..(k - 1)
    BY PrefixesInOrder
  <2>2. c[(1..k) \ {Max(1..k)}] = f[k - 1] BY <1>1, <2>1
  <2>3. c[1..k] = g[<<c[(1..k) \ {Max(1..k)}], Max(1..k)>>] BY <1>3, <2>1, <2>2
  <2> QED BY <1>1, <2>1, <2>2, <2>3
<1> DEFINE S == {k \in 0..n : f[k] \in T}
<1>4. 0 \in S BY <1>1
<1>5. ASSUME NEW k \in 0..n, k \in S, k < n PROVE k + 1 \in S
  <2>1. k + 1 \in 1..n /\ (k + 1) - 1 = k /\ k + 1 \in 0..n BY <1>5
  <2>2. f[k] \in T BY <1>5
  <2>3. f[k + 1] = g[<<f[k], k + 1>>] BY <1>3, <2>1, <2>2
  <2>4. <<f[k], k + 1>> \in T \X (1..n) BY <2>1, <2>2
  <2>5. g[<<f[k], k + 1>>] \in T BY ONLY <2>4, g \in [T \X (1..n) -> T]
  <2>6. f[k + 1] \in T BY ONLY <2>3, <2>5
  <2> QED BY <2>1, <2>6
<1> HIDE DEF S
<1>6. \A k \in 0..n : k \in S BY <1>4, <1>5, BoundedInduction
<1>7. \A k \in 0..n : f[k] \in T BY <1>6 DEF S
<1>8. \A k \in 1..n : k - 1 \in 0..n OBVIOUS
<1>9. \A k \in 1..n : f[k] = g[<<f[k - 1], k>>] BY <1>3, <1>7, <1>8
<1>10. f \in [0..n -> T] BY <1>2, <1>7
<1> QED BY <1>1, <1>9, <1>10 DEF Iterates

\* The elements of a concatenation are those of both sequences.
LEMMA ConcatenatedSet ==
  ASSUME NEW T, NEW s \in Seq(T), NEW t \in Seq(T)
  PROVE  ToSet(s \o t) = ToSet(s) \cup ToSet(t)
<1>1. /\ Len(s) \in Nat /\ Len(t) \in Nat
      /\ DOMAIN s = 1..Len(s) /\ DOMAIN t = 1..Len(t)
  OBVIOUS
<1>2. /\ s \o t \in Seq(T) /\ Len(s \o t) = Len(s) + Len(t)
      /\ \A i \in 1..Len(s) : (s \o t)[i] = s[i]
      /\ \A i \in 1..Len(t) : (s \o t)[Len(s) + i] = t[i]
  BY Concatenation
<1> DEFINE m == Len(s)
           n == Len(t)
           u == s \o t
<1>3. DOMAIN u = 1..(m + n) BY <1>2
<1> HIDE DEF m, n, u
<1>4. ASSUME NEW i \in 1..(m + n) PROVE i \in 1..m \/ \E k \in 1..n : i = m + k
  <2>1. i > m => i - m \in 1..n /\ i = m + (i - m) BY <1>1 DEF m, n
  <2> QED BY <1>1, <2>1 DEF m
<1>5. \A i \in 1..m : i \in 1..(m + n) BY <1>1 DEF m, n
<1>6. \A i \in 1..n : m + i \in 1..(m + n) BY <1>1 DEF m, n
<1>7. (\A i \in 1..m : u[i] = s[i]) /\ (\A i \in 1..n : u[m + i] = t[i])
  BY <1>2 DEF m, n, u
<1>8. ASSUME NEW x \in ToSet(u) PROVE x \in ToSet(s) \cup ToSet(t)
  <2>1. PICK i \in 1..(m + n) : x = u[i] BY <1>3 DEF ToSet
  <2>2. CASE i \in 1..m BY <1>1, <1>7, <2>1, <2>2 DEF ToSet, m
  <2>3. ASSUME NEW k \in 1..n, i = m + k PROVE x \in ToSet(t)
    <3>1. x = t[k] /\ k \in DOMAIN t BY <1>1, <1>7, <2>1, <2>3 DEF n
    <3> QED BY <3>1 DEF ToSet
  <2> QED BY <1>4, <2>2, <2>3
<1>9. ASSUME NEW x \in ToSet(s) PROVE x \in ToSet(u)
  BY <1>1, <1>3, <1>5, <1>7 DEF ToSet, m
<1>10. ASSUME NEW x \in ToSet(t) PROVE x \in ToSet(u)
  BY <1>1, <1>3, <1>6, <1>7 DEF ToSet, n
<1> QED BY <1>8, <1>9, <1>10 DEF u

\* FlattenSeq holds what the sequences hold.
LEMMA Flattened ==
  ASSUME NEW T, NEW seqs \in Seq(Seq(T))
  PROVE  /\ FlattenSeq(seqs) \in Seq(T)
         /\ ToSet(FlattenSeq(seqs)) = UNION {ToSet(seqs[k]) : k \in DOMAIN seqs}
<1> DEFINE n == Len(seqs)
           g == [p \in Seq(T) \X (1..n) |->
                   IF p[2] = 1 THEN seqs[1] ELSE p[1] \o seqs[p[2]]]
           c == CHOOSE f : f = [i \in 1..Len(seqs) |->
                  IF i = 1 THEN seqs[i] ELSE f[i - 1] \o seqs[i]]
<1>1. n \in Nat /\ DOMAIN seqs = 1..n /\ \A k \in 1..n : seqs[k] \in Seq(T) OBVIOUS
<1>2. CASE n = 0
  <2>1. FlattenSeq(seqs) = seqs BY <1>2 DEF FlattenSeq
  <2>2. seqs = <<>> /\ <<>> \in Seq(T) BY <1>2
  <2> QED BY <2>1, <2>2 DEF ToSet
<1>3. CASE n # 0
  <2>1. 1 \in 1..n /\ n \in 1..n BY <1>1, <1>3
  <2>2. \A t \in Seq(T), u \in Seq(T) : t \o u \in Seq(T) BY Concatenation
  <2>3. g \in [Seq(T) \X (1..n) -> Seq(T)] BY <1>1, <2>1, <2>2
  <2>4. <<>> \in Seq(T) OBVIOUS
  <2>5. ASSUME NEW t \in Seq(T), NEW k \in 1..n
        PROVE  g[<<t, k>>] = IF k = 1 THEN seqs[k] ELSE t \o seqs[k]
    OBVIOUS
  <2>6. FlattenSeq(seqs) = c[n] BY <1>3 DEF FlattenSeq
  <2> HIDE DEF g, c, n
  <2>7. PICK h \in [SUBSET (1..n) -> Seq(T)] : IsFold(h, <<>>, n, g)
    BY <1>1, <2>3, <2>4, FoldExists
  <2>8. IsFoldWithin(Seq(T), h, <<>>, n, g)
    BY <1>1, <2>7, PrefixesInOrder DEF IsFold, IsFoldWithin
  <2>9. PICK f \in [0..n -> Seq(T)] : Iterates(f, <<>>, n, g, h[1..n])
    BY <1>1, <2>3, <2>4, <2>8, FoldInOrder
  <2>10. ASSUME NEW k \in 1..n
         PROVE  f[k] = IF k = 1 THEN seqs[k] ELSE f[k - 1] \o seqs[k]
    <3>1. f[k - 1] \in Seq(T) BY <1>1
    <3> QED BY <2>5, <2>9, <3>1 DEF Iterates
  <2> DEFINE e == [i \in 1..n |-> f[i]]
  <2>11. \A k \in 1..n : k # 1 => k - 1 \in 1..n BY <1>1
  <2>12. e = [i \in 1..Len(seqs) |-> IF i = 1 THEN seqs[i] ELSE e[i - 1] \o seqs[i]]
    BY <2>10, <2>11 DEF n
  <2> HIDE DEF e
  <2>13. c = [i \in 1..n |-> IF i = 1 THEN seqs[i] ELSE c[i - 1] \o seqs[i]]
    BY <2>12 DEF c, n
  <2> DEFINE S == {k \in 0..n : k = 0 \/
                     /\ c[k] \in Seq(T)
                     /\ ToSet(c[k]) = UNION {ToSet(seqs[i]) : i \in 1..k}}
  <2>14. 0 \in S BY <1>1
  <2>15. ASSUME NEW k \in 0..n, k \in S, k < n PROVE k + 1 \in S
    <3>1. k + 1 \in 1..n /\ (k + 1) - 1 = k /\ k + 1 \in 0..n BY <1>1, <2>15
    <3>2. c[k + 1] = IF k + 1 = 1 THEN seqs[k + 1] ELSE c[k] \o seqs[k + 1]
      BY <2>13, <3>1
    <3>3. seqs[k + 1] \in Seq(T) BY <1>1, <3>1
    <3>4. CASE k = 0
      <4>1. c[k + 1] = seqs[k + 1] /\ 1..(k + 1) = {k + 1} BY <3>2, <3>4
      <4> QED BY <3>1, <3>3, <4>1
    <3>5. CASE k # 0
      <4>1. c[k] \in Seq(T) /\ ToSet(c[k]) = UNION {ToSet(seqs[i]) : i \in 1..k}
        BY <2>15, <3>5
      <4>2. c[k + 1] = c[k] \o seqs[k + 1] /\ k \in Nat
        <5>1. k \in Nat /\ k + 1 # 1 BY <1>1, <3>5
        <5> QED BY <3>2, <5>1
      <4>3. c[k + 1] \in Seq(T) BY <2>2, <3>3, <4>1, <4>2
      <4>4. ToSet(c[k + 1]) = ToSet(c[k]) \cup ToSet(seqs[k + 1])
        BY <3>3, <4>1, <4>2, ConcatenatedSet, SMTT(30)
      <4>5. 1..(k + 1) = (1..k) \cup {k + 1} BY <4>2
      <4>6. ToSet(c[k + 1]) = UNION {ToSet(seqs[i]) : i \in 1..(k + 1)}
        <5> DEFINE Q(i) == ToSet(seqs[i])
        <5>1. /\ ToSet(c[k]) = UNION {Q(i) : i \in 1..k}
              /\ ToSet(c[k + 1]) = ToSet(c[k]) \cup Q(k + 1)
          BY <4>1, <4>4
        <5> SUFFICES ToSet(c[k + 1]) = UNION {Q(i) : i \in 1..(k + 1)} OBVIOUS
        <5> HIDE DEF Q
        <5> DEFINE old == UNION {Q(i) : i \in 1..k}
        <5>2. ASSUME NEW x
              PROVE  x \in UNION {Q(i) : i \in 1..(k + 1)} <=> x \in old \cup Q(k + 1)
          <6>1. x \in UNION {Q(i) : i \in 1..(k + 1)} <=> \E i \in 1..(k + 1) : x \in Q(i)
            OBVIOUS
          <6>2. x \in old <=> \E i \in 1..k : x \in Q(i) OBVIOUS
          <6> HIDE DEF old
          <6> QED BY <4>5, <6>1, <6>2
        <5>3. UNION {Q(i) : i \in 1..(k + 1)} = old \cup Q(k + 1) BY <5>2
        <5> QED BY <5>1, <5>3
      <4> QED BY <3>1, <4>3, <4>6
    <3> QED BY <3>4, <3>5
  <2> HIDE DEF S
  <2>16. \A k \in 0..n : k \in S BY <1>1, <2>14, <2>15, BoundedInduction
  <2>17. n \in S BY <1>1, <2>16
  <2> QED BY <1>1, <1>3, <2>6, <2>17 DEF S
<1> QED BY <1>2, <1>3
=============================================================================
