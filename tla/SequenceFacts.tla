---------------------------- MODULE SequenceFacts ----------------------------
(***************************************************************************)
(* What the provers need about sequences: induction over the naturals, folds, *)
(* the flattening of a sequence of sequences, sorting and selection.         *)
(***************************************************************************)
EXTENDS Ordering, SequencesExt, SequenceTheorems, FiniteSetTheorems,
        WellFoundedInduction, NaturalsInduction, TLAPS

LEMMA FunctionIsSeq ==
    ASSUME NEW S, NEW n \in Nat, NEW s \in [1..n -> S]
    PROVE  s \in Seq(S) /\ Len(s) = n
<1>1. s \in Seq(S)
  BY SeqDef
<1>2. Len(s) \in Nat /\ 1..Len(s) = 1..n
  BY <1>1, LenProperties
<1>3. Len(s) <= n
  BY <1>2, Len(s) \in 1..Len(s) \/ Len(s) = 0
<1>4. n <= Len(s)
  BY <1>2, n \in 1..n \/ n = 0
<1> QED
  BY <1>1, <1>2, <1>3, <1>4

(* The image of a finite set is finite. *)
LEMMA FiniteImage ==
    ASSUME NEW S, IsFiniteSet(S), NEW f
    PROVE  IsFiniteSet({f[e] : e \in S})
<1> DEFINE T == {f[e] : e \in S}
<1>1. PICK listed \in Seq(S) : \A e \in S : \E n \in 1..Len(listed) : listed[n] = e
  BY DEF IsFiniteSet
<1> DEFINE image == [n \in 1..Len(listed) |-> f[listed[n]]]
<1>2. Len(listed) \in Nat /\ \A n \in 1..Len(listed) : listed[n] \in S
  BY <1>1, ElementOfSeq, LenProperties
<1>3. \A n \in 1..Len(listed) : image[n] = f[listed[n]] /\ image[n] \in T
  BY <1>2
<1>4. ASSUME NEW t \in T PROVE \E n \in 1..Len(listed) : image[n] = t
  <2>1. PICK e \in S : t = f[e]
    OBVIOUS
  <2>2. PICK n \in 1..Len(listed) : listed[n] = e
    BY <1>1
  <2> QED
    BY <1>3, <2>1, <2>2
<1> HIDE DEF T
<1>5. image \in [1..Len(listed) -> T]
  BY <1>3
<1> HIDE DEF image
<1>6. image \in Seq(T) /\ Len(image) = Len(listed)
  BY <1>2, <1>5, FunctionIsSeq
<1>7. IsFiniteSet(T)
  BY <1>4, <1>6 DEF IsFiniteSet
<1> QED
  BY <1>7 DEF T

LEMMA MoreThanOne ==
    ASSUME NEW T, IsFiniteSet(T)
    PROVE  Cardinality(T) > 1 <=> \E s, t \in T : s # t
<1>1. Cardinality(T) \in Nat
  BY FS_CardinalityType
<1>2. Cardinality(T) = 0 <=> T = {}
  BY FS_EmptySet
<1>3. Cardinality(T) = 1 <=> \E e : T = {e}
  BY FS_Singleton
<1> QED
  BY <1>1, <1>2, <1>3

LEMMA LastOfSeq ==
    ASSUME NEW S, NEW s \in Seq(S), s # <<>>
    PROVE  /\ Len(s) \in Nat /\ Len(s) # 0 /\ Len(s) \in 1..Len(s)
           /\ Last(s) = s[Len(s)] /\ Last(s) \in S
<1>1. Len(s) \in Nat /\ Len(s) # 0
  BY LenProperties, EmptySeq
<1>2. Len(s) \in 1..Len(s)
  BY <1>1
<1> QED
  BY <1>1, <1>2, ElementOfSeq DEF Last

LEMMA LeastExists ==
    ASSUME NEW T \in SUBSET Nat, T # {}
    PROVE  \E m \in T : \A n \in T : m <= n
<1>1. PICK m \in T : \A n \in T : ~(<<n, m>> \in OpToRel(<, Nat))
  BY NatLessThanWellFounded, WFMin
<1>2. \A n \in T : ~(n < m)
  BY <1>1 DEF OpToRel
<1> QED
  BY <1>2

(* The first and the last of some positions. *)
LEMMA FirstAndLast ==
    ASSUME NEW n \in Nat, NEW T \in SUBSET (1..n), T # {}
    PROVE  /\ Min(T) \in T /\ \A i \in T : Min(T) <= i
           /\ Max(T) \in T /\ \A i \in T : Max(T) >= i
<1>1. \E m \in T : \A i \in T : m <= i
  BY LeastExists, T \in SUBSET Nat
<1>2. \E m \in T : \A i \in T : m >= i
  <2> DEFINE U == {n - i : i \in T}
  <2>1. U \in SUBSET Nat /\ U # {}
    <3>1. \A i \in T : n - i \in Nat
      OBVIOUS
    <3> QED
      BY <3>1
  <2>2. PICK u \in U : \A v \in U : u <= v
    BY <2>1, LeastExists
  <2>3. PICK m \in T : u = n - m
    OBVIOUS
  <2>4. ASSUME NEW i \in T PROVE m >= i
    <3>1. n - i \in U
      OBVIOUS
    <3> QED
      BY <2>2, <2>3, <3>1
  <2> QED
    BY <2>4
<1>3. Min(T) \in T /\ \A i \in T : Min(T) <= i
  BY <1>1 DEF Min
<1>4. Max(T) \in T /\ \A i \in T : Max(T) >= i
  BY <1>2 DEF Max
<1> QED
  BY <1>3, <1>4

(* Induction, with the property as the set of the numbers that have it. *)
LEMMA InductionSet ==
    ASSUME NEW S, 0 \in S, \A n \in Nat : n \in S => n + 1 \in S
    PROVE  Nat \subseteq S
<1> DEFINE T == Nat \ S
<1> SUFFICES ASSUME T # {} PROVE FALSE
  OBVIOUS
<1>1. PICK m \in T : \A n \in T : m <= n
  <2>1. T \in SUBSET Nat
    OBVIOUS
  <2> HIDE DEF T
  <2> QED
    BY <2>1, LeastExists
<1>2. m \in Nat /\ m # 0
  OBVIOUS
<1>3. m - 1 \in Nat /\ ~(m <= m - 1) /\ m = (m - 1) + 1
  BY <1>2
<1>4. m - 1 \in S
  BY <1>1, <1>3
<1> QED
  BY <1>3, <1>4

\* f holds the values of a fold over the positions 1..n.
IsFold(f, start, n, step) ==
    /\ f[0] = start
    /\ \A i \in 1..n, j \in 0..n : i = j + 1 => f[i] = step[i][f[j]]

(* A fold has values, whatever its step. *)
LEMMA FoldExists ==
    ASSUME NEW X, NEW start \in X, NEW n \in Nat, NEW step \in [1..n -> [X -> X]]
    PROVE  \E f \in [0..n -> X] : IsFold(f, start, n, step)
<1> DEFINE S == {k \in Nat : k <= n => \E f \in [0..k -> X] : IsFold(f, start, k, step)}
<1>1. 0 \in S
  <2> DEFINE f == [i \in {0} |-> start]
  <2>1. f \in [0..0 -> X] /\ IsFold(f, start, 0, step)
    BY 0..0 = {0}, 1..0 = {} DEF IsFold
  <2> HIDE DEF f
  <2> QED
    BY <2>1
<1>2. ASSUME NEW k \in Nat, k \in S PROVE k + 1 \in S
  <2>1. SUFFICES ASSUME k + 1 <= n
                 PROVE  \E f \in [0..k + 1 -> X] : IsFold(f, start, k + 1, step)
    OBVIOUS
  <2>2. PICK f \in [0..k -> X] : IsFold(f, start, k, step)
    BY <1>2, <2>1
  <2> DEFINE g == [i \in 0..k + 1 |-> IF i = k + 1 THEN step[k + 1][f[k]] ELSE f[i]]
  <2>3. k + 1 \in 1..n /\ k \in 0..k /\ f[k] \in X /\ step[k + 1][f[k]] \in X
    BY <2>1, <2>2
  <2>4. g \in [0..k + 1 -> X] /\ g[0] = start
    BY <2>2, <2>3 DEF IsFold
  <2>5. ASSUME NEW i \in 1..k + 1, NEW j \in 0..k + 1, i = j + 1 PROVE g[i] = step[i][g[j]]
    <3>1. CASE i = k + 1
      BY <2>5, <3>1
    <3>2. CASE i # k + 1
      <4>1. i \in 1..k /\ j \in 0..k
        BY <2>5, <3>2
      <4>2. g[i] = f[i] /\ g[j] = f[j]
        BY <3>2, <4>1
      <4> QED
        BY <2>2, <2>5, <4>1, <4>2 DEF IsFold
    <3> QED
      BY <3>1, <3>2
  <2> HIDE DEF g
  <2> QED
    BY <2>4, <2>5 DEF IsFold
<1> HIDE DEF S
<1>3. n \in S
  BY <1>1, <1>2, InductionSet
<1> QED
  BY <1>3 DEF S

(* FlattenSeq, piece by piece. *)
LEMMA FlattenFold ==
    ASSUME NEW T, NEW seqs \in Seq(Seq(T)), seqs # <<>>
    PROVE  \E f \in [0..Len(seqs) -> Seq(T)] :
              /\ f[0] = <<>>
              /\ \A i \in 1..Len(seqs), j \in 0..Len(seqs) : i = j + 1 => f[i] = f[j] \o seqs[i]
              /\ FlattenSeq(seqs) = f[Len(seqs)]
<1> DEFINE n == Len(seqs)
           X == Seq(T)
           e == <<>>
           Flat(h) == [i \in 1..n |-> IF i = 1 THEN seqs[i] ELSE h[i - 1] \o seqs[i]]
           flatten == CHOOSE h : h = Flat(h)
<1>1. n \in Nat /\ n # 0 /\ \A i \in 1..n : seqs[i] \in X
  BY LenProperties, ElementOfSeq, EmptySeq
<1>2. e \in X /\ \A s, t \in X : s \o t \in X
  BY ConcatProperties
<1>3. \A s \in X : e \o s = s
  BY ConcatEmptySeq
<1>4. FlattenSeq(seqs) = flatten[n]
  BY <1>1 DEF FlattenSeq
<1> HIDE DEF n, X, e
<1>5. PICK f \in [0..n -> X] : /\ f[0] = e
                               /\ \A i \in 1..n, j \in 0..n : i = j + 1 => f[i] = f[j] \o seqs[i]
  <2> DEFINE step == [i \in 1..n |-> [s \in X |-> s \o seqs[i]]]
  <2>1. step \in [1..n -> [X -> X]]
    BY <1>1, <1>2
  <2>2. \A i \in 1..n, s \in X : step[i][s] = s \o seqs[i]
    OBVIOUS
  <2> HIDE DEF step
  <2>3. PICK f \in [0..n -> X] : IsFold(f, e, n, step)
    BY <1>1, <1>2, <2>1, FoldExists
  <2>4. \A j \in 0..n : f[j] \in X
    OBVIOUS
  <2>5. ASSUME NEW i \in 1..n, NEW j \in 0..n, i = j + 1 PROVE f[i] = f[j] \o seqs[i]
    <3>1. f[i] = step[i][f[j]]
      BY <2>3, <2>5 DEF IsFold
    <3> QED
      BY <2>2, <2>4, <3>1
  <2> QED
    BY <2>3, <2>5 DEF IsFold
<1>6. f[1] = seqs[1] /\ 1 \in 1..n
  <2>1. 1 \in 1..n /\ seqs[1] \in X /\ 0 \in 0..n
    BY <1>1
  <2>2. f[1] = f[0] \o seqs[1]
    <3>1. \A i \in 1..n, j \in 0..n : i = j + 1 => f[i] = f[j] \o seqs[i]
      BY <1>5
    <3>2. 1 = 0 + 1
      OBVIOUS
    <3> QED
      BY ONLY <2>1, <3>1, <3>2
  <2> QED
    BY <1>3, <1>5, <2>1, <2>2
<1>7. flatten = Flat(flatten)
  <2> DEFINE h == [i \in 1..n |-> f[i]]
  <2>1. ASSUME NEW i \in 1..n PROVE h[i] = Flat(h)[i]
    <3>1. CASE i = 1
      BY <1>6, <3>1
    <3>2. CASE i # 1
      <4>1. i - 1 \in 1..n /\ i - 1 \in 0..n /\ i = (i - 1) + 1
        BY <1>1, <3>2
      <4> QED
        BY <1>5, <3>2, <4>1
    <3> QED
      BY <3>1, <3>2
  <2>2. h = Flat(h)
    BY <2>1
  <2> HIDE DEF h, Flat
  <2> QED
    BY <2>2
<1>8. \A i \in 1..n, j \in 1..n : i = j + 1 => flatten[i] = flatten[j] \o seqs[i]
  <2> SUFFICES ASSUME NEW i \in 1..n, NEW j \in 1..n, i = j + 1
               PROVE  flatten[i] = flatten[j] \o seqs[i]
    OBVIOUS
  <2>1. flatten[i] = Flat(flatten)[i]
    BY <1>7
  <2>2. i # 1 /\ i - 1 = j
    BY <1>1
  <2> HIDE DEF flatten
  <2> QED
    BY <2>1, <2>2
<1>9. flatten[1] = seqs[1]
  <2>1. flatten[1] = Flat(flatten)[1]
    BY <1>7
  <2> HIDE DEF flatten
  <2> QED
    BY <1>6, <2>1
<1> HIDE DEF flatten
<1>10. \A k \in Nat : k \in 1..n => flatten[k] = f[k]
  <2> DEFINE S == {k \in Nat : k \in 1..n => flatten[k] = f[k]}
  <2>1. 0 \in S
    OBVIOUS
  <2>2. ASSUME NEW j \in Nat, j \in S PROVE j + 1 \in S
    <3>1. PICK i \in Nat : i = j + 1
      OBVIOUS
    <3>2. ASSUME i \in 1..n PROVE flatten[i] = f[i]
      <4>1. CASE j = 0
        BY <1>6, <1>9, <3>1, <4>1
      <4>2. CASE j # 0
        <5>1. j \in 1..n /\ j \in 0..n
          BY <1>1, <3>1, <3>2, <4>2
        <5>2. flatten[j] = f[j]
          BY <2>2, <5>1
        <5> QED
          BY <1>5, <1>8, <3>1, <3>2, <5>1, <5>2
      <4> QED
        BY <4>1, <4>2
    <3> QED
      BY <3>1, <3>2
  <2> HIDE DEF S
  <2>3. Nat \subseteq S
    BY <2>1, <2>2, InductionSet
  <2> QED
    BY <2>3 DEF S
<1>11. FlattenSeq(seqs) = f[n]
  BY <1>1, <1>4, <1>10
<1> QED
  BY <1>5, <1>11 DEF n, X, e

(* The flattened sequence ends as its last piece does. *)
LEMMA FlattenLast ==
    ASSUME NEW T, NEW seqs \in Seq(Seq(T)), seqs # <<>>, Last(seqs) # <<>>
    PROVE  /\ FlattenSeq(seqs) # <<>>
           /\ Last(FlattenSeq(seqs)) = Last(Last(seqs))
<1> DEFINE n == Len(seqs)
<1>1. PICK f \in [0..n -> Seq(T)] :
         /\ \A i \in 1..n, j \in 0..n : i = j + 1 => f[i] = f[j] \o seqs[i]
         /\ FlattenSeq(seqs) = f[n]
  BY FlattenFold
<1>2. n \in Nat /\ n # 0 /\ seqs[n] \in Seq(T)
  BY LenProperties, ElementOfSeq, EmptySeq
<1> HIDE DEF n
<1>3. n \in 1..n /\ n - 1 \in 0..n /\ n = (n - 1) + 1
  BY <1>2
<1>4. PICK s \in Seq(T), t \in Seq(T) : FlattenSeq(seqs) = s \o t /\ t = seqs[n]
  BY <1>1, <1>2, <1>3
<1>5. Last(seqs) = t /\ t # <<>>
  BY <1>4 DEF Last, n
<1>6. Len(s) \in Nat /\ Len(t) \in Nat /\ Len(t) # 0
  BY <1>5, LenProperties, EmptySeq
<1>7. /\ s \o t \in Seq(T) /\ Len(s \o t) = Len(s) + Len(t)
      /\ \A i \in 1..Len(s) + Len(t) : (s \o t)[i] = IF i <= Len(s) THEN s[i] ELSE t[i - Len(s)]
  BY ConcatProperties
<1>8. (s \o t)[Len(s) + Len(t)] = t[Len(t)]
  BY <1>6, <1>7
<1>9. s \o t # <<>>
  BY <1>6, <1>7
<1> QED
  BY <1>4, <1>5, <1>7, <1>8, <1>9 DEF Last

(* Pieces of one element each. *)
LEMMA FlattenOnes ==
    ASSUME NEW T, NEW seqs \in Seq(Seq(T)), NEW s \in Seq(T), Len(s) = Len(seqs),
           \A i \in 1..Len(s) : seqs[i] = <<s[i]>>
    PROVE  FlattenSeq(seqs) = s
<1> DEFINE n == Len(seqs)
           X == Seq(T)
<1>1. CASE seqs = <<>>
  BY <1>1, EmptySeq DEF FlattenSeq
<1>2. CASE seqs # <<>>
  <2>1. PICK f \in [0..n -> X] :
           /\ f[0] = <<>>
           /\ \A i \in 1..n, j \in 0..n : i = j + 1 => f[i] = f[j] \o seqs[i]
           /\ FlattenSeq(seqs) = f[n]
    BY <1>2, FlattenFold
  <2>2. n \in Nat /\ Len(s) = n
    BY LenProperties
  <2>3. \A i \in 1..n : s[i] \in T
    BY <2>2, ElementOfSeq
  <2> DEFINE S == {k \in Nat : k <= n => Len(f[k]) = k /\ \A i \in 1..k : f[k][i] = s[i]}
  <2> HIDE DEF n
  <2>4. 0 \in S
    BY <2>1
  <2>5. ASSUME NEW k \in Nat, k \in S PROVE k + 1 \in S
    <3>1. PICK m \in Nat : m = k + 1
      OBVIOUS
    <3>2. ASSUME m <= n PROVE Len(f[m]) = m /\ \A i \in 1..m : f[m][i] = s[i]
      <4>1. m \in 1..n /\ k \in 0..n /\ k <= n
        BY <2>2, <3>1, <3>2
      <4>2. f[m] = f[k] \o <<s[m]>>
        BY <2>1, <2>2, <3>1, <4>1
      <4>3. PICK g \in Seq(T) : g = f[k]
        BY <2>1, <4>1
      <4>4. Len(g) = k /\ \A i \in 1..k : g[i] = s[i]
        BY <2>5, <4>1, <4>3
      <4>5. PICK x \in T : x = s[m]
        BY <2>3, <4>1
      <4>6. PICK t \in Seq(T) : t = <<x>> /\ Len(t) = 1 /\ t[1] = x
        <5>1. <<x>> \in Seq(T)
          OBVIOUS
        <5>2. Len(<<x>>) = 1
          OBVIOUS
        <5>3. <<x>>[1] = x
          OBVIOUS
        <5> QED
          BY <5>1, <5>2, <5>3, Zenon
      <4>7. f[m] = g \o t
        BY <4>2, <4>3, <4>5, <4>6, Zenon
      <4>8. /\ Len(g \o t) = Len(g) + Len(t)
            /\ \A i \in 1..Len(g) + Len(t) :
                  (g \o t)[i] = IF i <= Len(g) THEN g[i] ELSE t[i - Len(g)]
        BY ConcatProperties
      <4>9. PICK u : /\ u = g \o t /\ Len(u) = m
                     /\ \A i \in 1..m : u[i] = IF i <= k THEN g[i] ELSE t[i - k]
        BY <3>1, <4>4, <4>6, <4>8
      <4>10. ASSUME NEW i \in 1..m PROVE u[i] = s[i]
        <5>1. CASE i <= k
          BY <4>4, <4>9, <5>1
        <5>2. CASE i = m
          <6>1. ~(i <= k) /\ i - k = 1
            BY <3>1, <5>2
          <6>2. u[i] = t[1]
            BY <4>9, <6>1
          <6> QED
            BY <4>5, <4>6, <5>2, <6>2
        <5> QED
          BY <3>1, <5>1, <5>2
      <4> QED
        BY <4>7, <4>9, <4>10, Zenon
    <3> QED
      BY <3>1, <3>2
  <2> HIDE DEF S
  <2>6. n \in S
    BY <2>2, <2>4, <2>5, InductionSet
  <2>7. Len(f[n]) = n /\ \A i \in 1..n : f[n][i] = s[i]
    BY <2>2, <2>6 DEF S
  <2>8. f[n] \in Seq(T)
    BY <2>1, <2>2
  <2> QED
    BY <2>1, <2>2, <2>7, <2>8, SeqEqual
<1> QED
  BY <1>1, <1>2

-----------------------------------------------------------------------------
(* Sorted sets.                                                              *)

StrictOrder(R, S) ==
    /\ \A p \in S : <<p, p>> \notin R
    /\ \A p, q, r \in S : <<p, q>> \in R /\ <<q, r>> \in R => <<p, r>> \in R
    /\ \A p, q \in S : p # q => <<p, q>> \in R \/ <<q, p>> \in R

(* A finite set in a strict order: every member once, each before the later.  *)
LEMMA Sorted ==
    ASSUME NEW S, IsFiniteSet(S), NEW R, StrictOrder(R, S)
    PROVE  /\ Cardinality(S) \in Nat
           /\ SortedBy(S, R) \in [1..Cardinality(S) -> S]
           /\ SortedBy(S, R) \in Seq(S) /\ Len(SortedBy(S, R)) = Cardinality(S)
           /\ \A p \in S : \E i \in 1..Cardinality(S) : SortedBy(S, R)[i] = p
           /\ \A i, j \in 1..Cardinality(S) :
                 i < j <=> <<SortedBy(S, R)[i], SortedBy(S, R)[j]>> \in R
<1> DEFINE n == Cardinality(S)
           Before(p) == {q \in S : <<q, p>> \in R}
           rank == [p \in S |-> Cardinality(Before(p))]
           sorted == SortedBy(S, R)
<1>1. n \in Nat
  BY FS_CardinalityType
<1>2. ASSUME NEW p \in S
      PROVE  /\ IsFiniteSet(Before(p)) /\ Cardinality(Before(p)) = rank[p]
             /\ rank[p] \in Nat /\ rank[p] < n
  <2>1. Before(p) \in SUBSET S /\ p \notin Before(p)
    BY DEF StrictOrder
  <2>2. IsFiniteSet(Before(p)) /\ Cardinality(Before(p)) <= n /\ Cardinality(Before(p)) # n
    BY <2>1, FS_Subset
  <2>3. Cardinality(Before(p)) \in Nat
    BY <2>2, FS_CardinalityType
  <2> QED
    BY <1>1, <2>2, <2>3
<1>3. ASSUME NEW p \in S, NEW q \in S, <<p, q>> \in R PROVE rank[p] < rank[q]
  <2>1. Before(p) \in SUBSET Before(q)
    BY <1>3 DEF StrictOrder
  <2>2. p \in Before(q) /\ p \notin Before(p)
    BY <1>3 DEF StrictOrder
  <2>3. /\ Cardinality(Before(p)) <= Cardinality(Before(q))
        /\ Cardinality(Before(p)) # Cardinality(Before(q))
    BY <1>2, <2>1, <2>2, FS_Subset
  <2>4. Cardinality(Before(p)) = rank[p] /\ Cardinality(Before(q)) = rank[q]
    OBVIOUS
  <2>5. rank[p] \in Nat /\ rank[q] \in Nat
    BY <1>2
  <2> HIDE DEF Before, rank
  <2> QED
    BY <2>3, <2>4, <2>5
<1>0. \A p \in S : rank[p] \in Nat /\ rank[p] < n
  BY <1>2
<1> HIDE DEF rank, n, Before
<1>4. \A p, q \in S : rank[p] = rank[q] => p = q
  <2> SUFFICES ASSUME NEW p \in S, NEW q \in S, p # q PROVE rank[p] # rank[q]
    OBVIOUS
  <2>1. <<p, q>> \in R \/ <<q, p>> \in R
    BY DEF StrictOrder
  <2>2. rank[p] < rank[q] \/ rank[q] < rank[p]
    BY <1>3, <2>1
  <2> QED
    BY <1>0, <2>2
<1>5. rank \in Injection(S, 0..n - 1)
  <2>1. rank \in [S -> 0..n - 1]
    <3>1. \A p \in S : rank[p] \in 0..n - 1
      BY <1>0, <1>1
    <3> QED
      BY <3>1 DEF rank
  <2> QED
    BY <1>4, <2>1 DEF Injection, IsInjective
<1>6. \A i \in 0..n - 1 : \E p \in S : rank[p] = i
  <2>1. IsFiniteSet(0..n - 1) /\ Cardinality(0..n - 1) = n
    BY <1>1, FS_Interval
  <2>2. rank \in Surjection(S, 0..n - 1)
    BY <1>5, <2>1, FS_Injection DEF n
  <2> QED
    BY <2>2 DEF Surjection
<1>7. ASSUME NEW i \in 1..n PROVE sorted[i] \in S /\ rank[sorted[i]] = i - 1
  <2>1. sorted[i] = CHOOSE p \in S : Cardinality(Before(p)) = i - 1
    BY <1>7 DEF SortedBy, n, Before
  <2>2. \A p \in S : rank[p] = Cardinality(Before(p))
    BY DEF rank
  <2>3. i - 1 \in 0..n - 1
    BY <1>1
  <2>4. \E p \in S : Cardinality(Before(p)) = i - 1
    BY <1>6, <2>2, <2>3
  <2> HIDE DEF sorted
  <2>5. sorted[i] \in S /\ Cardinality(Before(sorted[i])) = i - 1
    BY <2>1, <2>4
  <2> QED
    BY <2>2, <2>5
<1>8. DOMAIN sorted = 1..n /\ sorted = [i \in 1..n |-> sorted[i]]
  <2>1. \E f : sorted = [i \in 1..n |-> f[i]]
    <3> DEFINE f == [i \in 1..n |-> CHOOSE p \in S : Cardinality(Before(p)) = i - 1]
    <3>1. sorted = f
      BY DEF SortedBy, n, Before
    <3>2. f = [i \in 1..n |-> f[i]]
      OBVIOUS
    <3> HIDE DEF f, sorted
    <3> QED
      BY <3>1, <3>2
  <2> HIDE DEF sorted
  <2> QED
    BY <2>1
<1> HIDE DEF sorted
<1>9. sorted \in [1..n -> S]
  BY <1>7, <1>8
<1>10. ASSUME NEW p \in S PROVE \E i \in 1..n : sorted[i] = p
  <2>1. PICK i \in Int : i = rank[p] + 1
    BY <1>0
  <2>2. i \in 1..n /\ rank[p] = i - 1
    BY <1>0, <1>1, <2>1
  <2> QED
    BY <1>4, <1>7, <2>2
<1>11. ASSUME NEW i \in 1..n, NEW j \in 1..n
       PROVE  i < j <=> <<sorted[i], sorted[j]>> \in R
  <2>1. sorted[i] \in S /\ rank[sorted[i]] = i - 1 /\ sorted[j] \in S /\ rank[sorted[j]] = j - 1
    BY <1>7
  <2>2. CASE i < j
    <3>1. rank[sorted[i]] < rank[sorted[j]]
      BY <1>1, <2>1, <2>2
    <3>2. sorted[i] # sorted[j] /\ ~(rank[sorted[j]] < rank[sorted[i]])
      BY <1>1, <2>1, <2>2
    <3> QED
      BY <1>3, <2>1, <2>2, <3>2 DEF StrictOrder
  <2>3. CASE ~(i < j)
    <3>1. ~(rank[sorted[i]] < rank[sorted[j]])
      BY <1>1, <2>1, <2>3
    <3> QED
      BY <1>3, <2>1, <2>3, <3>1
  <2> QED
    BY <2>2, <2>3
<1> QED
  BY <1>1, <1>9, <1>10, <1>11, FunctionIsSeq DEF n, sorted

(* What sorts, sorts its subsets.                                            *)
LEMMA OrderOfSubset ==
    ASSUME NEW S, NEW R, StrictOrder(R, S), NEW T \in SUBSET S
    PROVE  StrictOrder(R, T)
BY DEF StrictOrder

(* Ranks that tell the members apart order them.                             *)
LEMMA SortedByRank ==
    ASSUME NEW S, IsFiniteSet(S), NEW rank,
           \A p \in S : rank[p] \in Nat,
           \A p, q \in S : rank[p] = rank[q] => p = q
    PROVE  /\ Cardinality(S) \in Nat
           /\ Ascending(S, rank) \in Seq(S) /\ Len(Ascending(S, rank)) = Cardinality(S)
           /\ Ascending(S, rank) \in [1..Cardinality(S) -> S]
           /\ \A p \in S : \E i \in 1..Cardinality(S) : Ascending(S, rank)[i] = p
           /\ \A i, j \in 1..Cardinality(S) :
                 i < j <=> rank[Ascending(S, rank)[i]] < rank[Ascending(S, rank)[j]]
<1> DEFINE R == {e \in S \X S : rank[e[1]] < rank[e[2]]}
           s == Ascending(S, rank)
<1>1. \A p, q \in S : <<p, q>> \in R <=> rank[p] < rank[q]
  OBVIOUS
<1>2. s = SortedBy(S, R)
  BY DEF Ascending
<1> HIDE DEF R, s
<1>3. StrictOrder(R, S)
  BY <1>1 DEF StrictOrder
<1>4. /\ Cardinality(S) \in Nat /\ s \in [1..Cardinality(S) -> S]
      /\ s \in Seq(S) /\ Len(s) = Cardinality(S)
      /\ \A p \in S : \E i \in 1..Cardinality(S) : s[i] = p
      /\ \A i, j \in 1..Cardinality(S) : i < j <=> <<s[i], s[j]>> \in R
  BY <1>2, <1>3, Sorted
<1>5. \A i, j \in 1..Cardinality(S) : i < j <=> rank[s[i]] < rank[s[j]]
  BY <1>1, <1>4
<1> QED
  BY <1>4, <1>5 DEF s

(* The members of a sequence at some places: those, each once, in their order. *)
LEMMA KeptSeq ==
    ASSUME NEW S, NEW s \in Seq(S), NEW T \in SUBSET DOMAIN s
    PROVE  /\ Cardinality(T) \in Nat
           /\ Kept(s, T) \in Seq(S) /\ Len(Kept(s, T)) = Cardinality(T)
           /\ \E at \in [1..Cardinality(T) -> T] :
                 /\ \A i \in T : \E k \in 1..Cardinality(T) : at[k] = i
                 /\ \A j, k \in 1..Cardinality(T) : j < k <=> at[j] < at[k]
                 /\ \A k \in 1..Cardinality(T) : Kept(s, T)[k] = s[at[k]]
<1>1. DOMAIN s = 1..Len(s) /\ Len(s) \in Nat /\ \A i \in 1..Len(s) : s[i] \in S
  BY LenProperties, ElementOfSeq
<1>2. IsFiniteSet(T)
  <2>1. IsFiniteSet(1..Len(s))
    BY <1>1, FS_Interval
  <2> QED
    BY <1>1, <2>1, FS_Subset
<1> DEFINE rank == [i \in T |-> i]
           n == Cardinality(T)
           at == Ascending(T, rank)
<1>3. (\A i \in T : rank[i] \in Nat) /\ (\A i, j \in T : rank[i] = rank[j] => i = j)
  BY <1>1
<1>4. \A i \in T : rank[i] = i
  OBVIOUS
<1> HIDE DEF rank
<1>5. /\ n \in Nat /\ at \in [1..n -> T]
      /\ \A i \in T : \E k \in 1..n : at[k] = i
      /\ \A j, k \in 1..n : j < k <=> rank[at[j]] < rank[at[k]]
  BY <1>2, <1>3, SortedByRank
<1>6. Kept(s, T) = [k \in 1..n |-> s[at[k]]]
  BY DEF Kept, rank
<1> HIDE DEF n, at
<1>7. Kept(s, T) \in [1..n -> S] /\ \A k \in 1..n : Kept(s, T)[k] = s[at[k]]
  BY <1>1, <1>5, <1>6
<1>8. Kept(s, T) \in Seq(S) /\ Len(Kept(s, T)) = n
  BY <1>5, <1>7, FunctionIsSeq
<1>9. \A j, k \in 1..n : j < k <=> at[j] < at[k]
  BY <1>4, <1>5
<1> QED
  BY <1>5, <1>7, <1>8, <1>9 DEF n

LEMMA FirstOfSeq ==
    ASSUME NEW S, NEW s \in Seq(S), NEW k \in 0..Len(s)
    PROVE  /\ SubSeq(s, 1, k) \in Seq(S) /\ Len(SubSeq(s, 1, k)) = k
           /\ \A i \in 1..k : SubSeq(s, 1, k)[i] = s[i]
<1>1. Len(s) \in Nat /\ \A i \in 1..Len(s) : s[i] \in S
  BY LenProperties, ElementOfSeq
<1>2. k \in Int /\ \A i \in 1..k : s[i] \in S
  BY <1>1
<1>3. /\ SubSeq(s, 1, k) \in Seq(S) /\ Len(SubSeq(s, 1, k)) = IF 1 <= k THEN k - 1 + 1 ELSE 0
      /\ \A i \in 1..k - 1 + 1 : SubSeq(s, 1, k)[i] = s[1 + i - 1]
  BY <1>2, SubSeqProperties
<1>4. k - 1 + 1 = k /\ \A i \in Int : 1 + i - 1 = i
  BY <1>2
<1>5. Len(SubSeq(s, 1, k)) = k
  BY <1>1, <1>3
<1> QED
  BY <1>2, <1>3, <1>4, <1>5

LEMMA SuffixOf ==
    ASSUME NEW S, NEW s \in Seq(S), NEW m \in 0..Len(s)
    PROVE  /\ SubSeq(s, m + 1, Len(s)) \in Seq(S)
           /\ Len(SubSeq(s, m + 1, Len(s))) = Len(s) - m
           /\ IsSuffix(SubSeq(s, m + 1, Len(s)), s)
<1> DEFINE n == Len(s)
           t == SubSeq(s, m + 1, n)
<1>0. n \in Nat /\ m \in 0..n
  BY LenProperties
<1>1. n \in Nat /\ DOMAIN s = 1..n /\ \A i \in 1..n : s[i] \in S
  BY LenProperties, ElementOfSeq
<1>2. t \in Seq(S) /\ Len(t) = n - m /\ \A i \in 1..n - m : t[i] = s[m + i]
  <2>1. \A i \in m + 1..n : s[i] \in S
    BY <1>1
  <2>2. /\ t \in Seq(S) /\ Len(t) = IF m + 1 <= n THEN n - (m + 1) + 1 ELSE 0
        /\ \A i \in 1..n - (m + 1) + 1 : t[i] = s[m + 1 + i - 1]
    BY <1>1, <2>1, m + 1 \in Int, n \in Int, SubSeqProperties
  <2> HIDE DEF t
  <2> HIDE DEF n
  <2>3. PICK k \in Nat : k = n - m
    BY <1>0
  <2>4. n - (m + 1) + 1 = k /\ (m + 1 <= n \/ k = 0)
    BY <1>0, <2>3
  <2>5. Len(t) = k
    BY <2>2, <2>4
  <2>6. \A i \in 1..k : t[i] = s[m + i]
    <3>1. \A i \in Int : m + 1 + i - 1 = m + i
      BY <1>1
    <3> QED
      BY <2>2, <2>4, <3>1
  <2> QED
    BY <2>2, <2>3, <2>5, <2>6
<1> HIDE DEF t
<1>3. Reverse(t) = [i \in 1..n - m |-> t[n - m - i + 1]]
  BY <1>2 DEF Reverse
<1>4. Reverse(s) = [i \in 1..n |-> s[n - i + 1]]
  BY <1>1 DEF Reverse
<1>5. Reverse(t) \in Seq(S) /\ Len(Reverse(t)) = n - m
  <2>1. \A i \in 1..n - m : n - m - i + 1 \in 1..n - m /\ t[n - m - i + 1] \in S
    BY <1>1, <1>2
  <2>2. n - m \in Nat /\ Reverse(t) \in [1..n - m -> S]
    BY <1>1, <1>3, <2>1
  <2> QED
    BY <2>2, FunctionIsSeq
<1>6. Reverse(s) \in Seq(S) /\ Len(Reverse(s)) = n
  <2>1. \A i \in 1..n : n - i + 1 \in 1..n
    BY <1>1
  <2>2. Reverse(s) \in [1..n -> S]
    BY <1>1, <1>4, <2>1
  <2> QED
    BY <1>1, <2>2, FunctionIsSeq
<1>7. \A i \in 1..n - m : Reverse(t)[i] = Reverse(s)[i]
  <2> TAKE i \in 1..n - m
  <2>1. n - m - i + 1 \in 1..n - m /\ i \in 1..n
    BY <1>1
  <2>2. t[n - m - i + 1] = s[m + (n - m - i + 1)] /\ m + (n - m - i + 1) = n - i + 1
    BY <1>1, <1>2, <2>1
  <2> QED
    BY <1>3, <1>4, <2>1, <2>2
<1>8. SubSeq(Reverse(t), 1, n - m) = SubSeq(Reverse(s), 1, n - m)
  <2> DEFINE r == Reverse(t)
             u == Reverse(s)
  <2>1. PICK k \in Nat : k = n - m /\ k <= n
    BY <1>0
  <2>2. \A i \in 1..k : r[i] = u[i]
    BY <1>7, <2>1
  <2>3. r \in Seq(S) /\ Len(r) = k /\ u \in Seq(S) /\ Len(u) = n
    BY <1>5, <1>6, <2>1
  <2> HIDE DEF r, u, n
  <2>4. /\ SubSeq(r, 1, k) \in Seq(S) /\ Len(SubSeq(r, 1, k)) = k
        /\ \A i \in 1..k : SubSeq(r, 1, k)[i] = r[i]
    BY <1>0, <2>1, <2>3, FirstOfSeq
  <2>5. /\ SubSeq(u, 1, k) \in Seq(S) /\ Len(SubSeq(u, 1, k)) = k
        /\ \A i \in 1..k : SubSeq(u, 1, k)[i] = u[i]
    <3>1. k \in 0..Len(u)
      BY <1>0, <2>1, <2>3
    <3> QED
      BY <2>3, <3>1, FirstOfSeq
  <2>6. SubSeq(r, 1, k) = SubSeq(u, 1, k)
    BY <2>2, <2>4, <2>5, SeqEqual
  <2> QED
    BY <2>1, <2>6 DEF r, u
<1>9. IsSuffix(t, s)
  <2>1. IsPrefix(Reverse(t), Reverse(s))
    <3>1. Len(Reverse(t)) <= Len(Reverse(s))
      BY <1>1, <1>5, <1>6
    <3> QED
      BY <1>5, <1>8, <3>1 DEF IsPrefix
  <2> QED
    BY <2>1 DEF IsSuffix
<1> QED
  BY <1>1, <1>2, <1>9 DEF t

=============================================================================
