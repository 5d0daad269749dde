------------------------------ MODULE FoldProofs ------------------------------
(***************************************************************************)
(* Induction over data, for the proofs about folds, flattened sequences    *)
(* and recursive functions: over the naturals, over the subsets of a       *)
(* finite set and along a sequence, each as closure of a set, since a      *)
(* lemma with an operator parameter could not be used.                     *)
(***************************************************************************)
EXTENDS Naturals, Integers, Sequences, SequencesExt,
        SequenceTheorems, FiniteSetTheorems, WellFoundedInduction, TLAPS

(***************************************************************************)
(* Induction over a set: what is shown of 0 and of the successor holds of  *)
(* every natural number.                                                   *)
(***************************************************************************)
LEMMA NatSetInduction ==
  ASSUME NEW K, 0 \in K, \A n \in Nat : n \in K => n + 1 \in K
  PROVE  Nat \subseteq K
<1> DEFINE bad == Nat \ K
           less == {p \in Nat \X Nat : p[1] < p[2]}
<1>1. IsWellFoundedOn(less, Nat)
  BY NatLessThanWellFounded DEF OpToRel
<1>2. SUFFICES ASSUME bad # {}
               PROVE  FALSE
  OBVIOUS
<1>3. PICK m \in bad : \A n \in bad : ~(<<n, m>> \in less)
  <2> HIDE DEF less
  <2>1. bad \subseteq Nat
    OBVIOUS
  <2> HIDE DEF bad
  <2>2. QED
    BY <1>1, <1>2, <2>1, WFMin
<1>4. m \in Nat /\ m # 0 /\ m - 1 \in Nat /\ m - 1 < m /\ m - 1 + 1 = m
  BY <1>3
<1>5. m - 1 \notin K
  BY <1>3, <1>4
<1>6. <<m - 1, m>> \in less
  BY <1>4
<1>7. QED
  BY <1>3, <1>4, <1>5, <1>6

(***************************************************************************)
(* Folds.  The folds of the engine run over the subsets of a finite set:   *)
(* of a subset they fold one element, which `c` picks, onto the rest.      *)
(***************************************************************************)
Folds(g, D, base, h, c) ==
  \A S \in SUBSET D : g[S] = IF S = {} THEN base ELSE h[<<g[S \ {c[S]}], c[S]>>]

\* c picks an element of every subset; K is closed under adding it back.
Picked(D, c)    == \A S \in SUBSET D : S # {} => c[S] \in S
Closed(K, D, c) == {} \in K /\ \A S \in SUBSET D : S # {} /\ S \ {c[S]} \in K => S \in K

\* What holds of the empty set, and of a set if it does without its pick,
\* holds of every subset of a finite set.
LEMMA SubsetInduction ==
  ASSUME NEW D, IsFiniteSet(D), NEW c, Picked(D, c), NEW K, Closed(K, D, c)
  PROVE  SUBSET D \subseteq K
<1> DEFINE Done == {n \in Nat : \A S \in SUBSET D : Cardinality(S) = n => S \in K}
<1>1. \A S \in SUBSET D : IsFiniteSet(S) /\ Cardinality(S) \in Nat
  BY FS_Subset, FS_CardinalityType
<1>2. 0 \in Done
  BY <1>1, FS_EmptySet DEF Closed
<1>3. ASSUME NEW n \in Nat, n \in Done
      PROVE  n + 1 \in Done
  <2> SUFFICES ASSUME NEW S \in SUBSET D, Cardinality(S) = n + 1
               PROVE  S \in K
    OBVIOUS
  <2>1. IsFiniteSet(S) /\ S # {} /\ c[S] \in S
    BY <1>1, FS_EmptySet DEF Picked
  <2> DEFINE x == c[S]
  <2>2. x \in S
    BY <2>1
  <2> HIDE DEF x, Done
  <2>3. Cardinality(S \ {x}) = n
    <3>1. Cardinality(S \ {x}) = Cardinality(S) - 1
      BY <2>1, <2>2, FS_RemoveElement
    <3>2. QED
      BY <3>1
  <2>4. S \ {x} \in K
    BY <1>3, <2>3 DEF Done
  <2>5. QED
    BY <2>1, <2>4 DEF x, Closed
<1>4. Nat \subseteq Done
  <2> HIDE DEF Done
  <2>1. QED
    BY <1>2, <1>3, NatSetInduction
<1>5. QED
  BY <1>1, <1>4

\* Such a fold exists: over the sets of n elements at most, for every n.
LEMMA FoldExists ==
  ASSUME NEW D, IsFiniteSet(D), NEW V, NEW base \in V, NEW h \in [V \X D -> V],
         NEW c, Picked(D, c)
  PROVE  \E g \in [SUBSET D -> V] : Folds(g, D, base, h, c)
<1> DEFINE Small(n) == {S \in SUBSET D : Cardinality(S) <= n}
           Value(g, S) == IF S = {} THEN base ELSE h[<<g[S \ {c[S]}], c[S]>>]
           Done == {n \in Nat : \E g \in [SUBSET D -> V] : \A S \in Small(n) : g[S] = Value(g, S)}
<1>1. \A S \in SUBSET D : IsFiniteSet(S) /\ Cardinality(S) \in Nat
  BY FS_Subset, FS_CardinalityType
<1>2. \A S \in SUBSET D : S # {} =>
        /\ S \ {c[S]} \in SUBSET D /\ c[S] \in D
        /\ Cardinality(S) # 0
        /\ Cardinality(S \ {c[S]}) = Cardinality(S) - 1
  BY <1>1, FS_RemoveElement, FS_EmptySet DEF Picked
<1>3. \A g \in [SUBSET D -> V], S \in SUBSET D : Value(g, S) \in V
  BY <1>2
<1>4. 0 \in Done
  <2> DEFINE g == [S \in SUBSET D |-> base]
  <2>1. g \in [SUBSET D -> V]
    OBVIOUS
  <2>2. \A S \in Small(0) : S = {}
    BY <1>1, FS_EmptySet
  <2>3. \A S \in Small(0) : g[S] = Value(g, S)
    BY <2>2
  <2>4. QED
    BY <2>1, <2>3
<1>5. ASSUME NEW n \in Nat, n \in Done
      PROVE  n + 1 \in Done
  <2>1. PICK g \in [SUBSET D -> V] : \A S \in Small(n) : g[S] = Value(g, S)
    BY <1>5
  <2> DEFINE g2 == [S \in SUBSET D |-> IF S \in Small(n) THEN g[S] ELSE Value(g, S)]
  <2>2. g2 \in [SUBSET D -> V]
    BY <1>3
  <2>3. ASSUME NEW S \in Small(n + 1)
        PROVE  g2[S] = Value(g2, S)
    <3>1. g2[S] = Value(g, S)
      BY <2>1
    <3>2. S # {} => S \ {c[S]} \in Small(n)
      BY <1>1, <1>2
    <3>3. S # {} => g2[S \ {c[S]}] = g[S \ {c[S]}]
      BY <3>2
    <3>4. QED
      BY <3>1, <3>3
  <2> HIDE DEF g2, Small, Value
  <2>4. QED
    BY <2>2, <2>3
<1>6. Nat \subseteq Done
  <2> HIDE DEF Done
  <2>1. QED
    BY <1>4, <1>5, NatSetInduction
<1>7. PICK g \in [SUBSET D -> V] : \A S \in Small(Cardinality(D)) : g[S] = Value(g, S)
  BY <1>1, <1>6
<1>8. \A S \in SUBSET D : S \in Small(Cardinality(D))
  BY <1>1, FS_Subset
<1>9. QED
  BY <1>7, <1>8 DEF Folds

(***************************************************************************)
(* Folds over a sequence: what was folded of the first n elements is       *)
(* folded with the next.                                                   *)
(***************************************************************************)
Greatest(D) == [S \in SUBSET D |-> Max(S)]

\* The greatest element is a pick, and of 1..k it is k.
LEMMA GreatestPicks ==
  ASSUME NEW n \in Nat
  PROVE  /\ \A S \in SUBSET (1..n) : S # {} => Greatest(1..n)[S] \in S
         /\ \A k \in 1..n : Greatest(1..n)[1..k] = k
<1> DEFINE less == {p \in Nat \X Nat : p[1] < p[2]}
           top == [S \in SUBSET (1..n) |-> {x \in S : \A y \in S : y <= x}]
<1>1. ASSUME NEW S \in SUBSET (1..n), S # {}
      PROVE  \E x \in S : \A y \in S : y <= x
  <2> DEFINE gap == {n - x : x \in S}
  <2>1. gap \subseteq Nat /\ gap # {}
    BY <1>1
  <2>2. PICK m \in gap : \A k \in gap : ~(<<k, m>> \in less)
    <3>1. IsWellFoundedOn(less, Nat)
      BY NatLessThanWellFounded DEF OpToRel
    <3> HIDE DEF gap, less
    <3>2. QED
      BY <2>1, <3>1, WFMin
  <2>3. PICK x \in S : m = n - x
    BY <2>2
  <2>4. ASSUME NEW y \in S
        PROVE  y <= x
    <3>1. n - y \in gap /\ n - y \in Nat /\ n - x \in Nat /\ x \in Nat /\ y \in Nat
      OBVIOUS
    <3>2. ~(n - y < n - x)
      BY <2>2, <2>3, <3>1
    <3>3. QED
      BY <3>1, <3>2
  <2>5. QED
    BY <2>4
<1>2. \A S \in SUBSET (1..n) : S # {} => Max(S) \in S
  BY <1>1 DEF Max
<1>3. ASSUME NEW k \in 1..n
      PROVE  Max(1..k) = k
  <2>1. Max(1..k) \in 1..k /\ \A y \in 1..k : y <= Max(1..k)
    <3>1. k \in 1..k /\ \A y \in 1..k : y <= k
      OBVIOUS
    <3>2. QED
      BY <3>1 DEF Max
  <2>2. QED
    BY <2>1
<1>4. QED
  BY <1>2, <1>3 DEF Greatest

\* The fold of a sequence, as a function of the sets of its positions: `h`
\* folds an element onto what was folded of the positions before it.
SeqFolds(g, seq, base, h) ==
  \A s \in SUBSET DOMAIN seq :
    /\ s # {} => Max(s) \in DOMAIN seq
    /\ g[s] = IF s = {} THEN base ELSE h[<<g[s \ {Max(s)}], seq[Max(s)]>>]

\* FoldLeft is the fold that takes the last position of each prefix.
LEMMA SequenceFold ==
  ASSUME NEW S, NEW seq \in Seq(S), NEW V, NEW base \in V, NEW h \in [V \X S -> V]
  PROVE  \E g \in [SUBSET DOMAIN seq -> V] : SeqFolds(g, seq, base, h)
<1> DEFINE n == Len(seq)
           c == Greatest(1..n)
           h2 == [p \in V \X (1..n) |-> h[<<p[1], seq[p[2]]>>]]
<1>1. n \in Nat /\ DOMAIN seq = 1..n /\ \A i \in 1..n : seq[i] \in S
  OBVIOUS
<1>2. IsFiniteSet(1..n)
  BY <1>1, FS_Interval
<1>3. Picked(1..n, c)
  BY <1>1, GreatestPicks DEF Picked
<1>4. h2 \in [V \X (1..n) -> V]
  BY <1>1
<1>5. PICK g \in [SUBSET (1..n) -> V] : Folds(g, 1..n, base, h2, c)
  <2> HIDE DEF n, c, h2
  <2>1. QED
    BY <1>2, <1>3, <1>4, FoldExists
<1>6. ASSUME NEW s \in SUBSET (1..n), s # {}
      PROVE  Max(s) \in 1..n /\ g[s] = h[<<g[s \ {Max(s)}], seq[Max(s)]>>]
  <2>1. c[s] = Max(s) /\ c[s] \in 1..n
    BY <1>3, <1>6 DEF Greatest, Picked
  <2>2. g[s \ {c[s]}] \in V /\ g[s] = h2[<<g[s \ {c[s]}], c[s]>>]
    BY <1>5, <1>6 DEF Folds
  <2> HIDE DEF n, c
  <2>3. QED
    BY <2>1, <2>2
<1>7. g[{}] = base
  BY <1>5 DEF Folds
<1>8. QED
  BY <1>1, <1>6, <1>7 DEF SeqFolds

\* The positions up to n, and the last of them.
LEMMA LastPosition ==
  ASSUME NEW n \in Nat \ {0}
  PROVE  (1..n) # {} /\ Max(1..n) = n /\ (1..n) \ {Max(1..n)} = 1..(n - 1)
<1>1. 1..n \in SUBSET (1..n) /\ n \in 1..n
  OBVIOUS
<1>2. Max(1..n) = n
  BY <1>1, GreatestPicks DEF Greatest
<1>3. QED
  BY <1>1, <1>2

\* A fold step by step, through the prefixes of the sequence.
Steps(F, seq, base, h) ==
  F[1..0] = base /\ \A n \in 1..Len(seq) : F[1..n] = h[<<F[1..(n - 1)], seq[n]>>]

\* A function of sets of positions that folds as far as its values are in V.
FoldsIn(V, F, seq, base, h) ==
  /\ F[{}] = base
  /\ \A s \in SUBSET DOMAIN seq :
       s # {} /\ F[s \ {Max(s)}] \in V => F[s] = h[<<F[s \ {Max(s)}], seq[Max(s)]>>]

\* The fold of every prefix is in V.
PrefixesIn(V, F, seq) == \A n \in 0..Len(seq) : F[1..n] \in V

\* With a step into V every prefix folds into V, one element after the other.
LEMMA FoldedPrefixes ==
  ASSUME NEW S, NEW seq \in Seq(S), NEW V, NEW base \in V, NEW h \in [V \X S -> V],
         NEW F, FoldsIn(V, F, seq, base, h)
  PROVE  PrefixesIn(V, F, seq) /\ Steps(F, seq, base, h)
<1> DEFINE K == {n \in Nat : n <= Len(seq) => F[1..n] \in V}
<1>1. F[1..0] = base
  <2>1. 1..0 = {}
    OBVIOUS
  <2>2. QED
    BY <2>1 DEF FoldsIn
<1>2. 0 \in K
  BY <1>1
<1>3. ASSUME NEW n \in 1..Len(seq), F[1..(n - 1)] \in V
      PROVE  F[1..n] = h[<<F[1..(n - 1)], seq[n]>>]
  <2>1. (1..n) \in SUBSET DOMAIN seq /\ n \in Nat \ {0}
    OBVIOUS
  <2>2. (1..n) # {} /\ Max(1..n) = n /\ (1..n) \ {Max(1..n)} = 1..(n - 1)
    BY <2>1, LastPosition
  <2>3. QED
    BY <1>3, <2>1, <2>2 DEF FoldsIn
<1>4. ASSUME NEW n \in Nat, n \in K
      PROVE  n + 1 \in K
  <2> SUFFICES ASSUME n + 1 <= Len(seq)
               PROVE  F[1..(n + 1)] \in V
    OBVIOUS
  <2>1. n + 1 \in 1..Len(seq) /\ (n + 1) - 1 = n /\ F[1..n] \in V /\ seq[n + 1] \in S
    BY <1>4
  <2>2. F[1..(n + 1)] = h[<<F[1..n], seq[n + 1]>>]
    BY <1>3, <2>1
  <2>3. QED
    BY <2>1, <2>2
<1>5. Nat \subseteq K
  <2> HIDE DEF K
  <2>1. QED
    BY <1>2, <1>4, NatSetInduction
<1>6. PrefixesIn(V, F, seq)
  BY <1>5 DEF PrefixesIn
<1>7. ASSUME NEW n \in 1..Len(seq)
      PROVE  F[1..n] = h[<<F[1..(n - 1)], seq[n]>>]
  BY <1>3, <1>6 DEF PrefixesIn
<1>8. QED
  BY <1>1, <1>6, <1>7 DEF Steps

(***************************************************************************)
(* Flattened sequences: FlattenSeq joins one sequence after the other.     *)
(***************************************************************************)
Flattens(f, m, seqs) ==
  f = [n \in 1..m |-> IF n = 1 THEN seqs[n] ELSE f[n - 1] \o seqs[n]]

LEMMA FlattenExists ==
  ASSUME NEW seqs, NEW m \in Nat
  PROVE  \E f : Flattens(f, m, seqs)
<1> DEFINE K == {k \in Nat : \E f : Flattens(f, k, seqs)}
           Join(x, n) == x \o seqs[n]
<1>1. 0 \in K
  <2> DEFINE f == [n \in 1..0 |-> <<>>]
  <2>1. f = [n \in 1..0 |-> IF n = 1 THEN seqs[n] ELSE Join(f[n - 1], n)]
    OBVIOUS
  <2> HIDE DEF f
  <2>2. Flattens(f, 0, seqs)
    BY <2>1 DEF Flattens
  <2>3. QED
    BY <2>2
<1>2. ASSUME NEW k \in Nat, k \in K
      PROVE  k + 1 \in K
  <2>1. PICK f : Flattens(f, k, seqs)
    BY <1>2
  <2>2. \A n \in 1..k : f[n] = IF n = 1 THEN seqs[n] ELSE Join(f[n - 1], n)
    BY <2>1 DEF Flattens
  <2> HIDE DEF Join
  <2> DEFINE Value(h, n) == IF n = 1 THEN seqs[n] ELSE Join(h[n - 1], n)
             g == [n \in 1..k+1 |-> IF n = k + 1 THEN Value(f, k + 1) ELSE f[n]]
  <2>3. ASSUME NEW n \in 1..k+1
        PROVE  g[n] = Value(g, n)
    <3>1. CASE n = k + 1
      <4>1. n # 1 => n - 1 = k /\ k \in 1..k+1 /\ k # k + 1
        BY <3>1
      <4>2. g[n] = Value(f, n) /\ (n # 1 => g[n - 1] = f[n - 1])
        BY <3>1, <4>1
      <4>3. QED
        BY <4>2
    <3>2. CASE n \in 1..k
      <4>1. n # k + 1 /\ (n # 1 => n - 1 \in 1..k+1 /\ n - 1 # k + 1)
        BY <3>2
      <4>2. g[n] = f[n] /\ (n # 1 => g[n - 1] = f[n - 1])
        BY <4>1
      <4>3. QED
        BY <2>2, <3>2, <4>2
    <3>3. QED
      BY <3>1, <3>2
  <2>4. g = [n \in 1..k+1 |-> g[n]]
    OBVIOUS
  <2> HIDE DEF g
  <2>5. Flattens(g, k + 1, seqs)
    BY <2>3, <2>4 DEF Flattens, Join
  <2>6. QED
    BY <2>5
<1>3. Nat \subseteq K
  <2> HIDE DEF K
  <2>1. QED
    BY <1>1, <1>2, NatSetInduction
<1>4. QED
  BY <1>3

LEMMA FlattenStepByStep ==
  ASSUME NEW seqs, Len(seqs) \in Nat \ {0}
  PROVE  \E f : /\ f[1] = seqs[1]
                /\ \A n \in 1..Len(seqs) - 1 : f[n + 1] = f[n] \o seqs[n + 1]
                /\ FlattenSeq(seqs) = f[Len(seqs)]
<1> DEFINE m == Len(seqs)
           f == CHOOSE g : Flattens(g, m, seqs)
<1>1. FlattenSeq(seqs) = f[m]
  BY DEF FlattenSeq, Flattens
<1>2. Flattens(f, m, seqs)
  BY FlattenExists
<1> HIDE DEF f
<1>3. \A n \in 1..m : f[n] = IF n = 1 THEN seqs[n] ELSE f[n - 1] \o seqs[n]
  BY <1>2 DEF Flattens
<1>4. ASSUME NEW n \in 1..m - 1
      PROVE  f[n + 1] = f[n] \o seqs[n + 1]
  <2>1. n + 1 \in 1..m /\ n + 1 # 1 /\ (n + 1) - 1 = n
    OBVIOUS
  <2>2. f[n + 1] = f[(n + 1) - 1] \o seqs[n + 1]
    BY <1>3, <2>1
  <2>3. QED
    BY <2>1, <2>2
<1>5. f[1] = seqs[1]
  BY <1>3
<1>6. QED
  BY <1>1, <1>4, <1>5

\* What is in two sequences joined, and what their joint injectivity means.
LEMMA JoinedElements ==
  ASSUME NEW S, NEW a \in Seq(S), NEW b \in Seq(S)
  PROVE  /\ ToSet(a \o b) = ToSet(a) \cup ToSet(b)
         /\ IsInjective(a \o b) =>
              /\ IsInjective(a) /\ IsInjective(b)
              /\ ToSet(a) \cap ToSet(b) = {}
<1> DEFINE c == a \o b
<1>1. /\ c \in Seq(S) /\ DOMAIN c = 1..Len(a) + Len(b)
      /\ DOMAIN a = 1..Len(a) /\ DOMAIN b = 1..Len(b) /\ Len(a) \in Nat /\ Len(b) \in Nat
      /\ \A i \in 1..Len(a) : c[i] = a[i]
      /\ \A i \in 1..Len(b) : c[Len(a) + i] = b[i]
  OBVIOUS
<1> HIDE DEF c
<1>2. /\ \A i \in DOMAIN a : i \in DOMAIN c /\ c[i] = a[i]
      /\ \A i \in DOMAIN b : Len(a) + i \in DOMAIN c /\ c[Len(a) + i] = b[i]
      /\ \A k \in DOMAIN c : k \in DOMAIN a \/ \E i \in DOMAIN b : k = Len(a) + i
  <2>1. ASSUME NEW k \in DOMAIN c, k \notin DOMAIN a
        PROVE  k - Len(a) \in DOMAIN b /\ k = Len(a) + (k - Len(a))
    BY <1>1, <2>1
  <2>2. QED
    BY <1>1, <2>1
<1>3. ToSet(c) = ToSet(a) \cup ToSet(b)
  BY <1>2 DEF ToSet
<1>4. ASSUME IsInjective(c)
      PROVE  IsInjective(a) /\ IsInjective(b) /\ ToSet(a) \cap ToSet(b) = {}
  <2>1. IsInjective(a)
    BY <1>2, <1>4 DEF IsInjective
  <2>2. IsInjective(b)
    <3> SUFFICES ASSUME NEW i \in DOMAIN b, NEW j \in DOMAIN b, b[i] = b[j]
                 PROVE  i = j
      BY DEF IsInjective
    <3>1. Len(a) + i = Len(a) + j
      BY <1>2, <1>4 DEF IsInjective
    <3>2. QED
      BY <1>1, <3>1
  <2>3. ASSUME NEW i \in DOMAIN a, NEW j \in DOMAIN b, a[i] = b[j]
        PROVE  FALSE
    <3>1. i = Len(a) + j
      BY <1>2, <1>4, <2>3 DEF IsInjective
    <3>2. QED
      BY <1>1, <3>1
  <2>4. QED
    BY <2>1, <2>2, <2>3 DEF ToSet
<1>5. QED
  BY <1>3, <1>4 DEF c

\* The same of flattened sequences: what is in them is in one of them, and if
\* nothing occurs twice then not in two.
Apart(seqs, n) ==
  \A i, j \in 1..n : i # j => ToSet(seqs[i]) \cap ToSet(seqs[j]) = {}

FlatUpTo(S, seqs, x, n) ==
  /\ x \in Seq(S)
  /\ ToSet(x) = UNION {ToSet(seqs[i]) : i \in 1..n}
  /\ IsInjective(x) => Apart(seqs, n) /\ \A i \in 1..n : IsInjective(seqs[i])

LEMMA FlattenJoins ==
  ASSUME NEW S, NEW seqs \in Seq(Seq(S)), NEW n \in 1..Len(seqs) - 1, NEW x,
         FlatUpTo(S, seqs, x, n)
  PROVE  FlatUpTo(S, seqs, x \o seqs[n + 1], n + 1)
<1> DEFINE y == x \o seqs[n + 1]
<1>1. n \in Nat /\ n + 1 \in 1..Len(seqs) /\ seqs[n + 1] \in Seq(S)
  OBVIOUS
<1>2. x \in Seq(S) /\ ToSet(x) = UNION {ToSet(seqs[i]) : i \in 1..n}
  BY DEF FlatUpTo
<1>3. /\ ToSet(y) = ToSet(x) \cup ToSet(seqs[n + 1])
      /\ IsInjective(y) => /\ IsInjective(x) /\ IsInjective(seqs[n + 1])
                           /\ ToSet(x) \cap ToSet(seqs[n + 1]) = {}
  <2>1. PICK b \in Seq(S) : b = seqs[n + 1]
    BY <1>1
  <2>2. /\ ToSet(x \o b) = ToSet(x) \cup ToSet(b)
        /\ IsInjective(x \o b) => /\ IsInjective(x) /\ IsInjective(b)
                                  /\ ToSet(x) \cap ToSet(b) = {}
    BY <1>2, JoinedElements
  <2>3. QED
    BY <2>1, <2>2
<1>4. y \in Seq(S)
  BY <1>1, <1>2
<1> HIDE DEF y
<1>5. \A i \in 1..n + 1 : i \in 1..n \/ i = n + 1
  BY <1>1
<1>6. \A i \in 1..n : i \in 1..n + 1
  BY <1>1
<1>7. ToSet(y) = UNION {ToSet(seqs[i]) : i \in 1..n + 1}
  <2>1. n + 1 \in 1..n + 1
    BY <1>1
  <2>2. QED
    BY <1>2, <1>3, <1>5, <1>6, <2>1
<1>8. ASSUME IsInjective(y)
      PROVE  Apart(seqs, n + 1) /\ \A i \in 1..n + 1 : IsInjective(seqs[i])
  <2>1. Apart(seqs, n) /\ \A i \in 1..n : IsInjective(seqs[i])
    BY <1>3, <1>8 DEF FlatUpTo
  <2>2. \A i \in 1..n : ToSet(seqs[i]) \cap ToSet(seqs[n + 1]) = {}
    BY <1>2, <1>3, <1>8
  <2>3. QED
    BY <1>3, <1>5, <1>8, <2>1, <2>2 DEF Apart
<1>9. QED
  BY <1>4, <1>7, <1>8 DEF FlatUpTo, y

LEMMA FlattenElements ==
  ASSUME NEW S, NEW seqs \in Seq(Seq(S))
  PROVE  FlatUpTo(S, seqs, FlattenSeq(seqs), Len(seqs))
<1>1. CASE seqs = <<>>
  <2>1. FlattenSeq(seqs) = <<>> /\ Len(seqs) = 0
    BY <1>1 DEF FlattenSeq
  <2>2. \A i \in 1..0 : FALSE
    OBVIOUS
  <2>3. DOMAIN <<>> = {} /\ <<>> \in Seq(S)
    OBVIOUS
  <2>4. QED
    BY <2>1, <2>2, <2>3 DEF FlatUpTo, Apart, ToSet
<1>2. CASE seqs # <<>>
  <2>1. Len(seqs) \in Nat \ {0}
    BY <1>2
  <2>2. PICK f : /\ f[1] = seqs[1]
                 /\ \A n \in 1..Len(seqs) - 1 : f[n + 1] = f[n] \o seqs[n + 1]
                 /\ FlattenSeq(seqs) = f[Len(seqs)]
    BY <2>1, FlattenStepByStep
  <2> DEFINE K == {n \in Nat : n + 1 <= Len(seqs) => FlatUpTo(S, seqs, f[n + 1], n + 1)}
  <2>3. 0 \in K
    <3>1. seqs[1] \in Seq(S) /\ \A i \in 1..1 : i = 1
      BY <2>1
    <3>2. \A i, j \in 1..1 : i = j
      OBVIOUS
    <3>3. ToSet(seqs[1]) = UNION {ToSet(seqs[i]) : i \in 1..1}
      BY <3>1
    <3>4. FlatUpTo(S, seqs, seqs[1], 1)
      BY <3>1, <3>2, <3>3 DEF FlatUpTo, Apart
    <3>5. QED
      BY <2>2, <3>4
  <2>4. ASSUME NEW n \in Nat, n \in K
        PROVE  n + 1 \in K
    <3> SUFFICES ASSUME (n + 1) + 1 <= Len(seqs)
                 PROVE  FlatUpTo(S, seqs, f[(n + 1) + 1], (n + 1) + 1)
      OBVIOUS
    <3> DEFINE k == n + 1
    <3>1. k \in 1..Len(seqs) - 1 /\ k \in Nat
      BY <2>1
    <3>2. FlatUpTo(S, seqs, f[k], k)
      BY <2>1, <2>4
    <3> HIDE DEF k
    <3>3. FlatUpTo(S, seqs, f[k] \o seqs[k + 1], k + 1)
      BY <3>1, <3>2, FlattenJoins
    <3>4. QED
      BY <2>2, <3>1, <3>3 DEF k
  <2>5. Nat \subseteq K
    <3> HIDE DEF K
    <3>1. QED
      BY <2>3, <2>4, NatSetInduction
  <2>6. PICK k \in Nat : k + 1 = Len(seqs)
    <3>1. Len(seqs) - 1 \in Nat /\ (Len(seqs) - 1) + 1 = Len(seqs)
      BY <2>1
    <3>2. QED
      BY <3>1
  <2>7. FlatUpTo(S, seqs, f[Len(seqs)], Len(seqs))
    <3>1. k + 1 <= Len(seqs)
      BY <2>1, <2>6
    <3>2. FlatUpTo(S, seqs, f[k + 1], k + 1)
      BY <2>5, <3>1
    <3>3. QED
      BY <2>6, <3>2
  <2>8. QED
    BY <2>2, <2>7
<1>3. QED
  BY <1>1, <1>2

\* SetToSeq puts every element of a finite set at one place.
LEMMA SetInOrder ==
  ASSUME NEW D, IsFiniteSet(D)
  PROVE  LET q == SetToSeq(D) IN
         /\ q \in [1..Cardinality(D) -> D] /\ Cardinality(D) \in Nat
         /\ IsInjective(q) /\ ToSet(q) = D
<1> DEFINE n == Cardinality(D)
           q == SetToSeq(D)
<1>1. n \in Nat /\ ExistsBijection(1..n, D)
  BY FS_CardinalityType
<1>2. \E b \in [1..n -> D] : IsInjective(b)
  BY <1>1 DEF ExistsBijection, Bijection, Injection, IsInjective
<1>3. q \in [1..n -> D] /\ IsInjective(q)
  BY <1>2 DEF SetToSeq
<1>4. IsFiniteSet(1..n) /\ Cardinality(1..n) = n
  BY <1>1, FS_Interval
<1> HIDE DEF q
<1>5. q \in Injection(1..n, D)
  BY <1>3 DEF Injection, IsInjective
<1> HIDE DEF n
<1>6. q \in Surjection(1..n, D)
  BY <1>4, <1>5, FS_Injection DEF n
<1>7. ToSet(q) = D
  BY <1>3, <1>6 DEF Surjection, ToSet
<1>8. QED
  BY <1>1, <1>3, <1>7 DEF q, n
=============================================================================
