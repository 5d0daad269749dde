----------------------------- MODULE SalvoProofs -----------------------------
(***************************************************************************)
(* The salvo campaign, for every ruleset the validator accepts and every   *)
(* starting state of its shape.                                            *)
(***************************************************************************)
EXTENDS SalvoCampaign, FoldProofs

(***************************************************************************)
(* Sums.  Total(f) is the function of subsets that SumOf folds f with.     *)
(***************************************************************************)
Picks(D) == [S \in SUBSET D |-> CHOOSE x \in S : TRUE]

Total(f) ==
  CHOOSE g : g = [S \in SUBSET DOMAIN f |->
                    IF S = {} THEN 0
                    ELSE LET x == CHOOSE x \in S : TRUE IN f[x] + g[S \ {x}]]

LEMMA SumIsTotal == ASSUME NEW f PROVE SumOf(f) = Total(f)[DOMAIN f]
  BY DEF SumOf, MapThenSumSet, MapThenFoldSet, Total

LEMMA PicksPick ==
  ASSUME NEW D
  PROVE  Picked(D, Picks(D))
  BY DEF Picks, Picked

\* What SumOf folds: nothing for the empty set, else one element more.
LEMMA Totals ==
  ASSUME NEW D, IsFiniteSet(D), NEW f \in [D -> Int]
  PROVE  /\ Total(f)[{}] = 0
         /\ \A S \in SUBSET D :
              /\ Total(f)[S] \in Int
              /\ S # {} => Total(f)[S] = f[Picks(D)[S]] + Total(f)[S \ {Picks(D)[S]}]
<1> DEFINE c == Picks(D)
           h == [p \in Int \X D |-> f[p[2]] + p[1]]
           Shape(g) == g = [S \in SUBSET DOMAIN f |->
                              IF S = {} THEN 0
                              ELSE LET x == CHOOSE x \in S : TRUE IN f[x] + g[S \ {x}]]
<1>1. Picked(D, c)
  BY PicksPick
<1>2. h \in [Int \X D -> Int] /\ 0 \in Int
  OBVIOUS
<1>3. PICK g \in [SUBSET D -> Int] : Folds(g, D, 0, h, c)
  <2> HIDE DEF c, h
  <2>1. QED
    BY <1>1, <1>2, FoldExists
<1>4. \A S \in SUBSET D : S # {} => g[S] = f[c[S]] + g[S \ {c[S]}]
  BY <1>1, <1>3 DEF Folds, Picked
<1>5. Shape(g)
  <2>1. \A S \in SUBSET D : g[S] = IF S = {} THEN 0 ELSE f[c[S]] + g[S \ {c[S]}]
    BY <1>3, <1>4 DEF Folds
  <2>2. QED
    BY <2>1 DEF Picks
<1>6. Total(f) = CHOOSE t : Shape(t)
  BY DEF Total
<1> DEFINE T == CHOOSE t : Shape(t)
<1>7. Shape(T)
  <2> HIDE DEF Shape
  <2>1. QED
    BY <1>5
<1>8. T[{}] = 0 /\ \A S \in SUBSET D : S # {} => T[S] = f[c[S]] + T[S \ {c[S]}]
  <2> HIDE DEF T
  <2>1. QED
    BY <1>7 DEF Picks
<1> HIDE DEF T
<1> DEFINE K == {S \in SUBSET D : T[S] \in Int}
<1>9. {} \in K
  BY <1>8
<1>10. ASSUME NEW S \in SUBSET D, S # {}, S \ {c[S]} \in K
      PROVE  S \in K
  <2>1. c[S] \in D /\ f[c[S]] \in Int /\ T[S \ {c[S]}] \in Int
    BY <1>1, <1>10 DEF Picked
  <2>2. T[S] = f[c[S]] + T[S \ {c[S]}]
    BY <1>8, <1>10
  <2>3. QED
    BY <2>1, <2>2
<1>11. SUBSET D \subseteq K
  <2> HIDE DEF K, c
  <2>1. Closed(K, D, c)
    BY <1>9, <1>10 DEF Closed
  <2>2. QED
    BY <1>1, <2>1, SubsetInduction
<1>12. QED
  BY <1>6, <1>8, <1>11 DEF T

\* A sum of naturals is a natural number, and no less than any of them.
LEMMA SumOfNaturals ==
  ASSUME NEW D, IsFiniteSet(D), NEW f \in [D -> Nat]
  PROVE  SumOf(f) \in Nat /\ \A x \in D : f[x] <= SumOf(f)
<1> DEFINE c == Picks(D)
           T == Total(f)
           K == {S \in SUBSET D : T[S] \in Nat /\ \A x \in S : f[x] <= T[S]}
<1>1. Picked(D, c)
  BY PicksPick
<1>2. f \in [D -> Int]
  OBVIOUS
<1> HIDE DEF c, T
<1>3. T[{}] = 0 /\ \A S \in SUBSET D : S # {} => T[S] = f[c[S]] + T[S \ {c[S]}]
  BY <1>2, Totals DEF T, c
<1>4. {} \in K
  BY <1>3
<1>5. ASSUME NEW S \in SUBSET D, S # {}, S \ {c[S]} \in K
      PROVE  S \in K
  <2> DEFINE y == c[S]
             R == S \ {y}
  <2>1. y \in D /\ f[y] \in Nat /\ T[S] = f[y] + T[R]
    BY <1>1, <1>3, <1>5 DEF Picked
  <2>2. T[R] \in Nat /\ \A x \in R : f[x] <= T[R]
    BY <1>5
  <2>3. \A x \in S : f[x] \in Nat /\ (x = y \/ x \in R)
    OBVIOUS
  <2> HIDE DEF y, R
  <2>4. T[S] \in Nat /\ f[y] <= T[S] /\ T[R] <= T[S]
    BY <2>1, <2>2
  <2>5. \A x \in S : f[x] <= T[S]
    BY <2>2, <2>3, <2>4
  <2>6. QED
    BY <2>4, <2>5
<1>6. SUBSET D \subseteq K
  <2> HIDE DEF K
  <2>1. Closed(K, D, c)
    BY <1>4, <1>5 DEF Closed
  <2>2. QED
    BY <1>1, <2>1, SubsetInduction
<1>7. QED
  BY <1>6, SumIsTotal DEF T

\* The sum of sums.
LEMMA SumOfSums ==
  ASSUME NEW D, IsFiniteSet(D), NEW f \in [D -> Int], NEW g \in [D -> Int]
  PROVE  /\ SumOf(f) \in Int /\ SumOf(g) \in Int
         /\ SumOf([x \in D |-> f[x] + g[x]]) = SumOf(f) + SumOf(g)
<1> DEFINE c == Picks(D)
           h == [x \in D |-> f[x] + g[x]]
           F == Total(f)
           G == Total(g)
           H == Total(h)
           K == {S \in SUBSET D : H[S] = F[S] + G[S]}
<1>1. Picked(D, c)
  BY PicksPick
<1>2. h \in [D -> Int] /\ \A x \in D : h[x] = f[x] + g[x]
  OBVIOUS
<1> HIDE DEF c, h, F, G, H
<1>3. /\ F[{}] = 0 /\ G[{}] = 0 /\ H[{}] = 0
      /\ \A S \in SUBSET D : F[S] \in Int /\ G[S] \in Int
      /\ \A S \in SUBSET D : S # {} => /\ F[S] = f[c[S]] + F[S \ {c[S]}]
                                       /\ G[S] = g[c[S]] + G[S \ {c[S]}]
                                       /\ H[S] = h[c[S]] + H[S \ {c[S]}]
  <2>1. /\ F[{}] = 0
        /\ \A S \in SUBSET D : F[S] \in Int /\ (S # {} => F[S] = f[c[S]] + F[S \ {c[S]}])
    BY Totals DEF F, c
  <2>2. /\ G[{}] = 0
        /\ \A S \in SUBSET D : G[S] \in Int /\ (S # {} => G[S] = g[c[S]] + G[S \ {c[S]}])
    BY Totals DEF G, c
  <2>3. /\ H[{}] = 0
        /\ \A S \in SUBSET D : H[S] \in Int /\ (S # {} => H[S] = h[c[S]] + H[S \ {c[S]}])
    BY <1>2, Totals DEF H, c
  <2>4. QED
    BY <2>1, <2>2, <2>3
<1>4. {} \in K
  BY <1>3
<1>5. ASSUME NEW S \in SUBSET D, S # {}, S \ {c[S]} \in K
      PROVE  S \in K
  <2> DEFINE x == c[S]
             R == S \ {x}
  <2>1. /\ x \in D /\ R \in SUBSET D
        /\ F[S] = f[x] + F[R] /\ G[S] = g[x] + G[R] /\ H[S] = h[x] + H[R]
        /\ h[x] = f[x] + g[x]
    BY <1>1, <1>2, <1>3, <1>5 DEF Picked
  <2>2. f[x] \in Int /\ g[x] \in Int /\ F[R] \in Int /\ G[R] \in Int
    BY <1>3, <2>1
  <2>3. H[R] = F[R] + G[R]
    BY <1>5
  <2> HIDE DEF x, R
  <2>4. QED
    BY <2>1, <2>2, <2>3
<1>6. SUBSET D \subseteq K
  <2> HIDE DEF K
  <2>1. Closed(K, D, c)
    BY <1>4, <1>5 DEF Closed
  <2>2. QED
    BY <1>1, <2>1, SubsetInduction
<1>7. H[D] = F[D] + G[D] /\ F[D] \in Int /\ G[D] \in Int
  BY <1>3, <1>6
<1>8. QED
  BY <1>2, <1>7, SumIsTotal DEF F, G, H, h

\* A sum of zeros.
LEMMA SumOfZeros ==
  ASSUME NEW D, IsFiniteSet(D), NEW f \in [D -> Int], \A x \in D : f[x] = 0
  PROVE  SumOf(f) = 0
<1> DEFINE twice == [x \in D |-> f[x] + f[x]]
<1>1. twice = f
  OBVIOUS
<1>2. SumOf(f) \in Int /\ SumOf(twice) = SumOf(f) + SumOf(f)
  BY SumOfSums
<1> HIDE DEF twice
<1>3. SumOf(f) = SumOf(f) + SumOf(f)
  BY <1>1, <1>2, Zenon
<1> DEFINE n == SumOf(f)
<1>4. n \in Int /\ n = n + n
  BY <1>2, <1>3
<1> HIDE DEF n
<1>5. n = 0
  BY <1>4
<1>6. QED
  BY <1>5 DEF n

\* A sum of which one term changes.
LEMMA SumOfChanged ==
  ASSUME NEW D, IsFiniteSet(D), NEW f \in [D -> Int], NEW g \in [D -> Int], NEW x \in D,
         \A y \in D \ {x} : g[y] = f[y]
  PROVE  SumOf(g) = SumOf(f) + g[x] - f[x]
<1> DEFINE c == Picks(D)
           F == Total(f)
           G == Total(g)
           more(S) == IF x \in S THEN g[x] - f[x] ELSE 0
           K == {S \in SUBSET D : G[S] = F[S] + more(S)}
<1>1. Picked(D, c)
  BY PicksPick
<1> HIDE DEF c, F, G
<1>2. /\ F[{}] = 0 /\ G[{}] = 0
      /\ \A S \in SUBSET D : F[S] \in Int /\ G[S] \in Int
      /\ \A S \in SUBSET D : S # {} => /\ F[S] = f[c[S]] + F[S \ {c[S]}]
                                       /\ G[S] = g[c[S]] + G[S \ {c[S]}]
  BY Totals DEF F, G, c
<1>3. {} \in K
  BY <1>2
<1>4. ASSUME NEW S \in SUBSET D, S # {}, S \ {c[S]} \in K
      PROVE  S \in K
  <2> DEFINE y == c[S]
             R == S \ {y}
  <2>1. y \in S /\ y \in D /\ R \in SUBSET D /\ F[S] = f[y] + F[R] /\ G[S] = g[y] + G[R]
    BY <1>1, <1>2, <1>4 DEF Picked
  <2>2. f[y] \in Int /\ g[y] \in Int /\ f[x] \in Int /\ g[x] \in Int /\ F[R] \in Int
    BY <1>2, <2>1
  <2>3. G[R] = F[R] + more(R)
    BY <1>4
  <2>4. CASE y = x
    <3>1. more(R) = 0 /\ more(S) = g[x] - f[x]
      BY <2>1, <2>4
    <3> HIDE DEF y, R, more
    <3>2. G[S] = F[S] + more(S)
      BY <2>1, <2>2, <2>3, <2>4, <3>1
    <3>3. QED
      BY <3>2
  <2>5. CASE y # x
    <3>1. more(R) = more(S) /\ g[y] = f[y] /\ more(S) \in Int
      BY <2>1, <2>2, <2>5
    <3> HIDE DEF y, R, more
    <3>2. G[S] = F[S] + more(S)
      BY <2>1, <2>2, <2>3, <3>1
    <3>3. QED
      BY <3>2
  <2>6. QED
    BY <2>4, <2>5
<1>5. SUBSET D \subseteq K
  <2> HIDE DEF K
  <2>1. Closed(K, D, c)
    BY <1>3, <1>4 DEF Closed
  <2>2. QED
    BY <1>1, <2>1, SubsetInduction
<1>6. G[D] = F[D] + more(D) /\ F[D] \in Int /\ g[x] \in Int /\ f[x] \in Int
  BY <1>2, <1>5
<1>7. QED
  BY <1>6, SumIsTotal DEF F, G

-----------------------------------------------------------------------------
(***************************************************************************)
(* The rules of a ruleset the validator accepts and resolve can read.      *)
(***************************************************************************)
GoodThreat(r, t) ==
  /\ r.allocation_priority[t] \in Seq(r.interceptors) /\ r.allocation_priority[t] # <<>>
  /\ \A i \in ToSet(r.allocation_priority[t]) : r.per_pairing[t][i] \in Nat \ {0}
  /\ r.weekly_engagement_capacity[t] \in Nat /\ r.saturation_threshold[t] \in Nat
  /\ r.saturation_retained_pct[t] \in Pct
  /\ p_used(r, t) \in Pct /\ r.lethality_floor_pct[t] \in Pct

GoodRules(r) ==
  /\ \A t \in r.threats : GoodThreat(r, t)
  /\ r.ballistic_leak_floor_pct \in Pct /\ r.ballistic_leak_high_pct \in Pct
  /\ r.ballistic_leak_floor_pct <= r.ballistic_leak_high_pct
  /\ r.lethality_floor_pct["ballistic"] \in Pct
  /\ r.culmination_k_weeks \in Nat \ {0}

\* What a ruleset is in which the validator finds nothing.
LEMMA NoProblem ==
  ASSUME NEW r, ruleset_problems(r) = {}
  PROVE  /\ \A t \in DOMAIN r.p_intercept_pct : r.p_intercept_pct[t] \in Pct
         /\ (r.threats \ {"ballistic"}) \ DOMAIN r.p_intercept_pct = {}
         /\ \A t \in DOMAIN r.per_pairing : \A i \in DOMAIN r.per_pairing[t] :
              ~(r.per_pairing[t][i] < 1)
         /\ \A t \in DOMAIN r.weekly_engagement_capacity : ~(r.weekly_engagement_capacity[t] < 0)
         /\ \A t \in DOMAIN r.saturation_threshold : ~(r.saturation_threshold[t] < 0)
         /\ \A t \in DOMAIN r.saturation_retained_pct : r.saturation_retained_pct[t] \in Pct
         /\ r.threats \ (DOMAIN r.weekly_engagement_capacity
                           \cap DOMAIN r.saturation_threshold
                           \cap DOMAIN r.saturation_retained_pct) = {}
         /\ {r.ballistic_leak_floor_pct, r.ballistic_leak_high_pct} \subseteq Pct
         /\ r.ballistic_leak_floor_pct <= r.ballistic_leak_high_pct
         /\ \A t \in DOMAIN r.lethality_floor_pct : r.lethality_floor_pct[t] \in Pct
         /\ r.threats \ DOMAIN r.lethality_floor_pct = {}
         /\ ~(r.culmination_k_weeks < 1)
         /\ \A t \in r.threats :
              /\ t \in DOMAIN r.allocation_priority /\ r.allocation_priority[t] # <<>>
              /\ \A i \in ToSet(r.allocation_priority[t]) :
                   i \in r.interceptors /\ t \in DOMAIN r.per_pairing
                     /\ i \in DOMAIN r.per_pairing[t]
<1> DEFINE F == rule_faults(r)
<1>1. DOMAIN F =
        { "p_out_of_range", "missing_p", "per_out_of_range", "capacity_out_of_range",
          "saturation_threshold_out_of_range", "saturation_pct_out_of_range", "missing_param",
          "ballistic_leak_range_invalid", "lethality_floor_out_of_range", "missing_floor",
          "k_weeks_out_of_range", "allocation" }
  BY DEF rule_faults
<1>2. \A code \in DOMAIN F : ~F[code]
  BY DEF ruleset_problems
<1>3. /\ F["p_out_of_range"]
           = (\E t \in DOMAIN r.p_intercept_pct : r.p_intercept_pct[t] \notin Pct)
      /\ F["missing_p"] = ((r.threats \ {"ballistic"}) \ DOMAIN r.p_intercept_pct # {})
      /\ F["per_out_of_range"]
           = (\E t \in DOMAIN r.per_pairing : \E i \in DOMAIN r.per_pairing[t] :
                r.per_pairing[t][i] < 1)
      /\ F["capacity_out_of_range"]
           = (\E t \in DOMAIN r.weekly_engagement_capacity : r.weekly_engagement_capacity[t] < 0)
      /\ F["saturation_threshold_out_of_range"]
           = (\E t \in DOMAIN r.saturation_threshold : r.saturation_threshold[t] < 0)
      /\ F["saturation_pct_out_of_range"]
           = (\E t \in DOMAIN r.saturation_retained_pct : r.saturation_retained_pct[t] \notin Pct)
      /\ F["missing_param"]
           = (r.threats \ (DOMAIN r.weekly_engagement_capacity \cap DOMAIN r.saturation_threshold
                             \cap DOMAIN r.saturation_retained_pct) # {})
      /\ F["ballistic_leak_range_invalid"]
           = ~(/\ {r.ballistic_leak_floor_pct, r.ballistic_leak_high_pct} \subseteq Pct
               /\ r.ballistic_leak_floor_pct <= r.ballistic_leak_high_pct)
      /\ F["lethality_floor_out_of_range"]
           = (\E t \in DOMAIN r.lethality_floor_pct : r.lethality_floor_pct[t] \notin Pct)
      /\ F["missing_floor"] = (r.threats \ DOMAIN r.lethality_floor_pct # {})
      /\ F["k_weeks_out_of_range"] = (r.culmination_k_weeks < 1)
      /\ F["allocation"]
           = (\E t \in r.threats :
                \/ t \notin DOMAIN r.allocation_priority
                \/ r.allocation_priority[t] = <<>>
                \/ \E i \in ToSet(r.allocation_priority[t]) :
                     \/ i \notin r.interceptors
                     \/ t \notin DOMAIN r.per_pairing
                     \/ i \notin DOMAIN r.per_pairing[t])
  BY Zenon DEF rule_faults
<1> HIDE DEF F
<1>4. /\ ~F["p_out_of_range"] /\ ~F["missing_p"] /\ ~F["per_out_of_range"]
      /\ ~F["capacity_out_of_range"] /\ ~F["saturation_threshold_out_of_range"]
      /\ ~F["saturation_pct_out_of_range"] /\ ~F["missing_param"]
      /\ ~F["ballistic_leak_range_invalid"] /\ ~F["lethality_floor_out_of_range"]
      /\ ~F["missing_floor"] /\ ~F["k_weeks_out_of_range"] /\ ~F["allocation"]
  BY <1>1, <1>2
<1>5. QED
  BY <1>3, <1>4, Zenon

\* A playable ruleset has all the rules its threats need, each in its range.
LEMMA PlayableIsGood ==
  ASSUME NEW r, IsRuleset(r), Playable(r)
  PROVE  GoodRules(r)
<1>1. ruleset_problems(r) = {} /\ "ballistic" \in DOMAIN r.lethality_floor_pct
  BY DEF Playable, ResolveRaises
<1>2. ASSUME NEW t \in r.threats
      PROVE  GoodThreat(r, t)
  <2> DEFINE prio == r.allocation_priority[t]
  <2>1. prio # <<>> /\ prio \in Seq(ToSet(prio)) /\ ToSet(prio) \subseteq r.interceptors
    BY <1>1, NoProblem DEF IsRuleset, IsASequence
  <2>2. \A i \in ToSet(prio) : r.per_pairing[t][i] \in Nat \ {0}
    BY <1>1, NoProblem DEF IsRuleset, IntValued
  <2>3. /\ r.weekly_engagement_capacity[t] \in Nat /\ r.saturation_threshold[t] \in Nat
        /\ r.saturation_retained_pct[t] \in Pct /\ r.lethality_floor_pct[t] \in Pct
    BY <1>1, NoProblem DEF IsRuleset, IntValued
  <2>4. p_used(r, t) \in Pct
    <3>1. CASE t = "ballistic"
      <4> DEFINE lo == r.ballistic_leak_floor_pct
                 hi == r.ballistic_leak_high_pct
      <4>1. lo \in Pct /\ hi \in Pct
        BY <1>1, NoProblem
      <4> HIDE DEF lo, hi
      <4>2. 100 - (lo + hi) \div 2 \in Pct
        BY <4>1 DEF Pct
      <4>3. p_used(r, t) = 100 - (lo + hi) \div 2
        BY <3>1 DEF p_used, leak_central, lo, hi
      <4>4. QED
        BY <4>2, <4>3
    <3>2. CASE t # "ballistic"
      <4>1. t \in DOMAIN r.p_intercept_pct /\ p_used(r, t) = r.p_intercept_pct[t]
        BY <1>1, <1>2, <3>2, NoProblem DEF p_used
      <4>2. QED
        BY <1>1, <4>1, NoProblem
    <3>3. QED
      BY <3>1, <3>2
  <2> HIDE DEF prio
  <2>5. prio \in Seq(r.interceptors)
    BY <2>1
  <2>6. QED
    BY <2>1, <2>2, <2>3, <2>4, <2>5 DEF GoodThreat, prio
<1>3. r.culmination_k_weeks \in Nat \ {0}
  BY <1>1, NoProblem DEF IsRuleset
<1>4. QED
  BY <1>1, <1>2, <1>3, NoProblem DEF GoodRules

-----------------------------------------------------------------------------
\* What interceptors are left, what is still to fire, and what was fired.
Acc(I) == [left : [I -> Nat], remaining : Nat, fired : [I -> Nat]]
\* What one interception costs.
Prices(per, P) == \A i \in P : per[i] \in Nat \ {0}

LEMMA LeastOf ==
  ASSUME NEW m \in Int, NEW n \in Int
  PROVE  /\ Least(m, n) \in Int /\ Least(m, n) <= m /\ Least(m, n) <= n
         /\ Least(m, n) \in {m, n}
BY DEF Least

\* Whole shots out of a stock.
LEMMA Shots ==
  ASSUME NEW n \in Nat, NEW p \in Nat \ {0}
  PROVE  /\ n \div p \in Nat /\ (n \div p) * p <= n
         /\ \A m \in Nat : m <= n \div p <=> m * p <= n
<1> DEFINE q == n \div p
<1>1. q \in Nat /\ q * p <= n /\ n < (q + 1) * p
  OBVIOUS
<1> HIDE DEF q
<1>2. ASSUME NEW m \in Nat
      PROVE  m <= q <=> m * p <= n
  <2>1. ASSUME m <= q PROVE m * p <= n
    <3>1. m * p <= q * p
      BY <1>1, <2>1
    <3>2. m * p \in Nat /\ q * p \in Nat
      BY <1>1
    <3>3. QED
      BY <1>1, <3>1, <3>2
  <2>2. ASSUME ~(m <= q) PROVE ~(m * p <= n)
    <3>1. q + 1 <= m
      BY <1>1, <2>2
    <3>2. (q + 1) * p <= m * p
      BY <1>1, <3>1
    <3>3. m * p \in Nat /\ (q + 1) * p \in Nat
      BY <1>1
    <3>4. QED
      BY <1>1, <3>2, <3>3
  <2>3. QED
    BY <2>1, <2>2
<1>3. QED
  BY <1>1, <1>2 DEF q

\* The attempts at one interceptor type.
Shot(per, a, i) == Least(a.remaining, a.left[i] \div per[i])

\* What one interceptor type does to the attempts that remain.
TakeIs(I, per, a, i) ==
  LET n == Shot(per, a, i) IN
  /\ Take(per, a, i) \in Acc(I)
  /\ a.remaining = 0 => Take(per, a, i) = a
  /\ a.remaining # 0 =>
       /\ n \in Nat /\ n * per[i] \in Nat /\ n * per[i] <= a.left[i]
       /\ Take(per, a, i).left = [a.left EXCEPT ![i] = a.left[i] - n * per[i]]
       /\ Take(per, a, i).remaining = a.remaining - n
       /\ Take(per, a, i).fired = [a.fired EXCEPT ![i] = n]

\* One type fires whole shots, and pays for them.
LEMMA TakeStep ==
  ASSUME NEW I, NEW P, P \subseteq I, NEW per, Prices(per, P), NEW a \in Acc(I), NEW i \in P
  PROVE  TakeIs(I, per, a, i)
<1> DEFINE n == Least(a.remaining, a.left[i] \div per[i])
<1>1. /\ a.remaining \in Nat /\ a.left \in [I -> Nat] /\ a.fired \in [I -> Nat]
      /\ i \in I /\ a.left[i] \in Nat /\ per[i] \in Nat \ {0}
  BY DEF Acc, Prices
<1>2. a.left[i] \div per[i] \in Nat /\ \A m \in Nat : m <= a.left[i] \div per[i] <=> m * per[i] <= a.left[i]
  BY <1>1, Shots
<1>3. n \in Nat /\ n <= a.remaining /\ n <= a.left[i] \div per[i]
  BY <1>1, <1>2, LeastOf
<1>4. n * per[i] <= a.left[i]
  BY <1>2, <1>3
<1>5. n * per[i] \in Nat
  BY <1>1, <1>3
<1>6. a.remaining = 0 => Take(per, a, i) = a
  BY DEF Take
<1>7. a.remaining # 0 =>
        Take(per, a, i) = [left |-> [a.left EXCEPT ![i] = a.left[i] - n * per[i]],
                           remaining |-> a.remaining - n, fired |-> [a.fired EXCEPT ![i] = n]]
  BY DEF Take
<1> HIDE DEF n
<1>8. a.left[i] - n * per[i] \in Nat /\ a.remaining - n \in Nat
  <2> DEFINE m == n * per[i]
  <2> HIDE DEF m
  <2>1. a.left[i] - m \in Nat
    BY <1>1, <1>4, <1>5 DEF m
  <2>2. QED
    BY <1>1, <1>3, <2>1 DEF m
<1>9. a.remaining # 0 => Take(per, a, i) \in Acc(I)
  <2> DEFINE m == a.left[i] - n * per[i]
  <2> HIDE DEF m
  <2>1. QED
    BY <1>1, <1>3, <1>7, <1>8 DEF Acc, m
<1>10. QED
  BY <1>3, <1>4, <1>5, <1>6, <1>7, <1>9 DEF TakeIs, Shot, n

\* All that is taken for a threat: the fold of Take over an order of priority,
\* prefix by prefix.
TakeAll(per, base, prio) == FoldLeft(LAMBDA a, i : Take(per, a, i), base, prio)

\* The prefixes of a threat's types, and what each adds.
TakesOneByOne(I, per, base, prio, F) ==
  /\ PrefixesIn(Acc(I), F, prio)
  /\ F[1..0] = base
  /\ \A n \in 1..Len(prio) : F[1..n] = Take(per, F[1..(n - 1)], prio[n])
  /\ TakeAll(per, base, prio) = F[1..Len(prio)]

\* Engaging a threat goes through its types one by one.
LEMMA TakeFold ==
  ASSUME NEW I, NEW P, P \subseteq I, NEW per, Prices(per, P), NEW base \in Acc(I),
         NEW prio \in Seq(P)
  PROVE  \E F : TakesOneByOne(I, per, base, prio, F)
<1> DEFINE h == [p \in Acc(I) \X P |-> Take(per, p[1], p[2])]
           D == SUBSET DOMAIN prio
           Shape(g) == g = [s \in D |-> IF s = {} THEN base
                                        ELSE Take(per, g[s \ {Max(s)}], prio[Max(s)])]
           F == CHOOSE g : Shape(g)
<1>1. h \in [Acc(I) \X P -> Acc(I)]
  BY TakeStep DEF TakeIs
<1>2. \A a \in Acc(I), i \in P : h[<<a, i>>] = Take(per, a, i)
  OBVIOUS
<1>3. \A i \in DOMAIN prio : prio[i] \in P
  OBVIOUS
<1> HIDE DEF h
<1>4. PICK g \in [D -> Acc(I)] : SeqFolds(g, prio, base, h)
  BY <1>1, SequenceFold
<1>5. Shape(g)
  <2>1. \A s \in D : g[s] = IF s = {} THEN base ELSE Take(per, g[s \ {Max(s)}], prio[Max(s)])
    BY <1>2, <1>3, <1>4 DEF SeqFolds
  <2>2. QED
    BY <2>1
<1>6. Shape(F)
  <2> HIDE DEF Shape
  <2>1. QED
    BY <1>5
<1>7. TakeAll(per, base, prio) = F[DOMAIN prio]
  BY DEF TakeAll, FoldLeft, MapThenFoldSet
<1> HIDE DEF F
<1>8. FoldsIn(Acc(I), F, prio, base, h)
  <2>1. \A s \in D : s # {} => Max(s) \in DOMAIN prio
    BY <1>4 DEF SeqFolds
  <2>2. \A s \in D : F[s] = IF s = {} THEN base ELSE Take(per, F[s \ {Max(s)}], prio[Max(s)])
    BY <1>6
  <2>3. QED
    BY <1>2, <1>3, <2>1, <2>2 DEF FoldsIn
<1>9. PrefixesIn(Acc(I), F, prio) /\ Steps(F, prio, base, h)
  <2> HIDE DEF D, Shape
  <2>1. QED
    BY <1>1, <1>8, FoldedPrefixes
<1>10. F[DOMAIN prio] = F[1..Len(prio)]
  OBVIOUS
<1>11. ASSUME NEW n \in 1..Len(prio)
       PROVE  F[1..n] = Take(per, F[1..(n - 1)], prio[n])
  <2>1. n - 1 \in 0..Len(prio) /\ n \in DOMAIN prio
    OBVIOUS
  <2>2. F[1..(n - 1)] \in Acc(I) /\ prio[n] \in P
    BY <1>3, <1>9, <2>1 DEF PrefixesIn
  <2>3. QED
    BY <1>2, <1>9, <2>2 DEF Steps
<1>12. F[1..0] = base
  BY <1>9 DEF Steps
<1>13. QED
  BY <1>7, <1>9, <1>10, <1>11, <1>12 DEF TakesOneByOne

\* What was fired at a threat, in interceptors.
Spent(per, fired, i) == IF fired[i] > 0 THEN fired[i] * per[i] ELSE 0

\* What is spent is gone from the magazines, and only the types of P are fired.
Within(per, I, P, base, a) ==
  /\ a \in Acc(I)
  /\ \A i \in I : Spent(per, a.fired, i) \in Nat
                    /\ a.left[i] + Spent(per, a.fired, i) <= base.left[i]
  /\ \A i \in I \ P : a.left[i] = base.left[i] /\ a.fired[i] = 0

\* One more type keeps to the stock and to what remains.
LEMMA TakeKeepsWithin ==
  ASSUME NEW I, NEW P, P \subseteq I, NEW per, Prices(per, P), NEW base \in Acc(I),
         NEW a, Within(per, I, P, base, a), NEW i \in P
  PROVE  Within(per, I, P, base, Take(per, a, i))
<1> DEFINE b == Take(per, a, i)
           n == Shot(per, a, i)
           cost == n * per[i]
<1>1. a \in Acc(I)
  BY DEF Within
<1> HIDE DEF b
<1>2. TakeIs(I, per, a, i)
  BY <1>1, TakeStep
<1>3. b \in Acc(I)
  BY <1>2 DEF TakeIs, b
<1>4. CASE a.remaining = 0
  <2>1. b = a
    BY <1>1, <1>2, <1>4 DEF TakeIs, b
  <2>2. QED
    BY <2>1 DEF b
<1>5. CASE a.remaining # 0
  <2>1. /\ n \in Nat /\ cost \in Nat /\ cost <= a.left[i]
        /\ b.left = [a.left EXCEPT ![i] = a.left[i] - cost]
        /\ b.fired = [a.fired EXCEPT ![i] = n]
    BY <1>1, <1>2, <1>5 DEF TakeIs, b
  <2>2. a.left \in [I -> Nat] /\ a.fired \in [I -> Nat] /\ i \in I /\ base.left \in [I -> Nat]
    BY <1>1 DEF Acc
  <2>3. n > 0 => n * per[i] = cost
    OBVIOUS
  <2> HIDE DEF cost, n
  <2>4. ASSUME NEW j \in I \ {i}
        PROVE  b.left[j] = a.left[j] /\ b.fired[j] = a.fired[j]
    BY <2>1, <2>2
  <2>5. b.left[i] = a.left[i] - cost /\ b.fired[i] = n
    BY <2>1, <2>2
  <2>6. a.left[i] \in Nat /\ base.left[i] \in Nat /\ a.left[i] <= base.left[i]
    <3>1. Spent(per, a.fired, i) \in Nat /\ a.left[i] + Spent(per, a.fired, i) <= base.left[i]
      BY <2>2 DEF Within
    <3>2. a.left[i] \in Nat /\ base.left[i] \in Nat
      BY <2>2
    <3>3. QED
      BY <3>1, <3>2
  <2>7. Spent(per, b.fired, i) \in {0, cost}
    BY <2>3, <2>5 DEF Spent
  <2>8. Spent(per, b.fired, i) \in Nat /\ b.left[i] + Spent(per, b.fired, i) <= base.left[i]
    BY <2>1, <2>5, <2>6, <2>7
  <2>9. \A j \in I \ {i} : Spent(per, b.fired, j) = Spent(per, a.fired, j)
    BY <2>4 DEF Spent
  <2>10. \A j \in I : Spent(per, b.fired, j) \in Nat
                        /\ b.left[j] + Spent(per, b.fired, j) <= base.left[j]
    <3>1. ASSUME NEW j \in I \ {i}
          PROVE  Spent(per, b.fired, j) \in Nat
                   /\ b.left[j] + Spent(per, b.fired, j) <= base.left[j]
      BY <2>4, <2>9 DEF Within
    <3>2. QED
      BY <2>8, <3>1
  <2>11. \A j \in I \ P : b.left[j] = base.left[j] /\ b.fired[j] = 0
    BY <2>4 DEF Within
  <2>12. QED
    BY <1>3, <2>10, <2>11 DEF Within, b
<1>6. QED
  BY <1>4, <1>5

\* Where the first type suffices, it is taken and no other.
TakesFirst(per, base, prio) ==
  base.remaining <= base.left[prio[1]] \div per[prio[1]] =>
    /\ TakeAll(per, base, prio).left
         = [base.left EXCEPT ![prio[1]] = base.left[prio[1]] - base.remaining * per[prio[1]]]
    /\ TakeAll(per, base, prio).fired = [base.fired EXCEPT ![prio[1]] = base.remaining]

\* So do all of them, and a first type that suffices is the only one fired.
LEMMA TakeAllWithin ==
  ASSUME NEW I, NEW P, P \subseteq I, NEW per, Prices(per, P), NEW base \in Acc(I),
         base.fired = [i \in I |-> 0], NEW prio \in Seq(P), prio # <<>>
  PROVE  Within(per, I, P, base, TakeAll(per, base, prio)) /\ TakesFirst(per, base, prio)
<1> DEFINE m == Len(prio)
           best == prio[1]
<1>1. PICK F : TakesOneByOne(I, per, base, prio, F)
  BY TakeFold
<1>2. m \in Nat \ {0} /\ best \in P /\ best \in I /\ \A n \in 1..m : prio[n] \in P
  BY EmptySeq
<1>3. Within(per, I, P, base, base)
  <2>1. \A i \in I : Spent(per, base.fired, i) = 0
    BY DEF Spent
  <2>2. \A i \in I : base.left[i] \in Nat
    BY DEF Acc
  <2>3. \A i \in I : base.left[i] + Spent(per, base.fired, i) <= base.left[i]
    BY <2>1, <2>2
  <2>4. QED
    BY <2>1, <2>3 DEF Within
<1> HIDE DEF m, best
<1> DEFINE K == {n \in Nat : n <= m => Within(per, I, P, base, F[1..n])}
<1>4. 0 \in K
  BY <1>1, <1>3 DEF TakesOneByOne
<1>5. ASSUME NEW n \in Nat, n \in K
      PROVE  n + 1 \in K
  <2> SUFFICES ASSUME n + 1 <= m
               PROVE  Within(per, I, P, base, F[1..(n + 1)])
    OBVIOUS
  <2>1. n + 1 \in 1..m /\ (n + 1) - 1 = n /\ Within(per, I, P, base, F[1..n]) /\ prio[n + 1] \in P
    BY <1>2, <1>5
  <2>2. F[1..(n + 1)] = Take(per, F[1..n], prio[n + 1])
    BY <1>1, <2>1 DEF TakesOneByOne, m
  <2>3. QED
    BY <2>1, <2>2, TakeKeepsWithin
<1>6. Nat \subseteq K
  <2> HIDE DEF K
  <2>1. QED
    BY <1>4, <1>5, NatSetInduction
<1>7. Within(per, I, P, base, TakeAll(per, base, prio))
  BY <1>1, <1>2, <1>6 DEF TakesOneByOne, m
<1>8. ASSUME base.remaining <= base.left[best] \div per[best]
      PROVE  /\ TakeAll(per, base, prio).left
                  = [base.left EXCEPT ![best] = base.left[best] - base.remaining * per[best]]
             /\ TakeAll(per, base, prio).fired = [base.fired EXCEPT ![best] = base.remaining]
  <2> DEFINE one == F[1..1]
             K2 == {n \in Nat : n + 1 <= m => F[1..(n + 1)] = one}
  <2>1. one = Take(per, base, best)
    <3>1. 1 \in 1..m /\ 1 - 1 = 0
      BY <1>2
    <3>2. QED
      BY <1>1, <3>1 DEF TakesOneByOne, best, m
  <2>2. TakeIs(I, per, base, best)
    BY <1>2, TakeStep
  <2>3. /\ one.remaining = 0
        /\ one.left = [base.left EXCEPT ![best] = base.left[best] - base.remaining * per[best]]
        /\ one.fired = [base.fired EXCEPT ![best] = base.remaining]
    <3>1. base.remaining \in Nat /\ base.left \in [I -> Nat] /\ base.left[best] \in Nat
            /\ per[best] \in Nat \ {0}
      BY <1>2 DEF Acc, Prices
    <3>2. CASE base.remaining = 0
      <4>1. one = base
        BY <2>1, <2>2, <3>2 DEF TakeIs
      <4>2. base.left[best] - base.remaining * per[best] = base.left[best]
        BY <3>1, <3>2
      <4>3. base.fired[best] = base.remaining
        BY <1>2, <3>2
      <4>4. QED
        BY <1>2, <3>1, <3>2, <4>1, <4>2, <4>3
    <3>3. CASE base.remaining # 0
      <4>1. Shot(per, base, best) = base.remaining
        BY <1>8 DEF Least, Shot
      <4>2. QED
        BY <2>1, <2>2, <3>1, <3>3, <4>1 DEF TakeIs
    <3>4. QED
      BY <3>2, <3>3
  <2>4. 0 \in K2
    OBVIOUS
  <2>5. ASSUME NEW n \in Nat, n \in K2
        PROVE  n + 1 \in K2
    <3> SUFFICES ASSUME (n + 1) + 1 <= m
                 PROVE  F[1..((n + 1) + 1)] = one
      OBVIOUS
    <3> DEFINE k == n + 2
    <3>1. k \in 1..m /\ k - 1 = n + 1 /\ (n + 1) + 1 = k /\ F[1..(n + 1)] = one /\ prio[k] \in P
      BY <1>2, <2>5
    <3>2. F[1..k] = Take(per, one, prio[k])
      BY <1>1, <3>1 DEF TakesOneByOne, m
    <3>3. one \in Acc(I)
      BY <2>1, <2>2 DEF TakeIs
    <3>4. TakeIs(I, per, one, prio[k])
      BY <3>1, <3>3, TakeStep
    <3>5. Take(per, one, prio[k]) = one
      BY <2>3, <3>4 DEF TakeIs
    <3>6. QED
      BY <3>1, <3>2, <3>5
  <2>6. Nat \subseteq K2
    <3> HIDE DEF K2
    <3>1. QED
      BY <2>4, <2>5, NatSetInduction
  <2>7. F[1..m] = one
    <3>1. m - 1 \in Nat /\ (m - 1) + 1 = m /\ m <= m
      BY <1>2
    <3>2. m - 1 \in K2
      BY <2>6, <3>1
    <3>3. QED
      BY <3>1, <3>2
  <2>8. QED
    BY <1>1, <2>3, <2>7 DEF TakesOneByOne, m
<1>9. QED
  BY <1>7, <1>8 DEF best, TakesFirst

-----------------------------------------------------------------------------
(***************************************************************************)
(* One threat.                                                             *)
(***************************************************************************)
\* A sum of which one term counts.
LEMMA SumOfOne ==
  ASSUME NEW D, IsFiniteSet(D), NEW f \in [D -> Int], NEW x \in D, \A y \in D \ {x} : f[y] = 0
  PROVE  SumOf(f) = f[x]
<1> DEFINE zero == [y \in D |-> 0]
<1>1. zero \in [D -> Int] /\ (\A y \in D : zero[y] = 0) /\ \A y \in D \ {x} : f[y] = zero[y]
  OBVIOUS
<1> HIDE DEF zero
<1>2. SumOf(zero) = 0
  BY <1>1, SumOfZeros
<1>3. SumOf(f) = SumOf(zero) + f[x] - zero[x]
  BY <1>1, SumOfChanged
<1>4. f[x] \in Int /\ zero[x] = 0
  BY <1>1
<1>5. QED
  BY <1>2, <1>3, <1>4

\* A ruleset the validator and resolve have no complaint about.
Checked(r) == IsRuleset(r) /\ GoodRules(r)

LEMMA CheckedThreat ==
  ASSUME NEW r, Checked(r), NEW t \in r.threats
  PROVE  /\ GoodThreat(r, t) /\ IsFiniteSet(r.threats) /\ IsFiniteSet(r.interceptors)
BY DEF Checked, GoodRules, IsRuleset

\* Saturation and capacity leave a number of engagements, never less than none.
LEMMA WantedIs ==
  ASSUME NEW r, Checked(r), NEW t \in r.threats, NEW n \in Nat
  PROVE  Wanted(r, t, n) \in Nat
<1> DEFINE thr == r.saturation_threshold[t]
           pct == r.saturation_retained_pct[t]
           over == n - thr
<1>1. thr \in Nat /\ pct \in Pct /\ r.weekly_engagement_capacity[t] \in Nat
  BY CheckedThreat DEF GoodThreat
<1>2. Engageable(r, t, n) = IF over > 0 THEN thr + (pct * over) \div 100 ELSE n
  BY DEF Engageable
<1> HIDE DEF thr, pct
<1>3. over > 0 => pct * over \in Nat
  BY <1>1 DEF Pct
<1>4. over > 0 => (pct * over) \div 100 \in Nat
  <2> DEFINE m == pct * over
  <2> HIDE DEF m
  <2>1. m \in Nat => m \div 100 \in Nat
    OBVIOUS
  <2>2. QED
    BY <1>3, <2>1 DEF m
<1>5. Engageable(r, t, n) \in Nat
  BY <1>1, <1>2, <1>4
<1>6. QED
  BY <1>1, <1>5 DEF Wanted, Least

\* What can be fired at a threat is at least what its first choice can fire,
\* and no more if that is its only choice.
LEMMA CeilingIs ==
  ASSUME NEW r, Checked(r), NEW t \in r.threats, NEW left \in [r.interceptors -> Nat]
  PROVE  LET prio == r.allocation_priority[t]
             shots == left[prio[1]] \div r.per_pairing[t][prio[1]]
         IN  /\ Ceiling(r, left, t) \in Nat
             /\ shots \in Nat /\ shots <= Ceiling(r, left, t)
             /\ Len(prio) = 1 => Ceiling(r, left, t) = shots
<1> DEFINE prio == r.allocation_priority[t]
           per == r.per_pairing[t]
           can == [n \in DOMAIN prio |-> left[prio[n]] \div per[prio[n]]]
<1>1. GoodThreat(r, t)
  BY CheckedThreat
<1>2. /\ prio \in Seq(r.interceptors) /\ prio # <<>>
      /\ \A i \in ToSet(prio) : per[i] \in Nat \ {0}
  BY <1>1 DEF GoodThreat
<1>3. Ceiling(r, left, t) = SumOf(can)
  BY DEF Ceiling
<1> HIDE DEF prio, per
<1>4. /\ Len(prio) \in Nat \ {0} /\ DOMAIN prio = 1..Len(prio) /\ 1 \in DOMAIN prio
      /\ \A n \in DOMAIN prio : prio[n] \in r.interceptors /\ prio[n] \in ToSet(prio)
  BY <1>2, EmptySeq DEF ToSet
<1>5. ASSUME NEW n \in DOMAIN prio
      PROVE  left[prio[n]] \div per[prio[n]] \in Nat
  <2>1. left[prio[n]] \in Nat /\ per[prio[n]] \in Nat \ {0}
    BY <1>2, <1>4
  <2>2. QED
    BY <2>1, Shots
<1>6. can \in [DOMAIN prio -> Nat] /\ can[1] = left[prio[1]] \div per[prio[1]]
  BY <1>4, <1>5
<1>7. IsFiniteSet(DOMAIN prio)
  BY <1>4, FS_Interval
<1> HIDE DEF can
<1>8. SumOf(can) \in Nat /\ can[1] <= SumOf(can) /\ can[1] \in Nat
  BY <1>4, <1>6, <1>7, SumOfNaturals
<1>9. ASSUME Len(prio) = 1
      PROVE  SumOf(can) = can[1]
  <2>1. \A y \in DOMAIN prio \ {1} : can[y] = 0
    BY <1>4, <1>9
  <2>2. can \in [DOMAIN prio -> Int]
    BY <1>6
  <2>3. 1 \in DOMAIN prio
    BY <1>4
  <2>4. QED
    BY <1>7, <2>1, <2>2, <2>3, SumOfOne
<1>10. QED
  BY <1>3, <1>6, <1>8, <1>9 DEF prio, per

\* What an allocation can be.
Uses(r) == [left : [r.interceptors -> Nat], fired : [r.threats -> [r.interceptors -> Nat]]]

\* The attempts that the first choice of a threat can make.
FirstShots(r, launched, use, t) ==
  Least(Wanted(r, t, launched[t]),
        use.left[r.allocation_priority[t][1]]
          \div r.per_pairing[t][r.allocation_priority[t][1]])

\* A threat keeps to its types and to the stock, and leaves the rest alone.
EngageKeeps(r, launched, use, t) ==
  LET u == Engage(r, launched, use, t) IN
  /\ u \in Uses(r)
  /\ \A q \in r.threats \ {t} : u.fired[q] = use.fired[q]
  /\ \A i \in r.interceptors :
       Used(r, u, t, i) \in Nat /\ u.left[i] + Used(r, u, t, i) <= use.left[i]
  /\ \A i \in r.interceptors \ ToSet(r.allocation_priority[t]) :
       u.left[i] = use.left[i] /\ u.fired[t][i] = 0

\* Where its first choice suffices, or is the only one, it is met by that alone.
EngageFirst(r, launched, use, t) ==
  LET u    == Engage(r, launched, use, t)
      best == r.allocation_priority[t][1]
      n    == FirstShots(r, launched, use, t)
  IN  /\ n \in Nat
      /\ u.left = [use.left EXCEPT ![best] = use.left[best] - n * r.per_pairing[t][best]]
      /\ u.fired[t] = [[i \in r.interceptors |-> 0] EXCEPT ![best] = n]

\* Engaging a threat of the ruleset: what it keeps, and the case of its first type alone.
LEMMA EngageIs ==
  ASSUME NEW r, Checked(r), NEW t \in r.threats, NEW launched, launched[t] \in Nat,
         NEW use \in Uses(r)
  PROVE  /\ EngageKeeps(r, launched, use, t)
         /\ \/ Len(r.allocation_priority[t]) = 1
            \/ FirstShots(r, launched, use, t) = Wanted(r, t, launched[t])
            => EngageFirst(r, launched, use, t)
<1> DEFINE I == r.interceptors
           prio == r.allocation_priority[t]
           P == ToSet(prio)
           per == r.per_pairing[t]
           best == prio[1]
           shots == use.left[best] \div per[best]
           W == Wanted(r, t, launched[t])
           C == Ceiling(r, use.left, t)
           zeros == [i \in I |-> 0]
           base == [left |-> use.left, fired |-> zeros, remaining |-> Least(W, C)]
           done == TakeAll(per, base, prio)
           u == Engage(r, launched, use, t)
<1>1. GoodThreat(r, t)
  BY CheckedThreat
<1>2. prio \in Seq(I) /\ prio # <<>> /\ Prices(per, P) /\ P \subseteq I
  BY <1>1 DEF GoodThreat, Prices, ToSet
<1>3. prio \in Seq(P) /\ best \in P
  BY <1>2, EmptySeq DEF ToSet
<1>4. use.left \in [I -> Nat] /\ use.fired \in [r.threats -> [I -> Nat]]
  BY DEF Uses
<1>5. W \in Nat
  BY WantedIs
<1>6. C \in Nat /\ shots \in Nat /\ shots <= C /\ (Len(prio) = 1 => C = shots)
  BY <1>4, CeilingIs
<1>7. base \in Acc(I) /\ base.fired = zeros /\ base.remaining = Least(W, C) /\ base.left = use.left
  BY <1>4, <1>5, <1>6 DEF Acc, Least
<1>8. u = [left |-> done.left, fired |-> [use.fired EXCEPT ![t] = done.fired]]
  BY DEF Engage, TakeAll
<1>9. FirstShots(r, launched, use, t) = Least(W, shots)
  BY DEF FirstShots
<1> HIDE DEF I, prio, P, per, best, shots, W, C, zeros, base, done, u
<1>10. Within(per, I, P, base, done) /\ TakesFirst(per, base, prio)
  <2>1. base.fired = [i \in I |-> 0]
    BY <1>7 DEF zeros
  <2>2. QED
    BY <1>2, <1>3, <1>7, <2>1, TakeAllWithin DEF done
<1>11. done.left \in [I -> Nat] /\ done.fired \in [I -> Nat]
  BY <1>10 DEF Within, Acc
<1>12. u \in Uses(r) /\ u.fired[t] = done.fired /\ u.left = done.left
         /\ \A q \in r.threats \ {t} : u.fired[q] = use.fired[q]
  BY <1>4, <1>8, <1>11 DEF Uses, I
<1>13. \A i \in I : Used(r, u, t, i) = Spent(per, done.fired, i)
  BY <1>12 DEF Used, Spent, per
<1>14. EngageKeeps(r, launched, use, t)
  BY <1>7, <1>10, <1>12, <1>13 DEF EngageKeeps, Within, I, P, prio, u
<1>15. ASSUME Len(prio) = 1 \/ Least(W, shots) = W
       PROVE  EngageFirst(r, launched, use, t)
  <2>1. Least(W, C) = Least(W, shots) /\ Least(W, shots) <= shots /\ Least(W, shots) \in Nat
    BY <1>5, <1>6, <1>15 DEF Least
  <2>2. base.remaining <= base.left[best] \div per[best]
    BY <1>7, <2>1 DEF shots
  <2> DEFINE n == Least(W, shots)
  <2>3. base.remaining = n /\ n \in Nat
    BY <1>7, <2>1
  <2> HIDE DEF n
  <2>4. /\ u.left = [use.left EXCEPT ![best] = use.left[best] - n * per[best]]
        /\ u.fired[t] = [zeros EXCEPT ![best] = n]
    BY <1>7, <1>10, <1>12, <2>2, <2>3 DEF TakesFirst, best, done
  <2>5. FirstShots(r, launched, use, t) = n
    BY <1>9 DEF n
  <2>6. QED
    BY <2>3, <2>4, <2>5 DEF EngageFirst, u, best, prio, per, zeros, I
<1>16. QED
  BY <1>9, <1>14, <1>15 DEF prio, W

-----------------------------------------------------------------------------
(***************************************************************************)
(* The allocation and the demand, threat by threat.                        *)
(***************************************************************************)
Launches(r)   == [r.threats -> Nat]
Magazines(r)  == [r.interceptors -> Nat]
\* Before the first threat.
Untouched(r, stock) ==
  [left |-> stock, fired |-> [t \in r.threats |-> [i \in r.interceptors |-> 0]]]

\* Allocation, of a stock.
AllocationOf(r, stock, launched) ==
  FoldLeft(LAMBDA use, t : Engage(r, launched, use, t), Untouched(r, stock), r.threat_order)

\* The allocation reads the stock of the state and nothing else of it.
LEMMA AllocationOfStock ==
  ASSUME NEW r, NEW s, NEW launched, s.interceptor_inventory \in Magazines(r)
  PROVE  Allocation(s, r, launched) = AllocationOf(r, s.interceptor_inventory, launched)
<1>1. [i \in r.interceptors |-> s.interceptor_inventory[i]] = s.interceptor_inventory
  BY DEF Magazines
<1>2. QED
  BY <1>1, Zenon DEF Allocation, AllocationOf, Untouched

\* The prefixes of the threat order, and what each threat does.
EngagesOneByOne(r, stock, launched, F) ==
  /\ PrefixesIn(Uses(r), F, r.threat_order)
  /\ F[1..0] = Untouched(r, stock)
  /\ \A n \in 1..Len(r.threat_order) : F[1..n] = Engage(r, launched, F[1..(n - 1)], r.threat_order[n])
  /\ AllocationOf(r, stock, launched) = F[1..Len(r.threat_order)]

\* A name in the threat order that is no threat engages nothing.
LEMMA EngageOther ==
  ASSUME NEW r, NEW launched, NEW use, NEW t, t \notin r.threats
  PROVE  Engage(r, launched, use, t) = use
BY DEF Engage

\* The allocation goes through the threats one by one.
LEMMA EngageFold ==
  ASSUME NEW r, Checked(r), NEW stock \in Magazines(r), NEW launched \in Launches(r)
  PROVE  \E F : EngagesOneByOne(r, stock, launched, F)
<1> DEFINE order == r.threat_order
           P == ToSet(order)
           V == Uses(r)
           base == Untouched(r, stock)
           h == [p \in V \X P |-> Engage(r, launched, p[1], p[2])]
           D == SUBSET DOMAIN order
           Shape(g) == g = [s \in D |-> IF s = {} THEN base
                                        ELSE Engage(r, launched, g[s \ {Max(s)}], order[Max(s)])]
           F == CHOOSE g : Shape(g)
<1>1. h \in [V \X P -> V]
  <2> SUFFICES ASSUME NEW use \in V, NEW t \in P
               PROVE  Engage(r, launched, use, t) \in V
    OBVIOUS
  <2>1. CASE t \in r.threats
    <3>1. EngageKeeps(r, launched, use, t)
      BY <2>1, EngageIs DEF Launches
    <3>2. QED
      BY <3>1 DEF EngageKeeps
  <2>2. CASE t \notin r.threats
    BY <2>2, EngageOther
  <2>3. QED
    BY <2>1, <2>2
<1>2. \A a \in V, i \in P : h[<<a, i>>] = Engage(r, launched, a, i)
  OBVIOUS
<1>3. order \in Seq(P) /\ base \in V
  BY DEF Checked, IsRuleset, IsASequence, Uses, Untouched, Magazines
<1>4. \A i \in DOMAIN order : order[i] \in P
  BY DEF ToSet
<1> HIDE DEF h, P, V, base, order
<1>5. PICK g \in [D -> V] : SeqFolds(g, order, base, h)
  BY <1>1, <1>3, SequenceFold
<1>6. Shape(g)
  <2>1. \A s \in D : g[s] = IF s = {} THEN base
                            ELSE Engage(r, launched, g[s \ {Max(s)}], order[Max(s)])
    BY <1>2, <1>4, <1>5 DEF SeqFolds
  <2>2. QED
    BY <2>1
<1>7. Shape(F)
  <2> HIDE DEF Shape
  <2>1. QED
    BY <1>6
<1>8. AllocationOf(r, stock, launched) = F[DOMAIN order]
  BY DEF AllocationOf, FoldLeft, MapThenFoldSet, order, base
<1> HIDE DEF F
<1>9. FoldsIn(V, F, order, base, h)
  <2>1. \A s \in D : s # {} => Max(s) \in DOMAIN order
    BY <1>5 DEF SeqFolds
  <2>2. \A s \in D : F[s] = IF s = {} THEN base
                            ELSE Engage(r, launched, F[s \ {Max(s)}], order[Max(s)])
    BY <1>7
  <2>3. QED
    BY <1>2, <1>4, <2>1, <2>2 DEF FoldsIn
<1>10. PrefixesIn(V, F, order) /\ Steps(F, order, base, h)
  <2> HIDE DEF D, Shape
  <2>1. QED
    BY <1>1, <1>3, <1>9, FoldedPrefixes
<1>11. F[DOMAIN order] = F[1..Len(order)]
  BY <1>3
<1>12. ASSUME NEW n \in 1..Len(order)
       PROVE  F[1..n] = Engage(r, launched, F[1..(n - 1)], order[n])
  <2>1. n - 1 \in 0..Len(order) /\ n \in DOMAIN order
    BY <1>3
  <2>2. F[1..(n - 1)] \in V /\ order[n] \in P
    BY <1>4, <1>10, <2>1 DEF PrefixesIn
  <2>3. QED
    BY <1>2, <1>10, <2>2 DEF Steps
<1>13. F[1..0] = base
  BY <1>10 DEF Steps
<1>14. QED
  BY <1>8, <1>10, <1>11, <1>12, <1>13 DEF EngagesOneByOne, order, V, base

\* The same of the demand.
DrawsOneByOne(r, launched, G) ==
  /\ PrefixesIn(Magazines(r), G, r.threat_order)
  /\ G[1..0] = [i \in r.interceptors |-> 0]
  /\ \A n \in 1..Len(r.threat_order) : G[1..n] = Draw(r, launched, G[1..(n - 1)], r.threat_order[n])
  /\ Demand(r, launched) = G[1..Len(r.threat_order)]

\* A threat draws on its first choice, and on no other.
DrawIs(r, launched, demand, t) ==
  LET best == r.allocation_priority[t][1]
      cost == Wanted(r, t, launched[t]) * r.per_pairing[t][best]
      d    == Draw(r, launched, demand, t)
  IN  /\ d \in Magazines(r)
      /\ t \notin r.threats => d = demand
      /\ t \in r.threats => /\ best \in r.interceptors /\ cost \in Nat
                            /\ d = [demand EXCEPT ![best] = demand[best] + cost]

\* A threat adds to the demand of its best type alone.
LEMMA DrawStep ==
  ASSUME NEW r, Checked(r), NEW launched \in Launches(r), NEW demand \in Magazines(r), NEW t
  PROVE  DrawIs(r, launched, demand, t)
<1> DEFINE best == r.allocation_priority[t][1]
           W == Wanted(r, t, launched[t])
           per == r.per_pairing[t][best]
           cost == W * per
<1>1. CASE t \in r.threats
  <2>1. GoodThreat(r, t) /\ W \in Nat
    BY <1>1, CheckedThreat, WantedIs DEF Launches
  <2>2. best \in r.interceptors /\ per \in Nat \ {0}
    <3> DEFINE prio == r.allocation_priority[t]
    <3>1. prio \in Seq(r.interceptors) /\ prio # <<>>
            /\ \A i \in ToSet(prio) : r.per_pairing[t][i] \in Nat \ {0}
      BY <2>1 DEF GoodThreat
    <3> HIDE DEF prio
    <3>2. prio[1] \in r.interceptors /\ prio[1] \in ToSet(prio)
      BY <3>1, EmptySeq DEF ToSet
    <3>3. QED
      BY <3>1, <3>2 DEF prio
  <2>3. Draw(r, launched, demand, t) = [demand EXCEPT ![best] = demand[best] + cost]
    BY <1>1 DEF Draw
  <2> HIDE DEF W, per, best
  <2>4. cost \in Nat
    BY <2>1, <2>2
  <2> HIDE DEF cost
  <2>5. [demand EXCEPT ![best] = demand[best] + cost] \in Magazines(r)
    BY <2>2, <2>4 DEF Magazines
  <2>6. QED
    BY <1>1, <2>2, <2>3, <2>4, <2>5 DEF DrawIs, best, cost, W, per
<1>2. CASE t \notin r.threats
  BY <1>2 DEF DrawIs, Draw
<1>3. QED
  BY <1>1, <1>2

\* The demand goes through the threats one by one.
LEMMA DrawFold ==
  ASSUME NEW r, Checked(r), NEW launched \in Launches(r)
  PROVE  \E G : DrawsOneByOne(r, launched, G)
<1> DEFINE order == r.threat_order
           P == ToSet(order)
           V == Magazines(r)
           base == [i \in r.interceptors |-> 0]
           h == [p \in V \X P |-> Draw(r, launched, p[1], p[2])]
           D == SUBSET DOMAIN order
           Shape(g) == g = [s \in D |-> IF s = {} THEN base
                                        ELSE Draw(r, launched, g[s \ {Max(s)}], order[Max(s)])]
           F == CHOOSE g : Shape(g)
<1>1. h \in [V \X P -> V]
  <2> SUFFICES ASSUME NEW demand \in V, NEW t \in P
               PROVE  Draw(r, launched, demand, t) \in V
    OBVIOUS
  <2>1. DrawIs(r, launched, demand, t)
    BY DrawStep
  <2>2. QED
    BY <2>1 DEF DrawIs
<1>2. \A a \in V, i \in P : h[<<a, i>>] = Draw(r, launched, a, i)
  OBVIOUS
<1>3. order \in Seq(P) /\ base \in V
  BY DEF Checked, IsRuleset, IsASequence, Magazines
<1>4. \A i \in DOMAIN order : order[i] \in P
  BY DEF ToSet
<1> HIDE DEF h, P, V, base, order
<1>5. PICK g \in [D -> V] : SeqFolds(g, order, base, h)
  BY <1>1, <1>3, SequenceFold
<1>6. Shape(g)
  <2>1. \A s \in D : g[s] = IF s = {} THEN base
                            ELSE Draw(r, launched, g[s \ {Max(s)}], order[Max(s)])
    BY <1>2, <1>4, <1>5 DEF SeqFolds
  <2>2. QED
    BY <2>1
<1>7. Shape(F)
  <2> HIDE DEF Shape
  <2>1. QED
    BY <1>6
<1>8. Demand(r, launched) = F[DOMAIN order]
  BY DEF Demand, FoldLeft, MapThenFoldSet, order, base
<1> HIDE DEF F
<1>9. FoldsIn(V, F, order, base, h)
  <2>1. \A s \in D : s # {} => Max(s) \in DOMAIN order
    BY <1>5 DEF SeqFolds
  <2>2. \A s \in D : F[s] = IF s = {} THEN base
                            ELSE Draw(r, launched, F[s \ {Max(s)}], order[Max(s)])
    BY <1>7
  <2>3. QED
    BY <1>2, <1>4, <2>1, <2>2 DEF FoldsIn
<1>10. PrefixesIn(V, F, order) /\ Steps(F, order, base, h)
  <2> HIDE DEF D, Shape
  <2>1. QED
    BY <1>1, <1>3, <1>9, FoldedPrefixes
<1>11. F[DOMAIN order] = F[1..Len(order)]
  BY <1>3
<1>12. ASSUME NEW n \in 1..Len(order)
       PROVE  F[1..n] = Draw(r, launched, F[1..(n - 1)], order[n])
  <2>1. n - 1 \in 0..Len(order) /\ n \in DOMAIN order
    BY <1>3
  <2>2. F[1..(n - 1)] \in V /\ order[n] \in P
    BY <1>4, <1>10, <2>1 DEF PrefixesIn
  <2>3. QED
    BY <1>2, <1>10, <2>2 DEF Steps
<1>13. F[1..0] = base
  BY <1>10 DEF Steps
<1>14. QED
  BY <1>8, <1>10, <1>11, <1>12, <1>13 DEF DrawsOneByOne, order, V, base

-----------------------------------------------------------------------------
(***************************************************************************)
(* What the allocation consumes.                                           *)
(***************************************************************************)
\* What is consumed is gone from the stock.
Held(r, stock, use) ==
  /\ use \in Uses(r)
  /\ \A t \in r.threats, i \in r.interceptors : Used(r, use, t, i) \in Nat
  /\ Consumed(r, use) \in Magazines(r)
  /\ \A i \in r.interceptors : use.left[i] + Consumed(r, use)[i] <= stock[i]

\* The threats of the first n of the order.
Seen(r, n) == {r.threat_order[m] : m \in 1..n}

\* The order names every threat once: the next one was not seen before.
LEMMA SeenNext ==
  ASSUME NEW r, Checked(r), NEW n \in 1..Len(r.threat_order)
  PROVE  /\ Seen(r, n) = Seen(r, n - 1) \cup {r.threat_order[n]}
         /\ r.threat_order[n] \notin Seen(r, n - 1)
<1> DEFINE order == r.threat_order
<1>1. /\ \A a, b \in DOMAIN order : order[a] = order[b] => a = b
      /\ DOMAIN order = 1..Len(order) /\ Len(order) \in Nat
  BY DEF Checked, IsRuleset, IsInjective, IsASequence
<1> HIDE DEF order
<1>2. \A m \in 1..(n - 1) : m \in DOMAIN order /\ m # n
  BY <1>1 DEF order
<1>3. order[n] \notin {order[m] : m \in 1..(n - 1)}
  BY <1>1, <1>2 DEF order
<1>4. 1..n = (1..(n - 1)) \cup {n}
  BY <1>1 DEF order
<1>5. QED
  BY <1>3, <1>4 DEF Seen, order

LEMMA SeenAll ==
  ASSUME NEW r, Checked(r)
  PROVE  /\ Seen(r, 0) = {} /\ r.threats \subseteq Seen(r, Len(r.threat_order))
         /\ Len(r.threat_order) \in Nat
BY DEF Checked, IsRuleset, IsASequence, Seen, ToSet

LEMMA HeldAtFirst ==
  ASSUME NEW r, Checked(r), NEW stock \in Magazines(r)
  PROVE  /\ Held(r, stock, Untouched(r, stock))
         /\ \A i \in r.interceptors : Consumed(r, Untouched(r, stock))[i] = 0
<1> DEFINE use == Untouched(r, stock)
<1>1. use \in Uses(r) /\ use.left = stock
        /\ \A t \in r.threats, i \in r.interceptors : use.fired[t][i] = 0
  BY DEF Uses, Untouched, Magazines
<1> HIDE DEF use
<1>2. \A t \in r.threats, i \in r.interceptors : Used(r, use, t, i) = 0
  BY <1>1 DEF Used
<1>3. ASSUME NEW i \in r.interceptors
      PROVE  Consumed(r, use)[i] = 0
  <2> DEFINE f == [t \in r.threats |-> Used(r, use, t, i)]
  <2>1. f \in [r.threats -> Int] /\ (\A t \in r.threats : f[t] = 0) /\ IsFiniteSet(r.threats)
    BY <1>2 DEF Checked, IsRuleset
  <2>2. Consumed(r, use)[i] = SumOf(f)
    BY DEF Consumed
  <2> HIDE DEF f
  <2>3. QED
    BY <2>1, <2>2, SumOfZeros
<1>4. \A i \in r.interceptors : use.left[i] + Consumed(r, use)[i] <= stock[i]
  BY <1>1, <1>3 DEF Magazines
<1>5. Consumed(r, use) \in Magazines(r)
  <2>1. \A i \in r.interceptors : Consumed(r, use)[i] \in Nat
    BY <1>3
  <2>2. QED
    BY <2>1 DEF Magazines, Consumed
<1>6. QED
  BY <1>1, <1>2, <1>3, <1>4, <1>5 DEF Held, use

\* A threat changes what is consumed by what it used.
LEMMA EngageConsumes ==
  ASSUME NEW r, Checked(r), NEW stock \in Magazines(r), NEW launched \in Launches(r),
         NEW t \in r.threats, NEW use, Held(r, stock, use)
  PROVE  LET u == Engage(r, launched, use, t) IN
         /\ Held(r, stock, u)
         /\ \A i \in r.interceptors :
              Consumed(r, u)[i] = Consumed(r, use)[i] + Used(r, u, t, i) - Used(r, use, t, i)
<1> DEFINE u == Engage(r, launched, use, t)
<1>1. use \in Uses(r) /\ \A q \in r.threats, i \in r.interceptors : Used(r, use, q, i) \in Nat
  BY DEF Held
<1>2. EngageKeeps(r, launched, use, t)
  BY <1>1, EngageIs DEF Launches
<1>3. /\ u \in Uses(r)
      /\ \A q \in r.threats \ {t} : u.fired[q] = use.fired[q]
      /\ \A i \in r.interceptors :
           Used(r, u, t, i) \in Nat /\ u.left[i] + Used(r, u, t, i) <= use.left[i]
  BY <1>2 DEF EngageKeeps
<1> HIDE DEF u
<1>4. \A q \in r.threats \ {t}, i \in r.interceptors : Used(r, u, q, i) = Used(r, use, q, i)
  BY <1>3 DEF Used
<1>5. ASSUME NEW i \in r.interceptors
      PROVE  Consumed(r, u)[i] = Consumed(r, use)[i] + Used(r, u, t, i) - Used(r, use, t, i)
  <2> DEFINE f == [q \in r.threats |-> Used(r, use, q, i)]
             g == [q \in r.threats |-> Used(r, u, q, i)]
  <2>1. /\ f \in [r.threats -> Int] /\ g \in [r.threats -> Int]
        /\ \A q \in r.threats \ {t} : g[q] = f[q]
        /\ g[t] = Used(r, u, t, i) /\ f[t] = Used(r, use, t, i)
    BY <1>1, <1>3, <1>4
  <2>2. IsFiniteSet(r.threats)
    BY CheckedThreat
  <2>3. Consumed(r, u)[i] = SumOf(g) /\ Consumed(r, use)[i] = SumOf(f)
    BY DEF Consumed
  <2> HIDE DEF f, g
  <2>4. SumOf(g) = SumOf(f) + g[t] - f[t]
    BY <2>1, <2>2, SumOfChanged
  <2>5. QED
    BY <2>1, <2>3, <2>4
<1>6. ASSUME NEW i \in r.interceptors
      PROVE  Consumed(r, u)[i] \in Nat /\ u.left[i] + Consumed(r, u)[i] <= stock[i]
  <2> DEFINE f == [q \in r.threats |-> Used(r, u, q, i)]
  <2>1. f \in [r.threats -> Nat] /\ IsFiniteSet(r.threats)
    BY <1>1, <1>3, <1>4, CheckedThreat
  <2>2. Consumed(r, u)[i] = SumOf(f)
    BY DEF Consumed
  <2> HIDE DEF f
  <2>3. Consumed(r, u)[i] \in Nat
    BY <2>1, <2>2, SumOfNaturals
  <2>4. /\ Consumed(r, use)[i] \in Nat /\ use.left[i] + Consumed(r, use)[i] <= stock[i]
        /\ use.left[i] \in Nat /\ u.left[i] \in Nat /\ stock[i] \in Nat
        /\ Used(r, use, t, i) \in Nat
    BY <1>1, <1>3 DEF Held, Magazines, Uses
  <2>5. Used(r, u, t, i) \in Nat /\ u.left[i] + Used(r, u, t, i) <= use.left[i]
    BY <1>3
  <2>6. QED
    BY <1>5, <2>3, <2>4, <2>5
<1>7. Consumed(r, u) \in Magazines(r)
  BY <1>6 DEF Magazines, Consumed
<1>8. \A q \in r.threats, i \in r.interceptors : Used(r, u, q, i) \in Nat
  BY <1>1, <1>3, <1>4
<1>9. Held(r, stock, u)
  BY <1>3, <1>6, <1>7, <1>8 DEF Held
<1>10. QED
  BY <1>5, <1>9 DEF u

\* No allocation overdraws the stock.
LEMMA AllocationHeld ==
  ASSUME NEW r, Checked(r), NEW stock \in Magazines(r), NEW launched \in Launches(r)
  PROVE  Held(r, stock, AllocationOf(r, stock, launched))
<1>1. PICK F : EngagesOneByOne(r, stock, launched, F)
  BY EngageFold
<1> DEFINE m == Len(r.threat_order)
           K == {n \in Nat : n <= m => Held(r, stock, F[1..n])}
<1>2. 0 \in K
  BY <1>1, HeldAtFirst DEF EngagesOneByOne
<1>3. ASSUME NEW n \in Nat, n \in K
      PROVE  n + 1 \in K
  <2> SUFFICES ASSUME n + 1 <= m
               PROVE  Held(r, stock, F[1..(n + 1)])
    OBVIOUS
  <2> DEFINE t == r.threat_order[n + 1]
  <2>1. m \in Nat
    BY SeenAll
  <2>2. n + 1 \in 1..m /\ (n + 1) - 1 = n /\ Held(r, stock, F[1..n])
    BY <1>3, <2>1
  <2>3. F[1..(n + 1)] = Engage(r, launched, F[1..n], t)
    BY <1>1, <2>2 DEF EngagesOneByOne
  <2> HIDE DEF t
  <2>4. QED
    BY <2>2, <2>3, EngageOther, EngageConsumes
<1>4. Nat \subseteq K
  <2> HIDE DEF K
  <2>1. QED
    BY <1>2, <1>3, NatSetInduction
<1>5. QED
  BY <1>1, <1>4, SeenAll DEF EngagesOneByOne

-----------------------------------------------------------------------------
(***************************************************************************)
(* Where the stock meets the demand.                                       *)
(***************************************************************************)
LEMMA AttemptsAre ==
  ASSUME NEW r, Checked(r), NEW use \in Uses(r), NEW t \in r.threats
  PROVE  /\ Attempts(use, t) \in Nat
         /\ \A b \in r.interceptors, n \in Nat :
              use.fired[t] = [[i \in r.interceptors |-> 0] EXCEPT ![b] = n]
                => Attempts(use, t) = n
<1> DEFINE f == use.fired[t]
           I == r.interceptors
<1>1. f \in [I -> Nat] /\ IsFiniteSet(I)
  BY CheckedThreat DEF Uses
<1>2. Attempts(use, t) = SumOf(f)
  BY DEF Attempts
<1> HIDE DEF f, I
<1>3. SumOf(f) \in Nat
  BY <1>1, SumOfNaturals
<1>4. ASSUME NEW b \in I, NEW n \in Nat, f = [[i \in I |-> 0] EXCEPT ![b] = n]
      PROVE  SumOf(f) = n
  <2>1. f \in [I -> Int] /\ f[b] = n /\ \A y \in I \ {b} : f[y] = 0
    BY <1>1, <1>4
  <2>2. QED
    BY <1>1, <2>1, SumOfOne
<1>5. QED
  BY <1>2, <1>3, <1>4 DEF f, I

\* Along the order every threat so far was met by its first choice alone, with
\* all that was wanted, and what was consumed is what was demanded.
Met(r, stock, launched, use, demand, n) ==
  /\ Held(r, stock, use)
  /\ \A i \in r.interceptors : use.left[i] = stock[i] - demand[i] /\ Consumed(r, use)[i] = demand[i]
  /\ \A t \in r.threats :
       IF t \in Seen(r, n) THEN Attempts(use, t) = Wanted(r, t, launched[t])
       ELSE use.fired[t] = [i \in r.interceptors |-> 0]

\* A threat whose demand is affordable is met by its best type, and nothing else is drawn.
LEMMA EngageMet ==
  ASSUME NEW r, Checked(r), NEW stock \in Magazines(r), NEW launched \in Launches(r),
         NEW n \in 1..Len(r.threat_order), NEW use, NEW demand \in Magazines(r),
         Met(r, stock, launched, use, demand, n - 1),
         \A i \in r.interceptors : Draw(r, launched, demand, r.threat_order[n])[i] <= stock[i]
  PROVE  Met(r, stock, launched, Engage(r, launched, use, r.threat_order[n]),
             Draw(r, launched, demand, r.threat_order[n]), n)
<1> DEFINE t == r.threat_order[n]
           u == Engage(r, launched, use, t)
           d == Draw(r, launched, demand, t)
           I == r.interceptors
<1>1. Seen(r, n) = Seen(r, n - 1) \cup {t} /\ t \notin Seen(r, n - 1)
  BY SeenNext
<1>2. DrawIs(r, launched, demand, t)
  BY DrawStep
<1>3. CASE t \notin r.threats
  <2>1. u = use /\ d = demand
    BY <1>2, <1>3, EngageOther DEF DrawIs
  <2>2. \A q \in r.threats : q \in Seen(r, n) <=> q \in Seen(r, n - 1)
    BY <1>1, <1>3
  <2> HIDE DEF t, u, d
  <2>3. QED
    BY <2>1, <2>2 DEF Met, t, u, d
<1>4. CASE t \in r.threats
  <2> DEFINE best == r.allocation_priority[t][1]
             W == Wanted(r, t, launched[t])
             per == r.per_pairing[t][best]
             cost == W * per
  <2>1. /\ best \in I /\ cost \in Nat /\ d \in Magazines(r)
        /\ d = [demand EXCEPT ![best] = demand[best] + cost]
    BY <1>2, <1>4 DEF DrawIs
  <2>2. /\ Held(r, stock, use) /\ use \in Uses(r)
        /\ \A i \in I : use.left[i] = stock[i] - demand[i] /\ Consumed(r, use)[i] = demand[i]
        /\ use.fired[t] = [i \in I |-> 0]
    BY <1>1, <1>4 DEF Met, Held
  <2>3. W \in Nat /\ per \in Nat \ {0}
    <3> DEFINE prio == r.allocation_priority[t]
    <3>1. GoodThreat(r, t)
      BY <1>4, CheckedThreat
    <3>2. prio \in Seq(I) /\ prio # <<>> /\ \A i \in ToSet(prio) : r.per_pairing[t][i] \in Nat \ {0}
      BY <3>1 DEF GoodThreat
    <3>3. prio[1] \in ToSet(prio)
      <4> HIDE DEF prio
      <4>1. QED
        BY <3>2, EmptySeq DEF ToSet
    <3>4. W \in Nat
      BY <1>4, WantedIs DEF Launches
    <3>5. QED
      BY <3>2, <3>3, <3>4
  <2>4. \A i \in I : use.left[i] \in Nat /\ stock[i] \in Nat /\ demand[i] \in Nat
    BY <2>2 DEF Uses, Magazines
  <2> HIDE DEF t, u, d, I, best, W, per
  <2>5. W <= use.left[best] \div per
    <3>1. d[best] = demand[best] + cost /\ d[best] <= stock[best]
      <4>1. d[best] <= stock[best]
        BY <2>1 DEF I, d, t
      <4>2. QED
        BY <2>1, <4>1 DEF Magazines, I
    <3>2. cost <= use.left[best]
      <4> HIDE DEF cost
      <4>1. QED
        BY <2>1, <2>2, <2>4, <3>1
    <3>3. use.left[best] \in Nat
      BY <2>1, <2>4
    <3>4. QED
      BY <2>3, <3>2, <3>3, Shots
  <2>6. FirstShots(r, launched, use, t) = W
    BY <2>5 DEF FirstShots, Least, W, best, per
  <2>7. EngageFirst(r, launched, use, t)
    BY <1>4, <2>2, <2>6, EngageIs DEF Launches, W
  <2>8. /\ u.left = [use.left EXCEPT ![best] = use.left[best] - cost]
        /\ u.fired[t] = [[i \in I |-> 0] EXCEPT ![best] = W]
    BY <2>6, <2>7 DEF EngageFirst, u, best, per, I
  <2>9. /\ Held(r, stock, u)
        /\ \A i \in I : Consumed(r, u)[i] = Consumed(r, use)[i] + Used(r, u, t, i) - Used(r, use, t, i)
    BY <1>4, <2>2, EngageConsumes DEF u, I
  <2>10. \A i \in I : Used(r, use, t, i) = 0
    BY <2>2 DEF Used
  <2>11. \A i \in I : Used(r, u, t, i) = IF i = best THEN cost ELSE 0
    <3>1. \A i \in I : u.fired[t][i] = IF i = best THEN W ELSE 0
      BY <2>1, <2>8
    <3>2. W = 0 => cost = 0
      BY <2>3
    <3>3. r.per_pairing[t][best] = per
      BY DEF per
    <3>4. ASSUME NEW i \in I
          PROVE  Used(r, u, t, i) = IF i = best THEN cost ELSE 0
      <4>1. CASE i # best
        BY <3>1, <4>1 DEF Used
      <4>2. CASE i = best /\ W > 0
        BY <3>1, <3>3, <4>2 DEF Used
      <4>3. CASE i = best /\ ~(W > 0)
        BY <2>3, <3>1, <3>2, <4>3 DEF Used
      <4>4. QED
        BY <4>1, <4>2, <4>3
    <3>5. QED
      BY <3>4
  <2> HIDE DEF cost
  <2>12. \A i \in I : u.left[i] = stock[i] - d[i] /\ Consumed(r, u)[i] = d[i]
    <3> SUFFICES ASSUME NEW i \in I
                 PROVE  u.left[i] = stock[i] - d[i] /\ Consumed(r, u)[i] = d[i]
      OBVIOUS
    <3>1. u.left[i] = use.left[i] - (IF i = best THEN cost ELSE 0)
      BY <2>1, <2>2, <2>4, <2>8 DEF Uses, I
    <3>2. d[i] = demand[i] + (IF i = best THEN cost ELSE 0)
      BY <2>1, <2>4 DEF Magazines, I
    <3>3. Consumed(r, u)[i] = demand[i] + (IF i = best THEN cost ELSE 0)
      BY <2>1, <2>2, <2>4, <2>9, <2>10, <2>11
    <3>4. QED
      BY <2>1, <2>2, <2>4, <3>1, <3>2, <3>3
  <2>13. Attempts(u, t) = W
    <3>1. u \in Uses(r)
      BY <2>9 DEF Held
    <3>2. QED
      BY <1>4, <2>1, <2>3, <2>8, <3>1, AttemptsAre DEF I
  <2>14. \A q \in r.threats \ {t} : u.fired[q] = use.fired[q]
    <3>1. EngageKeeps(r, launched, use, t)
      BY <1>4, <2>2, EngageIs DEF Launches
    <3>2. QED
      BY <3>1 DEF EngageKeeps, u
  <2>15. ASSUME NEW q \in r.threats
         PROVE  IF q \in Seen(r, n) THEN Attempts(u, q) = Wanted(r, q, launched[q])
                ELSE u.fired[q] = [i \in I |-> 0]
    <3>1. CASE q = t
      BY <1>1, <2>13, <3>1 DEF W, t
    <3>2. CASE q # t
      <4>1. u.fired[q] = use.fired[q] /\ Attempts(u, q) = Attempts(use, q)
        BY <2>14, <3>2 DEF Attempts
      <4>2. q \in Seen(r, n) <=> q \in Seen(r, n - 1)
        BY <1>1, <3>2 DEF t
      <4>3. QED
        BY <4>1, <4>2 DEF Met, I
    <3>3. QED
      BY <3>1, <3>2
  <2>16. QED
    BY <2>9, <2>12, <2>15 DEF Met, I, u, d, t
<1>5. QED
  BY <1>3, <1>4

\* The stock covers what the week would draw if it were unlimited.
Affordable(r, stock, launched) == \A i \in r.interceptors : Demand(r, launched)[i] <= stock[i]

\* Where the stock affords the demand, every threat gets what was wanted and
\* what is consumed is the demand.
LEMMA DemandMet ==
  ASSUME NEW r, Checked(r), NEW stock \in Magazines(r), NEW launched \in Launches(r),
         Affordable(r, stock, launched)
  PROVE  LET use == AllocationOf(r, stock, launched) IN
         /\ \A t \in r.threats : Attempts(use, t) = Wanted(r, t, launched[t])
         /\ \A i \in r.interceptors : Consumed(r, use)[i] = Demand(r, launched)[i]
<1>1. PICK F : EngagesOneByOne(r, stock, launched, F)
  BY EngageFold
<1>2. PICK G : DrawsOneByOne(r, launched, G)
  BY DrawFold
<1> DEFINE m == Len(r.threat_order)
           I == r.interceptors
<1>3. m \in Nat /\ Seen(r, 0) = {} /\ r.threats \subseteq Seen(r, m)
  BY SeenAll
<1>4. \A n \in 0..m : G[1..n] \in Magazines(r)
  BY <1>2 DEF DrawsOneByOne, PrefixesIn
<1>5. ASSUME NEW n \in 1..m
      PROVE  \A i \in I : G[1..(n - 1)][i] <= G[1..n][i]
  <2> DEFINE demand == G[1..(n - 1)]
             t == r.threat_order[n]
  <2>1. demand \in Magazines(r) /\ G[1..n] = Draw(r, launched, demand, t)
    BY <1>2, <1>3, <1>4 DEF DrawsOneByOne
  <2> HIDE DEF demand, t
  <2>2. DrawIs(r, launched, demand, t)
    BY <2>1, DrawStep
  <2> DEFINE best == r.allocation_priority[t][1]
             cost == Wanted(r, t, launched[t]) * r.per_pairing[t][best]
  <2>3. G[1..n] = demand \/ (best \in I /\ cost \in Nat
                               /\ G[1..n] = [demand EXCEPT ![best] = demand[best] + cost])
    BY <2>1, <2>2 DEF DrawIs
  <2>4. \A i \in I : demand[i] \in Nat
    BY <2>1 DEF Magazines
  <2> HIDE DEF best, cost
  <2>5. ASSUME NEW i \in I
        PROVE  demand[i] <= G[1..n][i]
    <3> DEFINE d == G[1..n]
    <3>1. d = demand \/ (best \in I /\ cost \in Nat
                           /\ d = [demand EXCEPT ![best] = demand[best] + cost])
      BY <2>3
    <3> HIDE DEF d, m
    <3>2. demand \in [I -> Nat] /\ demand[i] \in Nat
      BY <2>1 DEF Magazines
    <3>3. demand[i] <= d[i]
      BY <3>1, <3>2
    <3>4. QED
      BY <3>3 DEF d
  <2>6. QED
    BY <2>5 DEF demand
<1> DEFINE Back == {k \in Nat : k <= m => \A i \in I : G[1..(m - k)][i] <= stock[i]}
<1>6. 0 \in Back
  <2>1. m - 0 = m
    BY <1>3
  <2>2. QED
    BY <1>2, <2>1 DEF DrawsOneByOne, Affordable
<1>7. ASSUME NEW k \in Nat, k \in Back
      PROVE  k + 1 \in Back
  <2> SUFFICES ASSUME k + 1 <= m, NEW i \in I
               PROVE  G[1..(m - (k + 1))][i] <= stock[i]
    OBVIOUS
  <2> DEFINE n == m - k
  <2>1. n \in 1..m /\ m - (k + 1) = n - 1 /\ n - 1 \in 0..m /\ n \in 0..m
    BY <1>3
  <2>2. G[1..n][i] <= stock[i]
    BY <1>3, <1>7
  <2> HIDE DEF n, m
  <2>3. G[1..(n - 1)][i] <= G[1..n][i]
    BY <1>5, <2>1
  <2>4. G[1..(n - 1)][i] \in Nat /\ G[1..n][i] \in Nat /\ stock[i] \in Nat
    BY <1>4, <2>1 DEF Magazines
  <2>5. QED
    BY <2>1, <2>2, <2>3, <2>4
<1>8. Nat \subseteq Back
  <2> HIDE DEF Back
  <2>1. QED
    BY <1>6, <1>7, NatSetInduction
<1>9. ASSUME NEW n \in 0..m
      PROVE  \A i \in I : G[1..n][i] <= stock[i]
  <2>1. m - n \in Nat /\ m - n <= m /\ m - (m - n) = n
    BY <1>3
  <2>2. m - n \in Back
    BY <1>8, <2>1
  <2>3. QED
    BY <2>1, <2>2
<1> HIDE DEF Back
<1> DEFINE K == {n \in Nat : n <= m => Met(r, stock, launched, F[1..n], G[1..n], n)}
<1>10. 0 \in K
  <2>1. F[1..0] = Untouched(r, stock) /\ G[1..0] = [i \in I |-> 0]
    BY <1>1, <1>2 DEF EngagesOneByOne, DrawsOneByOne
  <2>2. /\ Held(r, stock, Untouched(r, stock))
        /\ \A i \in I : Consumed(r, Untouched(r, stock))[i] = 0
    BY HeldAtFirst
  <2>3. \A i \in I : stock[i] \in Nat /\ Untouched(r, stock).left[i] = stock[i]
    BY DEF Untouched, Magazines
  <2>4. \A t \in r.threats : Untouched(r, stock).fired[t] = [i \in I |-> 0]
    BY DEF Untouched
  <2>5. Met(r, stock, launched, Untouched(r, stock), [i \in I |-> 0], 0)
    <3> DEFINE use == Untouched(r, stock)
    <3> HIDE DEF use
    <3>1. \A i \in I : use.left[i] = stock[i] - [j \in I |-> 0][i]
                         /\ Consumed(r, use)[i] = [j \in I |-> 0][i]
      BY <2>2, <2>3 DEF use
    <3>2. QED
      BY <1>3, <2>2, <2>4, <3>1 DEF Met, use
  <2>6. QED
    BY <2>1, <2>5
<1>11. ASSUME NEW n \in Nat, n \in K
       PROVE  n + 1 \in K
  <2> SUFFICES ASSUME n + 1 <= m
               PROVE  Met(r, stock, launched, F[1..(n + 1)], G[1..(n + 1)], n + 1)
    OBVIOUS
  <2> DEFINE k == n + 1
  <2>1. k \in 1..m /\ k - 1 = n /\ k \in 0..m /\ n \in 0..m
          /\ Met(r, stock, launched, F[1..n], G[1..n], n)
    BY <1>3, <1>11
  <2> HIDE DEF k, m
  <2>2. /\ F[1..k] = Engage(r, launched, F[1..n], r.threat_order[k])
        /\ G[1..k] = Draw(r, launched, G[1..n], r.threat_order[k])
    BY <1>1, <1>2, <2>1 DEF EngagesOneByOne, DrawsOneByOne, m
  <2>3. G[1..n] \in Magazines(r) /\ \A i \in I : G[1..k][i] <= stock[i]
    BY <1>4, <1>9, <2>1
  <2>4. \A i \in I : Draw(r, launched, G[1..n], r.threat_order[k])[i] <= stock[i]
    BY <2>2, <2>3
  <2>5. Met(r, stock, launched, Engage(r, launched, F[1..n], r.threat_order[k]),
            Draw(r, launched, G[1..n], r.threat_order[k]), k)
    BY <2>1, <2>3, <2>4, EngageMet DEF m
  <2>6. QED
    BY <2>2, <2>5 DEF k
<1>12. Nat \subseteq K
  <2> HIDE DEF K
  <2>1. QED
    BY <1>10, <1>11, NatSetInduction
<1>13. Met(r, stock, launched, AllocationOf(r, stock, launched), Demand(r, launched), m)
  BY <1>1, <1>2, <1>3, <1>12 DEF EngagesOneByOne, DrawsOneByOne
<1> HIDE DEF K
<1>14. QED
  BY <1>3, <1>13 DEF Met

-----------------------------------------------------------------------------
(***************************************************************************)
(* A lane: a threat whose only type meets no other threat.                 *)
(***************************************************************************)
IsLane(r, t, i) ==
  /\ t \in r.threats /\ i \in r.interceptors
  /\ r.allocation_priority[t] = <<i>>
  /\ \A q \in r.threats \ {t} : i \notin ToSet(r.allocation_priority[q])

\* What can be fired on a lane.
LaneShots(r, stock, launched, t, i) ==
  Least(Wanted(r, t, launched[t]), stock[i] \div r.per_pairing[t][i])

\* A lane's shots are whole and paid for.
LEMMA LaneShotsAre ==
  ASSUME NEW r, Checked(r), NEW stock \in Magazines(r), NEW launched \in Launches(r),
         NEW t, NEW i, IsLane(r, t, i)
  PROVE  LET n == LaneShots(r, stock, launched, t, i) IN
         /\ r.per_pairing[t][i] \in Nat \ {0}
         /\ n \in Nat /\ n * r.per_pairing[t][i] \in Nat /\ n * r.per_pairing[t][i] <= stock[i]
<1> DEFINE per == r.per_pairing[t][i]
           W == Wanted(r, t, launched[t])
           n == Least(W, stock[i] \div per)
<1>1. t \in r.threats /\ i \in r.interceptors /\ r.allocation_priority[t] = <<i>>
  BY DEF IsLane
<1>2. per \in Nat \ {0}
  <2>1. GoodThreat(r, t)
    BY <1>1, CheckedThreat
  <2>2. \A j \in ToSet(r.allocation_priority[t]) : r.per_pairing[t][j] \in Nat \ {0}
    BY <2>1 DEF GoodThreat
  <2>3. i \in ToSet(r.allocation_priority[t])
    BY <1>1 DEF ToSet
  <2>4. QED
    BY <2>2, <2>3
<1>3. W \in Nat /\ stock[i] \in Nat
  BY <1>1, WantedIs DEF Launches, Magazines
<1> HIDE DEF per, W
<1>4. stock[i] \div per \in Nat
  BY <1>2, <1>3, Shots
<1>5. n \in Nat /\ n <= stock[i] \div per
  BY <1>3, <1>4 DEF Least
<1> HIDE DEF n
<1>6. n * per <= stock[i] /\ n * per \in Nat
  BY <1>2, <1>3, <1>5, Shots
<1>7. QED
  BY <1>2, <1>5, <1>6 DEF LaneShots, n, per, W

\* Along the order the lane's stock is untouched until its threat's turn, and
\* then pays for its shots.
OnLane(r, stock, launched, t, i, use, n) ==
  LET shots == LaneShots(r, stock, launched, t, i) IN
  /\ use \in Uses(r)
  /\ \A q \in r.threats \ {t} : use.fired[q][i] = 0
  /\ IF t \in Seen(r, n)
     THEN use.fired[t] = [[j \in r.interceptors |-> 0] EXCEPT ![i] = shots]
     ELSE use.left[i] = stock[i]

\* One more threat keeps to the lane.
LEMMA EngageOnLane ==
  ASSUME NEW r, Checked(r), NEW stock \in Magazines(r), NEW launched \in Launches(r),
         NEW t, NEW i, IsLane(r, t, i), NEW n \in 1..Len(r.threat_order),
         NEW use, OnLane(r, stock, launched, t, i, use, n - 1)
  PROVE  OnLane(r, stock, launched, t, i, Engage(r, launched, use, r.threat_order[n]), n)
<1> DEFINE q == r.threat_order[n]
           u == Engage(r, launched, use, q)
<1>1. Seen(r, n) = Seen(r, n - 1) \cup {q} /\ q \notin Seen(r, n - 1)
  BY SeenNext
<1>2. /\ t \in r.threats /\ i \in r.interceptors /\ r.allocation_priority[t] = <<i>>
      /\ \A p \in r.threats \ {t} : i \notin ToSet(r.allocation_priority[p])
  BY DEF IsLane
<1>3. use \in Uses(r)
  BY DEF OnLane
<1>4. CASE q \notin r.threats
  <2>1. u = use
    BY <1>4, EngageOther
  <2>2. t \in Seen(r, n) <=> t \in Seen(r, n - 1)
    BY <1>1, <1>2, <1>4
  <2> HIDE DEF u, q
  <2>3. QED
    BY <2>1, <2>2 DEF OnLane, u, q
<1>5. CASE q \in r.threats \ {t}
  <2>1. EngageKeeps(r, launched, use, q)
    BY <1>3, <1>5, EngageIs DEF Launches
  <2> HIDE DEF q
  <2>2. /\ u \in Uses(r) /\ \A p \in r.threats \ {q} : u.fired[p] = use.fired[p]
        /\ \A j \in r.interceptors \ ToSet(r.allocation_priority[q]) :
             u.left[j] = use.left[j] /\ u.fired[q][j] = 0
    BY <2>1 DEF EngageKeeps
  <2> HIDE DEF u
  <2>3. u.left[i] = use.left[i] /\ u.fired[q][i] = 0 /\ u.fired[t] = use.fired[t]
    BY <1>2, <1>5, <2>2
  <2>4. \A p \in r.threats \ {t} : u.fired[p][i] = 0
    BY <2>2, <2>3 DEF OnLane
  <2>5. t \in Seen(r, n) <=> t \in Seen(r, n - 1)
    BY <1>1, <1>5
  <2>6. QED
    BY <2>2, <2>3, <2>4, <2>5 DEF OnLane, u, q
<1>6. CASE q = t
  <2>1. use.left[i] = stock[i]
    BY <1>1, <1>6 DEF OnLane
  <2>2. Len(r.allocation_priority[t]) = 1 /\ r.allocation_priority[t][1] = i
    BY <1>2
  <2>3. EngageKeeps(r, launched, use, t) /\ EngageFirst(r, launched, use, t)
    BY <1>2, <1>3, <2>2, EngageIs DEF Launches
  <2>4. FirstShots(r, launched, use, t) = LaneShots(r, stock, launched, t, i)
    BY <2>1, <2>2 DEF FirstShots, LaneShots
  <2>5. /\ u \in Uses(r) /\ \A p \in r.threats \ {t} : u.fired[p] = use.fired[p]
    BY <1>6, <2>3 DEF EngageKeeps
  <2>6. u.fired[t] = [[j \in r.interceptors |-> 0] EXCEPT ![i] = LaneShots(r, stock, launched, t, i)]
    BY <1>6, <2>2, <2>3, <2>4 DEF EngageFirst
  <2>7. t \in Seen(r, n)
    BY <1>1, <1>6
  <2> HIDE DEF u, q
  <2>8. \A p \in r.threats \ {t} : u.fired[p][i] = 0
    BY <2>5 DEF OnLane
  <2>9. QED
    BY <2>5, <2>6, <2>7, <2>8 DEF OnLane, u, q
<1>7. QED
  BY <1>4, <1>5, <1>6

\* All that a lane fires, and what it pays.
LEMMA LaneIs ==
  ASSUME NEW r, Checked(r), NEW stock \in Magazines(r), NEW launched \in Launches(r),
         NEW t, NEW i, IsLane(r, t, i)
  PROVE  LET use == AllocationOf(r, stock, launched)
             n   == LaneShots(r, stock, launched, t, i)
         IN  Attempts(use, t) = n /\ Consumed(r, use)[i] = n * r.per_pairing[t][i]
<1>1. PICK F : EngagesOneByOne(r, stock, launched, F)
  BY EngageFold
<1> DEFINE m == Len(r.threat_order)
           K == {n \in Nat : n <= m => OnLane(r, stock, launched, t, i, F[1..n], n)}
<1>2. m \in Nat /\ Seen(r, 0) = {} /\ r.threats \subseteq Seen(r, m)
  BY SeenAll
<1>3. t \in r.threats /\ i \in r.interceptors
  BY DEF IsLane
<1>4. 0 \in K
  <2> DEFINE use == Untouched(r, stock)
  <2>1. F[1..0] = use
    BY <1>1 DEF EngagesOneByOne
  <2>2. use \in Uses(r) /\ use.left = stock /\ \A q \in r.threats : use.fired[q][i] = 0
    BY <1>3 DEF Uses, Untouched, Magazines
  <2> HIDE DEF use
  <2>3. OnLane(r, stock, launched, t, i, use, 0)
    BY <1>2, <2>2 DEF OnLane
  <2>4. QED
    BY <2>1, <2>3
<1>5. ASSUME NEW n \in Nat, n \in K
      PROVE  n + 1 \in K
  <2> SUFFICES ASSUME n + 1 <= m
               PROVE  OnLane(r, stock, launched, t, i, F[1..(n + 1)], n + 1)
    OBVIOUS
  <2> DEFINE k == n + 1
  <2>1. k \in 1..m /\ k - 1 = n /\ OnLane(r, stock, launched, t, i, F[1..n], n)
    BY <1>2, <1>5
  <2> HIDE DEF k
  <2>2. F[1..k] = Engage(r, launched, F[1..n], r.threat_order[k])
    BY <1>1, <2>1 DEF EngagesOneByOne
  <2>3. OnLane(r, stock, launched, t, i, F[1..k], k)
    BY <2>1, <2>2, EngageOnLane
  <2>4. QED
    BY <2>3 DEF k
<1>6. Nat \subseteq K
  <2> HIDE DEF K
  <2>1. QED
    BY <1>4, <1>5, NatSetInduction
<1> DEFINE use == AllocationOf(r, stock, launched)
           n == LaneShots(r, stock, launched, t, i)
           per == r.per_pairing[t][i]
           cost == n * per
<1>7. OnLane(r, stock, launched, t, i, use, m)
  BY <1>1, <1>2, <1>6 DEF EngagesOneByOne
<1>8. per \in Nat \ {0} /\ n \in Nat /\ cost \in Nat
  BY LaneShotsAre
<1> HIDE DEF use, K, m
<1>9. /\ use \in Uses(r) /\ use.fired[t] = [[j \in r.interceptors |-> 0] EXCEPT ![i] = n]
      /\ \A q \in r.threats \ {t} : use.fired[q][i] = 0
  BY <1>2, <1>3, <1>7 DEF OnLane
<1> HIDE DEF n
<1>10. Attempts(use, t) = n
  BY <1>3, <1>8, <1>9, AttemptsAre
<1>11. Consumed(r, use)[i] = cost
  <2> DEFINE f == [q \in r.threats |-> Used(r, use, q, i)]
  <2>1. Consumed(r, use)[i] = SumOf(f)
    BY <1>3 DEF Consumed
  <2>2. \A q \in r.threats \ {t} : Used(r, use, q, i) = 0
    BY <1>9 DEF Used
  <2>3. Used(r, use, t, i) = cost
    <3>1. use.fired[t][i] = n
      BY <1>3, <1>9
    <3>2. CASE n > 0
      BY <3>1, <3>2 DEF Used
    <3>3. CASE ~(n > 0)
      BY <1>8, <3>1, <3>3 DEF Used
    <3>4. QED
      BY <3>2, <3>3
  <2> HIDE DEF cost
  <2>4. f \in [r.threats -> Int] /\ f[t] = cost /\ \A q \in r.threats \ {t} : f[q] = 0
    BY <1>3, <1>8, <2>2, <2>3
  <2>5. IsFiniteSet(r.threats)
    BY <1>3, CheckedThreat
  <2> HIDE DEF f
  <2>6. QED
    BY <1>3, <2>1, <2>4, <2>5, SumOfOne
<1>12. QED
  BY <1>10, <1>11 DEF use, n

-----------------------------------------------------------------------------
(***************************************************************************)
(* A week.                                                                 *)
(***************************************************************************)
\* Kills are bounded by the launches and grow with the intercept rate.
LEMMA KillsAre ==
  ASSUME NEW n \in Nat, NEW a \in Nat, NEW p \in Pct
  PROVE  /\ Kills(n, a, p) \in Nat /\ Kills(n, a, p) <= n
         /\ \A q \in Pct : p <= q => Kills(n, a, p) <= Kills(n, a, q)
<1>1. \A q \in Pct : a * q \in Nat
  BY DEF Pct
<1>2. \A m \in Nat : m \div 100 \in Nat
  OBVIOUS
<1>3. \A l, m \in Nat : l <= m => l \div 100 <= m \div 100
  OBVIOUS
<1>4. \A q \in Pct : (a * q) \div 100 \in Nat
  BY <1>1, <1>2
<1>5. ASSUME NEW q \in Pct, p <= q
      PROVE  (a * p) \div 100 <= (a * q) \div 100
  <2>1. a * p <= a * q
    BY <1>5 DEF Pct
  <2>2. a * p \in Nat /\ a * q \in Nat
    BY <1>1
  <2>3. QED
    BY <1>3, <2>1, <2>2
<1>6. ASSUME NEW q \in Pct, p <= q
      PROVE  Kills(n, a, p) <= Kills(n, a, q)
  <2> DEFINE x == (a * p) \div 100
             y == (a * q) \div 100
  <2>1. x \in Nat /\ y \in Nat /\ x <= y
    BY <1>4, <1>5, <1>6
  <2>2. Kills(n, a, p) = Least(n, x) /\ Kills(n, a, q) = Least(n, y)
    BY DEF Kills
  <2> HIDE DEF x, y
  <2>3. QED
    BY <2>1, <2>2 DEF Least
<1>7. Kills(n, a, p) \in Nat /\ Kills(n, a, p) <= n
  <2> DEFINE x == (a * p) \div 100
  <2>1. x \in Nat
    BY <1>4
  <2>2. Kills(n, a, p) = Least(n, x)
    BY DEF Kills
  <2> HIDE DEF x
  <2>3. QED
    BY <2>1, <2>2 DEF Least
<1>8. QED
  BY <1>6, <1>7

\* What a week's events say of the state they start from.
EventsOf(r, s, ev) ==
  LET use == AllocationOf(r, s.interceptor_inventory, ev.launched) IN
  /\ ev.launched \in Launches(r)
  /\ \A t \in r.threats :
       /\ ev.launched[t] = Least(s.weekly_launch[t], s.strike_inventory[t])
       /\ ev.launched[t] <= s.strike_inventory[t]
       /\ ev.attempts[t] = Attempts(use, t) /\ ev.attempts[t] \in Nat
       /\ ev.intercepted[t] = Kills(ev.launched[t], ev.attempts[t], p_used(r, t))
       /\ ev.intercepted[t] <= ev.launched[t]
       /\ ev.leaked[t] = ev.launched[t] - ev.intercepted[t]
       /\ ev.streak[t] = NextStreak(r, t, s.streak[t], ev.launched[t], ev.intercepted[t])
  /\ ev.attempts \in Launches(r) /\ ev.intercepted \in Launches(r) /\ ev.leaked \in Launches(r)
  /\ ev.streak \in Launches(r)
  /\ ev.expended = Consumed(r, use) /\ ev.expended \in Magazines(r)
  /\ \A i \in r.interceptors : ev.expended[i] <= s.interceptor_inventory[i]

\* A checked ruleset resolves every state to events that keep to it.
LEMMA ResolveIs ==
  ASSUME NEW r, Checked(r), NEW s \in StateOf(r), NEW turn
  PROVE  EventsOf(r, s, resolve(s, r, turn))
<1> DEFINE ev == resolve(s, r, turn)
           launched == Launched(s, r)
           stock == s.interceptor_inventory
           use == AllocationOf(r, stock, launched)
           T == r.threats
<1>1. /\ s.weekly_launch \in [T -> Nat] /\ s.strike_inventory \in [T -> Nat]
      /\ stock \in Magazines(r) /\ s.streak \in [T -> Nat]
  BY DEF StateOf, Magazines
<1>2. /\ launched \in Launches(r)
      /\ \A t \in T : launched[t] = Least(s.weekly_launch[t], s.strike_inventory[t])
                        /\ launched[t] <= s.strike_inventory[t]
  BY <1>1 DEF Launched, Launches, Least
<1>3. Allocation(s, r, launched) = use
  BY <1>1, AllocationOfStock
<1> DEFINE attempts == [t \in T |-> Attempts(use, t)]
           kills == [t \in T |-> Kills(launched[t], attempts[t], p_used(r, t))]
           leaked == [t \in T |-> launched[t] - kills[t]]
           streak == [t \in T |-> NextStreak(r, t, s.streak[t], launched[t], kills[t])]
<1>4. /\ ev.launched = launched /\ ev.attempts = attempts /\ ev.intercepted = kills
      /\ ev.leaked = leaked /\ ev.streak = streak /\ ev.expended = Consumed(r, use)
  BY <1>3 DEF resolve
<1> HIDE DEF ev, launched, use, T, stock
<1>5. Held(r, stock, use)
  BY <1>1, <1>2, AllocationHeld DEF use
<1>6. attempts \in Launches(r)
  <2>1. \A t \in T : Attempts(use, t) \in Nat
    BY <1>5, AttemptsAre DEF Held, T
  <2>2. QED
    BY <2>1 DEF Launches, T
<1> HIDE DEF attempts
<1>7. ASSUME NEW t \in T
      PROVE  kills[t] \in Nat /\ kills[t] <= launched[t] /\ launched[t] - kills[t] \in Nat
  <2>1. launched[t] \in Nat /\ attempts[t] \in Nat
    BY <1>2, <1>6 DEF Launches, T
  <2>2. p_used(r, t) \in Pct
    BY CheckedThreat DEF GoodThreat, T
  <2>3. Kills(launched[t], attempts[t], p_used(r, t)) \in Nat
          /\ Kills(launched[t], attempts[t], p_used(r, t)) <= launched[t]
    BY <2>1, <2>2, KillsAre
  <2>4. kills[t] = Kills(launched[t], attempts[t], p_used(r, t))
    OBVIOUS
  <2> HIDE DEF kills
  <2>5. QED
    BY <2>1, <2>3, <2>4
<1>8. kills \in Launches(r) /\ leaked \in Launches(r)
  BY <1>7 DEF Launches, T
<1> HIDE DEF kills
<1>9. streak \in Launches(r)
  <2>1. \A t \in T : NextStreak(r, t, s.streak[t], launched[t], kills[t]) \in Nat
    BY <1>1 DEF NextStreak
  <2>2. QED
    BY <2>1 DEF Launches, T
<1>10. \A i \in r.interceptors : Consumed(r, use)[i] <= stock[i] /\ Consumed(r, use) \in Magazines(r)
  <2> SUFFICES ASSUME NEW i \in r.interceptors
               PROVE  Consumed(r, use)[i] <= stock[i] /\ Consumed(r, use) \in Magazines(r)
    OBVIOUS
  <2>1. /\ Consumed(r, use) \in Magazines(r) /\ use.left[i] + Consumed(r, use)[i] <= stock[i]
        /\ use \in Uses(r)
    BY <1>5 DEF Held
  <2>2. Consumed(r, use)[i] \in Nat /\ use.left[i] \in Nat /\ stock[i] \in Nat
    BY <1>1, <2>1 DEF Magazines, Uses
  <2>3. QED
    BY <2>1, <2>2
<1>11. Consumed(r, use) \in Magazines(r)
  BY <1>5 DEF Held
<1>12. \A t \in T :
         /\ attempts[t] = Attempts(use, t) /\ attempts[t] \in Nat
         /\ kills[t] = Kills(launched[t], attempts[t], p_used(r, t)) /\ kills[t] <= launched[t]
         /\ leaked[t] = launched[t] - kills[t]
         /\ streak[t] = NextStreak(r, t, s.streak[t], launched[t], kills[t])
  <2>1. \A t \in T : attempts[t] = Attempts(use, t) /\ attempts[t] \in Nat
    BY <1>6 DEF attempts, Launches, T
  <2>2. \A t \in T : kills[t] = Kills(launched[t], attempts[t], p_used(r, t)) /\ kills[t] <= launched[t]
    BY <1>7 DEF kills
  <2>3. QED
    BY <2>1, <2>2
<1> HIDE DEF leaked, streak
<1>13. AllocationOf(r, s.interceptor_inventory, ev.launched) = use
  BY <1>4 DEF use, stock
<1>14. QED
  BY <1>2, <1>4, <1>6, <1>8, <1>9, <1>10, <1>11, <1>12, <1>13 DEF EventsOf, ev, T, stock

\* The state a week's events lead to.
StateAfter(r, s, ev, n) ==
  /\ n \in StateOf(r)
  /\ \A t \in r.threats :
       /\ n.strike_inventory[t] = s.strike_inventory[t] - ev.launched[t] + s.weekly_production[t]
       /\ n.cumulative_launched[t] = s.cumulative_launched[t] + ev.launched[t]
       /\ n.cumulative_leaked[t] = s.cumulative_leaked[t] + ev.leaked[t]
  /\ \A i \in r.interceptors :
       n.interceptor_inventory[i]
         = s.interceptor_inventory[i] - ev.expended[i] + s.weekly_resupply[i]
  /\ n.cumulative_intercepted = s.cumulative_intercepted + SumOf(ev.intercepted)
  /\ n.streak = ev.streak
  /\ n.weekly_launch = s.weekly_launch /\ n.weekly_production = s.weekly_production
  /\ n.weekly_resupply = s.weekly_resupply

\* Such events lead to a state of the scenario again.
LEMMA ReduceIs ==
  ASSUME NEW r, Checked(r), NEW s \in StateOf(r), NEW ev, EventsOf(r, s, ev),
         ev.culminated \in BOOLEAN, ev.to_turn \in Nat
  PROVE  StateAfter(r, s, ev, reduce(s, ev))
<1> DEFINE n == reduce(s, ev)
           T == r.threats
           I == r.interceptors
           fired == [t \in T |-> s.strike_inventory[t] - ev.launched[t] + s.weekly_production[t]]
           launched == [t \in T |-> s.cumulative_launched[t] + ev.launched[t]]
           leaked == [t \in T |-> s.cumulative_leaked[t] + ev.leaked[t]]
           stock == [i \in I |-> s.interceptor_inventory[i] - ev.expended[i] + s.weekly_resupply[i]]
           total == s.cumulative_intercepted + SumOf(ev.intercepted)
<1>1. /\ s.weekly_launch \in [T -> Nat] /\ s.strike_inventory \in [T -> Nat]
      /\ s.weekly_production \in [T -> Nat] /\ s.cumulative_launched \in [T -> Nat]
      /\ s.cumulative_leaked \in [T -> Nat] /\ s.interceptor_inventory \in [I -> Nat]
      /\ s.weekly_resupply \in [I -> Nat] /\ s.cumulative_intercepted \in Nat
  BY DEF StateOf
<1>2. n = [ s EXCEPT !.strike_inventory = fired, !.cumulative_launched = launched,
                       !.cumulative_leaked = leaked, !.interceptor_inventory = stock,
                       !.cumulative_intercepted = total, !.streak = ev.streak,
                       !.culminated = ev.culminated, !.as_of_turn = ev.to_turn ]
  BY <1>1 DEF reduce
<1>3. /\ ev.launched \in [T -> Nat] /\ ev.leaked \in [T -> Nat] /\ ev.intercepted \in [T -> Nat]
      /\ ev.streak \in [T -> Nat] /\ ev.expended \in [I -> Nat]
      /\ \A t \in T : ev.launched[t] <= s.strike_inventory[t]
      /\ \A i \in I : ev.expended[i] <= s.interceptor_inventory[i]
  BY DEF EventsOf, Launches, Magazines
<1>4. IsFiniteSet(T)
  BY DEF Checked, IsRuleset
<1> HIDE DEF T, I
<1>5. fired \in [T -> Nat]
  <2>1. \A t \in T : s.strike_inventory[t] - ev.launched[t] + s.weekly_production[t] \in Nat
    BY <1>1, <1>3
  <2>2. QED
    BY <2>1
<1>6. launched \in [T -> Nat] /\ leaked \in [T -> Nat]
  BY <1>1, <1>3
<1>7. stock \in [I -> Nat]
  <2>1. \A i \in I : s.interceptor_inventory[i] - ev.expended[i] + s.weekly_resupply[i] \in Nat
    BY <1>1, <1>3
  <2>2. QED
    BY <2>1
<1>8. total \in Nat
  BY <1>1, <1>3, <1>4, SumOfNaturals
<1>9. /\ \A t \in T :
           /\ fired[t] = s.strike_inventory[t] - ev.launched[t] + s.weekly_production[t]
           /\ launched[t] = s.cumulative_launched[t] + ev.launched[t]
           /\ leaked[t] = s.cumulative_leaked[t] + ev.leaked[t]
      /\ \A i \in I :
           stock[i] = s.interceptor_inventory[i] - ev.expended[i] + s.weekly_resupply[i]
  OBVIOUS
<1> HIDE DEF n, fired, launched, leaked, stock, total
<1>10. n \in StateOf(r)
  BY <1>1, <1>2, <1>3, <1>5, <1>6, <1>7, <1>8 DEF StateOf, T, I
<1>11. /\ n.strike_inventory = fired /\ n.cumulative_launched = launched
       /\ n.cumulative_leaked = leaked /\ n.interceptor_inventory = stock
       /\ n.cumulative_intercepted = total /\ n.streak = ev.streak
       /\ n.weekly_launch = s.weekly_launch /\ n.weekly_production = s.weekly_production
       /\ n.weekly_resupply = s.weekly_resupply
  BY <1>2
<1>12. QED
  BY <1>9, <1>10, <1>11 DEF StateAfter, n, total, T, I

\* What was launched was intercepted or leaked.
LEMMA LaunchesSplit ==
  ASSUME NEW r, Checked(r), NEW s, NEW ev, EventsOf(r, s, ev)
  PROVE  /\ SumOf(ev.launched) = SumOf(ev.intercepted) + SumOf(ev.leaked)
         /\ SumOf(ev.launched) \in Nat /\ SumOf(ev.intercepted) \in Nat /\ SumOf(ev.leaked) \in Nat
<1> DEFINE T == r.threats
           f == ev.intercepted
           g == ev.leaked
           h == ev.launched
<1>1. /\ f \in [T -> Nat] /\ g \in [T -> Nat] /\ h \in [T -> Nat] /\ IsFiniteSet(T)
      /\ \A t \in T : g[t] = h[t] - f[t]
  BY DEF EventsOf, Launches, Checked, IsRuleset
<1> HIDE DEF T, f, g, h
<1>2. h = [t \in T |-> f[t] + g[t]]
  <2>1. \A t \in T : h[t] = f[t] + g[t]
    BY <1>1
  <2>2. QED
    BY <1>1, <2>1
<1>3. f \in [T -> Int] /\ g \in [T -> Int]
  BY <1>1
<1>4. SumOf([t \in T |-> f[t] + g[t]]) = SumOf(f) + SumOf(g)
  BY <1>1, <1>3, SumOfSums
<1>5. SumOf(f) \in Nat /\ SumOf(g) \in Nat /\ SumOf(h) \in Nat
  BY <1>1, SumOfNaturals
<1>6. QED
  BY <1>2, <1>4, <1>5 DEF f, g, h

\* A week of a playable ruleset always resolves.
LEMMA PlayableResolves ==
  ASSUME NEW r, IsRuleset(r), Playable(r), NEW s \in StateOf(r)
  PROVE  LET ev == resolve(s, r, s.as_of_turn) IN
         /\ transition(s, r, s.as_of_turn)
              = [status |-> "resolved", events |-> ev, state |-> reduce(s, ev)]
         /\ EventsOf(r, s, ev) /\ StateAfter(r, s, ev, reduce(s, ev))
<1> DEFINE ev == resolve(s, r, s.as_of_turn)
           n == reduce(s, ev)
<1>1. Checked(r)
  BY PlayableIsGood DEF Checked
<1>2. EventsOf(r, s, ev)
  BY <1>1, ResolveIs
<1>3. s.as_of_turn \in Nat
  BY DEF StateOf
<1>4. ev.culminated \in BOOLEAN /\ ev.to_turn = s.as_of_turn + 1
  BY DEF resolve
<1>5. ruleset_problems(r) = {} /\ ~ResolveRaises(r)
  BY DEF Playable
<1> HIDE DEF ev
<1>6. StateAfter(r, s, ev, n)
  BY <1>1, <1>2, <1>3, <1>4, ReduceIs
<1> HIDE DEF n
<1>7. Sound(s, r, ev, n)
  <2>1. SumOf(ev.launched) = SumOf(ev.intercepted) + SumOf(ev.leaked)
    BY <1>1, <1>2, LaunchesSplit
  <2>2. \A t \in r.threats : ev.intercepted[t] <= ev.launched[t] /\ n.strike_inventory[t] >= 0
    BY <1>2, <1>6 DEF EventsOf, StateAfter, StateOf
  <2>3. \A i \in r.interceptors : n.interceptor_inventory[i] >= 0
    BY <1>6 DEF StateAfter, StateOf
  <2>4. QED
    BY <1>4, <2>1, <2>2, <2>3 DEF Sound
<1>8. transition(s, r, s.as_of_turn) = [status |-> "resolved", events |-> ev, state |-> n]
  BY <1>5, <1>7 DEF transition, ev, n
<1>9. QED
  BY <1>2, <1>6, <1>8 DEF ev, n

-----------------------------------------------------------------------------
(***************************************************************************)
(* The campaign: an invariant that holds the weeks together.               *)
(***************************************************************************)
\* The records of the weeks a ruleset can have.
WeekOf(r, s) ==
  LET ev == resolve(s, r, s.as_of_turn)
  IN  [start |-> s, events |-> ev, result |-> reduce(s, ev)]

WeeksOf(r) == {WeekOf(r, s) : s \in StateOf(r)}

\* No class has been below its floor yet.
Fresh(s, r) == \A t \in r.threats : s.streak[t] = 0

\* Each week starts from what the one before resulted in; the campaign begins
\* without streaks, and only its last week may culminate.
Chained ==
  Valid =>
    /\ weeks \in Seq(WeeksOf(ruleset)) /\ head \in StateOf(ruleset)
    /\ \A w \in 2..N : weeks[w].start = weeks[w - 1].result
    /\ IF N = 0 THEN Fresh(head, ruleset)
       ELSE head = weeks[N].result /\ Fresh(weeks[1].start, ruleset)
    /\ stop # "raised"
    /\ \A w \in 1..(N - 1) : ~weeks[w].events.culminated
    /\ N > 0 => (stop = "culminated" <=> weeks[N].events.culminated)

\* The ruleset is one of those driven.
RulesetInv == ruleset \in Rulesets

LEMMA ChainedInit ==
  Init => RulesetInv /\ Chained
<1> SUFFICES ASSUME Init
             PROVE  RulesetInv /\ Chained
  OBVIOUS
<1>1. RulesetInv /\ weeks = <<>> /\ N = 0 /\ head \in Starts /\ stop # "raised"
  BY DEF Init, RulesetInv, N
<1>2. Valid => head \in StateOf(ruleset) /\ Fresh(head, ruleset)
  BY <1>1, StartAssumption DEF RulesetInv, Valid, Fresh
<1>3. weeks \in Seq(WeeksOf(ruleset))
  BY <1>1
<1>4. QED
  BY <1>1, <1>2, <1>3 DEF Chained

\* One more week.
LEMMA WeekChains ==
  ASSUME RulesetInv, Chained, Valid, Week
  PROVE  Chained' /\ weeks' = Append(weeks, WeekOf(ruleset, head))
<1> DEFINE x == WeekOf(ruleset, head)
           m == N
           W == WeeksOf(ruleset)
<1>1. /\ weeks \in Seq(W) /\ head \in StateOf(ruleset)
      /\ \A w \in 2..m : weeks[w].start = weeks[w - 1].result
      /\ IF m = 0 THEN Fresh(head, ruleset)
         ELSE head = weeks[m].result /\ Fresh(weeks[1].start, ruleset)
      /\ \A w \in 1..(m - 1) : ~weeks[w].events.culminated
      /\ m > 0 => (stop = "culminated" <=> weeks[m].events.culminated)
  BY DEF Chained
<1>2. IsRuleset(ruleset) /\ Playable(ruleset)
  BY RulesetAssumption DEF RulesetInv, Valid
<1>3. /\ transition(head, ruleset, head.as_of_turn)
           = [status |-> "resolved", events |-> x.events, state |-> x.result]
      /\ x.start = head /\ x = [start |-> head, events |-> x.events, result |-> x.result]
      /\ x \in W /\ x.result \in StateOf(ruleset)
  BY <1>1, <1>2, PlayableResolves DEF WeekOf, WeeksOf, StateAfter
<1> HIDE DEF x
<1>4. /\ stop = "running" /\ weeks' = Append(weeks, x) /\ head' = x.result
      /\ stop' = IF x.events.culminated THEN "culminated"
                 ELSE IF Len(weeks') = MaxWeeks THEN "reached-horizon" ELSE "running"
      /\ ruleset' = ruleset
  BY <1>3 DEF Week
<1> HIDE DEF W
<1>5. /\ m \in Nat /\ m = Len(weeks) /\ N' = m + 1 /\ weeks' \in Seq(W) /\ weeks'[m + 1] = x
      /\ \A w \in 1..m : weeks'[w] = weeks[w]
  BY <1>1, <1>3, <1>4 DEF N
<1> HIDE DEF m
<1>6. \A w \in 2..(m + 1) : weeks'[w].start = weeks'[w - 1].result
  <2> SUFFICES ASSUME NEW w \in 2..(m + 1)
               PROVE  weeks'[w].start = weeks'[w - 1].result
    OBVIOUS
  <2>1. CASE w = m + 1
    <3>1. m # 0 /\ w - 1 = m /\ m \in 1..m
      BY <1>5, <2>1
    <3>2. QED
      BY <1>1, <1>3, <1>5, <2>1, <3>1
  <2>2. CASE w # m + 1
    <3>1. w \in 2..m /\ w \in 1..m /\ w - 1 \in 1..m
      BY <1>5, <2>2
    <3>2. QED
      BY <1>1, <1>5, <3>1
  <2>3. QED
    BY <2>1, <2>2
<1>7. Fresh(weeks'[1].start, ruleset)
  <2>1. CASE m = 0
    BY <1>1, <1>3, <1>5, <2>1
  <2>2. CASE m # 0
    <3>1. 1 \in 1..m
      BY <1>5, <2>2
    <3>2. QED
      BY <1>1, <1>5, <2>2, <3>1
  <2>3. QED
    BY <2>1, <2>2
<1>8. \A w \in 1..m : ~weeks'[w].events.culminated
  <2> SUFFICES ASSUME NEW w \in 1..m
               PROVE  ~weeks[w].events.culminated
    BY <1>5
  <2>1. w = m \/ w \in 1..(m - 1)
    BY <1>5
  <2>2. m > 0
    BY <1>5
  <2>3. QED
    BY <1>1, <1>4, <2>1, <2>2
<1>9. stop' # "raised" /\ (stop' = "culminated" <=> x.events.culminated)
  BY <1>4
<1>10. /\ weeks' \in Seq(WeeksOf(ruleset')) /\ head' \in StateOf(ruleset')
       /\ (m + 1) - 1 = m /\ m + 1 # 0 /\ m + 1 > 0
  BY <1>3, <1>4, <1>5 DEF W
<1>11. Chained'
  BY <1>4, <1>5, <1>6, <1>7, <1>8, <1>9, <1>10 DEF Chained
<1>12. QED
  BY <1>4, <1>11 DEF x

\* A failing week is no step of a playable ruleset; every other one chains.
LEMMA ChainedNext ==
  RulesetInv /\ Chained /\ [Next]_vars => RulesetInv' /\ Chained'
<1> SUFFICES ASSUME RulesetInv, Chained, [Next]_vars
             PROVE  RulesetInv' /\ Chained'
  OBVIOUS
<1>1. ruleset' = ruleset
  BY DEF Next, Week, Fails, vars
<1>2. RulesetInv' /\ (Valid' <=> Valid)
  BY <1>1 DEF RulesetInv, Valid
<1>3. CASE Week
  BY <1>2, <1>3, WeekChains DEF Chained
<1>4. CASE Fails
  <2>1. ~Valid
    <3> SUFFICES ASSUME Valid
                 PROVE  FALSE
      OBVIOUS
    <3> DEFINE x == WeekOf(ruleset, head)
    <3>1. head \in StateOf(ruleset) /\ IsRuleset(ruleset) /\ Playable(ruleset)
      BY RulesetAssumption DEF Chained, RulesetInv, Valid
    <3>2. transition(head, ruleset, head.as_of_turn)
            = [status |-> "resolved", events |-> x.events, state |-> x.result]
      BY <3>1, PlayableResolves DEF WeekOf
    <3> HIDE DEF x
    <3>3. transition(head, ruleset, head.as_of_turn).status # "resolved"
      BY <1>4 DEF Fails
    <3>4. QED
      BY <3>2, <3>3
  <2>2. QED
    BY <1>2, <2>1 DEF Chained
<1>5. CASE UNCHANGED vars
  BY <1>2, <1>5 DEF vars, Chained, Valid, N
<1>6. QED
  BY <1>3, <1>4, <1>5 DEF Next

\* What holds of every week of a chained campaign.
LEMMA WeekFacts ==
  ASSUME RulesetInv, Chained, Valid, NEW w \in 1..N
  PROVE  /\ Checked(ruleset) /\ weeks[w].start \in StateOf(ruleset)
         /\ weeks[w].events = resolve(weeks[w].start, ruleset, weeks[w].start.as_of_turn)
         /\ EventsOf(ruleset, weeks[w].start, weeks[w].events)
         /\ StateAfter(ruleset, weeks[w].start, weeks[w].events, weeks[w].result)
<1>1. IsRuleset(ruleset) /\ Playable(ruleset)
  BY RulesetAssumption DEF RulesetInv, Valid
<1>2. Checked(ruleset)
  BY <1>1, PlayableIsGood DEF Checked
<1>3. weeks[w] \in WeeksOf(ruleset)
  BY DEF Chained, N
<1>4. PICK s \in StateOf(ruleset) : weeks[w] = WeekOf(ruleset, s)
  BY <1>3 DEF WeeksOf
<1> DEFINE ev == resolve(s, ruleset, s.as_of_turn)
<1>5. weeks[w].start = s /\ weeks[w].events = ev /\ weeks[w].result = reduce(s, ev)
  BY <1>4 DEF WeekOf
<1>6. EventsOf(ruleset, s, ev) /\ StateAfter(ruleset, s, ev, reduce(s, ev))
  BY <1>1, PlayableResolves
<1> HIDE DEF ev
<1>7. weeks[w].events = resolve(weeks[w].start, ruleset, weeks[w].start.as_of_turn)
  BY <1>5 DEF ev
<1>8. QED
  BY <1>2, <1>5, <1>6, <1>7

LEMMA DemandIs ==
  ASSUME NEW r, Checked(r), NEW launched \in Launches(r)
  PROVE  Demand(r, launched) \in Magazines(r)
<1>1. PICK G : DrawsOneByOne(r, launched, G)
  BY DrawFold
<1>2. QED
  BY <1>1, SeenAll DEF DrawsOneByOne, PrefixesIn

\* A week is stock-constrained exactly if its stock does not afford the demand.
LEMMA ConstrainedIs ==
  ASSUME NEW r, Checked(r), NEW s \in StateOf(r), NEW ev, EventsOf(r, s, ev)
  PROVE  /\ StockConstrained(s, r, ev.launched, ev.expended)
              <=> ~Affordable(r, s.interceptor_inventory, ev.launched)
         /\ Affordable(r, s.interceptor_inventory, ev.launched) =>
              \A t \in r.threats : ev.attempts[t] = Wanted(r, t, ev.launched[t])
<1> DEFINE stock == s.interceptor_inventory
           launched == ev.launched
           use == AllocationOf(r, stock, launched)
           demand == Demand(r, launched)
           I == r.interceptors
<1>1. stock \in Magazines(r) /\ launched \in Launches(r) /\ demand \in Magazines(r)
  BY DemandIs DEF StateOf, EventsOf, Magazines
<1>2. /\ ev.expended = Consumed(r, use) /\ ev.expended \in Magazines(r)
      /\ \A i \in I : ev.expended[i] <= stock[i]
      /\ \A t \in r.threats : ev.attempts[t] = Attempts(use, t)
  BY DEF EventsOf
<1>3. StockConstrained(s, r, launched, ev.expended) <=> \E i \in I : ev.expended[i] < demand[i]
  BY DEF StockConstrained
<1>4. Affordable(r, stock, launched) <=> \A i \in I : demand[i] <= stock[i]
  BY DEF Affordable
<1> HIDE DEF stock, launched, use
<1>5. ASSUME Affordable(r, stock, launched)
      PROVE  /\ \A t \in r.threats : Attempts(use, t) = Wanted(r, t, launched[t])
             /\ \A i \in I : Consumed(r, use)[i] = demand[i]
  BY <1>1, <1>5, DemandMet DEF use
<1> HIDE DEF demand
<1>6. \A i \in I : ev.expended[i] \in Nat /\ demand[i] \in Nat /\ stock[i] \in Nat
  BY <1>1, <1>2 DEF Magazines
<1>7. ASSUME Affordable(r, stock, launched)
      PROVE  ~StockConstrained(s, r, launched, ev.expended)
  BY <1>2, <1>3, <1>5, <1>6, <1>7
<1>8. ASSUME ~Affordable(r, stock, launched)
      PROVE  StockConstrained(s, r, launched, ev.expended)
  <2>1. PICK i \in I : ~(demand[i] <= stock[i])
    BY <1>4, <1>8
  <2>2. ev.expended[i] < demand[i]
    BY <1>2, <1>6, <2>1
  <2>3. QED
    BY <1>3, <2>2
<1>9. QED
  BY <1>2, <1>5, <1>7, <1>8 DEF launched, stock

\* A week that engages less than it would with unlimited stock says so.
LEMMA StarvedHolds ==
  RulesetInv /\ Chained => StarvedIsFlagged
<1> SUFFICES ASSUME RulesetInv, Chained, Valid, NEW w \in 1..N,
                    NEW t \in Threats \cap ToSet(ruleset.threat_order),
                    weeks[w].events.attempts[t] < Wanted(ruleset, t, weeks[w].events.launched[t])
             PROVE  weeks[w].events.stock_constrained
  BY DEF StarvedIsFlagged
<1> DEFINE s == weeks[w].start
           ev == weeks[w].events
<1>1. /\ Checked(ruleset) /\ s \in StateOf(ruleset) /\ EventsOf(ruleset, s, ev)
      /\ ev = resolve(s, ruleset, s.as_of_turn)
  BY WeekFacts
<1>2. ev.stock_constrained = StockConstrained(s, ruleset, ev.launched, ev.expended)
  <2> DEFINE e == resolve(s, ruleset, s.as_of_turn)
  <2>1. e.stock_constrained = StockConstrained(s, ruleset, e.launched, e.expended)
    BY Zenon DEF resolve
  <2> HIDE DEF e
  <2>2. QED
    BY <1>1, <2>1, Zenon DEF e
<1> HIDE DEF s, ev
<1>3. ev.attempts[t] < Wanted(ruleset, t, ev.launched[t]) /\ t \in ruleset.threats
  BY DEF ev, Threats
<1>4. ev.attempts[t] \in Nat
  BY <1>1, <1>3 DEF EventsOf
<1>5. ~Affordable(ruleset, s.interceptor_inventory, ev.launched)
  BY <1>1, <1>3, <1>4, ConstrainedIs
<1>6. StockConstrained(s, ruleset, ev.launched, ev.expended)
  BY <1>1, <1>5, ConstrainedIs
<1>7. QED
  BY <1>2, <1>6 DEF ev

\* From the second week on the stock is at least the resupply, so that a
\* demand it does not afford is burning.
LEMMA DepletingHolds ==
  RulesetInv /\ Chained => StarvedReadsDepleting
<1> SUFFICES ASSUME RulesetInv, Chained, Valid, NEW w \in 2..N,
                    weeks[w].events.stock_constrained, weeks[w].events.magazine_non_depleting
             PROVE  FALSE
  BY DEF StarvedReadsDepleting
<1> DEFINE s == weeks[w].start
           ev == weeks[w].events
           r == ruleset
<1>1. w \in 1..N /\ w - 1 \in 1..N /\ s = weeks[w - 1].result
  <2>1. N \in Nat
    BY DEF Chained, N
  <2>2. QED
    BY <2>1 DEF Chained
<1>2. /\ Checked(r) /\ s \in StateOf(r) /\ EventsOf(r, s, ev)
      /\ ev = resolve(s, r, s.as_of_turn)
  BY <1>1, WeekFacts
<1>3. /\ weeks[w - 1].start \in StateOf(r)
      /\ EventsOf(r, weeks[w - 1].start, weeks[w - 1].events)
      /\ StateAfter(r, weeks[w - 1].start, weeks[w - 1].events, s)
  BY <1>1, WeekFacts
<1>4. \A i \in r.interceptors : s.weekly_resupply[i] <= s.interceptor_inventory[i]
  <2> DEFINE p == weeks[w - 1].start
             e == weeks[w - 1].events
  <2> HIDE DEF p, e, s, r
  <2> SUFFICES ASSUME NEW i \in r.interceptors
               PROVE  s.weekly_resupply[i] <= s.interceptor_inventory[i]
    OBVIOUS
  <2>1. /\ s.interceptor_inventory[i] = p.interceptor_inventory[i] - e.expended[i] + p.weekly_resupply[i]
        /\ s.weekly_resupply = p.weekly_resupply
    BY <1>3 DEF StateAfter, p, e
  <2>2. /\ p.interceptor_inventory[i] \in Nat /\ p.weekly_resupply[i] \in Nat
        /\ e.expended[i] \in Nat /\ e.expended[i] <= p.interceptor_inventory[i]
    BY <1>3 DEF StateOf, EventsOf, Magazines, p, e
  <2>3. QED
    BY <2>1, <2>2
<1>5. /\ ev.stock_constrained = StockConstrained(s, r, ev.launched, ev.expended)
      /\ ev.magazine_non_depleting
           = ({i \in r.interceptors : NetBurn(s, r, ev.launched, ev.expended, i) > 0} = {})
  <2> DEFINE e == resolve(s, r, s.as_of_turn)
  <2>1. /\ e.stock_constrained = StockConstrained(s, r, e.launched, e.expended)
        /\ e.magazine_non_depleting
             = ({i \in r.interceptors : NetBurn(s, r, e.launched, e.expended, i) > 0} = {})
    BY Zenon DEF resolve
  <2> HIDE DEF e
  <2>2. QED
    BY <1>2, <2>1, Zenon DEF e
<1> HIDE DEF s, ev, r
<1>6. \A i \in r.interceptors : ~(Demand(r, ev.launched)[i] - s.weekly_resupply[i] > 0)
  BY <1>5 DEF NetBurn, ev
<1>7. Affordable(r, s.interceptor_inventory, ev.launched)
  <2>1. ev.launched \in Launches(r)
    BY <1>2 DEF EventsOf
  <2>2. Demand(r, ev.launched) \in Magazines(r)
    BY <1>2, <2>1, DemandIs
  <2>3. \A i \in r.interceptors :
          /\ Demand(r, ev.launched)[i] \in Nat /\ s.weekly_resupply[i] \in Nat
          /\ s.interceptor_inventory[i] \in Nat
    BY <1>2, <2>2 DEF Magazines, StateOf
  <2>4. QED
    BY <1>4, <1>6, <2>3 DEF Affordable
<1>8. ~StockConstrained(s, r, ev.launched, ev.expended)
  BY <1>2, <1>7, ConstrainedIs
<1>9. QED
  BY <1>5, <1>8 DEF ev

-----------------------------------------------------------------------------
(***************************************************************************)
(* Floors: the band and the streaks.                                       *)
(***************************************************************************)
\* A floored rate is below a floor exactly if the rate is.
LEMMA BelowIs ==
  ASSUME NEW n \in Nat, NEW k \in Nat, k <= n, NEW f \in Pct
  PROVE  (n > 0 /\ (k * 100) \div n < f) <=> 100 * k < f * n
<1>1. CASE n = 0
  <2>1. k = 0 /\ f * n = 0
    BY <1>1 DEF Pct
  <2>2. QED
    BY <1>1, <2>1
<1>2. CASE n # 0
  <2> DEFINE a == k * 100
  <2>1. a \in Nat /\ n \in Nat \ {0} /\ f \in Nat /\ 100 * k = a
    BY <1>2 DEF Pct
  <2> HIDE DEF a
  <2>2. a \div n \in Nat /\ (f <= a \div n <=> f * n <= a)
    BY <2>1, Shots
  <2>3. f * n \in Nat
    BY <2>1
  <2> DEFINE q == a \div n
             m == f * n
  <2> HIDE DEF q, m
  <2>4. q \in Nat /\ m \in Nat /\ (f <= q <=> m <= a)
    BY <2>2, <2>3 DEF q, m
  <2>5. q < f <=> a < m
    BY <2>1, <2>4
  <2>6. QED
    BY <1>2, <2>1, <2>5 DEF q, m, a
<1>3. QED
  BY <1>1, <1>2

\* The committed leak lies within the band, and a verdict that is not flagged
\* is that of every rate of the range.
LEMMA BandHolds ==
  RulesetInv /\ Chained => BandBrackets
<1> SUFFICES ASSUME RulesetInv, Chained, Valid, "ballistic" \in Threats, NEW w \in 1..N
             PROVE  LET ev   == weeks[w].events
                        n    == ev.launched["ballistic"]
                        Below(leak) == 100 * Kills(n, ev.attempts["ballistic"], 100 - leak)
                                         < ruleset.lethality_floor_pct["ballistic"] * n
                    IN  /\ ev.band.leak_low <= ev.leaked["ballistic"]
                        /\ ev.leaked["ballistic"] <= ev.band.leak_high
                        /\ ~ev.band.verdict_indeterminate =>
                             \A leak \in ruleset.ballistic_leak_floor_pct .. ruleset.ballistic_leak_high_pct :
                               Below(leak) <=> BelowFloor(w, "ballistic")
  BY DEF BandBrackets
<1> DEFINE r == ruleset
           s == weeks[w].start
           ev == weeks[w].events
           n == ev.launched["ballistic"]
           a == ev.attempts["ballistic"]
           lo == r.ballistic_leak_floor_pct
           hi == r.ballistic_leak_high_pct
           mid == leak_central(r)
           fl == r.lethality_floor_pct["ballistic"]
           K(leak) == Kills(n, a, 100 - leak)
<1>1. /\ Checked(r) /\ EventsOf(r, s, ev) /\ ev = resolve(s, r, s.as_of_turn)
  BY WeekFacts
<1>2. "ballistic" \in r.threats
  BY DEF Threats
<1>3. /\ n \in Nat /\ a \in Nat
      /\ ev.intercepted["ballistic"] = Kills(n, a, p_used(r, "ballistic"))
      /\ ev.leaked["ballistic"] = n - ev.intercepted["ballistic"]
  BY <1>1, <1>2 DEF EventsOf, Launches
<1>4. p_used(r, "ballistic") = 100 - mid
  BY DEF p_used
<1>5. lo \in Pct /\ hi \in Pct /\ lo <= hi /\ fl \in Pct
  BY <1>1 DEF Checked, GoodRules
<1>6. mid \in lo..hi
  <2> DEFINE x == lo
             y == hi
  <2>1. mid = (x + y) \div 2
    BY DEF leak_central
  <2> HIDE DEF x, y
  <2>2. x \in Pct /\ y \in Pct /\ x <= y
    BY <1>5 DEF x, y
  <2>3. (x + y) \div 2 \in x..y
    BY <2>2 DEF Pct
  <2>4. QED
    BY <2>1, <2>3 DEF x, y
<1>7. Ballistic(ev.launched) = n /\ Ballistic(ev.attempts) = a
  BY <1>1, <1>2 DEF Ballistic, EventsOf, Launches
<1>8. ev.band = LeakBand(r, n, a)
  <2> DEFINE e == resolve(s, r, s.as_of_turn)
  <2>1. e.band = LeakBand(r, Ballistic(e.launched), Ballistic(e.attempts))
    BY DEF resolve
  <2> HIDE DEF e
  <2>2. QED
    BY <1>1, <1>7, <2>1 DEF e
<1>9. BelowFloor(w, "ballistic") <=> 100 * K(mid) < fl * n
  BY <1>3, <1>4 DEF BelowFloor
<1>10. ev.band.leak_low = n - K(lo) /\ ev.band.leak_high = n - K(hi)
  BY <1>8 DEF LeakBand
<1>11. ~ev.band.verdict_indeterminate =>
         n = 0 \/ ~((K(hi) * 100) \div n < fl) \/ (K(lo) * 100) \div n < fl
  <2> SUFFICES ASSUME ~ev.band.verdict_indeterminate, n # 0
               PROVE  ~((K(hi) * 100) \div n < fl) \/ (K(lo) * 100) \div n < fl
    OBVIOUS
  <2> DEFINE x == (K(hi) * 100) \div n
             y == (K(lo) * 100) \div n
  <2>1. n > 0
    BY <1>3
  <2>2. ev.band.verdict_indeterminate
          = (n > 0 /\ (IF n > 0 THEN x ELSE 0) < fl /\ fl <= (IF n > 0 THEN y ELSE 0))
    <3>1. LeakBand(r, n, a).verdict_indeterminate
            = (n > 0 /\ (IF n > 0 THEN x ELSE 0) < fl /\ fl <= (IF n > 0 THEN y ELSE 0))
      BY Zenon DEF LeakBand
    <3>2. QED
      BY <1>8, <3>1, Zenon
  <2>3. ~(x < fl /\ fl <= y)
    BY <2>1, <2>2
  <2>4. y \in Int /\ fl \in Int
    <3> HIDE DEF n, a, lo, fl
    <3>1. 100 - lo \in Pct
      BY <1>5 DEF Pct
    <3>2. K(lo) \in Nat
      BY <1>3, <3>1, KillsAre
    <3> HIDE DEF K
    <3>3. K(lo) * 100 \in Nat /\ n \in Nat \ {0}
      BY <1>3, <2>1, <3>2
    <3> DEFINE k == K(lo) * 100
    <3> HIDE DEF k
    <3>4. k \div n \in Nat
      BY <3>3, Shots DEF k
    <3>5. QED
      BY <1>5, <3>4 DEF k, Pct
  <2> HIDE DEF x, y, fl
  <2>5. ~(x < fl) \/ y < fl
    BY <2>3, <2>4
  <2>6. QED
    BY <2>5 DEF x, y
<1>12. ASSUME NEW l \in lo..hi
       PROVE  /\ K(l) \in Nat /\ K(l) <= n /\ K(hi) <= K(l) /\ K(l) <= K(lo)
              /\ (n > 0 /\ (K(l) * 100) \div n < fl) <=> 100 * K(l) < fl * n
  <2>1. 100 - l \in Pct /\ 100 - lo \in Pct /\ 100 - hi \in Pct
          /\ 100 - hi <= 100 - l /\ 100 - l <= 100 - lo
    BY <1>5 DEF Pct
  <2> HIDE DEF n, a, lo, hi, fl
  <2>2. K(l) \in Nat /\ K(l) <= n /\ K(hi) <= K(l) /\ K(l) <= K(lo)
    BY <1>3, <2>1, KillsAre
  <2>3. QED
    BY <1>3, <1>5, <2>2, BelowIs
<1>13. lo \in lo..hi /\ hi \in lo..hi
  BY <1>5 DEF Pct
<1> HIDE DEF n, a, lo, hi, fl, mid, K, ev, r
<1>14. ev.leaked["ballistic"] = n - K(mid)
  BY <1>3, <1>4 DEF K
<1>15. ev.band.leak_low <= ev.leaked["ballistic"] /\ ev.leaked["ballistic"] <= ev.band.leak_high
  BY <1>3, <1>6, <1>10, <1>12, <1>13, <1>14
<1>16. ASSUME ~ev.band.verdict_indeterminate, NEW leak \in lo..hi
       PROVE  100 * K(leak) < fl * n <=> 100 * K(mid) < fl * n
  <2> DEFINE B(l) == 100 * K(l) < fl * n
             m == fl * n
  <2>1. m \in Nat
    BY <1>3, <1>5 DEF Pct, m
  <2>2. /\ B(leak) => B(hi)
        /\ B(mid) => B(hi)
        /\ B(lo) => B(leak) /\ B(mid)
    <3> HIDE DEF m
    <3>1. \A l \in lo..hi : B(l) <=> 100 * K(l) < m
      BY DEF m
    <3> HIDE DEF B
    <3>2. QED
      BY <1>6, <1>12, <1>13, <1>16, <2>1, <3>1
  <2>3. n = 0 => ~B(leak) /\ ~B(mid)
    BY <1>6, <1>12, <1>16
  <2>4. n > 0 => ~B(hi) \/ B(lo)
    BY <1>11, <1>12, <1>13, <1>16
  <2>5. n = 0 \/ n > 0
    BY <1>3
  <2> HIDE DEF B, m
  <2>6. B(leak) <=> B(mid)
    BY <2>2, <2>3, <2>4, <2>5
  <2>7. QED
    BY <2>6 DEF B
<1>17. QED
  BY <1>9, <1>15, <1>16 DEF n, a, lo, hi, fl, K, ev, r

\* The streak of a class counts its last weeks in a row below the floor.
StreakIs(w, t) ==
  LET k == weeks[w].events.streak[t] IN
  /\ k \in 0..w
  /\ \A v \in (w - k + 1)..w : BelowFloor(v, t)
  /\ k < w => ~BelowFloor(w - k, t)

\* The streak a week leaves is one more than before, or none.
LEMMA NextStreakIs ==
  ASSUME RulesetInv, Chained, Valid, NEW w \in 1..N, NEW t \in Threats
  PROVE  weeks[w].events.streak[t]
           = IF BelowFloor(w, t)
             THEN (IF w = 1 THEN 0 ELSE weeks[w - 1].events.streak[t]) + 1 ELSE 0
<1> DEFINE r == ruleset
           s == weeks[w].start
           ev == weeks[w].events
           n == ev.launched[t]
           k == ev.intercepted[t]
           fl == r.lethality_floor_pct[t]
<1>1. Checked(r) /\ s \in StateOf(r) /\ EventsOf(r, s, ev)
  BY WeekFacts
<1>2. t \in r.threats
  BY DEF Threats
<1>3. /\ n \in Nat /\ k \in Nat /\ k <= n /\ ev.streak[t] = NextStreak(r, t, s.streak[t], n, k)
  BY <1>1, <1>2 DEF EventsOf, Launches
<1>4. fl \in Pct
  BY <1>1, <1>2, CheckedThreat DEF GoodThreat
<1>5. BelowFloor(w, t) <=> 100 * k < fl * n
  BY DEF BelowFloor
<1>6. ev.streak[t] = IF n > 0 /\ (k * 100) \div n < fl THEN s.streak[t] + 1 ELSE 0
  BY <1>3 DEF NextStreak
<1>7. s.streak[t] = IF w = 1 THEN 0 ELSE weeks[w - 1].events.streak[t]
  <2>1. N \in Nat
    BY DEF Chained, N
  <2>2. CASE w = 1
    <3>1. N # 0
      BY <2>1, <2>2
    <3>2. QED
      BY <1>2, <2>2, <3>1 DEF Chained, Fresh
  <2>3. CASE w # 1
    <3>1. w \in 2..N /\ w - 1 \in 1..N
      BY <2>1, <2>3
    <3>2. s = weeks[w - 1].result
      BY <3>1 DEF Chained
    <3>3. StateAfter(r, weeks[w - 1].start, weeks[w - 1].events, s)
      BY <3>1, <3>2, WeekFacts
    <3>4. s.streak = weeks[w - 1].events.streak
      BY <3>3 DEF StateAfter
    <3>5. QED
      BY <2>3, <3>4
  <2>4. QED
    BY <2>2, <2>3
<1> HIDE DEF n, k, fl, s
<1>8. (n > 0 /\ (k * 100) \div n < fl) <=> 100 * k < fl * n
  BY <1>3, <1>4, BelowIs
<1>9. QED
  BY <1>5, <1>6, <1>7, <1>8

\* Every streak counts the weeks in a row its class was below its floor.
LEMMA StreaksCount ==
  ASSUME RulesetInv, Chained, Valid
  PROVE  \A w \in 1..N, t \in Threats : StreakIs(w, t)
<1> DEFINE K == {w \in Nat : w \in 1..N => \A t \in Threats : StreakIs(w, t)}
<1>1. 0 \in K
  OBVIOUS
<1>2. ASSUME NEW w \in Nat, w \in K
      PROVE  w + 1 \in K
  <2> SUFFICES ASSUME w + 1 \in 1..N, NEW t \in Threats
               PROVE  StreakIs(w + 1, t)
    OBVIOUS
  <2> DEFINE k == weeks[w].events.streak[t]
             k2 == weeks[w + 1].events.streak[t]
             old == IF w + 1 = 1 THEN 0 ELSE k
  <2>1. N \in Nat
    BY DEF Chained, N
  <2>2. (w + 1) - 1 = w
    OBVIOUS
  <2>3. k2 = IF BelowFloor(w + 1, t)
             THEN (IF w + 1 = 1 THEN 0 ELSE weeks[(w + 1) - 1].events.streak[t]) + 1 ELSE 0
    BY NextStreakIs
  <2>4. k2 = IF BelowFloor(w + 1, t) THEN old + 1 ELSE 0
    BY <2>2, <2>3
  <2>5. /\ old \in 0..w
        /\ \A v \in (w - old + 1)..w : BelowFloor(v, t)
        /\ old < w => ~BelowFloor(w - old, t)
    <3>1. CASE w = 0
      BY <3>1
    <3>2. CASE w # 0
      <4>1. w \in 1..N /\ ~(w + 1 = 1)
        BY <2>1, <3>2
      <4>2. StreakIs(w, t)
        BY <1>2, <4>1
      <4>3. QED
        BY <4>1, <4>2 DEF StreakIs
    <3>3. QED
      BY <3>1, <3>2
  <2> HIDE DEF k2, old, K
  <2>6. CASE BelowFloor(w + 1, t)
    <3>1. k2 = old + 1 /\ k2 \in 0..(w + 1) /\ (w + 1) - k2 = w - old
            /\ (w + 1) - k2 + 1 = w - old + 1 /\ (k2 < w + 1 <=> old < w)
      BY <2>4, <2>5, <2>6
    <3>2. \A v \in (w - old + 1)..(w + 1) : BelowFloor(v, t)
      <4> SUFFICES ASSUME NEW v \in (w - old + 1)..(w + 1)
                   PROVE  BelowFloor(v, t)
        OBVIOUS
      <4>1. v = w + 1 \/ v \in (w - old + 1)..w
        BY <2>5
      <4>2. QED
        BY <2>5, <2>6, <4>1
    <3>3. k2 < w + 1 => ~BelowFloor((w + 1) - k2, t)
      BY <2>5, <3>1
    <3>4. \A v \in ((w + 1) - k2 + 1)..(w + 1) : BelowFloor(v, t)
      BY <3>1, <3>2
    <3>5. QED
      BY <3>1, <3>3, <3>4 DEF StreakIs, k2
  <2>7. CASE ~BelowFloor(w + 1, t)
    <3>1. k2 = 0 /\ (w + 1) - k2 = w + 1 /\ k2 \in 0..(w + 1)
      BY <2>4, <2>7
    <3>2. ((w + 1) - k2 + 1)..(w + 1) = {}
      BY <3>1
    <3>3. ~BelowFloor((w + 1) - k2, t)
      BY <2>7, <3>1
    <3>4. QED
      BY <3>1, <3>2, <3>3 DEF StreakIs, k2
  <2>8. QED
    BY <2>6, <2>7
<1>3. Nat \subseteq K
  <2> HIDE DEF K
  <2>1. QED
    BY <1>1, <1>2, NatSetInduction
<1>4. QED
  BY <1>3

\* A week culminates exactly if it completes a collapse.
LEMMA CollapseIs ==
  ASSUME RulesetInv, Chained, Valid, NEW w \in 1..N
  PROVE  weeks[w].events.culminated <=> CollapsedAt(w)
<1> DEFINE r == ruleset
           ev == weeks[w].events
           kw == r.culmination_k_weeks
<1>1. /\ Checked(r) /\ ev = resolve(weeks[w].start, r, weeks[w].start.as_of_turn)
  BY WeekFacts
<1>2. kw \in Nat \ {0}
  BY <1>1 DEF Checked, GoodRules
<1>3. ev.culminated = (\E t \in r.threats : ev.streak[t] >= kw)
  <2> DEFINE e == resolve(weeks[w].start, r, weeks[w].start.as_of_turn)
  <2>1. e.culminated = (\E t \in r.threats : e.streak[t] >= kw)
    BY Zenon DEF resolve
  <2> HIDE DEF e
  <2>2. QED
    BY <1>1, <2>1, Zenon DEF e
<1> HIDE DEF kw
<1>4. ASSUME NEW t \in Threats
      PROVE  ev.streak[t] >= kw
               <=> w >= kw /\ \A v \in (w - kw + 1)..w : BelowFloor(v, t)
  <2> DEFINE k == ev.streak[t]
  <2>1. StreakIs(w, t)
    BY StreaksCount
  <2>2. /\ k \in 0..w
        /\ \A v \in (w - k + 1)..w : BelowFloor(v, t)
        /\ k < w => ~BelowFloor(w - k, t)
    BY <2>1 DEF StreakIs
  <2>3. w \in Nat
    OBVIOUS
  <2> HIDE DEF k, ev
  <2>4. CASE k >= kw
    <3>1. \A v \in (w - kw + 1)..w : v \in (w - k + 1)..w
      BY <1>2, <2>2, <2>3, <2>4
    <3>2. w >= kw
      BY <1>2, <2>2, <2>3, <2>4
    <3>3. QED
      BY <2>2, <2>4, <3>1, <3>2 DEF k
  <2>5. CASE ~(k >= kw)
    <3>1. ASSUME w >= kw
          PROVE  k < w /\ w - k \in (w - kw + 1)..w
      BY <1>2, <2>2, <2>3, <2>5, <3>1
    <3>2. QED
      BY <2>2, <2>5, <3>1 DEF k
  <2>6. QED
    BY <2>4, <2>5
<1>5. CollapsedAt(w) <=> \E t \in Threats : w >= kw /\ \A v \in (w - kw + 1)..w : BelowFloor(v, t)
  BY DEF CollapsedAt, kw
<1> HIDE DEF ev
<1>6. ev.culminated <=> \E t \in Threats : ev.streak[t] >= kw
  BY <1>3, Zenon DEF Threats
<1>7. QED
  BY <1>4, <1>5, <1>6 DEF ev

\* The first long enough streak, and no other week, ends the campaign.
LEMMA CollapseHolds ==
  RulesetInv /\ Chained => CulminatesAtCollapse
<1> SUFFICES ASSUME RulesetInv, Chained, Valid
             PROVE  /\ \A w \in 1..(N - 1) : ~CollapsedAt(w)
                    /\ N > 0 => (stop = "culminated" <=> CollapsedAt(N))
  BY DEF CulminatesAtCollapse
<1>1. N \in Nat
  BY DEF Chained, N
<1>2. \A w \in 1..(N - 1) : w \in 1..N /\ ~weeks[w].events.culminated
  BY <1>1 DEF Chained
<1>3. N > 0 => N \in 1..N /\ (stop = "culminated" <=> weeks[N].events.culminated)
  BY <1>1 DEF Chained
<1>4. QED
  BY <1>2, <1>3, CollapseIs

-----------------------------------------------------------------------------
(***************************************************************************)
(* The homogeneous engine on a lane.                                       *)
(***************************************************************************)
LaneRecord(launch, inv, made, m, more, cl, ck, ci, c) ==
  [ weekly_launch |-> launch, strike_inventory |-> inv, weekly_production |-> made,
    interceptor_inventory |-> m, weekly_resupply |-> more,
    cumulative_launched |-> cl, cumulative_leaked |-> ck,
    cumulative_intercepted |-> ci, culminated |-> c ]

\* The update reduce makes.
LaneUpdate(L, inv, m, cl, ck, ci, c) ==
  [L EXCEPT !.strike_inventory = inv, !.cumulative_launched = cl, !.cumulative_leaked = ck,
            !.interceptor_inventory = m, !.cumulative_intercepted = ci, !.culminated = c]

\* What reduce changes of a lane.
LEMMA LaneAfter ==
  ASSUME NEW L, NEW launch, NEW inv, NEW made, NEW m, NEW more, NEW cl, NEW ck, NEW ci,
         NEW no, NEW st, NEW inv2, NEW m2, NEW cl2, NEW ck2, NEW ci2, NEW c,
         L = LaneRecord(launch, inv, made, m, more, cl, ck, ci, no),
         st = LaneUpdate(L, inv2, m2, cl2, ck2, ci2, c)
  PROVE  st = LaneRecord(launch, inv2, made, m2, more, cl2, ck2, ci2, c)
BY DEF LaneRecord, LaneUpdate

\* A lane with its `culminated` put back.
LEMMA LaneReset ==
  ASSUME NEW st, NEW launch, NEW inv, NEW made, NEW m, NEW more, NEW cl, NEW ck, NEW ci,
         NEW c, NEW no,
         st = LaneRecord(launch, inv, made, m, more, cl, ck, ci, c)
  PROVE  [st EXCEPT !.culminated = no] = LaneRecord(launch, inv, made, m, more, cl, ck, ci, no)
BY DEF LaneRecord

\* What the homogeneous engine does with a lane's launches n, stock m, shots a
\* and kills k.
LaneWeek(L, R, n, a, k, per, p, launch, inv, made, m, more, cl, ck) ==
  /\ n \in Nat /\ a \in Nat /\ k \in Nat /\ per \in Nat \ {0}
  /\ launch \in Nat /\ inv \in Nat /\ made \in Nat /\ m \in Nat /\ more \in Nat
  /\ cl \in Nat /\ ck \in Nat
  /\ L = LaneRecord(launch, inv, made, m, more, cl, ck, cl - ck, FALSE)
  /\ R = [ p_intercept_pct |-> p, interceptors_per_intercept |-> per,
           culmination_threshold |-> per ]
  /\ n = Least(launch, inv) /\ a = Least(n, m \div per) /\ k = (a * p) \div 100
  /\ k <= n /\ a * per \in Nat /\ a * per <= m

\* The homogeneous engine resolves the lane to what is expected of it.
HomAgrees(L, R, after, left, per) ==
  LET hom == Hom!transition(L, <<>>, R) IN
  /\ hom.status = "resolved" /\ [hom.state EXCEPT !.culminated = FALSE] = after
  /\ hom.state.culminated = (left < per)

\* A week of the homogeneous engine on a lane.
LEMMA HomWeek ==
  ASSUME NEW L, NEW R, NEW n, NEW a, NEW k, NEW per, NEW p, NEW launch, NEW inv, NEW made, NEW m,
         NEW more, NEW cl, NEW ck,
         LaneWeek(L, R, n, a, k, per, p, launch, inv, made, m, more, cl, ck)
  PROVE  HomAgrees(L, R,
                   LaneRecord(launch, inv - n + made, made, m - a * per + more, more,
                              cl + n, ck + (n - k), (cl + n) - (ck + (n - k)), FALSE),
                   m - a * per + more, per)
<1> DEFINE ev == Hom!resolve(L, R)
           st == Hom!reduce(L, ev)
           hom == Hom!transition(L, <<>>, R)
           x == a * per
<1>0. /\ n \in Nat /\ a \in Nat /\ k \in Nat /\ per \in Nat \ {0}
      /\ launch \in Nat /\ inv \in Nat /\ made \in Nat /\ m \in Nat /\ more \in Nat
      /\ cl \in Nat /\ ck \in Nat
      /\ L = LaneRecord(launch, inv, made, m, more, cl, ck, cl - ck, FALSE)
      /\ R = [ p_intercept_pct |-> p, interceptors_per_intercept |-> per,
               culmination_threshold |-> per ]
      /\ n = Least(launch, inv) /\ a = Least(n, m \div per) /\ k = (a * p) \div 100
      /\ k <= n /\ a * per \in Nat /\ a * per <= m
  BY DEF LaneWeek
<1>1. \A i, j : Hom!Least(i, j) = Least(i, j)
  BY DEF Hom!Least, Least
<1>2. /\ L.weekly_launch = launch /\ L.strike_inventory = inv /\ L.interceptor_inventory = m
      /\ L.weekly_resupply = more
      /\ R.p_intercept_pct = p /\ R.interceptors_per_intercept = per
      /\ R.culmination_threshold = per
  BY <1>0 DEF LaneRecord
<1>3. Hom!Attempted(L, R, n) = a
  BY <1>0, <1>1, <1>2 DEF Hom!Attempted
<1>4. Hom!Least(L.weekly_launch, L.strike_inventory) = n
  BY <1>0, <1>1, <1>2
<1>5. ev = [ launched |-> n, expended |-> x, intercepted |-> k, leaked |-> n - k,
             culminated |-> m - x + more < per ]
  <2>1. (a * R.p_intercept_pct) \div 100 = k /\ a * R.interceptors_per_intercept = x
    BY <1>0, <1>2
  <2>2. QED
    BY <1>2, <1>3, <1>4, <2>1, Zenon DEF Hom!resolve
<1> HIDE DEF x, ev
<1>6. st = [L EXCEPT !.strike_inventory = inv - n + made, !.cumulative_launched = cl + n,
                     !.cumulative_leaked = ck + (n - k),
                     !.interceptor_inventory = m - x + more,
                     !.cumulative_intercepted = (cl - ck) + k, !.culminated = ev.culminated]
  BY <1>0, <1>5 DEF Hom!reduce, LaneRecord
<1>7. n <= inv /\ x \in Nat /\ x <= m
  BY <1>0 DEF Least, x
<1> HIDE DEF st
<1>8. ev.launched = n /\ ev.intercepted = k /\ ev.leaked = n - k
        /\ st.strike_inventory = inv - n + made /\ st.interceptor_inventory = m - x + more
        /\ st.culminated = ev.culminated
  BY <1>0, <1>5, <1>6 DEF LaneRecord
<1>9. Hom!Sound(ev, st)
  <2>1. n = k + (n - k) /\ inv - n + made >= 0 /\ m - x + more >= 0
    BY <1>0, <1>7
  <2>2. QED
    BY <1>8, <2>1 DEF Hom!Sound
<1>10. hom = [status |-> "resolved", events |-> ev, state |-> st]
  BY <1>0, <1>2, <1>9 DEF Hom!transition, ev, st
<1> HIDE DEF hom
<1>11. hom.status = "resolved" /\ hom.state = st
  BY <1>10
<1>12. (cl - ck) + k = (cl + n) - (ck + (n - k))
  BY <1>0
<1>13. [st EXCEPT !.culminated = FALSE]
         = LaneRecord(launch, inv - n + made, made, m - x + more, more,
                      cl + n, ck + (n - k), (cl - ck) + k, FALSE)
  <2> DEFINE no == FALSE
             c  == ev.culminated
             i2 == inv - n + made
             m2 == m - x + more
             cl2 == cl + n
             ck2 == ck + (n - k)
             d2 == (cl - ck) + k
             d == cl - ck
  <2>1. L = LaneRecord(launch, inv, made, m, more, cl, ck, d, no)
    BY <1>0
  <2>2. st = LaneUpdate(L, i2, m2, cl2, ck2, d2, c)
    BY <1>6 DEF LaneUpdate
  <2> HIDE DEF c, i2, m2, cl2, ck2, d2, d, no
  <2>3. st = LaneRecord(launch, i2, made, m2, more, cl2, ck2, d2, c)
    BY <2>1, <2>2, LaneAfter
  <2>4. [st EXCEPT !.culminated = no] = LaneRecord(launch, i2, made, m2, more, cl2, ck2, d2, no)
    BY <2>3, LaneReset
  <2>5. QED
    BY <2>4 DEF i2, m2, cl2, ck2, d2, no
<1>14. ev.culminated = (m - x + more < per)
  BY <1>5, Zenon
<1>15. st.culminated = (m - x + more < per)
  BY <1>8, <1>14, Zenon
<1>16. QED
  BY <1>11, <1>12, <1>13, <1>15, Zenon DEF HomAgrees, hom, x


\* A floor that no launch cuts.
LEMMA WholeKills ==
  ASSUME NEW n \in Nat, NEW a \in Nat, a <= n, NEW p \in Pct
  PROVE  Kills(n, a, p) = (a * p) \div 100
<1> DEFINE x == a * p
           y == a * 100
           k == x \div 100
<1>1. x \in Nat /\ y \in Nat /\ x <= y /\ y \div 100 = a
  BY DEF Pct
<1>2. Kills(n, a, p) = Least(n, k)
  BY DEF Kills
<1> HIDE DEF x, y
<1>3. k \in Nat /\ k <= a
  BY <1>1
<1> HIDE DEF k
<1>4. QED
  BY <1>2, <1>3 DEF Least, k, x

\* A week of a lane that nothing cuts is a week of the homogeneous engine.
LaneAgrees(s, res, t, i) ==
  LET hom == Hom!transition(Lane(s, t, i), <<>>, LaneRules(t, i)) IN
  /\ hom.status = "resolved"
  /\ [hom.state EXCEPT !.culminated = FALSE] = Lane(res, t, i)
  /\ hom.state.culminated
       <=> res.interceptor_inventory[i] < ruleset.per_pairing[t][i]

LEMMA LaneStep ==
  ASSUME Checked(ruleset), NEW s \in StateOf(ruleset), NEW ev, EventsOf(ruleset, s, ev),
         NEW res, StateAfter(ruleset, s, ev, res), NEW t, NEW i, IsLane(ruleset, t, i),
         Wanted(ruleset, t, ev.launched[t]) = ev.launched[t]
  PROVE  LaneAgrees(s, res, t, i)
<1> DEFINE r == ruleset
           per == r.per_pairing[t][i]
           p == p_used(r, t)
           n == ev.launched[t]
           a == ev.attempts[t]
           k == ev.intercepted[t]
           x == ev.expended[i]
           launch == s.weekly_launch[t]
           inv == s.strike_inventory[t]
           made == s.weekly_production[t]
           m == s.interceptor_inventory[i]
           more == s.weekly_resupply[i]
           cl == s.cumulative_launched[t]
           ck == s.cumulative_leaked[t]
           L == Lane(s, t, i)
           R == LaneRules(t, i)
<1>1. t \in r.threats /\ i \in r.interceptors
  BY DEF IsLane
<1>2. /\ launch \in Nat /\ inv \in Nat /\ made \in Nat /\ m \in Nat /\ more \in Nat
      /\ cl \in Nat /\ ck \in Nat
  BY <1>1 DEF StateOf
<1>3. s.interceptor_inventory \in Magazines(r) /\ ev.launched \in Launches(r)
  BY DEF StateOf, Magazines, EventsOf
<1>4. /\ n \in Nat /\ a \in Nat /\ k \in Nat
      /\ n = Least(launch, inv) /\ k = Kills(n, a, p) /\ k <= n
      /\ ev.leaked[t] = n - k
  BY <1>1 DEF EventsOf, Launches
<1>5. /\ a = LaneShots(r, s.interceptor_inventory, ev.launched, t, i)
      /\ x = LaneShots(r, s.interceptor_inventory, ev.launched, t, i) * per
  BY <1>1, <1>3, LaneIs DEF EventsOf
<1>6. a = Least(n, m \div per)
  BY <1>5 DEF LaneShots
<1>7. /\ per \in Nat \ {0}
      /\ LaneShots(r, s.interceptor_inventory, ev.launched, t, i) * per \in Nat
      /\ LaneShots(r, s.interceptor_inventory, ev.launched, t, i) * per <= m
  BY <1>3, LaneShotsAre
<1>8. x = a * per /\ a * per \in Nat /\ a * per <= m
  BY <1>5, <1>7
<1>9. p \in Pct
  BY <1>1, CheckedThreat DEF GoodThreat
<1>10. /\ res.weekly_launch[t] = launch /\ res.strike_inventory[t] = inv - n + made
       /\ res.weekly_production[t] = made /\ res.interceptor_inventory[i] = m - x + more
       /\ res.weekly_resupply[i] = more /\ res.cumulative_launched[t] = cl + n
       /\ res.cumulative_leaked[t] = ck + (n - k)
  BY <1>1, <1>4 DEF StateAfter
<1>11. L = LaneRecord(launch, inv, made, m, more, cl, ck, cl - ck, FALSE)
  BY DEF Lane, LaneRecord
<1>12. R = [ p_intercept_pct |-> p, interceptors_per_intercept |-> per,
             culmination_threshold |-> per ]
  BY DEF LaneRules
<1> HIDE DEF per, p, n, a, k, x, launch, inv, made, m, more, cl, ck, L, R
<1>13. Lane(res, t, i) = LaneRecord(launch, inv - n + made, made, m - a * per + more, more,
                                    cl + n, ck + (n - k), (cl + n) - (ck + (n - k)), FALSE)
  BY <1>8, <1>10 DEF Lane, LaneRecord
<1>14. m \div per \in Nat
  BY <1>2, <1>7, Shots
<1>15. k = (a * p) \div 100
  BY <1>4, <1>6, <1>9, <1>14, WholeKills DEF Least
<1> DEFINE hom == Hom!transition(L, <<>>, R)
           after == LaneRecord(launch, inv - n + made, made, m - a * per + more, more,
                               cl + n, ck + (n - k), (cl + n) - (ck + (n - k)), FALSE)
<1>16. LaneWeek(L, R, n, a, k, per, p, launch, inv, made, m, more, cl, ck)
  BY <1>2, <1>4, <1>6, <1>7, <1>8, <1>11, <1>12, <1>15 DEF LaneWeek
<1>17. res.interceptor_inventory[i] = m - a * per + more
  BY <1>8, <1>10
<1>18. HomAgrees(L, R, after, m - a * per + more, per)
  BY <1>16, HomWeek, Zenon
<1> HIDE DEF after
<1>19. /\ hom.status = "resolved" /\ [hom.state EXCEPT !.culminated = FALSE] = after
       /\ hom.state.culminated = (m - a * per + more < per)
  BY <1>18, Zenon DEF HomAgrees
<1> HIDE DEF hom
<1>20. hom.state.culminated <=> res.interceptor_inventory[i] < per
  BY <1>17, <1>19, Zenon
<1>21. after = Lane(res, t, i)
  BY <1>13 DEF after
<1>22. QED
  BY <1>19, <1>20, <1>21, Zenon DEF LaneAgrees, hom, L, R, per, r


\* An empty lane fires nothing.
LEMMA EmptyLane ==
  ASSUME Checked(ruleset), NEW s \in StateOf(ruleset), NEW ev, EventsOf(ruleset, s, ev),
         NEW t, NEW i, IsLane(ruleset, t, i),
         s.interceptor_inventory[i] < ruleset.per_pairing[t][i]
  PROVE  ev.attempts[t] = 0
<1> DEFINE r == ruleset
           per == r.per_pairing[t][i]
           stock == s.interceptor_inventory
           W == Wanted(r, t, ev.launched[t])
<1>1. t \in r.threats /\ i \in r.interceptors
  BY DEF IsLane
<1>2. stock \in Magazines(r) /\ ev.launched \in Launches(r)
  BY DEF StateOf, Magazines, EventsOf
<1>3. ev.attempts[t] = LaneShots(r, stock, ev.launched, t, i)
  BY <1>1, <1>2, LaneIs DEF EventsOf
<1>4. per \in Nat \ {0} /\ stock[i] \in Nat /\ W \in Nat
  BY <1>1, <1>2, LaneShotsAre, WantedIs DEF Magazines, Launches
<1>5. stock[i] < per
  OBVIOUS
<1>6. ev.attempts[t] = Least(W, stock[i] \div per)
  BY <1>3 DEF LaneShots
<1> HIDE DEF per, stock, W
<1>7. stock[i] \div per = 0
  BY <1>4, <1>5
<1>8. QED
  BY <1>4, <1>6, <1>7 DEF Least

\* On a lane that nothing cuts, the two engines lead to the same stocks and
\* counts, and a lane the homogeneous one calls culminated is not defended.
LEMMA LaneHolds ==
  RulesetInv /\ Chained => LaneIsHomogeneous
<1> SUFFICES ASSUME RulesetInv, Chained, Valid, NEW w \in 1..N, NEW lane \in Lanes,
                    Wanted(ruleset, lane[1], weeks[w].events.launched[lane[1]])
                      = weeks[w].events.launched[lane[1]]
             PROVE  LET hom == Hom!transition(Lane(weeks[w].start, lane[1], lane[2]), <<>>,
                                              LaneRules(lane[1], lane[2]))
                    IN  /\ hom.status = "resolved"
                        /\ [hom.state EXCEPT !.culminated = FALSE]
                             = Lane(weeks[w].result, lane[1], lane[2])
                        /\ hom.state.culminated /\ w < N =>
                             weeks[w + 1].events.attempts[lane[1]] = 0
  BY Zenon DEF LaneIsHomogeneous
<1> DEFINE t == lane[1]
           i == lane[2]
           s == weeks[w].start
           res == weeks[w].result
           hom == Hom!transition(Lane(s, t, i), <<>>, LaneRules(t, i))
<1>1. IsLane(ruleset, t, i)
  BY DEF Lanes, IsLane, Threats
<1>2. /\ Checked(ruleset) /\ s \in StateOf(ruleset)
      /\ EventsOf(ruleset, s, weeks[w].events)
      /\ StateAfter(ruleset, s, weeks[w].events, res)
  BY WeekFacts
<1>3. LaneAgrees(s, res, t, i)
  BY <1>1, <1>2, LaneStep
<1>4. /\ hom.status = "resolved" /\ [hom.state EXCEPT !.culminated = FALSE] = Lane(res, t, i)
      /\ (hom.state.culminated <=> res.interceptor_inventory[i] < ruleset.per_pairing[t][i])
  BY <1>3, Zenon DEF LaneAgrees
<1>5. ASSUME res.interceptor_inventory[i] < ruleset.per_pairing[t][i], w < N
      PROVE  weeks[w + 1].events.attempts[t] = 0
  <2>1. N \in Nat
    BY DEF Chained, N
  <2>2. w + 1 \in 1..N /\ w + 1 \in 2..N /\ (w + 1) - 1 = w
    BY <1>5, <2>1
  <2>3. weeks[w + 1].start = res
    BY <2>2 DEF Chained
  <2>4. /\ weeks[w + 1].start \in StateOf(ruleset)
        /\ EventsOf(ruleset, weeks[w + 1].start, weeks[w + 1].events)
    BY <2>2, WeekFacts
  <2> HIDE DEF t, i, res
  <2>5. QED
    BY <1>1, <1>2, <1>5, <2>3, <2>4, EmptyLane
<1> HIDE DEF hom
<1>6. hom.state.culminated /\ w < N => weeks[w + 1].events.attempts[t] = 0
  BY <1>4, <1>5, Zenon
<1>7. QED
  BY <1>4, <1>6, Zenon DEF hom, t, i, s, res


-----------------------------------------------------------------------------
(***************************************************************************)
(* Nothing is lost.                                                        *)
(***************************************************************************)
\* A week adds its launches and its leaks to the totals.
LEMMA CountsAdd ==
  ASSUME NEW T, IsFiniteSet(T), NEW f \in [T -> Nat], NEW g \in [T -> Nat], NEW h \in [T -> Nat],
         \A t \in T : h[t] = f[t] + g[t]
  PROVE  /\ SumOf(h) = SumOf(f) + SumOf(g)
         /\ SumOf(f) \in Int /\ SumOf(g) \in Int /\ SumOf(h) \in Int
<1>1. h = [t \in T |-> f[t] + g[t]]
  OBVIOUS
<1>2. f \in [T -> Int] /\ g \in [T -> Int]
  OBVIOUS
<1>3. SumOf(f) \in Int /\ SumOf(g) \in Int /\ SumOf([t \in T |-> f[t] + g[t]]) = SumOf(f) + SumOf(g)
  BY <1>2, SumOfSums
<1>4. QED
  BY <1>1, <1>3

\* What a week adds to the ledger of a campaign that began in state o.
Balanced(r, o, n, h) ==
  /\ \A t \in r.threats :
       h.strike_inventory[t] + h.cumulative_launched[t]
         = o.strike_inventory[t] + o.cumulative_launched[t] + n * h.weekly_production[t]
  /\ SumOf(h.cumulative_launched) - SumOf(o.cumulative_launched)
       = (SumOf(h.cumulative_leaked) - SumOf(o.cumulative_leaked))
           + (h.cumulative_intercepted - o.cumulative_intercepted)

LEMMA LedgerSums ==
  ASSUME NEW r, Checked(r), NEW s \in StateOf(r)
  PROVE  /\ SumOf(s.cumulative_launched) \in Int /\ SumOf(s.cumulative_leaked) \in Int
         /\ s.cumulative_intercepted \in Int
<1>1. /\ IsFiniteSet(r.threats) /\ s.cumulative_launched \in [r.threats -> Nat]
      /\ s.cumulative_leaked \in [r.threats -> Nat] /\ s.cumulative_intercepted \in Nat
  BY DEF Checked, IsRuleset, StateOf
<1>2. QED
  BY <1>1, SumOfNaturals

LEMMA BalancedStep ==
  ASSUME NEW r, Checked(r), NEW o \in StateOf(r), NEW n \in Nat, NEW s \in StateOf(r),
         Balanced(r, o, n, s), NEW ev, EventsOf(r, s, ev), NEW h, StateAfter(r, s, ev, h)
  PROVE  Balanced(r, o, n + 1, h)
<1> DEFINE T == r.threats
<1>1. /\ IsFiniteSet(T) /\ s.cumulative_launched \in [T -> Nat] /\ s.cumulative_leaked \in [T -> Nat]
      /\ ev.launched \in [T -> Nat] /\ ev.leaked \in [T -> Nat]
      /\ h.cumulative_launched \in [T -> Nat] /\ h.cumulative_leaked \in [T -> Nat]
  BY DEF Checked, IsRuleset, StateOf, EventsOf, Launches, StateAfter
<1>2. /\ SumOf(h.cumulative_launched) = SumOf(s.cumulative_launched) + SumOf(ev.launched)
      /\ SumOf(h.cumulative_leaked) = SumOf(s.cumulative_leaked) + SumOf(ev.leaked)
  <2>1. /\ \A t \in T : h.cumulative_launched[t] = s.cumulative_launched[t] + ev.launched[t]
        /\ \A t \in T : h.cumulative_leaked[t] = s.cumulative_leaked[t] + ev.leaked[t]
    BY DEF StateAfter
  <2> HIDE DEF T
  <2>2. SumOf(h.cumulative_launched) = SumOf(s.cumulative_launched) + SumOf(ev.launched)
    BY <1>1, <2>1, CountsAdd
  <2>3. SumOf(h.cumulative_leaked) = SumOf(s.cumulative_leaked) + SumOf(ev.leaked)
    BY <1>1, <2>1, CountsAdd
  <2>4. QED
    BY <2>2, <2>3
<1>3. /\ SumOf(ev.launched) = SumOf(ev.intercepted) + SumOf(ev.leaked)
      /\ SumOf(ev.launched) \in Nat /\ SumOf(ev.intercepted) \in Nat /\ SumOf(ev.leaked) \in Nat
  BY LaunchesSplit
<1>4. h.cumulative_intercepted = s.cumulative_intercepted + SumOf(ev.intercepted)
  BY DEF StateAfter
<1>5. SumOf(h.cumulative_launched) - SumOf(o.cumulative_launched)
        = (SumOf(h.cumulative_leaked) - SumOf(o.cumulative_leaked))
            + (h.cumulative_intercepted - o.cumulative_intercepted)
  <2> DEFINE Ledger(x) == /\ SumOf(x.cumulative_launched) \in Int /\ SumOf(x.cumulative_leaked) \in Int
                          /\ x.cumulative_intercepted \in Int
  <2>1. Ledger(s) /\ Ledger(o)
    BY LedgerSums
  <2>2. SumOf(s.cumulative_launched) - SumOf(o.cumulative_launched)
          = (SumOf(s.cumulative_leaked) - SumOf(o.cumulative_leaked))
              + (s.cumulative_intercepted - o.cumulative_intercepted)
    BY DEF Balanced
  <2>3. QED
    BY <1>2, <1>3, <1>4, <2>1, <2>2
<1>6. ASSUME NEW t \in T
      PROVE  h.strike_inventory[t] + h.cumulative_launched[t]
               = o.strike_inventory[t] + o.cumulative_launched[t] + (n + 1) * h.weekly_production[t]
  <2> DEFINE p == s.weekly_production[t]
  <2>1. /\ s.strike_inventory[t] \in Nat /\ s.cumulative_launched[t] \in Nat /\ p \in Nat
        /\ o.strike_inventory[t] \in Nat /\ o.cumulative_launched[t] \in Nat
        /\ ev.launched[t] \in Nat
    BY DEF StateOf, EventsOf, Launches
  <2>2. /\ h.strike_inventory[t] = s.strike_inventory[t] - ev.launched[t] + p
        /\ h.cumulative_launched[t] = s.cumulative_launched[t] + ev.launched[t]
        /\ h.weekly_production[t] = p
    BY DEF StateAfter
  <2>3. s.strike_inventory[t] + s.cumulative_launched[t]
          = o.strike_inventory[t] + o.cumulative_launched[t] + n * p
    BY DEF Balanced
  <2> HIDE DEF p
  <2>4. n * p \in Nat /\ (n + 1) * p = n * p + p
    BY <2>1
  <2> DEFINE x == n * p
             y == (n + 1) * p
  <2> HIDE DEF x, y
  <2>5. x \in Nat /\ y = x + p /\ s.strike_inventory[t] + s.cumulative_launched[t]
          = o.strike_inventory[t] + o.cumulative_launched[t] + x
    BY <2>3, <2>4 DEF x, y
  <2>6. h.strike_inventory[t] + h.cumulative_launched[t]
          = o.strike_inventory[t] + o.cumulative_launched[t] + y
    BY <2>1, <2>2, <2>5
  <2>7. QED
    BY <2>2, <2>6 DEF y
<1>7. QED
  BY <1>5, <1>6 DEF Balanced

\* No campaign of a playable ruleset raises, and its ledger balances.
LEMMA ConservedHolds ==
  RulesetInv /\ Chained => Conserved
<1> SUFFICES ASSUME RulesetInv, Chained, Valid
             PROVE  /\ stop # "raised"
                    /\ N > 0 => Balanced(ruleset, weeks[1].start, N, head)
  BY DEF Conserved, Balanced, Threats
<1>1. stop # "raised" /\ N \in Nat
  BY DEF Chained, N
<1>2. ASSUME N > 0
      PROVE  Balanced(ruleset, weeks[1].start, N, head)
  <2> DEFINE o == weeks[1].start
             B(n) == Balanced(ruleset, o, n, weeks[n].result)
             K == {n \in Nat : n + 1 <= N => B(n + 1)}
  <2>1. 1 \in 1..N /\ N - 1 \in Nat /\ (N - 1) + 1 = N /\ N # 0
    BY <1>1, <1>2
  <2>2. Checked(ruleset) /\ o \in StateOf(ruleset)
    BY <2>1, WeekFacts
  <2>3. Balanced(ruleset, o, 0, o)
    <3>1. \A t \in ruleset.threats : /\ o.strike_inventory[t] \in Nat
                                     /\ o.cumulative_launched[t] \in Nat
                                     /\ o.weekly_production[t] \in Nat
      BY <2>2 DEF StateOf
    <3>2. /\ SumOf(o.cumulative_launched) \in Int /\ SumOf(o.cumulative_leaked) \in Int
          /\ o.cumulative_intercepted \in Int
      BY <2>2, LedgerSums
    <3>3. QED
      BY <3>1, <3>2 DEF Balanced
  <2>4. 0 \in K
    <3>1. /\ EventsOf(ruleset, o, weeks[1].events)
          /\ StateAfter(ruleset, o, weeks[1].events, weeks[1].result)
      BY <2>1, WeekFacts
    <3> HIDE DEF o
    <3>2. Balanced(ruleset, o, 0 + 1, weeks[1].result)
      BY <2>2, <2>3, <3>1, BalancedStep
    <3>3. QED
      BY <3>2
  <2>5. \A n \in K : n + 1 \in K
    <3> SUFFICES ASSUME NEW n \in Nat, n + 1 <= N => B(n + 1), n + 2 <= N
                 PROVE  B(n + 2)
      OBVIOUS
    <3> DEFINE w == n + 2
    <3>1. w \in 1..N /\ w \in 2..N /\ w - 1 = n + 1 /\ n + 1 \in 1..N /\ n + 1 \in Nat
          /\ (n + 1) + 1 = w
      BY <1>1
    <3>2. B(n + 1)
      BY <3>1, <1>1
    <3>3. weeks[w].start = weeks[n + 1].result
      BY <3>1 DEF Chained
    <3>4. /\ weeks[w].start \in StateOf(ruleset)
          /\ EventsOf(ruleset, weeks[w].start, weeks[w].events)
          /\ StateAfter(ruleset, weeks[w].start, weeks[w].events, weeks[w].result)
      BY <3>1, WeekFacts
    <3>5. Balanced(ruleset, o, n + 1, weeks[w].start)
      BY <3>2, <3>3
    <3> HIDE DEF o, w
    <3>6. Balanced(ruleset, o, (n + 1) + 1, weeks[w].result)
      BY <2>2, <3>1, <3>4, <3>5, BalancedStep
    <3>7. QED
      BY <3>1, <3>6 DEF w
  <2> HIDE DEF B
  <2>6. Nat \subseteq K
    <3> HIDE DEF K
    <3>1. QED
      BY <2>4, <2>5, NatSetInduction
  <2>7. B(N)
    BY <2>1, <2>6
  <2>8. head = weeks[N].result
    BY <2>1 DEF Chained
  <2>9. QED
    BY <2>7, <2>8 DEF B
<1>3. QED
  BY <1>1, <1>2


-----------------------------------------------------------------------------
(***************************************************************************)
(* The theorems: of every campaign, of any length, of any number of        *)
(* threats and interceptors.                                               *)
(***************************************************************************)
\* run_campaign keeps the weeks chained.
LEMMA SpecChained ==
  Spec => [](RulesetInv /\ Chained)
<1>1. Init => RulesetInv /\ Chained
  BY ChainedInit
<1>2. RulesetInv /\ Chained /\ [Next]_vars => (RulesetInv /\ Chained)'
  BY ChainedNext
<1>3. QED
  BY <1>1, <1>2, PTL DEF Spec

\* A campaign with a ruleset the validator accepts and resolve can read never
\* raises, and loses nothing: each threat's stock and launches account for
\* what was there and what was produced, and all that was launched was
\* intercepted or leaked.
THEOREM CampaignConserves == Spec => []Conserved
BY SpecChained, ConservedHolds, PTL

\* The campaign stops as culminated at the first week that ends
\* culmination_k_weeks in a row of one class below its lethality floor, and
\* otherwise runs on: the streak the state carries counts those weeks.
THEOREM CulminationIsCollapse == Spec => []CulminatesAtCollapse
BY SpecChained, CollapseHolds, PTL

\* The leaks reported for the two ends of the exogenous range enclose the
\* committed one, and a verdict not flagged as indeterminate is the verdict of
\* every leak rate of the range.
THEOREM BandIsABracket == Spec => []BandBrackets
BY SpecChained, BandHolds, PTL

\* A week in which a threat is engaged less than it would be with unlimited
\* stock is flagged as stock-constrained, however the threats share types.
THEOREM StarvationIsFlagged == Spec => []StarvedIsFlagged
BY SpecChained, StarvedHolds, PTL

\* From the second week on a week flagged as stock-constrained does not read
\* as one that leaves the magazines as full as they were.
THEOREM StarvationDepletes == Spec => []StarvedReadsDepleting
BY SpecChained, DepletingHolds, PTL

\* On a lane, a threat with a type of its own, the heterogeneous engine does
\* in every week what the homogeneous one does.
THEOREM LanesAreHomogeneous == Spec => []LaneIsHomogeneous
BY SpecChained, LaneHolds, PTL
=============================================================================
