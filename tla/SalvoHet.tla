------------------------------- MODULE SalvoHet -------------------------------
(***************************************************************************)
(* The heterogeneous salvo, core/salvo_resolver_het.py: one deterministic  *)
(* week of strikes by threat class against interceptors of several types,  *)
(* in integers (percentages are floored).  A state holds the strike        *)
(* inventories and cumulative counts of each threat, the stock of each     *)
(* interceptor and, of the network, the below-floor streak of each class.  *)
(* A week's events are a record of what they carry.                        *)
(***************************************************************************)
EXTENDS Integers, Sequences, SequencesExt

Least(m, n) == IF m <= n THEN m ELSE n
SumOf(f)    == MapThenSumSet(LAMBDA x : f[x], DOMAIN f)

-----------------------------------------------------------------------------
(***************************************************************************)
(* The ruleset.                                                            *)
(***************************************************************************)
Pct == 0..100

\* _validate_ruleset, without the type checks: values are integers here.
rule_faults(r) ==
  [ p_out_of_range    |-> \E t \in DOMAIN r.p_intercept_pct : r.p_intercept_pct[t] \notin Pct,
    missing_p         |-> (r.threats \ {"ballistic"}) \ DOMAIN r.p_intercept_pct # {},
    per_out_of_range  |-> \E t \in DOMAIN r.per_pairing : \E i \in DOMAIN r.per_pairing[t] :
                            r.per_pairing[t][i] < 1,
    capacity_out_of_range |-> \E t \in DOMAIN r.weekly_engagement_capacity :
                                r.weekly_engagement_capacity[t] < 0,
    saturation_threshold_out_of_range |->
      \E t \in DOMAIN r.saturation_threshold : r.saturation_threshold[t] < 0,
    saturation_pct_out_of_range |->
      \E t \in DOMAIN r.saturation_retained_pct : r.saturation_retained_pct[t] \notin Pct,
    missing_param     |-> r.threats \ (DOMAIN r.weekly_engagement_capacity
                                         \cap DOMAIN r.saturation_threshold
                                         \cap DOMAIN r.saturation_retained_pct) # {},
    ballistic_leak_range_invalid |->
      ~(/\ {r.ballistic_leak_floor_pct, r.ballistic_leak_high_pct} \subseteq Pct
        /\ r.ballistic_leak_floor_pct <= r.ballistic_leak_high_pct),
    lethality_floor_out_of_range |->
      \E t \in DOMAIN r.lethality_floor_pct : r.lethality_floor_pct[t] \notin Pct,
    missing_floor     |-> r.threats \ DOMAIN r.lethality_floor_pct # {},
    k_weeks_out_of_range |-> r.culmination_k_weeks < 1,
    allocation        |-> \E t \in r.threats :
      \/ t \notin DOMAIN r.allocation_priority
      \/ r.allocation_priority[t] = <<>>
      \/ \E i \in ToSet(r.allocation_priority[t]) :
           \/ i \notin r.interceptors
           \/ t \notin DOMAIN r.per_pairing
           \/ i \notin DOMAIN r.per_pairing[t] ]

ruleset_problems(r) == {code \in DOMAIN rule_faults(r) : rule_faults(r)[code]}

IntValued(f)   == \A x \in DOMAIN f : f[x] \in Int
IsASequence(s) == s \in Seq(ToSet(s))

\* What the type checks leave, of rules whose threat_order, like the default
\* one, names every threat once.
IsRuleset(r) ==
  /\ IsFiniteSet(r.threats) /\ IsFiniteSet(r.interceptors)
  /\ IsASequence(r.threat_order) /\ IsInjective(r.threat_order)
  /\ r.threats \subseteq ToSet(r.threat_order)
  /\ \A t \in DOMAIN r.allocation_priority : IsASequence(r.allocation_priority[t])
  /\ \A t \in DOMAIN r.per_pairing : IntValued(r.per_pairing[t])
  /\ IntValued(r.p_intercept_pct) /\ IntValued(r.weekly_engagement_capacity)
  /\ IntValued(r.saturation_threshold) /\ IntValued(r.saturation_retained_pct)
  /\ IntValued(r.lethality_floor_pct)
  /\ {r.ballistic_leak_floor_pct, r.ballistic_leak_high_pct, r.culmination_k_weeks} \subseteq Int

\* The states of a scenario: an entity for each threat and each interceptor.
StateOf(r) ==
  [ strike_inventory : [r.threats -> Nat], weekly_launch : [r.threats -> Nat],
    weekly_production : [r.threats -> Nat],
    cumulative_launched : [r.threats -> Nat], cumulative_leaked : [r.threats -> Nat],
    interceptor_inventory : [r.interceptors -> Nat], weekly_resupply : [r.interceptors -> Nat],
    cumulative_intercepted : Nat, streak : [r.threats -> Nat],
    culminated : BOOLEAN, as_of_turn : Nat ]

-----------------------------------------------------------------------------
(***************************************************************************)
(* One week.  `launched` is a function of the threats; `use` is what the   *)
(* allocation did: attempts fired and stock left.                          *)
(***************************************************************************)
Launched(s, r) == [t \in r.threats |-> Least(s.weekly_launch[t], s.strike_inventory[t])]

leak_central(r) == (r.ballistic_leak_floor_pct + r.ballistic_leak_high_pct) \div 2

\* Mutant of p_used: the leak rate is taken for the intercept rate.
p_backwards(r, t) == IF t = "ballistic" THEN leak_central(r) ELSE r.p_intercept_pct[t]

p_used(r, t) == IF t = "ballistic" THEN 100 - leak_central(r) ELSE r.p_intercept_pct[t]

\* Launches above the saturation threshold are engaged at the retained rate.
Engageable(r, t, n) ==
  LET over == n - r.saturation_threshold[t]
  IN  IF over > 0 THEN r.saturation_threshold[t] + (r.saturation_retained_pct[t] * over) \div 100
      ELSE n

\* What the defence would engage with unlimited stock.
Wanted(r, t, n) == Least(Engageable(r, t, n), r.weekly_engagement_capacity[t])

\* What is left of its interceptors bounds the attempts at a threat.
Ceiling(r, left, t) ==
  LET prio == r.allocation_priority[t]
  IN  SumOf([n \in DOMAIN prio |-> left[prio[n]] \div r.per_pairing[t][prio[n]]])

\* Mutant of Take: interceptors fired at a threat stay in the magazine.
TakeUnlimited(per, a, i) ==
  LET n == Least(a.remaining, a.left[i] \div per[i])
  IN  IF a.remaining = 0 THEN a
      ELSE [ left |-> a.left, remaining |-> a.remaining - n, fired |-> [a.fired EXCEPT ![i] = n] ]

\* The attempts that remain go to the next interceptor in order of priority,
\* at `per[i]` interceptors each.
Take(per, a, i) ==
  LET n == Least(a.remaining, a.left[i] \div per[i])
  IN  IF a.remaining = 0 THEN a
      ELSE [ left |-> [a.left EXCEPT ![i] = @ - n * per[i]], remaining |-> a.remaining - n,
             fired |-> [a.fired EXCEPT ![i] = n] ]

\* One threat, if the ruleset has it.
Engage(r, launched, use, t) ==
  LET done == FoldLeft(LAMBDA a, i : Take(r.per_pairing[t], a, i),
                       [ left |-> use.left, fired |-> [i \in r.interceptors |-> 0],
                         remaining |-> Least(Wanted(r, t, launched[t]), Ceiling(r, use.left, t)) ],
                       r.allocation_priority[t])
  IN  IF t \notin r.threats THEN use
      ELSE [left |-> done.left, fired |-> [use.fired EXCEPT ![t] = done.fired]]

\* The threats in their order, on shared magazines.
Allocation(s, r, launched) ==
  FoldLeft(LAMBDA use, t : Engage(r, launched, use, t),
           [ left  |-> [i \in r.interceptors |-> s.interceptor_inventory[i]],
             fired |-> [t \in r.threats |-> [i \in r.interceptors |-> 0]] ],
           r.threat_order)

Attempts(use, t) == SumOf(use.fired[t])

\* The interceptors fired at a threat.
Used(r, use, t, i) == IF use.fired[t][i] > 0 THEN use.fired[t][i] * r.per_pairing[t][i] ELSE 0

Consumed(r, use) == [i \in r.interceptors |-> SumOf([t \in r.threats |-> Used(r, use, t, i)])]

\* With unlimited stock a threat is met by its best type alone.
Draw(r, launched, demand, t) ==
  LET best == r.allocation_priority[t][1]
  IN  IF t \notin r.threats THEN demand
      ELSE [demand EXCEPT ![best] = @ + Wanted(r, t, launched[t]) * r.per_pairing[t][best]]

\* _demand: the drawdown of a week with unlimited stock.
Demand(r, launched) ==
  FoldLeft(LAMBDA demand, t : Draw(r, launched, demand, t),
           [i \in r.interceptors |-> 0], r.threat_order)

\* Kills of a threat, floored once over all the types that engaged it.
Kills(launches, attempts, pct) == Least(launches, (attempts * pct) \div 100)

\* Mutant of NextStreak: a week without fire, or above the floor, keeps it.
StreakKept(r, t, old, launches, kills) ==
  IF launches > 0 /\ (kills * 100) \div launches < r.lethality_floor_pct[t] THEN old + 1 ELSE old

\* Weeks in a row a class was below its floor; a week without fire ends them.
NextStreak(r, t, old, launches, kills) ==
  IF launches > 0 /\ (kills * 100) \div launches < r.lethality_floor_pct[t] THEN old + 1 ELSE 0

\* Mutant of NetBurn: what was consumed, not what was wanted.
RealizedBurn(s, r, launched, consumed, i) == consumed[i] - s.weekly_resupply[i]

NetBurn(s, r, launched, consumed, i) == Demand(r, launched)[i] - s.weekly_resupply[i]

\* Mutant of StockConstrained: only an emptied magazine counts.
StockEmptied(s, r, launched, consumed) ==
  \E i \in r.interceptors :
    s.interceptor_inventory[i] + s.weekly_resupply[i] - consumed[i] <= 0

StockConstrained(s, r, launched, consumed) ==
  \E i \in r.interceptors : consumed[i] < Demand(r, launched)[i]

\* BALLISTIC_LEAK_BAND: the leaks at both ends of the exogenous range, with
\* the attempts as they were.
LeakBand(r, launches, attempts) ==
  LET best    == Kills(launches, attempts, 100 - r.ballistic_leak_floor_pct)
      worst   == Kills(launches, attempts, 100 - r.ballistic_leak_high_pct)
      Rate(k) == IF launches > 0 THEN (k * 100) \div launches ELSE 0
  IN  [ leak_low  |-> launches - best, leak_high |-> launches - worst,
        verdict_indeterminate |->
          /\ launches > 0
          /\ Rate(worst) < r.lethality_floor_pct["ballistic"]
          /\ r.lethality_floor_pct["ballistic"] <= Rate(best) ]

\* Without such a threat nothing is launched, nothing attempted.
Ballistic(f) == IF "ballistic" \in DOMAIN f THEN f["ballistic"] ELSE 0

\* What the resolver reads of a ruleset and the validator does not ask for.
ResolveRaises(r) == "ballistic" \notin DOMAIN r.lethality_floor_pct

\* resolve: the events of a week.
resolve(s, r, turn) ==
  LET launched == Launched(s, r)
      use      == Allocation(s, r, launched)
      attempts == [t \in r.threats |-> Attempts(use, t)]
      kills    == [t \in r.threats |-> Kills(launched[t], attempts[t], p_used(r, t))]
      consumed == Consumed(r, use)
      streak   == [t \in r.threats |-> NextStreak(r, t, s.streak[t], launched[t], kills[t])]
      burning  == {i \in r.interceptors : NetBurn(s, r, launched, consumed, i) > 0}
  IN  [ launched    |-> launched,
        attempts    |-> attempts,
        expended    |-> consumed,
        intercepted |-> kills,
        leaked      |-> [t \in r.threats |-> launched[t] - kills[t]],
        band        |-> LeakBand(r, Ballistic(launched), Ballistic(attempts)),
        streak      |-> streak,
        magazine_non_depleting |-> burning = {},
        stock_constrained      |-> StockConstrained(s, r, launched, consumed),
        culminated  |-> \E t \in r.threats : streak[t] >= r.culmination_k_weeks,
        to_turn     |-> turn + 1 ]

\* reduce: the state a week's events lead to; needs no rule.
reduce(s, ev) ==
  [s EXCEPT
     !.strike_inventory = [t \in DOMAIN @ |-> @[t] - ev.launched[t] + s.weekly_production[t]],
     !.cumulative_launched = [t \in DOMAIN @ |-> @[t] + ev.launched[t]],
     !.cumulative_leaked   = [t \in DOMAIN @ |-> @[t] + ev.leaked[t]],
     !.interceptor_inventory = [i \in DOMAIN @ |-> @[i] - ev.expended[i] + s.weekly_resupply[i]],
     !.cumulative_intercepted = @ + SumOf(ev.intercepted),
     !.streak = ev.streak,
     !.culminated = ev.culminated,
     !.as_of_turn = ev.to_turn]

\* The checks after reduce; one that fails raises.
Sound(s, r, ev, result) ==
  /\ SumOf(ev.launched) = SumOf(ev.intercepted) + SumOf(ev.leaked)
  /\ \A t \in r.threats : ev.intercepted[t] <= ev.launched[t] /\ result.strike_inventory[t] >= 0
  /\ \A i \in r.interceptors : result.interceptor_inventory[i] >= 0
  /\ ev.to_turn = s.as_of_turn + 1

transition(s, r, turn) ==
  LET ev == resolve(s, r, turn)
  IN  IF ruleset_problems(r) # {} THEN [status |-> "rejected", state |-> s]
      ELSE IF ResolveRaises(r) \/ ~Sound(s, r, ev, reduce(s, ev)) THEN [status |-> "raised", state |-> s]
      ELSE [status |-> "resolved", events |-> ev, state |-> reduce(s, ev)]
=============================================================================
