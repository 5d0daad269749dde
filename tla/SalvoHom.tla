------------------------------- MODULE SalvoHom -------------------------------
(***************************************************************************)
(* The homogeneous salvo, core/salvo_resolver.py: one strike pool against  *)
(* one interceptor pool, a week at a time, with a ruleset nobody checks.   *)
(***************************************************************************)
EXTENDS Integers

Least(m, n) == IF m <= n THEN m ELSE n

\* Mutant of Attempted: one interceptor a shot, whatever the ruleset says.
AttemptedOnePer(s, r, launched) == Least(launched, s.interceptor_inventory)

Attempted(s, r, launched) == Least(launched, s.interceptor_inventory \div r.interceptors_per_intercept)

resolve(s, r) ==
  LET launched    == Least(s.weekly_launch, s.strike_inventory)
      attempted   == Attempted(s, r, launched)
      intercepted == (attempted * r.p_intercept_pct) \div 100
      consumed    == attempted * r.interceptors_per_intercept
  IN  [ launched |-> launched, expended |-> consumed, intercepted |-> intercepted,
        leaked |-> launched - intercepted,
        culminated |-> s.interceptor_inventory - consumed + s.weekly_resupply
                         < r.culmination_threshold ]

reduce(s, ev) ==
  [s EXCEPT !.strike_inventory = @ - ev.launched + s.weekly_production,
            !.cumulative_launched = @ + ev.launched,
            !.cumulative_leaked = @ + ev.leaked,
            !.interceptor_inventory = @ - ev.expended + s.weekly_resupply,
            !.cumulative_intercepted = @ + ev.intercepted,
            !.culminated = ev.culminated]

\* The checks after reduce; one that fails raises.
Sound(ev, result) ==
  /\ ev.launched = ev.intercepted + ev.leaked
  /\ result.strike_inventory >= 0 /\ result.interceptor_inventory >= 0

\* validate_all rejects any command and reads nothing of the ruleset; resolve
\* divides by the price of an interception.
transition(s, commands, r) ==
  IF commands # <<>> THEN [status |-> "rejected", state |-> s]
  ELSE IF r.interceptors_per_intercept = 0 THEN [status |-> "raised", state |-> s]
  ELSE LET ev == resolve(s, r)
       IN  IF Sound(ev, reduce(s, ev)) THEN [status |-> "resolved", events |-> ev, state |-> reduce(s, ev)]
           ELSE [status |-> "raised", state |-> s]
=============================================================================
