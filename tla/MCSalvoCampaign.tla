---------------------------- MODULE MCSalvoCampaign ----------------------------
(***************************************************************************)
(* The shipped ruleset's shape with small numbers: drones are met by short *)
(* and long, cruise missiles by long and (two per shot) short, ballistic   *)
(* missiles by pac3 (two per shot); and rulesets the validator rejects.    *)
(***************************************************************************)
EXTENDS SalvoCampaign, TLC

T3(d, c, b) == ("drone" :> d) @@ ("cruise" :> c) @@ ("ballistic" :> b)
I3(s, l, p) == ("short" :> s) @@ ("long" :> l) @@ ("pac3" :> p)
All(n)      == T3(n, n, n)

Rules(cap, sat, floors, k) ==
  [ threats |-> {"drone", "cruise", "ballistic"}, interceptors |-> {"short", "long", "pac3"},
    p_intercept_pct |-> ("drone" :> 80) @@ ("cruise" :> 65),
    per_pairing |-> T3(("short" :> 1) @@ ("long" :> 1), ("long" :> 1) @@ ("short" :> 2), ("pac3" :> 2)),
    allocation_priority |-> T3(<<"short", "long">>, <<"long", "short">>, <<"pac3">>),
    threat_order |-> <<"ballistic", "cruise", "drone">>,
    weekly_engagement_capacity |-> All(cap),
    saturation_threshold |-> All(sat), saturation_retained_pct |-> All(70),
    ballistic_leak_floor_pct |-> 60, ballistic_leak_high_pct |-> 80,
    lethality_floor_pct |-> floors, culmination_k_weeks |-> k ]

Good == Rules(100, 4, T3(50, 40, 25), 2)
MCRulesets ==
  { Good, Rules(100, 3, T3(80, 0, 30), 3), Rules(3, 100, T3(50, 40, 0), 2),
    [Good EXCEPT !.p_intercept_pct = [@ EXCEPT !["drone"] = 101]],
    [Good EXCEPT !.per_pairing = [@ EXCEPT !["cruise"] = ("short" :> 2)]],
    [Good EXCEPT !.ballistic_leak_floor_pct = 90] }

\* A scenario without ballistic missiles.
DropBallistic(f) == [t \in {"drone", "cruise"} |-> f[t]]
MCTwoThreats ==
  { [ Good EXCEPT !.threats = {"drone", "cruise"},
                  !.lethality_floor_pct = DropBallistic(@) ] }

State(inv, launch, made, stock, resupply) ==
  [ strike_inventory |-> inv, weekly_launch |-> launch, weekly_production |-> made,
    cumulative_launched |-> All(0), cumulative_leaked |-> All(0),
    interceptor_inventory |-> stock, weekly_resupply |-> resupply,
    cumulative_intercepted |-> 0, streak |-> All(0), culminated |-> FALSE, as_of_turn |-> 0 ]

\* Two cruise missiles a week against three short interceptors a week, two per
\* shot: every other week one of them is met twice as well.
Pulsed(d, s) == State(T3(9, 12, 0), T3(d, 2, 0), All(0), I3(s, 0, 0), I3(3, 0, 0))

MCStarts ==
  { Pulsed(d, s) : d \in {0, 1}, s \in 0..3 }
  \cup
  { State(inv, T3(d, 3, b), All(made), I3(s, l, p), I3(rs, rs, rp)) :
      inv \in {All(9), T3(6, 3, 12)}, d \in {2, 5}, b \in {1, 4}, made \in {0, 3},
      s \in {0, 3, 9}, l \in {1, 5}, p \in {0, 4, 9}, rs \in {0, 2, 4}, rp \in {0, 3} }
=============================================================================
