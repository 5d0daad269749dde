---------------------------- MODULE SalvoCampaign ----------------------------
(***************************************************************************)
(* A campaign of weekly salvos, run_campaign of scripts/campaign_run.py:   *)
(* each week starts from the state the one before resulted in, and the     *)
(* campaign stops when the defence culminates or at the horizon.           *)
(***************************************************************************)
EXTENDS SalvoHet

CONSTANTS
  Rulesets,   \* rules.yaml of the scenarios driven
  Starts,     \* their engine_state.yaml
  MaxWeeks    \* --weeks

\* The rulesets the validator accepts and resolve can read.
Playable(r) == ruleset_problems(r) = {} /\ ~ResolveRaises(r)

ASSUME WeeksAssumption == MaxWeeks \in Nat
ASSUME RulesetAssumption == \A r \in Rulesets : IsRuleset(r)
ASSUME StartAssumption ==
  \A r \in Rulesets, s \in Starts :
    Playable(r) => s \in StateOf(r) /\ \A t \in r.threats : s.streak[t] = 0

VARIABLES
  ruleset,    \* never changes
  head,       \* the state the next week starts from
  weeks,      \* the records: start, events and resulting state of each week
  stop        \* "running", or why the campaign ended

vars == <<ruleset, head, weeks, stop>>

Init ==
  /\ ruleset \in Rulesets
  /\ head \in Starts
  /\ weeks = <<>>
  /\ stop = IF MaxWeeks = 0 THEN "reached-horizon" ELSE "running"

\* The turn is the head's as_of_turn.
Week ==
  LET result == transition(head, ruleset, head.as_of_turn) IN
  /\ stop = "running"
  /\ result.status = "resolved"
  /\ weeks' = Append(weeks, [start |-> head, events |-> result.events, result |-> result.state])
  /\ head' = result.state
  /\ stop' = IF result.events.culminated THEN "culminated"
             ELSE IF Len(weeks') = MaxWeeks THEN "reached-horizon" ELSE "running"
  /\ UNCHANGED ruleset

\* A rejected week has no record: the driver fails on it; so does one that raises.
Fails ==
  LET result == transition(head, ruleset, head.as_of_turn) IN
  /\ stop = "running"
  /\ result.status # "resolved"
  /\ stop' = result.status
  /\ UNCHANGED <<ruleset, head, weeks>>

Next == Week \/ Fails

Spec == Init /\ [][Next]_vars

-----------------------------------------------------------------------------
Accepted == ruleset_problems(ruleset) = {}
Valid == Playable(ruleset)
Threats == ruleset.threats
N == Len(weeks)

\* What a comment of the source promises of the ruleset validation: "a clean
\* rejection, never a mid-resolve crash" (salvo_resolver_het.py:119).
AcceptedNeverCrashes == Accepted => stop # "raised"

\* With a ruleset the validator accepts and resolve can read, no week of any campaign trips the
\* engine's checks, and over all weeks nothing is lost: what was launched is
\* what was there plus what was produced, and was intercepted or leaked.
Conserved ==
  Valid =>
    /\ stop # "raised"
    /\ N > 0 => LET start == weeks[1].start IN
         /\ \A t \in Threats :
              head.strike_inventory[t] + head.cumulative_launched[t]
                = start.strike_inventory[t] + start.cumulative_launched[t]
                    + N * head.weekly_production[t]
         /\ SumOf(head.cumulative_launched) - SumOf(start.cumulative_launched)
              = (SumOf(head.cumulative_leaked) - SumOf(start.cumulative_leaked))
                  + (head.cumulative_intercepted - start.cumulative_intercepted)

\* A class is below its floor in a week it was fired at.
BelowFloor(w, t) ==
  100 * weeks[w].events.intercepted[t] < ruleset.lethality_floor_pct[t] * weeks[w].events.launched[t]

CollapsedAt(w) ==
  \E t \in Threats :
    /\ w >= ruleset.culmination_k_weeks
    /\ \A v \in w - ruleset.culmination_k_weeks + 1 .. w : BelowFloor(v, t)

\* The campaign stops as culminated at the first week that ends k weeks in a
\* row of one and the same class below its floor, and at no other.
CulminatesAtCollapse ==
  Valid =>
    /\ \A w \in 1..N-1 : ~CollapsedAt(w)
    /\ N > 0 => (stop = "culminated" <=> CollapsedAt(N))

\* The committed central leak lies within the reported band, and unless the
\* verdict is flagged indeterminate no leak rate of the range would judge the
\* ballistic class otherwise.
BandBrackets ==
  Valid /\ "ballistic" \in Threats => \A w \in 1..N :
    LET ev   == weeks[w].events
        n    == ev.launched["ballistic"]
        Below(leak) == 100 * Kills(n, ev.attempts["ballistic"], 100 - leak)
                         < ruleset.lethality_floor_pct["ballistic"] * n
    IN  /\ ev.band.leak_low <= ev.leaked["ballistic"]
        /\ ev.leaked["ballistic"] <= ev.band.leak_high
        /\ ~ev.band.verdict_indeterminate =>
             \A leak \in ruleset.ballistic_leak_floor_pct .. ruleset.ballistic_leak_high_pct :
               Below(leak) <=> BelowFloor(w, "ballistic")

\* A week that engages less than it would with unlimited stock is flagged as
\* stock-constrained.
StarvedIsFlagged ==
  Valid => \A w \in 1..N :
    (\E t \in Threats \cap ToSet(ruleset.threat_order) :
       weeks[w].events.attempts[t] < Wanted(ruleset, t, weeks[w].events.launched[t]))
      => weeks[w].events.stock_constrained

\* From the second week on a stock-constrained week reads as depleting.
StarvedReadsDepleting ==
  Valid => \A w \in 2..N :
    weeks[w].events.stock_constrained => ~weeks[w].events.magazine_non_depleting

-----------------------------------------------------------------------------
(***************************************************************************)
(* The homogeneous engine, on a lane: a threat and the one interceptor     *)
(* type that meets it and no other.                                        *)
(***************************************************************************)
Hom == INSTANCE SalvoHom

Lanes ==
  {lane \in Threats \X ruleset.interceptors :
     /\ ruleset.allocation_priority[lane[1]] = <<lane[2]>>
     /\ \A t \in Threats \ {lane[1]} : lane[2] \notin ToSet(ruleset.allocation_priority[t])}

Lane(s, t, i) ==
  [ weekly_launch |-> s.weekly_launch[t], strike_inventory |-> s.strike_inventory[t],
    weekly_production |-> s.weekly_production[t],
    interceptor_inventory |-> s.interceptor_inventory[i], weekly_resupply |-> s.weekly_resupply[i],
    cumulative_launched |-> s.cumulative_launched[t], cumulative_leaked |-> s.cumulative_leaked[t],
    cumulative_intercepted |-> s.cumulative_launched[t] - s.cumulative_leaked[t],
    culminated |-> FALSE ]

\* The ruleset of a lane; it culminates when no further shot can be fired.
LaneRules(t, i) ==
  LET per == ruleset.per_pairing[t][i]
  IN  [ p_intercept_pct |-> p_used(ruleset, t), interceptors_per_intercept |-> per,
        culmination_threshold |-> per ]

\* The heterogeneous engine generalises the homogeneous one (its docstring;
\* tests/test_salvo_resolver_het.py:76 tests one week): on a lane that neither
\* saturation nor capacity cuts, the two lead to the same stocks and counts in
\* every week of a campaign, and a lane the homogeneous engine calls
\* culminated is defended by nothing the week after.
LaneIsHomogeneous ==
  Valid => \A w \in 1..N, lane \in Lanes :
    LET t == lane[1]
        i == lane[2]
        n == weeks[w].events.launched[t]
        hom == Hom!transition(Lane(weeks[w].start, t, i), <<>>, LaneRules(t, i))
    IN  Wanted(ruleset, t, n) = n =>
          /\ hom.status = "resolved"
          /\ [hom.state EXCEPT !.culminated = FALSE] = Lane(weeks[w].result, t, i)
          /\ hom.state.culminated /\ w < N => weeks[w + 1].events.attempts[t] = 0
=============================================================================
