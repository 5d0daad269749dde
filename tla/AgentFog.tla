------------------------------- MODULE AgentFog -------------------------------
(***************************************************************************)
(* Fog of war over a campaign: the differential gate,                      *)
(* scripts/validate_agent_fog.py, and what a player may learn of the       *)
(* other's moves from the views of core/engine_projection.py; with the     *)
(* contexts of module Contexts.                                            *)
(***************************************************************************)
EXTENDS Campaign, Projection, Contexts

CONSTANT FogThresholds   \* the counterfactual thresholds the gate tries (0..99)
ASSUME FogAssumption == FogThresholds \subseteq D100

Viewers == {"BLUE", "RED"}

outcome(events) ==
  IF At(events, Terminals) = {} THEN "none"
  ELSE events[CHOOSE i \in At(events, Terminals) : TRUE].type

\* The turn resolved again with every hidden threshold of its start set to t.
reresolve(rec, t, draws) ==
  transition([rec.start_state EXCEPT !.secret = [r \in DOMAIN @ |-> t]],
             BatchOf(rec.command_batch), rec.turn, draws[ReplaySeedOf(rec)])

View(viewer, turn_, result) == project_turn_record(viewer, turn_, result.state, result.events)

\* The canary, a search for raw draws and digests in the bytes of a view, has
\* no counterpart: a view of the model holds neither.
leak_problems(viewer, rec, draws) ==
  LET view   == project_turn_record(viewer, rec.turn, rec.resulting_state, rec.event_batch)
      redone == {<<outcome(out.events), View(viewer, rec.turn, out)>> :
                   out \in {reresolve(rec, t, draws) : t \in FogThresholds}}
      found  ==
        [ route_secret_in_view |-> "secret" \in DOMAIN view.state,
          opponent_action_in_view |->
            viewer = "BLUE" /\ At(view.events, {"ROUTE_BLOCK_ATTEMPTED"}) # {},
          draw_field_in_view |-> \E i \in DOMAIN view.events : "drawn" \in DOMAIN view.events[i],
          threshold_leaks_into_view |-> \E a, b \in redone : a[1] = b[1] /\ a # b ]
  IN  {code \in DOMAIN found : found[code]}

\* main: a named scenario without agent records cannot be certified, a sweep
\* of a repository without any is clean.
validate_agent_fog(files, named, draws) ==
  IF files = <<>> THEN IF named THEN 2 ELSE 0
  ELSE IF \A i \in DOMAIN files, v \in Viewers : leak_problems(v, files[i], draws) = {} THEN 0
  ELSE 1

-----------------------------------------------------------------------------
\* The fog gate passes on the records of every campaign, at any length: the
\* view of a turn, which is made once with the thresholds it was played with,
\* is the same for all thresholds that give the turn its outcome.  (A record
\* is judged when it is the newest; the gate judges each by itself.)
FogGatePasses ==
  validate_agent_fog(IF records = <<>> THEN <<>> ELSE <<records[turn]>>, FALSE, oracle) = 0

\* The newest turn, had its batch been this one.
Otherwise(rec, batch) == transition(rec.start_state, batch, rec.turn, oracle[seed])

\* What a player sees of the other's move is its effect and nothing else.  BLUE
\* cannot tell a block that cost it nothing from an idle RED, and RED cannot
\* tell, of the routes it did not block, which one BLUE used.
MovesStayHidden ==
  records # <<>> =>
    LET rec  == records[turn]
        seen == [status |-> "resolved", state |-> rec.resulting_state, events |-> rec.event_batch]
        reds == {c \in rec.command_batch : c.actor = "RED"}
        blue == rec.command_batch \ reds
        Rerouted(r) == {[c EXCEPT !.route = r] : c \in blue}
        open == Routes \ {c.route : c \in reds}
    IN  /\ outcome(rec.event_batch) # "SUPPLY_LOST" =>
             View("BLUE", rec.turn, seen) = View("BLUE", rec.turn, Otherwise(rec, BatchOf(blue)))
        /\ {c.route : c \in blue} \subseteq open =>
             \A r \in open :
               View("RED", rec.turn, seen)
                 = View("RED", rec.turn, Otherwise(rec, BatchOf(reds \cup Rerouted(r))))

\* No context compiled from a state directory that loads shows an item to an
\* agent that does not own it.  (It reads nothing of the campaign: evaluated
\* at its start.)
ContextsStayPrivate == records = <<>> => EveryDirectory
=============================================================================
