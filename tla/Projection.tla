------------------------------ MODULE Projection ------------------------------
(***************************************************************************)
(* Fog of war, core/engine_projection.py: what one player is shown of the  *)
(* state and of a turn's events.  A view has no digest field here: it is a *)
(* function of the state and events shown.                                 *)
(***************************************************************************)
EXTENDS Logistics

\* Mutant of project_state: the whole state, hidden thresholds included.
project_whole_state(s) == s

\* Public entities only: the supply, the turn and which routes are blockable
\* (the route entities' flag), never a route_secret.
project_state(s) ==
  [ origin |-> s.origin, in_transit |-> s.in_transit, delivered |-> s.delivered,
    loss_sink |-> s.loss_sink, as_of_turn |-> s.as_of_turn,
    blockable |-> DOMAIN s.secret ]

BlockedRoutes(events) ==
  {events[i].route : i \in At(events, {"ROUTE_BLOCK_ATTEMPTED"})}

\* Mutant of Visible: RED sees the fate of any supply, blocked route or not.
VisibleTerminals(viewer, event, events) ==
  \/ event.type = "SUPPLY_DISPATCHED" /\ viewer = "BLUE"
  \/ event.type = "ROUTE_BLOCK_ATTEMPTED" /\ viewer = "RED"
  \/ event.type \in Terminals

Visible(viewer, event, events) ==
  \/ event.type = "SUPPLY_DISPATCHED" /\ viewer = "BLUE"
  \/ event.type = "ROUTE_BLOCK_ATTEMPTED" /\ viewer = "RED"
  \/ event.type \in Terminals /\ viewer = "BLUE"
  \/ event.type \in Terminals /\ viewer = "RED" /\ event.route \in BlockedRoutes(events)

\* Without event_id, draw_ref and source_command_id.
Strip(event) == [type |-> event.type, route |-> event.route, quantity |-> event.quantity]

project_events(viewer, events) ==
  LET out[n \in 0..Len(events)] ==
        IF n = 0 THEN <<>>
        ELSE IF Visible(viewer, events[n], events)
        THEN Append(out[n - 1], Strip(events[n])) ELSE out[n - 1]
  IN  out[Len(events)]

\* An agent's view: exactly these fields, whatever else the record holds.
project_turn_record(viewer, turn, resulting_state, events) ==
  [ viewer |-> viewer, turn |-> turn, state |-> project_state(resulting_state),
    events |-> project_events(viewer, events) ]
=============================================================================
