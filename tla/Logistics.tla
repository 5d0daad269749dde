------------------------------ MODULE Logistics ------------------------------
(***************************************************************************)
(* The contested-logistics engine: the operators of core/resolver.py and   *)
(* core/agent_logistics.py, and the part of core/turn_record.assemble that *)
(* makes a turn record of their results.  All of them are pure functions   *)
(* of the start state, the command batch and the random oracle.            *)
(*                                                                         *)
(* A state carries BLUE's four supply pools, the turn it is the start of   *)
(* and `secret`, the hidden block threshold of each blockable route: a     *)
(* function whose domain is the set of routes with a route_secret entity.  *)
(* A batch of commands is a sequence; an accepted batch has at most one    *)
(* command per actor, so its canonical order is a set.  command_id is left *)
(* out: nothing the engine computes depends on it.                         *)
(***************************************************************************)
EXTENDS Integers, Sequences, FiniteSets

CONSTANTS
  NoSeed,    \* the rng block of a record that consumed no draw (null)
  Routes,    \* the routes of the board (ROUTES)
  NoRoute,   \* in place of a route where there is none
  MinQty,    \* MIN_QTY
  MaxQty     \* MAX_QTY

ASSUME RouteAssumption == NoRoute \notin Routes
ASSUME QtyAssumption == MinQty \in Nat \ {0} /\ MaxQty \in Nat /\ MinQty <= MaxQty

Actors   == {"BLUE", "RED"}
Actions  == {"DISPATCH_SUPPLY", "BLOCK_ROUTE"}
ActionOf == [BLUE |-> "DISPATCH_SUPPLY", RED |-> "BLOCK_ROUTE"]

Command == [ actor : STRING, action : STRING,
             route : Routes \cup {NoRoute}, quantity : Int ]

\* TLC evaluates this; the provers are not told that strings are in STRING.
ASSUME NameAssumption == Actors \cup Actions \subseteq STRING

D100   == 0..99
Secret == UNION {[R -> 0..100] : R \in SUBSET Routes}

State == [ origin : Nat, in_transit : Nat, delivered : Nat, loss_sink : Nat,
           as_of_turn : Nat, secret : Secret ]

conservation_total(s) == s.origin + s.in_transit + s.delivered + s.loss_sink
is_non_negative(s) ==
  s.origin >= 0 /\ s.in_transit >= 0 /\ s.delivered >= 0 /\ s.loss_sink >= 0

(***************************************************************************)
(* Legality.  The rules a command breaks, in the order validate_all tests  *)
(* them; the first is the command's reject code.                           *)
(***************************************************************************)
LegalityCodes == <<"unknown-actor", "role-action-mismatch", "out-of-range",
                   "insufficient-supply", "unknown-route", "invalid-enum">>
Legal == "legal"

\* Mutant of Breaks: no command is tested against the remaining supply.
BreaksButSupply(code, c, s) ==
  \/ code = "unknown-actor" /\ c.actor \notin Actors
  \/ /\ code = "role-action-mismatch"
     /\ c.actor \in Actors /\ c.action \in Actions
     /\ ActionOf[c.actor] # c.action
  \/ /\ code = "out-of-range"
     /\ c.action = "DISPATCH_SUPPLY" /\ c.quantity \notin MinQty..MaxQty
  \/ code = "unknown-route" /\ c.action \in Actions /\ c.route \notin Routes
  \/ code = "invalid-enum" /\ c.action \notin Actions

Breaks(code, c, s) ==
  \/ code = "unknown-actor" /\ c.actor \notin Actors
  \/ /\ code = "role-action-mismatch"
     /\ c.actor \in Actors /\ c.action \in Actions
     /\ ActionOf[c.actor] # c.action
  \/ /\ code = "out-of-range"
     /\ c.action = "DISPATCH_SUPPLY" /\ c.quantity \notin MinQty..MaxQty
  \/ /\ code = "insufficient-supply"
     /\ c.action = "DISPATCH_SUPPLY" /\ c.quantity \in MinQty..MaxQty
     /\ c.quantity > s.origin
  \/ code = "unknown-route" /\ c.action \in Actions /\ c.route \notin Routes
  \/ code = "invalid-enum" /\ c.action \notin Actions

IsLegal(c, s) == \A i \in DOMAIN LegalityCodes : ~Breaks(LegalityCodes[i], c, s)

command_legality(c, s) ==
  IF IsLegal(c, s) THEN Legal
  ELSE LegalityCodes[CHOOSE i \in DOMAIN LegalityCodes :
                       /\ Breaks(LegalityCodes[i], c, s)
                       /\ \A j \in 1..i-1 : ~Breaks(LegalityCodes[j], c, s)]

\* validate_all accepts the whole batch or none of it.
validate_all(batch, s) ==
  /\ \A i \in DOMAIN batch : IsLegal(batch[i], s)
  /\ \A i, j \in DOMAIN batch : batch[i].actor = batch[j].actor => i = j

Commands(batch) == {batch[i] : i \in DOMAIN batch}

(***************************************************************************)
(* Resolution.  `roll` is the oracle of core/rng.py for the run's seed: a  *)
(* d100 for every draw address, of which the turn and the route vary.      *)
(***************************************************************************)
Event(type, route, quantity, drawn) ==
  [type |-> type, route |-> route, quantity |-> quantity, drawn |-> drawn]

Dispatches(cmds) == {c \in cmds : c.actor = "BLUE" /\ c.action = "DISPATCH_SUPPLY"}
Blocks(cmds)     == {c \in cmds : c.actor = "RED" /\ c.action = "BLOCK_ROUTE"}

\* A block meets the dispatched route, and that route is blockable.
Contested(d, cmds, s) ==
  \E b \in Blocks(cmds) : b.route = d.route /\ d.route \in DOMAIN s.secret

\* Mutant of Lost: d100 <= threshold instead of d100 < threshold.
LostAtThreshold(d, cmds, s, turn, roll) ==
  Contested(d, cmds, s) /\ roll[turn, d.route] <= s.secret[d.route]

Lost(d, cmds, s, turn, roll) ==
  Contested(d, cmds, s) /\ roll[turn, d.route] < s.secret[d.route]

Terminal(d, cmds, s, turn, roll) ==
  Event(IF Lost(d, cmds, s, turn, roll) THEN "SUPPLY_LOST" ELSE "SUPPLY_DELIVERED",
        d.route, d.quantity, Contested(d, cmds, s))

\* The sequence of the only element of E, empty if E is.
Optional(E) == IF E = {} THEN <<>> ELSE <<CHOOSE e \in E : TRUE>>

\* base.resolve, then TURN_ADVANCED (its to_turn in the quantity field).
resolve(cmds, s, turn, roll) ==
  Optional({Event("SUPPLY_DISPATCHED", d.route, d.quantity, FALSE) : d \in Dispatches(cmds)})
    \o Optional({Event("ROUTE_BLOCK_ATTEMPTED", b.route, 0, FALSE) : b \in Blocks(cmds)})
    \o Optional({Terminal(d, cmds, s, turn, roll) : d \in Dispatches(cmds)})
    \o <<Event("TURN_ADVANCED", NoRoute, turn + 1, FALSE)>>

\* One draw record per drawn terminal: its address, without the constants.
Draws(events, turn) ==
  {<<turn, events[i].route>> : i \in {j \in DOMAIN events : events[j].drawn}}

(***************************************************************************)
(* Reduction.  reduce is the only constructor of states; it sees events    *)
(* alone and refuses a batch that is not of the grammar.                   *)
(***************************************************************************)
Terminals == {"SUPPLY_DELIVERED", "SUPPLY_LOST"}
EventTypes == {"SUPPLY_DISPATCHED", "ROUTE_BLOCK_ATTEMPTED", "TURN_ADVANCED"} \cup Terminals

At(events, types) == {i \in DOMAIN events : events[i].type \in types}

\* No duplicate-dispatch, duplicate-terminal, illegal-order, route-mismatch,
\* quantity-mismatch or unknown-event-type.
WellFormed(events) ==
  /\ \A i \in DOMAIN events : events[i].type \in EventTypes
  /\ \A i, j \in At(events, {"SUPPLY_DISPATCHED"}) : i = j
  /\ \A i, j \in At(events, Terminals) : i = j
  /\ \A i \in At(events, Terminals) : \E j \in At(events, {"SUPPLY_DISPATCHED"}) :
       /\ j < i
       /\ events[i].route = events[j].route
       /\ events[i].quantity = events[j].quantity

\* The quantity of the only event of these types, 0 if there is none.
Amount(events, types) ==
  IF At(events, types) = {} THEN 0
  ELSE events[CHOOSE i \in At(events, types) : TRUE].quantity

reduce(s, events) ==
  [s EXCEPT !.origin     = @ - Amount(events, {"SUPPLY_DISPATCHED"}),
            !.in_transit = @ + Amount(events, {"SUPPLY_DISPATCHED"}) - Amount(events, Terminals),
            !.delivered  = @ + Amount(events, {"SUPPLY_DELIVERED"}),
            !.loss_sink  = @ + Amount(events, {"SUPPLY_LOST"}),
            !.as_of_turn = IF At(events, {"TURN_ADVANCED"}) = {} THEN @
                           ELSE Amount(events, {"TURN_ADVANCED"})]

(***************************************************************************)
(* transition: validate, resolve, reduce, check the invariants.  A batch   *)
(* that is refused changes nothing; "raised" is a ResolveError.            *)
(***************************************************************************)
SoundSuccessor(s, events) ==
  LET t == reduce(s, events) IN
  /\ WellFormed(events)
  /\ conservation_total(t) = conservation_total(s)
  /\ is_non_negative(t)
  /\ \E i \in DOMAIN events : At(events, {"TURN_ADVANCED"}) = {i}
  /\ Amount(events, {"TURN_ADVANCED"}) = s.as_of_turn + 1

Rejected(s) == [status |-> "rejected", events |-> <<>>, state |-> s]

transition(s, batch, turn, roll) ==
  IF ~validate_all(batch, s) THEN Rejected(s)
  ELSE LET events == resolve(Commands(batch), s, turn, roll) IN
       IF ~SoundSuccessor(s, events) THEN [Rejected(s) EXCEPT !.status = "raised"]
       ELSE [status |-> "resolved", events |-> events, state |-> reduce(s, events)]

(***************************************************************************)
(* assemble: the turn record of a resolved turn.  Digests are left out: a  *)
(* digest of a part is equal iff the part is.  A record names the seed     *)
(* only if a draw was consumed (rng_request).                              *)
(***************************************************************************)
\* Mutant of TurnRecord: the record forgets which draws its events consumed.
TurnRecordWithoutDraws(s, batch, turn, seed, result) ==
  [ turn            |-> turn,
    start_state     |-> s,
    rng             |-> NoSeed,
    command_batch   |-> Commands(batch),
    event_batch     |-> result.events,
    draw_records    |-> {},
    resulting_state |-> result.state,
    successor_slot  |-> turn + 1 ]

TurnRecord(s, batch, turn, seed, result) ==
  [ turn            |-> turn,
    start_state     |-> s,
    rng             |-> IF Draws(result.events, turn) = {} THEN NoSeed ELSE seed,
    command_batch   |-> Commands(batch),
    event_batch     |-> result.events,
    draw_records    |-> Draws(result.events, turn),
    resulting_state |-> result.state,
    successor_slot  |-> turn + 1 ]
=============================================================================
