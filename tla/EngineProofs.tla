---------------------------- MODULE EngineProofs ----------------------------
(***************************************************************************)
(* What one turn of the logistics engine does, for every board, quantity   *)
(* range, state and batch: a batch that validate_all accepts resolves; it  *)
(* conserves supply and leaves every pool non-negative.  And the           *)
(* turn-replay gate accepts what the engine made: lemmas about the records *)
(* of a chain, shared by the proofs about campaigns and games.             *)
(***************************************************************************)
EXTENDS TurnReplay, FoldProofs

\* Amount is the quantity of the only event of the given types.
LEMMA AmountOfOnly ==
  ASSUME NEW events, NEW types, NEW i, At(events, types) = {i}
  PROVE  Amount(events, types) = events[i].quantity
BY DEF Amount

LEMMA AmountOfNone ==
  ASSUME NEW events, NEW types, At(events, types) = {}
  PROVE  Amount(events, types) = 0
BY DEF Amount

LEMMA OptionalNone == Optional({}) = <<>>
BY DEF Optional

LEMMA OptionalOne ==
  ASSUME NEW e
  PROVE  Optional({e}) = <<e>>
BY DEF Optional

(***************************************************************************)
(* A concatenation of one-element sequences is the tuple of the elements.  *)
(***************************************************************************)
LEMMA JoinTwo ==
  ASSUME NEW a, NEW b
  PROVE  <<a>> \o <<b>> = <<a, b>>
<1>1. <<a>> \in Seq({a, b}) /\ <<b>> \in Seq({a, b}) /\ <<a, b>> \in Seq({a, b})
  OBVIOUS
<1>2. Len(<<a>> \o <<b>>) = Len(<<a, b>>) /\ <<a>> \o <<b>> \in Seq({a, b})
  BY <1>1
<1>3. \A i \in 1..2 : (<<a>> \o <<b>>)[i] = <<a, b>>[i]
  BY <1>1
<1>4. QED
  BY <1>1, <1>2, <1>3, SeqEqual

LEMMA JoinThree ==
  ASSUME NEW a, NEW b, NEW c
  PROVE  <<a, b>> \o <<c>> = <<a, b, c>>
<1> DEFINE S == {a, b, c}
<1>1. <<a, b>> \in Seq(S) /\ <<c>> \in Seq(S) /\ <<a, b, c>> \in Seq(S)
  OBVIOUS
<1>2. Len(<<a, b>> \o <<c>>) = Len(<<a, b, c>>) /\ <<a, b>> \o <<c>> \in Seq(S)
  BY <1>1
<1>3. \A i \in 1..3 : (<<a, b>> \o <<c>>)[i] = <<a, b, c>>[i]
  BY <1>1
<1>4. QED
  BY <1>1, <1>2, <1>3, SeqEqual

LEMMA JoinFour ==
  ASSUME NEW a, NEW b, NEW c, NEW d
  PROVE  <<a, b, c>> \o <<d>> = <<a, b, c, d>>
<1> DEFINE S == {a, b, c, d}
<1>1. <<a, b, c>> \in Seq(S) /\ <<d>> \in Seq(S) /\ <<a, b, c, d>> \in Seq(S)
  OBVIOUS
<1>2. Len(<<a, b, c>> \o <<d>>) = Len(<<a, b, c, d>>) /\ <<a, b, c>> \o <<d>> \in Seq(S)
  BY <1>1
<1>3. \A i \in 1..4 : (<<a, b, c>> \o <<d>>)[i] = <<a, b, c, d>>[i]
  BY <1>1
<1>4. QED
  BY <1>1, <1>2, <1>3, SeqEqual

\* The concatenations resolve makes.
LEMMA JoinDispatch ==
  ASSUME NEW a, NEW b, NEW c
  PROVE  <<a>> \o <<>> \o <<b>> \o <<c>> = <<a, b, c>>
<1>1. <<a>> \o <<>> = <<a>>
  OBVIOUS
<1>2. <<a>> \o <<b>> = <<a, b>>
  BY JoinTwo
<1>3. <<a, b>> \o <<c>> = <<a, b, c>>
  BY JoinThree
<1>4. QED
  BY <1>1, <1>2, <1>3, Zenon

LEMMA JoinContest ==
  ASSUME NEW a, NEW b, NEW c, NEW d
  PROVE  <<a>> \o <<b>> \o <<c>> \o <<d>> = <<a, b, c, d>>
<1>1. <<a>> \o <<b>> = <<a, b>>
  BY JoinTwo
<1>2. <<a, b>> \o <<c>> = <<a, b, c>>
  BY JoinThree
<1>3. <<a, b, c>> \o <<d>> = <<a, b, c, d>>
  BY JoinFour
<1>4. QED
  BY <1>1, <1>2, <1>3, Zenon

(***************************************************************************)
(* An accepted batch has at most one dispatch and at most one block, and   *)
(* its dispatch fits the remaining supply.                                 *)
(***************************************************************************)
LEMMA AcceptedBatch ==
  ASSUME NEW batch \in Seq(Command), NEW s \in State, validate_all(batch, s)
  PROVE  /\ \A c, d \in Dispatches(Commands(batch)) : c = d
         /\ \A c, d \in Blocks(Commands(batch)) : c = d
         /\ \A c \in Dispatches(Commands(batch)) :
              c.quantity \in MinQty..MaxQty /\ c.quantity <= s.origin /\ c.route \in Routes
         /\ \A c \in Blocks(Commands(batch)) : c.route \in Routes
<1> DEFINE cmds == Commands(batch)
<1>1. \A c, d \in cmds : c.actor = d.actor => c = d
  BY DEF validate_all, Commands
<1>2. ASSUME NEW c \in cmds
      PROVE  IsLegal(c, s) /\ c \in Command
  BY <1>2 DEF validate_all, Commands
<1>3. ASSUME NEW c \in cmds, c.action = "DISPATCH_SUPPLY"
      PROVE  c.quantity \in MinQty..MaxQty /\ c.quantity <= s.origin /\ c.route \in Routes
  <2>1. /\ ~Breaks("out-of-range", c, s)
        /\ ~Breaks("insufficient-supply", c, s)
        /\ ~Breaks("unknown-route", c, s)
    BY <1>2, <1>3 DEF IsLegal, LegalityCodes
  <2>2. c.quantity \in MinQty..MaxQty /\ ~(c.quantity > s.origin) /\ c.route \in Routes
    BY <1>3, <2>1 DEF Breaks, Actions
  <2>3. QED
    BY <1>2, <2>2, QtyAssumption DEF Command, State
<1>4. ASSUME NEW c \in cmds, c.action = "BLOCK_ROUTE"
      PROVE  c.route \in Routes
  <2>1. ~Breaks("unknown-route", c, s)
    BY <1>2, <1>4 DEF IsLegal, LegalityCodes
  <2>2. QED
    BY <1>4, <2>1 DEF Breaks, Actions
<1>5. QED
  BY <1>1, <1>3, <1>4 DEF Dispatches, Blocks

(***************************************************************************)
(* The four event batches a turn can have: BLUE dispatched or not, RED     *)
(* blocked or not.                                                         *)
(***************************************************************************)
Advance(turn_)  == Event("TURN_ADVANCED", NoRoute, turn_ + 1, FALSE)
Dispatched(d)   == Event("SUPPLY_DISPATCHED", d.route, d.quantity, FALSE)
Attempted(b)    == Event("ROUTE_BLOCK_ATTEMPTED", b.route, 0, FALSE)

LEMMA ResolveShape ==
  ASSUME NEW cmds, NEW s, NEW t, NEW roll,
         \A c, d \in Dispatches(cmds) : c = d,
         \A c, d \in Blocks(cmds) : c = d
  PROVE  LET events == resolve(cmds, s, t, roll) IN
         \/ /\ Dispatches(cmds) = {}
            /\ \/ Blocks(cmds) = {} /\ events = <<Advance(t)>>
               \/ \E b \in Blocks(cmds) : events = <<Attempted(b), Advance(t)>>
         \/ \E d \in Dispatches(cmds) :
              \/ /\ Blocks(cmds) = {}
                 /\ events = <<Dispatched(d), Terminal(d, cmds, s, t, roll), Advance(t)>>
              \/ \E b \in Blocks(cmds) :
                   events = <<Dispatched(d), Attempted(b), Terminal(d, cmds, s, t, roll), Advance(t)>>
<1> DEFINE DS == {Dispatched(d) : d \in Dispatches(cmds)}
           BS == {Attempted(b) : b \in Blocks(cmds)}
           TS == {Terminal(d, cmds, s, t, roll) : d \in Dispatches(cmds)}
<1>1. resolve(cmds, s, t, roll)
        = Optional(DS) \o Optional(BS) \o Optional(TS) \o <<Advance(t)>>
  BY DEF resolve, Dispatched, Attempted, Advance
<1>2. CASE Dispatches(cmds) = {} /\ Blocks(cmds) = {}
  <2>1. DS = {} /\ BS = {} /\ TS = {}
    BY <1>2
  <2>2. resolve(cmds, s, t, roll) = <<>> \o <<>> \o <<>> \o <<Advance(t)>>
    BY <1>1, <2>1, OptionalNone
  <2>3. QED
    BY <1>2, <2>2
<1>3. CASE Dispatches(cmds) = {} /\ Blocks(cmds) # {}
  <2>1. PICK b : b \in Blocks(cmds)
    BY <1>3
  <2>2. DS = {} /\ BS = {Attempted(b)} /\ TS = {}
    BY <1>3, <2>1
  <2>3. resolve(cmds, s, t, roll) = <<>> \o <<Attempted(b)>> \o <<>> \o <<Advance(t)>>
    BY <1>1, <2>2, OptionalNone, OptionalOne
  <2>4. resolve(cmds, s, t, roll) = <<Attempted(b), Advance(t)>>
    BY <2>3, JoinTwo
  <2>5. QED
    BY <1>3, <2>1, <2>4
<1>4. CASE Dispatches(cmds) # {} /\ Blocks(cmds) = {}
  <2>1. PICK d : d \in Dispatches(cmds)
    BY <1>4
  <2>2. DS = {Dispatched(d)} /\ BS = {} /\ TS = {Terminal(d, cmds, s, t, roll)}
    BY <1>4, <2>1
  <2>3. resolve(cmds, s, t, roll)
          = <<Dispatched(d)>> \o <<>> \o <<Terminal(d, cmds, s, t, roll)>> \o <<Advance(t)>>
    BY <1>1, <2>2, OptionalNone, OptionalOne
  <2>4. resolve(cmds, s, t, roll)
          = <<Dispatched(d), Terminal(d, cmds, s, t, roll), Advance(t)>>
    BY <2>3, JoinDispatch, Zenon
  <2>5. QED
    BY <1>4, <2>1, <2>4
<1>5. CASE Dispatches(cmds) # {} /\ Blocks(cmds) # {}
  <2>1. PICK d, b : d \in Dispatches(cmds) /\ b \in Blocks(cmds)
    BY <1>5
  <2>2. DS = {Dispatched(d)} /\ BS = {Attempted(b)} /\ TS = {Terminal(d, cmds, s, t, roll)}
    BY <1>5, <2>1
  <2>3. resolve(cmds, s, t, roll)
          = <<Dispatched(d)>> \o <<Attempted(b)>>
              \o <<Terminal(d, cmds, s, t, roll)>> \o <<Advance(t)>>
    BY <1>1, <2>2, OptionalOne
  <2>4. resolve(cmds, s, t, roll)
          = <<Dispatched(d), Attempted(b), Terminal(d, cmds, s, t, roll), Advance(t)>>
    BY <2>3, JoinContest, Zenon
  <2>5. QED
    BY <2>1, <2>4
<1>6. QED
  BY <1>2, <1>3, <1>4, <1>5

(***************************************************************************)
(* What reduce reads off a turn's events: the batch is of the grammar, the *)
(* quantity dispatched is the quantity of the terminal, lost or delivered, *)
(* and one TURN_ADVANCED names the next turn.                              *)
(***************************************************************************)
TurnEvents(events, t, q) ==
  /\ WellFormed(events)
  /\ \E i \in DOMAIN events : At(events, {"TURN_ADVANCED"}) = {i}
  /\ Amount(events, {"TURN_ADVANCED"}) = t + 1
  /\ Amount(events, {"SUPPLY_DISPATCHED"}) = q
  /\ Amount(events, Terminals) = q
  /\ \/ Amount(events, {"SUPPLY_LOST"}) = q /\ Amount(events, {"SUPPLY_DELIVERED"}) = 0
     \/ Amount(events, {"SUPPLY_LOST"}) = 0 /\ Amount(events, {"SUPPLY_DELIVERED"}) = q

LEMMA NoDispatchEvents ==
  ASSUME NEW t \in Nat, NEW events,
         \/ events = <<Advance(t)>>
         \/ \E b : events = <<Attempted(b), Advance(t)>>
  PROVE  TurnEvents(events, t, 0)
<1>1. PICK n \in 1..2 : /\ DOMAIN events = 1..n
                        /\ events[n] = Advance(t)
                        /\ \A i \in 1..n-1 : events[i].type = "ROUTE_BLOCK_ATTEMPTED"
  BY DEF Attempted, Event
<1>2. events[n].type = "TURN_ADVANCED" /\ events[n].quantity = t + 1
  BY <1>1 DEF Advance, Event
<1>3. /\ At(events, {"TURN_ADVANCED"}) = {n}
      /\ At(events, {"SUPPLY_DISPATCHED"}) = {}
      /\ At(events, Terminals) = {}
      /\ At(events, {"SUPPLY_DELIVERED"}) = {}
      /\ At(events, {"SUPPLY_LOST"}) = {}
  BY <1>1, <1>2 DEF At, Terminals
<1>4. WellFormed(events)
  BY <1>1, <1>2, <1>3 DEF WellFormed, EventTypes
<1>5. Amount(events, {"TURN_ADVANCED"}) = t + 1
  BY <1>2, <1>3, AmountOfOnly
<1>6. /\ Amount(events, {"SUPPLY_DISPATCHED"}) = 0
      /\ Amount(events, Terminals) = 0
      /\ Amount(events, {"SUPPLY_DELIVERED"}) = 0
      /\ Amount(events, {"SUPPLY_LOST"}) = 0
  BY <1>3, AmountOfNone
<1>7. \E i \in DOMAIN events : At(events, {"TURN_ADVANCED"}) = {i}
  <2>1. n \in DOMAIN events
    BY <1>1
  <2>2. QED
    BY <1>3, <2>1, Zenon
<1>8. QED
  BY <1>4, <1>5, <1>6, <1>7, Zenon DEF TurnEvents

LEMMA DispatchEvents ==
  ASSUME NEW t \in Nat, NEW events, NEW d, NEW term,
         term.type \in Terminals, term.route = d.route, term.quantity = d.quantity,
         \/ events = <<Dispatched(d), term, Advance(t)>>
         \/ \E b : events = <<Dispatched(d), Attempted(b), term, Advance(t)>>
  PROVE  TurnEvents(events, t, d.quantity)
<1>1. PICK n \in 3..4 : /\ DOMAIN events = 1..n
                        /\ events[1] = Dispatched(d)
                        /\ events[n-1] = term
                        /\ events[n] = Advance(t)
                        /\ \A i \in 2..n-2 : events[i].type = "ROUTE_BLOCK_ATTEMPTED"
  BY DEF Attempted, Event
<1>2. /\ events[n].type = "TURN_ADVANCED" /\ events[n].quantity = t + 1
      /\ events[1].type = "SUPPLY_DISPATCHED"
      /\ events[1].route = d.route /\ events[1].quantity = d.quantity
  BY <1>1 DEF Advance, Dispatched, Event
<1>3. /\ At(events, {"TURN_ADVANCED"}) = {n}
      /\ At(events, {"SUPPLY_DISPATCHED"}) = {1}
      /\ At(events, Terminals) = {n-1}
  BY <1>1, <1>2 DEF At, Terminals
<1>4. \/ At(events, {"SUPPLY_DELIVERED"}) = {} /\ At(events, {"SUPPLY_LOST"}) = {n-1}
      \/ At(events, {"SUPPLY_DELIVERED"}) = {n-1} /\ At(events, {"SUPPLY_LOST"}) = {}
  BY <1>1, <1>2 DEF At, Terminals
<1>5. WellFormed(events)
  BY <1>1, <1>2, <1>3 DEF WellFormed, EventTypes, Terminals
<1>6. /\ Amount(events, {"TURN_ADVANCED"}) = t + 1
      /\ Amount(events, {"SUPPLY_DISPATCHED"}) = d.quantity
      /\ Amount(events, Terminals) = d.quantity
  BY <1>1, <1>2, <1>3, AmountOfOnly
<1>7. \/ /\ Amount(events, {"SUPPLY_LOST"}) = d.quantity
         /\ Amount(events, {"SUPPLY_DELIVERED"}) = 0
      \/ /\ Amount(events, {"SUPPLY_LOST"}) = 0
         /\ Amount(events, {"SUPPLY_DELIVERED"}) = d.quantity
  <2>1. \A i : At(events, {"SUPPLY_LOST"}) = {i}
                => Amount(events, {"SUPPLY_LOST"}) = events[i].quantity
    BY AmountOfOnly
  <2>2. \A i : At(events, {"SUPPLY_DELIVERED"}) = {i}
                => Amount(events, {"SUPPLY_DELIVERED"}) = events[i].quantity
    BY AmountOfOnly
  <2>3. QED
    BY <1>1, <1>4, <2>1, <2>2, AmountOfNone
<1>8. \E i \in DOMAIN events : At(events, {"TURN_ADVANCED"}) = {i}
  <2>1. n \in DOMAIN events
    BY <1>1
  <2>2. QED
    BY <1>3, <2>1, Zenon
<1>9. QED
  BY <1>5, <1>6, <1>7, <1>8, Zenon DEF TurnEvents

\* Moving q out of the origin, l of it to one sink and g to the other.
LEMMA Moved ==
  ASSUME NEW s \in State, NEW q \in 0..s.origin, NEW l \in Nat, NEW g \in Nat, l + g = q,
         NEW t \in Nat
  PROVE  LET next == [ origin |-> s.origin - q, in_transit |-> s.in_transit,
                       delivered |-> s.delivered + g, loss_sink |-> s.loss_sink + l,
                       as_of_turn |-> t + 1, secret |-> s.secret ] IN
         next \in State /\ conservation_total(next) = conservation_total(s)
BY DEF State, conservation_total

(***************************************************************************)
(* A batch validate_all accepts always has a sound successor.              *)
(***************************************************************************)
LEMMA AcceptedTurn ==
  ASSUME NEW batch \in Seq(Command), NEW s \in State, NEW t \in Nat, NEW roll,
         validate_all(batch, s), s.as_of_turn = t
  PROVE  LET events == resolve(Commands(batch), s, t, roll)
             next   == reduce(s, events) IN
         /\ SoundSuccessor(s, events)
         /\ next \in State
         /\ next.in_transit = s.in_transit
         /\ next.as_of_turn = t + 1
         /\ next.secret = s.secret
<1> DEFINE cmds   == Commands(batch)
           events == resolve(cmds, s, t, roll)
           next   == reduce(s, events)
<1>1. PICK q \in 0..s.origin : TurnEvents(events, t, q)
  <2>1. CASE Dispatches(cmds) = {}
    <3>1. TurnEvents(events, t, 0)
      BY <2>1, AcceptedBatch, ResolveShape, NoDispatchEvents
    <3>2. QED
      BY <3>1 DEF State
  <2>2. CASE Dispatches(cmds) # {}
    <3>1. PICK d \in Dispatches(cmds) :
            \/ events = <<Dispatched(d), Terminal(d, cmds, s, t, roll), Advance(t)>>
            \/ \E b \in Blocks(cmds) :
                 events = <<Dispatched(d), Attempted(b), Terminal(d, cmds, s, t, roll), Advance(t)>>
      BY <2>2, AcceptedBatch, ResolveShape
    <3>2. LET term == Terminal(d, cmds, s, t, roll) IN
          term.type \in Terminals /\ term.route = d.route /\ term.quantity = d.quantity
      BY DEF Terminal, Event, Terminals
    <3>3. TurnEvents(events, t, d.quantity)
      BY <3>1, <3>2, DispatchEvents
    <3>4. d.quantity \in 0..s.origin
      BY <3>1, AcceptedBatch, QtyAssumption DEF State
    <3>5. QED
      BY <3>3, <3>4
  <2>3. QED
    BY <2>1, <2>2
<1>2. /\ next = [s EXCEPT !.origin = @ - q, !.in_transit = @ + q - q,
                         !.delivered = @ + Amount(events, {"SUPPLY_DELIVERED"}),
                         !.loss_sink = @ + Amount(events, {"SUPPLY_LOST"}),
                         !.as_of_turn = t + 1]
      /\ \/ Amount(events, {"SUPPLY_LOST"}) = q /\ Amount(events, {"SUPPLY_DELIVERED"}) = 0
         \/ Amount(events, {"SUPPLY_LOST"}) = 0 /\ Amount(events, {"SUPPLY_DELIVERED"}) = q
  <2>1. At(events, {"TURN_ADVANCED"}) # {}
    BY <1>1 DEF TurnEvents
  <2> HIDE DEF events
  <2>2. QED
    BY <1>1, <2>1 DEF TurnEvents, reduce
<1> HIDE DEF events, next
<1>3. /\ next \in State
      /\ next.in_transit = s.in_transit
      /\ next.as_of_turn = t + 1
      /\ next.secret = s.secret
      /\ conservation_total(next) = conservation_total(s)
  <2>1. PICK l, g \in 0..q : /\ Amount(events, {"SUPPLY_LOST"}) = l
                            /\ Amount(events, {"SUPPLY_DELIVERED"}) = g
                            /\ l + g = q
    BY <1>2
  <2>2. next = [ origin |-> s.origin - q, in_transit |-> s.in_transit,
                 delivered |-> s.delivered + g, loss_sink |-> s.loss_sink + l,
                 as_of_turn |-> t + 1, secret |-> s.secret ]
    <3>1. s.in_transit + q - q = s.in_transit
      BY DEF State
    <3>2. next = [s EXCEPT !.origin = s.origin - q, !.in_transit = s.in_transit,
                           !.delivered = s.delivered + g,
                           !.loss_sink = s.loss_sink + l, !.as_of_turn = t + 1]
      BY <1>2, <2>1, <3>1, Zenon
    <3>3. QED
      BY <3>2 DEF State
  <2>3. QED
    BY <2>1, <2>2, Moved
<1>4. is_non_negative(next)
  BY <1>3 DEF State, is_non_negative
<1>5. SoundSuccessor(s, events)
  BY <1>1, <1>3, <1>4 DEF SoundSuccessor, TurnEvents, next
<1>6. QED
  BY <1>3, <1>5 DEF events, next

\* A turn never raises, whatever the batch.
THEOREM TransitionAnswers ==
  ASSUME NEW batch \in Seq(Command), NEW s \in State, NEW t, s.as_of_turn = t, NEW roll
  PROVE  LET result == transition(s, batch, t, roll) IN
         \/ result = Rejected(s)
         \/ /\ result.status = "resolved"
            /\ result.state \in State
            /\ result.state.in_transit = s.in_transit
            /\ result.state.as_of_turn = t + 1
            /\ result.state.secret = s.secret
            /\ conservation_total(result.state) = conservation_total(s)
<1> DEFINE events == resolve(Commands(batch), s, t, roll)
<1>1. CASE ~validate_all(batch, s)
  BY <1>1 DEF transition
<1>2. CASE validate_all(batch, s)
  <2>1. t \in Nat
    BY DEF State
  <2>2. /\ SoundSuccessor(s, events)
        /\ reduce(s, events) \in State
        /\ reduce(s, events).in_transit = s.in_transit
        /\ reduce(s, events).as_of_turn = t + 1
        /\ reduce(s, events).secret = s.secret
    BY <1>2, <2>1, AcceptedTurn
  <2>3. transition(s, batch, t, roll)
          = [status |-> "resolved", events |-> events, state |-> reduce(s, events)]
    BY <1>2, <2>2 DEF transition
  <2>4. conservation_total(reduce(s, events)) = conservation_total(s)
    BY <2>2 DEF SoundSuccessor
  <2> HIDE DEF events
  <2>5. QED
    BY <2>2, <2>3, <2>4
<1>3. QED
  BY <1>1, <1>2

-----------------------------------------------------------------------------
(***************************************************************************)
(* The commands of an accepted batch, without their order.                 *)
(***************************************************************************)
Acceptable(cmds, s) ==
  /\ IsFiniteSet(cmds) /\ cmds \subseteq Command
  /\ \A c \in cmds : IsLegal(c, s)
  /\ \A c, d \in cmds : c.actor = d.actor => c = d

LEMMA AcceptedCommands ==
  ASSUME NEW batch \in Seq(Command), NEW s, validate_all(batch, s)
  PROVE  Acceptable(Commands(batch), s)
<1> DEFINE cmds == Commands(batch)
<1>1. batch \in [1..Len(batch) -> cmds] /\ Len(batch) \in Nat
  BY DEF Commands
<1>2. batch \in Surjection(1..Len(batch), cmds)
  BY <1>1 DEF Surjection, Commands
<1>3. IsFiniteSet(cmds)
  BY <1>1, <1>2, FS_NatSurjection DEF ExistsSurjection
<1>4. QED
  BY <1>3 DEF Acceptable, Commands, validate_all

\* The gate's order of the committed commands makes an accepted batch of them.
LEMMA BatchOfAccepted ==
  ASSUME NEW cmds, NEW s, Acceptable(cmds, s)
  PROVE  LET batch == BatchOf(cmds) IN
         batch \in Seq(Command) /\ Commands(batch) = cmds /\ validate_all(batch, s)
<1> DEFINE n == Cardinality(cmds)
           orders == UNION {[1..m -> cmds] : m \in {n}}
           batch  == BatchOf(cmds)
<1>1. IsFiniteSet(cmds) /\ cmds \subseteq Command
  BY DEF Acceptable
<1>2. n \in Nat /\ ExistsBijection(1..n, cmds)
  BY <1>1, FS_CardinalityType
<1>3. orders = [1..n -> cmds]
  OBVIOUS
<1>4. \E b \in [1..n -> cmds] : Commands(b) = cmds
  <2>1. PICK b : b \in Bijection(1..n, cmds)
    BY <1>2 DEF ExistsBijection
  <2>2. b \in [1..n -> cmds] /\ \A c \in cmds : \E i \in 1..n : b[i] = c
    BY <2>1 DEF Bijection, Surjection
  <2>3. Commands(b) = cmds
    BY <2>2 DEF Commands
  <2>4. QED
    BY <2>2, <2>3
<1>5. batch \in [1..n -> cmds] /\ Commands(batch) = cmds
  <2>1. batch = CHOOSE b \in orders : Commands(b) = cmds
    BY DEF BatchOf
  <2>2. QED
    BY <1>3, <1>4, <2>1
<1> HIDE DEF n, batch
<1>6. batch \in Surjection(1..n, cmds)
  BY <1>5 DEF Surjection, Commands
<1>7. IsFiniteSet(1..n) /\ Cardinality(1..n) = n
  BY <1>2, FS_Interval
<1>8. batch \in Injection(1..n, cmds)
  BY <1>6, <1>7, FS_SurjSameCardinalityImpliesInj DEF n
<1>9. batch \in Seq(Command)
  BY <1>1, <1>2, <1>5
<1>10. \A i, j \in DOMAIN batch : batch[i].actor = batch[j].actor => i = j
  BY <1>5, <1>8 DEF Acceptable, Injection, IsInjective
<1>11. validate_all(batch, s)
  BY <1>5, <1>10 DEF Acceptable, validate_all
<1>12. QED
  BY <1>5, <1>9, <1>11 DEF batch

\* What one turn makes of acceptable commands.
LEMMA AcceptableTurn ==
  ASSUME NEW s \in State, NEW cmds, Acceptable(cmds, s), NEW t, s.as_of_turn = t, NEW roll
  PROVE  LET events == resolve(cmds, s, t, roll) IN
         /\ SoundSuccessor(s, events)
         /\ reduce(s, events) \in State
         /\ reduce(s, events).in_transit = s.in_transit
         /\ reduce(s, events).as_of_turn = t + 1
         /\ reduce(s, events).secret = s.secret
<1>1. PICK batch \in Seq(Command) : Commands(batch) = cmds /\ validate_all(batch, s)
  BY BatchOfAccepted
<1>2. t \in Nat
  BY DEF State
<1>3. QED
  BY <1>1, <1>2, AcceptedTurn

\* So any order of acceptable commands resolves.
LEMMA AcceptableResolves ==
  ASSUME NEW s \in State, NEW t, s.as_of_turn = t, NEW roll,
         NEW batch, validate_all(batch, s), Acceptable(Commands(batch), s)
  PROVE  LET events == resolve(Commands(batch), s, t, roll) IN
         transition(s, batch, t, roll)
           = [status |-> "resolved", events |-> events, state |-> reduce(s, events)]
<1>1. SoundSuccessor(s, resolve(Commands(batch), s, t, roll))
  BY AcceptableTurn
<1>2. QED
  BY <1>1, Zenon DEF transition

\* And the gate's own transition, on the committed commands, does.
LEMMA CommittedResolves ==
  ASSUME NEW s \in State, NEW cmds, Acceptable(cmds, s), NEW t, s.as_of_turn = t, NEW roll
  PROVE  LET events == resolve(cmds, s, t, roll) IN
         transition(s, BatchOf(cmds), t, roll)
           = [status |-> "resolved", events |-> events, state |-> reduce(s, events)]
<1>1. Commands(BatchOf(cmds)) = cmds /\ validate_all(BatchOf(cmds), s)
  BY BatchOfAccepted
<1>2. SoundSuccessor(s, resolve(cmds, s, t, roll))
  BY AcceptableTurn
<1>3. QED
  BY <1>1, <1>2, Zenon DEF transition

(***************************************************************************)
(* The draws of a turn.  There is at most one: of the dispatch, if a block *)
(* met it on a blockable route.                                            *)
(***************************************************************************)
\* Only the terminal can hold a draw, and it does if the dispatch is contested.
LEMMA DrawnEvents ==
  ASSUME NEW s, NEW cmds, Acceptable(cmds, s), NEW t, NEW roll
  PROVE  LET events == resolve(cmds, s, t, roll)
             drawn  == {i \in DOMAIN events : events[i].drawn}
             hit    == {d \in Dispatches(cmds) : Contested(d, cmds, s)}
         IN  \/ drawn = {} /\ hit = {}
             \/ \E d, i : /\ hit = {d} /\ drawn = {i} /\ d \in Dispatches(cmds)
                         /\ events[i] = Terminal(d, cmds, s, t, roll)
<1> DEFINE events == resolve(cmds, s, t, roll)
           drawn  == {i \in DOMAIN events : events[i].drawn}
           hit    == {d \in Dispatches(cmds) : Contested(d, cmds, s)}
           term(d) == Terminal(d, cmds, s, t, roll)
<1>1. /\ \A c, d \in Dispatches(cmds) : c = d
      /\ \A c, d \in Blocks(cmds) : c = d
  BY DEF Acceptable, Dispatches, Blocks
<1>2. /\ \A d : Dispatched(d).drawn = FALSE /\ Attempted(d).drawn = FALSE
      /\ Advance(t).drawn = FALSE
      /\ \A d : term(d).drawn = Contested(d, cmds, s)
  BY DEF Dispatched, Attempted, Advance, Terminal, Event
<1>3. CASE Dispatches(cmds) = {}
  <2>1. \/ events = <<Advance(t)>>
        \/ \E b \in Blocks(cmds) : events = <<Attempted(b), Advance(t)>>
    BY <1>1, <1>3, ResolveShape
  <2> HIDE DEF events
  <2>2. drawn = {}
    BY <1>2, <2>1
  <2>3. QED
    BY <1>3, <2>2 DEF events
<1>4. CASE Dispatches(cmds) # {}
  <2>1. PICK d \in Dispatches(cmds) :
          \/ events = <<Dispatched(d), term(d), Advance(t)>>
          \/ \E b \in Blocks(cmds) : events = <<Dispatched(d), Attempted(b), term(d), Advance(t)>>
    BY <1>1, <1>4, ResolveShape
  <2> HIDE DEF events, term
  <2>2. PICK i \in 2..3 : /\ i \in DOMAIN events /\ events[i] = term(d)
                          /\ \A j \in DOMAIN events : j # i => events[j].drawn = FALSE
    <3>1. CASE events = <<Dispatched(d), term(d), Advance(t)>>
      BY <1>2, <3>1
    <3>2. ASSUME NEW b \in Blocks(cmds),
                 events = <<Dispatched(d), Attempted(b), term(d), Advance(t)>>
          PROVE  /\ 3 \in DOMAIN events /\ events[3] = term(d)
                 /\ \A j \in DOMAIN events : j # 3 => events[j].drawn = FALSE
      BY <1>2, <3>2
    <3>3. 2 \in 2..3 /\ 3 \in 2..3
      OBVIOUS
    <3>4. QED
      BY <2>1, <3>1, <3>2, <3>3, Zenon
  <2>3. Dispatches(cmds) = {d}
    BY <1>1
  <2>4. CASE Contested(d, cmds, s)
    <3>1. events[i].drawn /\ drawn = {i} /\ hit = {d}
      BY <1>2, <2>2, <2>3, <2>4
    <3>2. QED
      BY <2>2, <3>1 DEF events, term
  <2>5. CASE ~Contested(d, cmds, s)
    <3>1. drawn = {} /\ hit = {}
      BY <1>2, <2>2, <2>3, <2>5
    <3>2. QED
      BY <3>1 DEF events
  <2>6. QED
    BY <2>4, <2>5
<1>5. QED
  BY <1>3, <1>4

\* The draw records of a turn are the addresses of its contested dispatches.
LEMMA DrawsOfTurn ==
  ASSUME NEW s, NEW cmds, Acceptable(cmds, s), NEW t, NEW roll
  PROVE  Draws(resolve(cmds, s, t, roll), t)
           = {<<t, d.route>> : d \in {d \in Dispatches(cmds) : Contested(d, cmds, s)}}
<1> DEFINE events == resolve(cmds, s, t, roll)
           drawn  == {i \in DOMAIN events : events[i].drawn}
           hit    == {d \in Dispatches(cmds) : Contested(d, cmds, s)}
<1>1. Draws(events, t) = {<<t, events[i].route>> : i \in drawn}
  BY DEF Draws
<1>2. CASE drawn = {} /\ hit = {}
  BY <1>1, <1>2
<1>3. ASSUME NEW d, NEW i, hit = {d}, drawn = {i}, events[i] = Terminal(d, cmds, s, t, roll)
      PROVE  Draws(events, t) = {<<t, c.route>> : c \in hit}
  <2>1. events[i].route = d.route
    BY <1>3 DEF Terminal, Event
  <2> HIDE DEF events, drawn, hit
  <2>2. QED
    BY <1>1, <1>3, <2>1
<1>4. QED
  BY <1>2, <1>3, DrawnEvents

\* A turn that draws nothing comes out the same under every oracle.
LEMMA NoDrawNoSeed ==
  ASSUME NEW s, NEW cmds, NEW t, NEW roll, NEW other,
         \A d \in Dispatches(cmds) : ~Contested(d, cmds, s)
  PROVE  resolve(cmds, s, t, roll) = resolve(cmds, s, t, other)
<1>1. \A d \in Dispatches(cmds) : Terminal(d, cmds, s, t, roll) = Terminal(d, cmds, s, t, other)
  BY DEF Terminal, Lost
<1>2. {Terminal(d, cmds, s, t, roll) : d \in Dispatches(cmds)}
        = {Terminal(d, cmds, s, t, other) : d \in Dispatches(cmds)}
  BY <1>1
<1>3. QED
  BY <1>2, Zenon DEF resolve

\* The only terminal of a turn is that of its only dispatch.
LEMMA TerminalOfTurn ==
  ASSUME NEW s, NEW cmds, Acceptable(cmds, s), NEW t, NEW roll
  PROVE  LET events == resolve(cmds, s, t, roll) IN
         \/ Dispatches(cmds) = {} /\ At(events, Terminals) = {}
         \/ \E d, i : /\ Dispatches(cmds) = {d} /\ At(events, Terminals) = {i}
                     /\ events[i] = Terminal(d, cmds, s, t, roll)
<1> DEFINE events == resolve(cmds, s, t, roll)
           term(d) == Terminal(d, cmds, s, t, roll)
<1>1. /\ \A c, d \in Dispatches(cmds) : c = d
      /\ \A c, d \in Blocks(cmds) : c = d
  BY DEF Acceptable, Dispatches, Blocks
<1>2. /\ \A d : Dispatched(d).type \notin Terminals /\ Attempted(d).type \notin Terminals
      /\ Advance(t).type \notin Terminals
      /\ \A d : term(d).type \in Terminals
  BY DEF Dispatched, Attempted, Advance, Terminal, Event, Terminals
<1>3. CASE Dispatches(cmds) = {}
  <2>1. \/ events = <<Advance(t)>>
        \/ \E b \in Blocks(cmds) : events = <<Attempted(b), Advance(t)>>
    BY <1>1, <1>3, ResolveShape
  <2> HIDE DEF events
  <2>2. At(events, Terminals) = {}
    BY <1>2, <2>1 DEF At
  <2>3. QED
    BY <1>3, <2>2 DEF events
<1>4. CASE Dispatches(cmds) # {}
  <2>1. PICK d \in Dispatches(cmds) :
          \/ events = <<Dispatched(d), term(d), Advance(t)>>
          \/ \E b \in Blocks(cmds) : events = <<Dispatched(d), Attempted(b), term(d), Advance(t)>>
    BY <1>1, <1>4, ResolveShape
  <2> HIDE DEF events, term
  <2>2. PICK i : At(events, Terminals) = {i} /\ events[i] = term(d)
    <3>1. CASE events = <<Dispatched(d), term(d), Advance(t)>>
      <4>1. At(events, Terminals) = {2} /\ events[2] = term(d)
        BY <1>2, <3>1 DEF At
      <4>2. QED
        BY <4>1
    <3>2. ASSUME NEW b \in Blocks(cmds),
                 events = <<Dispatched(d), Attempted(b), term(d), Advance(t)>>
          PROVE  At(events, Terminals) = {3} /\ events[3] = term(d)
      BY <1>2, <3>2 DEF At
    <3>3. QED
      BY <2>1, <3>1, <3>2, Zenon
  <2>3. Dispatches(cmds) = {d}
    BY <1>1
  <2>4. QED
    BY <2>2, <2>3 DEF events, term
<1>5. QED
  BY <1>3, <1>4

(***************************************************************************)
(* A record the engine made of a turn: its commands were acceptable, and   *)
(* the rest of it is what resolve and reduce make of them.                 *)
(***************************************************************************)
EngineMade(rec, t, seed_, roll) ==
  LET events == resolve(rec.command_batch, rec.start_state, t, roll) IN
  /\ rec.start_state \in State /\ rec.start_state.as_of_turn = t
  /\ Acceptable(rec.command_batch, rec.start_state)
  /\ rec.turn = t /\ rec.successor_slot = t + 1
  /\ rec.event_batch = events
  /\ rec.resulting_state = reduce(rec.start_state, events)
  /\ rec.draw_records = Draws(events, t)
  /\ rec.rng = IF Draws(events, t) = {} THEN NoSeed ELSE seed_

LEMMA MadeResult ==
  ASSUME NEW rec, NEW t, NEW seed_, NEW roll, EngineMade(rec, t, seed_, roll)
  PROVE  /\ rec.resulting_state \in State
         /\ rec.resulting_state.as_of_turn = t + 1
         /\ rec.resulting_state.secret = rec.start_state.secret
<1> DEFINE s    == rec.start_state
           next == reduce(s, resolve(rec.command_batch, s, t, roll))
<1>1. /\ s \in State /\ s.as_of_turn = t /\ Acceptable(rec.command_batch, s)
      /\ rec.resulting_state = next
  BY DEF EngineMade
<1> HIDE DEF s
<1>2. next \in State /\ next.as_of_turn = t + 1 /\ next.secret = s.secret
  BY <1>1, AcceptableTurn
<1> HIDE DEF next
<1>3. QED
  BY <1>1, <1>2 DEF s

LEMMA TurnRecordIsMade ==
  ASSUME NEW s \in State, NEW t, s.as_of_turn = t, NEW batch \in Seq(Command),
         NEW seed_, NEW roll, transition(s, batch, t, roll).status = "resolved"
  PROVE  LET result == transition(s, batch, t, roll)
             rec    == TurnRecord(s, batch, t, seed_, result)
         IN  EngineMade(rec, t, seed_, roll)
<1> DEFINE cmds   == Commands(batch)
           events == resolve(cmds, s, t, roll)
           result == transition(s, batch, t, roll)
<1>1. validate_all(batch, s)
  BY DEF transition, Rejected
<1>2. Acceptable(cmds, s)
  BY <1>1, AcceptedCommands
<1>3. result = [status |-> "resolved", events |-> events, state |-> reduce(s, events)]
  BY <1>1, <1>2, AcceptableResolves
<1> HIDE DEF result, events, cmds
<1>4. LET rec == TurnRecord(s, batch, t, seed_, result) IN
      /\ rec.turn = t /\ rec.start_state = s /\ rec.command_batch = cmds
      /\ rec.event_batch = events /\ rec.resulting_state = reduce(s, events)
      /\ rec.draw_records = Draws(events, t) /\ rec.successor_slot = t + 1
      /\ rec.rng = IF Draws(events, t) = {} THEN NoSeed ELSE seed_
  BY <1>3 DEF TurnRecord, cmds
<1> HIDE DEF TurnRecord
<1>5. QED
  BY <1>2, <1>4 DEF EngineMade, result, events

\* The gate replays a engine-made record to itself.
LEMMA MadeReplays ==
  ASSUME NEW rec, NEW t, NEW seed_, NEW oracle_, seed_ # NoSeed,
         EngineMade(rec, t, seed_, oracle_[seed_])
  PROVE  check_record(rec, oracle_) = {}
<1> DEFINE s      == rec.start_state
           cmds   == rec.command_batch
           roll   == oracle_[seed_]
           other  == oracle_[ReplaySeedOf(rec)]
           events == resolve(cmds, s, t, roll)
           drawn  == {i \in DOMAIN events : events[i].type \in Terminals /\ events[i].drawn}
<1>1. /\ s \in State /\ s.as_of_turn = t /\ Acceptable(cmds, s)
      /\ rec.turn = t
      /\ rec.event_batch = events
      /\ rec.resulting_state = reduce(s, events)
      /\ rec.draw_records = Draws(events, t)
      /\ rec.rng = IF Draws(events, t) = {} THEN NoSeed ELSE seed_
  BY DEF EngineMade
<1>2. /\ WellFormed(events)
      /\ transition(s, BatchOf(cmds), t, other)
           = [status |-> "resolved", events |-> resolve(cmds, s, t, other),
              state |-> reduce(s, resolve(cmds, s, t, other))]
  <2> HIDE DEF s, cmds, other
  <2>1. SoundSuccessor(s, resolve(cmds, s, t, roll))
    BY <1>1, AcceptableTurn
  <2>2. transition(s, BatchOf(cmds), t, other)
          = [status |-> "resolved", events |-> resolve(cmds, s, t, other),
             state |-> reduce(s, resolve(cmds, s, t, other))]
    BY <1>1, CommittedResolves
  <2>3. QED
    BY <2>1, <2>2 DEF SoundSuccessor
<1>3. resolve(cmds, s, t, other) = events
  <2>1. CASE Draws(events, t) = {}
    <3>1. {<<t, d.route>> : d \in {d \in Dispatches(cmds) : Contested(d, cmds, s)}} = {}
      BY <1>1, <2>1, DrawsOfTurn
    <3>2. \A d \in Dispatches(cmds) : ~Contested(d, cmds, s)
      BY <3>1
    <3>3. QED
      BY <3>2, NoDrawNoSeed
  <2>2. CASE Draws(events, t) # {}
    BY <1>1, <2>2 DEF ReplaySeedOf
  <2>3. QED
    BY <2>1, <2>2
<1>4. transition(s, BatchOf(cmds), t, other)
        = [status |-> "resolved", events |-> events, state |-> reduce(s, events)]
  BY <1>2, <1>3, Zenon
<1>5. Cardinality(drawn) = Cardinality(Draws(events, t))
  <2> DEFINE all == {i \in DOMAIN events : events[i].drawn}
             hit == {d \in Dispatches(cmds) : Contested(d, cmds, s)}
  <2>1. Draws(events, t) = {<<t, d.route>> : d \in hit}
    BY <1>1, DrawsOfTurn
  <2>2. CASE all = {} /\ hit = {}
    <3>1. drawn = {} /\ Draws(events, t) = {}
      BY <2>1, <2>2
    <3>2. QED
      BY <3>1
  <2>3. ASSUME NEW d, NEW i, hit = {d}, all = {i}, events[i] = Terminal(d, cmds, s, t, roll)
        PROVE  Cardinality(drawn) = Cardinality(Draws(events, t))
    <3>1. events[i].type \in Terminals
      BY <2>3 DEF Terminal, Event, Terminals
    <3> HIDE DEF events
    <3>2. drawn = {i}
      BY <2>3, <3>1
    <3> HIDE DEF hit
    <3>3. Draws(events, t) = {<<t, d.route>>}
      BY <2>1, <2>3
    <3>4. QED
      BY <3>2, <3>3, FS_Singleton
  <2>4. QED
    BY <1>1, <2>2, <2>3, DrawnEvents
<1> HIDE DEF events, s, cmds, other, drawn
<1>6. LET redone == transition(s, BatchOf(cmds), rec.turn, other) IN
      redone.status = "resolved" /\ redone.events = events /\ redone.state = reduce(s, events)
  BY <1>1, <1>4
<1>7. rec.draw_records = {} <=> rec.rng = NoSeed
  BY <1>1
<1>8. /\ (rec.draw_records # {} /\ rec.rng = NoSeed) = FALSE
      /\ (rec.draw_records = {} /\ rec.rng # NoSeed) = FALSE
      /\ (~WellFormed(rec.event_batch)) = FALSE
      /\ (reduce(rec.start_state, rec.event_batch) # rec.resulting_state) = FALSE
  BY <1>1, <1>2, <1>7 DEF s
<1>9. LET redone == transition(rec.start_state, BatchOf(rec.command_batch), rec.turn,
                                oracle_[ReplaySeedOf(rec)])
           again  == {i \in DOMAIN rec.event_batch :
                        rec.event_batch[i].type \in Terminals /\ rec.event_batch[i].drawn}
       IN  /\ (redone.status = "raised") = FALSE
           /\ (redone.events # rec.event_batch \/ redone.state # rec.resulting_state) = FALSE
           /\ (Cardinality(again) # Cardinality(rec.draw_records)) = FALSE
  BY <1>1, <1>5, <1>6 DEF s, cmds, other, drawn
<1>10. check_record(rec, oracle_)
         = LET clear == [ rng_missing |-> FALSE, decorative_seed |-> FALSE, reduce_failed |-> FALSE,
                          replay_mismatch |-> FALSE, recompute_failed |-> FALSE,
                          recompute_mismatch |-> FALSE, draw_event_count |-> FALSE ]
           IN  {code \in DOMAIN clear : clear[code]}
  BY <1>8, <1>9, Zenon DEF check_record
<1>11. QED
  BY <1>10

\* In an engine-made record the hit dispatches are drawn for, and the terminal
\* is a loss exactly if the d100 of one is below its route's threshold.
DecidedByDraws(rec, t, roll) ==
  LET hit == {d \in Dispatches(rec.command_batch) :
                /\ d.route \in DOMAIN rec.start_state.secret
                /\ \E b \in Blocks(rec.command_batch) : b.route = d.route}
      below == {d \in hit : roll[t, d.route] < rec.start_state.secret[d.route]}
  IN  /\ rec.draw_records = {<<t, d.route>> : d \in hit}
      /\ (At(rec.event_batch, {"SUPPLY_LOST"}) # {}) <=> (below # {})

LEMMA MadeDraws ==
  ASSUME NEW rec, NEW t, NEW seed_, NEW roll, EngineMade(rec, t, seed_, roll)
  PROVE  DecidedByDraws(rec, t, roll)
<1> DEFINE s      == rec.start_state
           cmds   == rec.command_batch
           events == resolve(cmds, s, t, roll)
           hit    == {d \in Dispatches(cmds) :
                       /\ d.route \in DOMAIN s.secret
                       /\ \E b \in Blocks(cmds) : b.route = d.route}
           below  == {d \in hit : roll[t, d.route] < s.secret[d.route]}
<1>1. /\ Acceptable(cmds, s)
      /\ rec.event_batch = events /\ rec.draw_records = Draws(events, t)
  BY DEF EngineMade
<1>2. hit = {d \in Dispatches(cmds) : Contested(d, cmds, s)}
  BY DEF Contested
<1>3. rec.draw_records = {<<t, d.route>> : d \in hit}
  BY <1>1, <1>2, DrawsOfTurn
<1>4. below = {d \in Dispatches(cmds) : Lost(d, cmds, s, t, roll)}
  BY DEF Lost, Contested
<1>5. At(events, {"SUPPLY_LOST"}) # {} <=> \E d \in Dispatches(cmds) : Lost(d, cmds, s, t, roll)
  <2>1. At(events, {"SUPPLY_LOST"}) = {i \in At(events, Terminals) : events[i].type = "SUPPLY_LOST"}
    BY DEF At, Terminals
  <2>2. CASE Dispatches(cmds) = {} /\ At(events, Terminals) = {}
    BY <2>1, <2>2
  <2>3. ASSUME NEW d, NEW i, Dispatches(cmds) = {d}, At(events, Terminals) = {i},
               events[i] = Terminal(d, cmds, s, t, roll)
        PROVE  At(events, {"SUPPLY_LOST"}) # {} <=> \E c \in Dispatches(cmds) : Lost(c, cmds, s, t, roll)
    <3>1. events[i].type = "SUPPLY_LOST" <=> Lost(d, cmds, s, t, roll)
      BY <2>3 DEF Terminal, Event
    <3> HIDE DEF events, s, cmds
    <3>2. QED
      BY <2>1, <2>3, <3>1
  <2>4. \/ Dispatches(cmds) = {} /\ At(events, Terminals) = {}
        \/ \E d, i : /\ Dispatches(cmds) = {d} /\ At(events, Terminals) = {i}
                    /\ events[i] = Terminal(d, cmds, s, t, roll)
    <3> HIDE DEF s, cmds
    <3>1. QED
      BY <1>1, TerminalOfTurn
  <2> HIDE DEF s, cmds, events
  <2>5. QED
    BY <2>2, <2>3, <2>4
<1>6. (At(rec.event_batch, {"SUPPLY_LOST"}) # {}) <=> (below # {})
  BY <1>1, <1>4, <1>5
<1>7. QED
  BY <1>3, <1>6 DEF DecidedByDraws

(***************************************************************************)
(* A chain of engine-made records, and the head its last one left.              *)
(***************************************************************************)
Chained(records_, head_, seed_, roll) ==
  /\ \E S : records_ \in Seq(S)
  /\ \A i \in 1..Len(records_) : EngineMade(records_[i], i - 1, seed_, roll)
  /\ \A i \in 2..Len(records_) : records_[i].start_state = records_[i - 1].resulting_state
  /\ Len(records_) > 0 => head_ = records_[Len(records_)].resulting_state

LEMMA ChainGrows ==
  ASSUME NEW chain, NEW h, NEW seed_, NEW roll, Chained(chain, h, seed_, roll),
         NEW rec, EngineMade(rec, Len(chain), seed_, roll), rec.start_state = h
  PROVE  Chained(Append(chain, rec), rec.resulting_state, seed_, roll)
<1> DEFINE n == Len(chain)
           longer == Append(chain, rec)
<1>1. PICK S : chain \in Seq(S)
  BY DEF Chained
<1>2. /\ longer \in Seq(S \cup {rec}) /\ n \in Nat /\ Len(longer) = n + 1
      /\ longer[n + 1] = rec
      /\ \A i \in 1..n : longer[i] = chain[i]
  <2>1. chain \in Seq(S \cup {rec})
    BY <1>1
  <2>2. QED
    BY <2>1
<1> HIDE DEF n, longer
<1>3. \A i \in 1..n+1 : EngineMade(longer[i], i - 1, seed_, roll)
  <2> SUFFICES ASSUME NEW i \in 1..n+1
               PROVE  EngineMade(longer[i], i - 1, seed_, roll)
    OBVIOUS
  <2>1. CASE i \in 1..n
    BY <1>2, <2>1 DEF Chained, n
  <2>2. CASE i = n + 1
    <3>1. i - 1 = n
      BY <1>2, <2>2
    <3>2. QED
      BY <1>2, <2>2, <3>1 DEF n
  <2>3. QED
    BY <1>2, <2>1, <2>2
<1>4. \A i \in 2..n+1 : longer[i].start_state = longer[i - 1].resulting_state
  <2> SUFFICES ASSUME NEW i \in 2..n+1
               PROVE  longer[i].start_state = longer[i - 1].resulting_state
    OBVIOUS
  <2>1. CASE i \in 2..n
    <3>1. i \in 1..n /\ i - 1 \in 1..n
      BY <1>2, <2>1
    <3>2. QED
      BY <1>2, <2>1, <3>1 DEF Chained, n
  <2>2. CASE i = n + 1
    <3>1. i - 1 = n /\ n \in 1..n /\ n > 0
      BY <1>2, <2>2
    <3>2. h = chain[n].resulting_state
      BY <3>1 DEF Chained, n
    <3>3. QED
      BY <1>2, <2>2, <3>1, <3>2
  <2>3. QED
    BY <1>2, <2>1, <2>2
<1>5. QED
  BY <1>2, <1>3, <1>4 DEF Chained, longer

\* The chain check finds nothing in it.
LEMMA ChainPasses ==
  ASSUME NEW chain, NEW h, NEW seed_, NEW roll, Chained(chain, h, seed_, roll)
  PROVE  check_chain(chain) = {}
<1> DEFINE n == Len(chain)
<1>1. n \in Nat
  BY DEF Chained
<1>2. ASSUME NEW i \in 1..n
      PROVE  /\ chain[i].turn = i - 1 /\ chain[i].successor_slot = i
             /\ chain[i].start_state.as_of_turn = i - 1
             /\ chain[i].resulting_state.as_of_turn = i
  <2> DEFINE rec == chain[i]
  <2>1. EngineMade(rec, i - 1, seed_, roll) /\ i - 1 + 1 = i
    BY <1>1 DEF Chained
  <2>2. rec.resulting_state.as_of_turn = i - 1 + 1
    BY <2>1, MadeResult
  <2>3. QED
    BY <2>1, <2>2 DEF EngineMade
<1>3. /\ (\/ \E i \in 1..n : chain[i].turn # i - 1
          \/ \E i \in 2..n : \/ chain[i].start_state.as_of_turn # i - 1
                             \/ chain[i].resulting_state.as_of_turn # i) = FALSE
      /\ (\E i \in 2..n : chain[i].start_state # chain[i - 1].resulting_state) = FALSE
      /\ (\E i \in 1..n-1 : chain[i].successor_slot # i) = FALSE
  <2>1. \A i \in 2..n : i \in 1..n
    BY <1>1
  <2>2. \A i \in 1..n-1 : i \in 1..n
    BY <1>1
  <2>3. \A i \in 2..n : chain[i].start_state = chain[i - 1].resulting_state
    BY DEF Chained
  <2> HIDE DEF n
  <2>4. QED
    BY <1>2, <2>1, <2>2, <2>3
<1>4. check_chain(chain)
        = IF n < 2 THEN {}
          ELSE LET clear == [ turn_nonmonotone |-> FALSE, head_mismatch |-> FALSE,
                              successor_mismatch |-> FALSE ]
               IN  {code \in DOMAIN clear : clear[code]}
  BY <1>3, Zenon DEF check_chain
<1>5. QED
  BY <1>4
=============================================================================
