------------------------------- MODULE Campaign -------------------------------
(***************************************************************************)
(* A campaign of the logistics engine: run_campaign of                     *)
(* scripts/agent_offline_campaign.py (and the turn loop of the live game)  *)
(* with the players' moves left open.  Each turn some batch of commands is *)
(* assembled on the current head; a resolved turn's record joins the chain *)
(* and its resulting state is the next head; a rejected batch changes      *)
(* nothing and leaves no record.                                           *)
(***************************************************************************)
EXTENDS TurnReplay

CONSTANTS
  Seeds,      \* master seeds
  Batches,    \* the command batches that are ever submitted
  Origins,    \* starting supplies
  Secrets,    \* placements of the hidden thresholds
  Rolls,      \* the d100 values the oracle may give
  Horizon     \* how many turns are driven

ASSUME SeedAssumption    == ReplaySeed \in Seeds /\ NoSeed \notin Seeds
ASSUME BatchAssumption   == \A b \in Batches : b \in Seq(Command)
ASSUME OriginAssumption  == Origins \subseteq Nat
ASSUME SecretAssumption  == Secrets \subseteq Secret
ASSUME RollAssumption    == Rolls \subseteq D100
ASSUME HorizonAssumption == Horizon \in Nat

VARIABLES
  oracle,    \* d100 of every (seed, draw address): core/rng.py, never changes
  seed,      \* the campaign's master seed, never changes
  head,      \* the state the next turn starts from
  records,   \* the turn records so far
  status     \* what the last assemble answered

vars == <<oracle, seed, head, records, status>>

Oracle == [Seeds -> [(0..Horizon-1) \X Routes -> Rolls]]

StartState(origin, secret) ==
  [ origin |-> origin, in_transit |-> 0, delivered |-> 0, loss_sink |-> 0,
    as_of_turn |-> 0, secret |-> secret ]

Init ==
  /\ oracle \in Oracle
  /\ seed \in Seeds
  /\ \E o \in Origins, t \in Secrets : head = StartState(o, t)
  /\ records = <<>>
  /\ status = "none"

turn == Len(records)

\* Mutant of Resolved: the next turn starts from this turn's start state.
ResolvedWithoutHandoff(batch) ==
  LET result == transition(head, batch, turn, oracle[seed]) IN
  /\ turn < Horizon
  /\ result.status = "resolved"
  /\ records' = Append(records, TurnRecord(head, batch, turn, seed, result))
  /\ status' = "resolved"
  /\ UNCHANGED <<head, oracle, seed>>

\* assemble resolves the turn: its record is kept and the head moves on.
Resolved(batch) ==
  LET result == transition(head, batch, turn, oracle[seed]) IN
  /\ turn < Horizon
  /\ result.status = "resolved"
  /\ records' = Append(records, TurnRecord(head, batch, turn, seed, result))
  /\ head' = result.state
  /\ status' = "resolved"
  /\ UNCHANGED <<oracle, seed>>

\* assemble rejects the batch, or raises: no record, no new head.
Refused(batch) ==
  LET result == transition(head, batch, turn, oracle[seed]) IN
  /\ turn < Horizon
  /\ result.status # "resolved"
  /\ status' = result.status
  /\ UNCHANGED <<oracle, seed, head, records>>

Next == \E batch \in Batches : Resolved(batch) \/ Refused(batch)

Spec == Init /\ [][Next]_vars

-----------------------------------------------------------------------------
Total == IF records = <<>> THEN conservation_total(head)
         ELSE conservation_total(records[1].start_state)

\* The state of a campaign between turns: supply is conserved and never
\* negative, nothing is left in transit, the hidden thresholds are those of
\* the start, and the head is the last record's result, one turn per record.
HeadInv ==
  /\ head \in State
  /\ head.as_of_turn = turn
  /\ head.in_transit = 0
  /\ conservation_total(head) = Total
  /\ records # <<>> =>
       /\ head = records[turn].resulting_state
       /\ head.secret = records[1].start_state.secret

\* No batch, however it is composed, drives the engine into its invariant
\* check or a malformed event batch: what validate_all accepts, transition
\* resolves (an illegal move is refused, it never crashes the campaign).
NeverRaises == status # "raised"

\* The turn-replay gate passes at every length of the chain, although a
\* record without draws is replayed with another seed than it was run with.
GatePasses ==
  /\ \A i \in DOMAIN records : check_record(records[i], oracle) = {}
  /\ check_chain(records) = {}

\* A turn without a draw does not depend on the seed; a draw happens exactly
\* when RED blocked the route BLUE dispatched on and that route has a
\* threshold, and the terminal is a loss exactly when the d100 is below it.
DrawDecides ==
  \A i \in DOMAIN records :
    LET rec == records[i]
        hit == {d \in Dispatches(rec.command_batch) :
                  /\ d.route \in DOMAIN rec.start_state.secret
                  /\ \E b \in Blocks(rec.command_batch) : b.route = d.route}
        below == {d \in hit : oracle[seed][i - 1, d.route] < rec.start_state.secret[d.route]}
    IN  /\ rec.draw_records = {<<i - 1, d.route>> : d \in hit}
        /\ (At(rec.event_batch, {"SUPPLY_LOST"}) # {}) <=> (below # {})
=============================================================================
