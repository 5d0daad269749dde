--------------------------- MODULE CampaignProofs ---------------------------
(***************************************************************************)
(* The campaign's invariants, for every board, quantity range, oracle and  *)
(* sequence of batches; then fog of war: the differential fog gate passes  *)
(* on the records of every campaign, whatever the thresholds and where     *)
(* they lie; a view shows of the other's move its effect only; and the     *)
(* contexts compiled from a state directory stay private.                  *)
(***************************************************************************)
EXTENDS AgentFog, EngineProofs

(***************************************************************************)
(* The campaign.  CampaignInv is inductive: HeadInv, the records being a   *)
(* sequence, and no turn having raised.                                    *)
(***************************************************************************)
CampaignInv ==
  /\ \E S : records \in Seq(S)
  /\ HeadInv
  /\ NeverRaises

LEMMA CampaignInit == Init => CampaignInv
<1> SUFFICES ASSUME Init
             PROVE  CampaignInv
  OBVIOUS
<1>1. PICK o \in Origins, x \in Secrets : head = StartState(o, x)
  BY DEF Init
<1>2. records = <<>> /\ status = "none"
  BY DEF Init
<1>3. head \in State /\ head.in_transit = 0 /\ head.as_of_turn = 0
  BY <1>1, OriginAssumption, SecretAssumption DEF StartState, State
<1>4. HeadInv
  BY <1>2, <1>3 DEF HeadInv, turn, Total
<1>5. \E S : records \in Seq(S)
  BY <1>2
<1>6. QED
  BY <1>2, <1>4, <1>5 DEF CampaignInv, NeverRaises

LEMMA CampaignNext == CampaignInv /\ [Next]_vars => CampaignInv'
<1> SUFFICES ASSUME CampaignInv, [Next]_vars
             PROVE  CampaignInv'
  OBVIOUS
<1>1. ASSUME NEW batch \in Batches, Resolved(batch)
      PROVE  CampaignInv'
  <2> DEFINE result == transition(head, batch, turn, oracle[seed])
             rec    == TurnRecord(head, batch, turn, seed, result)
  <2>1. /\ head \in State /\ head.in_transit = 0 /\ head.as_of_turn = turn
        /\ conservation_total(head) = Total
    BY DEF CampaignInv, HeadInv
  <2>2. /\ result.status = "resolved" /\ result.status # "rejected"
        /\ records' = Append(records, rec)
        /\ head' = result.state
        /\ status' = "resolved"
    BY <1>1 DEF Resolved
  <2>3. /\ head' \in State
        /\ head'.in_transit = 0
        /\ head'.as_of_turn = turn + 1
        /\ head'.secret = head.secret
        /\ conservation_total(head') = Total
    <3>1. batch \in Seq(Command)
      BY BatchAssumption
    <3>2. result # Rejected(head)
      BY <2>2 DEF Rejected
    <3>3. /\ result.state \in State
          /\ result.state.in_transit = head.in_transit
          /\ result.state.as_of_turn = turn + 1
          /\ result.state.secret = head.secret
          /\ conservation_total(result.state) = conservation_total(head)
      BY <2>1, <3>1, <3>2, TransitionAnswers
    <3> HIDE DEF result
    <3>4. QED
      BY <2>1, <2>2, <3>3
  <2>4. rec.start_state = head /\ rec.resulting_state = head'
    BY <2>2 DEF TurnRecord
  <2> HIDE DEF result, rec
  <2>5. PICK S : records \in Seq(S)
    BY DEF CampaignInv
  <2>6. /\ records \in Seq(S \cup {rec})
        /\ records' \in Seq(S \cup {rec})
        /\ turn \in Nat /\ turn' = turn + 1
        /\ records'[turn + 1] = rec
        /\ records' # <<>>
        /\ turn # 0 => records'[1] = records[1]
        /\ turn = 0 <=> records = <<>>
    BY <2>2, <2>5 DEF turn
  <2>7. records'[1].start_state.secret = head.secret /\ Total' = Total
    BY <2>4, <2>6 DEF CampaignInv, HeadInv, Total
  <2>8. HeadInv'
    BY <2>3, <2>4, <2>6, <2>7 DEF HeadInv
  <2>9. QED
    BY <2>2, <2>6, <2>8 DEF CampaignInv, NeverRaises
<1>2. ASSUME NEW batch \in Batches, Refused(batch)
      PROVE  CampaignInv'
  <2>1. head \in State /\ head.as_of_turn = turn /\ batch \in Seq(Command)
    BY BatchAssumption DEF CampaignInv, HeadInv
  <2>2. transition(head, batch, turn, oracle[seed]).status \in {"resolved", "rejected"}
    <3> DEFINE result == transition(head, batch, turn, oracle[seed])
    <3>1. result = Rejected(head) \/ result.status = "resolved"
      BY <2>1, TransitionAnswers
    <3> HIDE DEF result
    <3>2. result.status \in {"resolved", "rejected"}
      BY <3>1 DEF Rejected
    <3>3. QED
      BY <3>2 DEF result
  <2>3. /\ status' = transition(head, batch, turn, oracle[seed]).status
        /\ UNCHANGED <<head, records>>
    BY <1>2 DEF Refused
  <2>4. HeadInv'
    BY <2>3 DEF CampaignInv, HeadInv, Total, turn
  <2>5. QED
    BY <2>2, <2>3, <2>4 DEF CampaignInv, NeverRaises
<1>3. CASE UNCHANGED vars
  BY <1>3 DEF vars, CampaignInv, HeadInv, Total, turn, NeverRaises
<1>4. QED
  BY <1>1, <1>2, <1>3 DEF Next

LEMMA CampaignInvariant == Spec => []CampaignInv
BY CampaignInit, CampaignNext, PTL DEF Spec

(***************************************************************************)
(* resolver.transition and the campaign's head handoff, for every board,   *)
(* quantity range, starting supply, placement of the thresholds, oracle    *)
(* and sequence of batches: supply is conserved and never negative, nothing*)
(* stays in transit, the thresholds never change, and the head is the      *)
(* result of the last record, one turn per record.                         *)
(***************************************************************************)
THEOREM SupplyIsConserved == Spec => []HeadInv
<1>1. CampaignInv => HeadInv
  BY DEF CampaignInv
<1>2. QED
  BY <1>1, CampaignInvariant, PTL

(***************************************************************************)
(* What validate_all accepts, transition resolves: the engine's own checks *)
(* (ResolveError) are never reached, for any batch of commands.            *)
(***************************************************************************)
THEOREM LegalBatchNeverRaises == Spec => []NeverRaises
<1>1. CampaignInv => NeverRaises
  BY DEF CampaignInv
<1>2. QED
  BY <1>1, CampaignInvariant, PTL

(***************************************************************************)
(* The records of a campaign are a chain the engine made with the master   *)
(* seed.  That is inductive together with HeadInv, which says that the     *)
(* head is a state of the next turn.                                       *)
(***************************************************************************)
RecordsInv == Chained(records, head, seed, oracle[seed]) /\ seed # NoSeed

LEMMA RecordsNext == CampaignInv /\ RecordsInv /\ [Next]_vars => RecordsInv'
<1> SUFFICES ASSUME CampaignInv, RecordsInv, [Next]_vars
             PROVE  RecordsInv'
  OBVIOUS
<1>1. ASSUME NEW batch \in Batches, Resolved(batch)
      PROVE  RecordsInv'
  <2> DEFINE result == transition(head, batch, turn, oracle[seed])
             rec    == TurnRecord(head, batch, turn, seed, result)
  <2>1. head \in State /\ head.as_of_turn = turn /\ batch \in Seq(Command)
    BY BatchAssumption DEF CampaignInv, HeadInv
  <2>2. /\ result.status = "resolved"
        /\ records' = Append(records, rec)
        /\ head' = result.state
        /\ UNCHANGED <<oracle, seed>>
    BY <1>1 DEF Resolved
  <2>3. EngineMade(rec, turn, seed, oracle[seed])
    BY <2>1, <2>2, TurnRecordIsMade
  <2>4. rec.start_state = head /\ rec.resulting_state = result.state
    BY DEF TurnRecord
  <2> HIDE DEF result, rec
  <2>5. Chained(records', head', seed, oracle[seed])
    BY <2>2, <2>3, <2>4, ChainGrows DEF RecordsInv, turn
  <2>6. QED
    BY <2>2, <2>5 DEF RecordsInv
<1>2. ASSUME NEW batch \in Batches, Refused(batch)
      PROVE  RecordsInv'
  BY <1>2 DEF Refused, RecordsInv
<1>3. CASE UNCHANGED vars
  BY <1>3 DEF vars, RecordsInv
<1>4. QED
  BY <1>1, <1>2, <1>3 DEF Next

LEMMA RecordsInvariant == Spec => []RecordsInv
<1>1. Init => RecordsInv
  BY SeedAssumption DEF Init, RecordsInv, Chained
<1>2. QED
  BY <1>1, CampaignInvariant, RecordsNext, PTL DEF Spec

(***************************************************************************)
(* The turn-replay gate accepts every record and every chain of every      *)
(* campaign: check_record re-resolves the committed commands, in any       *)
(* order, to the committed events, a record without a draw even under the  *)
(* default seed; check_chain finds turns, heads and slots in step.         *)
(***************************************************************************)
THEOREM EveryRecordReplays == Spec => []GatePasses
<1>1. RecordsInv => GatePasses
  <2> SUFFICES ASSUME RecordsInv
               PROVE  GatePasses
    OBVIOUS
  <2>1. ASSUME NEW i \in DOMAIN records
        PROVE  check_record(records[i], oracle) = {}
    <3> DEFINE rec == records[i]
    <3>1. EngineMade(rec, i - 1, seed, oracle[seed]) /\ seed # NoSeed
      BY DEF RecordsInv, Chained
    <3> HIDE DEF rec
    <3>2. check_record(rec, oracle) = {}
      BY <3>1, MadeReplays
    <3>3. QED
      BY <3>2 DEF rec
  <2>2. check_chain(records) = {}
    BY ChainPasses DEF RecordsInv
  <2>3. QED
    BY <2>1, <2>2 DEF GatePasses
<1>2. QED
  BY <1>1, RecordsInvariant, PTL

(***************************************************************************)
(* route_outcome and assemble: a turn draws exactly for a dispatch whose   *)
(* blockable route was blocked, and loses the supply exactly when the d100 *)
(* of the master seed is below the route's threshold.                      *)
(***************************************************************************)
THEOREM DrawsDecideLosses == Spec => []DrawDecides
<1>1. RecordsInv => DrawDecides
  <2> SUFFICES ASSUME RecordsInv, NEW i \in DOMAIN records
               PROVE  LET rec == records[i]
                          hit == {d \in Dispatches(rec.command_batch) :
                                    /\ d.route \in DOMAIN rec.start_state.secret
                                    /\ \E b \in Blocks(rec.command_batch) : b.route = d.route}
                          below == {d \in hit :
                                      oracle[seed][i - 1, d.route] < rec.start_state.secret[d.route]}
                      IN  /\ rec.draw_records = {<<i - 1, d.route>> : d \in hit}
                          /\ (At(rec.event_batch, {"SUPPLY_LOST"}) # {}) <=> (below # {})
    BY DEF DrawDecides
  <2> DEFINE rec  == records[i]
             t    == i - 1
             roll == oracle[seed]
  <2>1. EngineMade(rec, t, seed, roll)
    BY DEF RecordsInv, Chained
  <2> HIDE DEF rec, t, roll
  <2>2. DecidedByDraws(rec, t, roll)
    BY <2>1, MadeDraws
  <2>3. QED
    BY <2>2 DEF DecidedByDraws, rec, t, roll
<1>2. QED
  BY <1>1, RecordsInvariant, PTL

-----------------------------------------------------------------------------
(***************************************************************************)
(* project_events, one event after the other.  That its recursive function *)
(* exists is shown by induction.                                           *)
(***************************************************************************)
Longer(out, n, viewer, events) ==
  IF Visible(viewer, events[n], events) THEN Append(out, Strip(events[n])) ELSE out

Shows(f, m, viewer, events) ==
  f = [n \in 0..m |-> IF n = 0 THEN <<>> ELSE Longer(f[n - 1], n, viewer, events)]

LEMMA ViewsExist ==
  ASSUME NEW viewer, NEW events, NEW m \in Nat
  PROVE  \E f : Shows(f, m, viewer, events)
<1> DEFINE K == {k \in Nat : \E f : Shows(f, k, viewer, events)}
           Step(x, n) == Longer(x, n, viewer, events)
<1>1. 0 \in K
  <2> DEFINE f == [n \in 0..0 |-> <<>>]
  <2>1. f = [n \in 0..0 |-> IF n = 0 THEN <<>> ELSE Step(f[n - 1], n)]
    OBVIOUS
  <2> HIDE DEF f
  <2>2. Shows(f, 0, viewer, events)
    BY <2>1 DEF Shows
  <2>3. QED
    BY <2>2
<1>2. ASSUME NEW k \in Nat, k \in K
      PROVE  k + 1 \in K
  <2>1. PICK f : Shows(f, k, viewer, events)
    BY <1>2
  <2>2. \A n \in 0..k : f[n] = IF n = 0 THEN <<>> ELSE Step(f[n - 1], n)
    BY <2>1 DEF Shows
  <2> HIDE DEF Step
  <2> DEFINE g == [n \in 0..k+1 |-> IF n = k + 1 THEN Step(f[k], k + 1) ELSE f[n]]
  <2>3. ASSUME NEW n \in 0..k+1
        PROVE  g[n] = IF n = 0 THEN <<>> ELSE Step(g[n - 1], n)
    <3>1. CASE n = k + 1
      <4>1. n # 0 /\ n - 1 = k /\ k \in 0..k+1 /\ k # k + 1
        BY <3>1
      <4>2. g[n] = Step(f[k], n) /\ g[n - 1] = f[k]
        BY <3>1, <4>1
      <4>3. QED
        BY <4>1, <4>2
    <3>2. CASE n \in 0..k
      <4>1. n # k + 1 /\ (n # 0 => n - 1 \in 0..k+1 /\ n - 1 # k + 1)
        BY <3>2
      <4>2. g[n] = f[n] /\ (n # 0 => g[n - 1] = f[n - 1])
        BY <4>1
      <4>3. QED
        BY <2>2, <3>2, <4>2
    <3>3. QED
      BY <3>1, <3>2
  <2>4. g = [n \in 0..k+1 |-> g[n]]
    OBVIOUS
  <2> HIDE DEF g
  <2>5. Shows(g, k + 1, viewer, events)
    BY <2>3, <2>4 DEF Shows, Step
  <2>6. QED
    BY <2>5
<1>3. Nat \subseteq K
  <2> HIDE DEF K
  <2>1. QED
    BY <1>1, <1>2, NatSetInduction
<1>4. QED
  BY <1>3

LEMMA ViewStepByStep ==
  ASSUME NEW viewer, NEW events, NEW m \in Nat, Len(events) = m
  PROVE  \E f : /\ f[0] = <<>>
                /\ \A n \in 1..m : f[n] = Longer(f[n - 1], n, viewer, events)
                /\ project_events(viewer, events) = f[m]
<1> DEFINE f == CHOOSE g : Shows(g, m, viewer, events)
<1>1. project_events(viewer, events) = f[m]
  BY DEF project_events, Shows, Longer
<1>2. Shows(f, m, viewer, events)
  BY ViewsExist
<1> HIDE DEF f
<1>3. \A n \in 0..m : f[n] = IF n = 0 THEN <<>> ELSE Longer(f[n - 1], n, viewer, events)
  BY <1>2 DEF Shows
<1>4. f[0] = <<>> /\ \A n \in 1..m : f[n] = Longer(f[n - 1], n, viewer, events)
  BY <1>3
<1>5. QED
  BY <1>1, <1>4

\* Which events of a turn a player is shown.
LEMMA WhoSees ==
  ASSUME NEW events, NEW t, NEW c
  PROVE  /\ \A v \in Viewers : ~Visible(v, Advance(t), events)
         /\ Visible("BLUE", Dispatched(c), events) /\ ~Visible("RED", Dispatched(c), events)
         /\ ~Visible("BLUE", Attempted(c), events) /\ Visible("RED", Attempted(c), events)
         /\ c.type \in Terminals =>
              /\ Visible("BLUE", c, events)
              /\ Visible("RED", c, events) <=> c.route \in BlockedRoutes(events)
<1>1. /\ Advance(t).type = "TURN_ADVANCED" /\ Dispatched(c).type = "SUPPLY_DISPATCHED"
      /\ Attempted(c).type = "ROUTE_BLOCK_ATTEMPTED"
  BY DEF Advance, Dispatched, Attempted, Event
<1>2. QED
  BY <1>1 DEF Visible, Viewers, Terminals

\* The view of a batch of one to four events, unrolled.
LEMMA ViewOfFew ==
  ASSUME NEW viewer, NEW events, NEW m \in 1..4, Len(events) = m
  PROVE  LET L(out, n) == Longer(out, n, viewer, events) IN
         project_events(viewer, events)
           = CASE m = 1 -> L(<<>>, 1)
               [] m = 2 -> L(L(<<>>, 1), 2)
               [] m = 3 -> L(L(L(<<>>, 1), 2), 3)
               [] m = 4 -> L(L(L(L(<<>>, 1), 2), 3), 4)
<1> DEFINE L(out, n) == Longer(out, n, viewer, events)
<1>1. PICK f : /\ f[0] = <<>>
               /\ \A n \in 1..m : f[n] = L(f[n - 1], n)
               /\ project_events(viewer, events) = f[m]
  BY ViewStepByStep
<1> HIDE DEF L
<1>2. f[1] = L(<<>>, 1)
  <2>1. 1 \in 1..m /\ 1 - 1 = 0
    OBVIOUS
  <2>2. f[1] = L(f[1 - 1], 1)
    BY <1>1, <2>1
  <2>3. QED
    BY <1>1, <2>1, <2>2
<1>3. m > 1 => f[2] = L(L(<<>>, 1), 2)
  BY <1>1, <1>2
<1>4. m > 2 => f[3] = L(L(L(<<>>, 1), 2), 3)
  BY <1>1, <1>3
<1>5. m > 3 => f[4] = L(L(L(L(<<>>, 1), 2), 3), 4)
  BY <1>1, <1>4
<1>6. QED
  BY <1>1, <1>2, <1>3, <1>4, <1>5 DEF L

LEMMA AppendToNone ==
  ASSUME NEW a, NEW b
  PROVE  Append(<<>>, a) = <<a>> /\ Append(<<a>>, b) = <<a, b>>
<1>1. <<>> \in Seq({a, b}) /\ <<a>> \in Seq({a, b}) /\ <<a, b>> \in Seq({a, b})
  OBVIOUS
<1>2. Append(<<>>, a) = <<a>>
  <2>1. Append(<<>>, a) \in Seq({a, b}) /\ Len(Append(<<>>, a)) = 1 /\ Append(<<>>, a)[1] = a
    BY <1>1
  <2>2. QED
    BY <1>1, <2>1, SeqEqual
<1>3. Append(<<a>>, b) = <<a, b>>
  <2>1. /\ Append(<<a>>, b) \in Seq({a, b}) /\ Len(Append(<<a>>, b)) = 2
        /\ Append(<<a>>, b)[1] = a /\ Append(<<a>>, b)[2] = b
    BY <1>1
  <2>2. \A i \in 1..2 : Append(<<a>>, b)[i] = <<a, b>>[i]
    BY <2>1
  <2>3. QED
    BY <1>1, <2>1, <2>2, SeqEqual
<1>4. QED
  BY <1>2, <1>3

\* BLUE is shown its dispatch and the fate of it.
LEMMA BlueSees ==
  ASSUME NEW t, NEW d, NEW term, term.type \in Terminals, NEW events,
         \/ events = <<Dispatched(d), term, Advance(t)>>
         \/ \E b : events = <<Dispatched(d), Attempted(b), term, Advance(t)>>
  PROVE  project_events("BLUE", events) = <<Strip(Dispatched(d)), Strip(term)>>
<1> DEFINE L(out, n) == Longer(out, n, "BLUE", events)
<1>1. ASSUME events = <<Dispatched(d), term, Advance(t)>>
      PROVE  project_events("BLUE", events) = <<Strip(Dispatched(d)), Strip(term)>>
  <2>1. L(<<>>, 1) = <<Strip(Dispatched(d))>>
    BY <1>1, WhoSees, AppendToNone DEF Longer
  <2>2. L(<<Strip(Dispatched(d))>>, 2) = <<Strip(Dispatched(d)), Strip(term)>>
    BY <1>1, WhoSees, AppendToNone DEF Longer
  <2>3. \A out : L(out, 3) = out
    BY <1>1, WhoSees DEF Longer, Viewers
  <2>4. Len(events) = 3
    BY <1>1
  <2> HIDE DEF L
  <2>5. project_events("BLUE", events) = L(L(L(<<>>, 1), 2), 3)
    BY <2>4, ViewOfFew DEF L
  <2>6. QED
    BY <2>1, <2>2, <2>3, <2>5
<1>2. ASSUME NEW b, events = <<Dispatched(d), Attempted(b), term, Advance(t)>>
      PROVE  project_events("BLUE", events) = <<Strip(Dispatched(d)), Strip(term)>>
  <2>1. L(<<>>, 1) = <<Strip(Dispatched(d))>>
    BY <1>2, WhoSees, AppendToNone DEF Longer
  <2>2. L(<<Strip(Dispatched(d))>>, 3) = <<Strip(Dispatched(d)), Strip(term)>>
    BY <1>2, WhoSees, AppendToNone DEF Longer
  <2>3. \A out : L(out, 2) = out /\ L(out, 4) = out
    BY <1>2, WhoSees DEF Longer, Viewers
  <2>4. Len(events) = 4
    BY <1>2
  <2> HIDE DEF L
  <2>5. project_events("BLUE", events) = L(L(L(L(<<>>, 1), 2), 3), 4)
    BY <2>4, ViewOfFew DEF L
  <2>6. QED
    BY <2>1, <2>2, <2>3, <2>5
<1>3. QED
  BY <1>1, <1>2

LEMMA BlueSeesNothing ==
  ASSUME NEW t, NEW events,
         events = <<Advance(t)>> \/ \E b : events = <<Attempted(b), Advance(t)>>
  PROVE  project_events("BLUE", events) = <<>>
<1> DEFINE L(out, n) == Longer(out, n, "BLUE", events)
<1>1. ASSUME events = <<Advance(t)>>
      PROVE  project_events("BLUE", events) = <<>>
  <2>1. L(<<>>, 1) = <<>>
    BY <1>1, WhoSees DEF Longer, Viewers
  <2>2. Len(events) = 1
    BY <1>1
  <2>3. QED
    BY <2>1, <2>2, ViewOfFew
<1>2. ASSUME NEW b, events = <<Attempted(b), Advance(t)>>
      PROVE  project_events("BLUE", events) = <<>>
  <2>1. \A out : L(out, 1) = out /\ L(out, 2) = out
    BY <1>2, WhoSees DEF Longer, Viewers
  <2>2. Len(events) = 2
    BY <1>2
  <2> HIDE DEF L
  <2>3. project_events("BLUE", events) = L(L(<<>>, 1), 2)
    BY <2>2, ViewOfFew DEF L
  <2>4. QED
    BY <2>1, <2>3
<1>3. QED
  BY <1>1, <1>2

\* RED is shown its block, and of a supply on another route nothing.
LEMMA RedSees ==
  ASSUME NEW t, NEW b, NEW events,
         \/ events = <<Attempted(b), Advance(t)>>
         \/ \E d, term : /\ term.type \in Terminals /\ term.route # b.route
                         /\ events = <<Dispatched(d), Attempted(b), term, Advance(t)>>
  PROVE  project_events("RED", events) = <<Strip(Attempted(b))>>
<1> DEFINE L(out, n) == Longer(out, n, "RED", events)
<1>1. ASSUME events = <<Attempted(b), Advance(t)>>
      PROVE  project_events("RED", events) = <<Strip(Attempted(b))>>
  <2>1. L(<<>>, 1) = <<Strip(Attempted(b))>>
    BY <1>1, WhoSees, AppendToNone DEF Longer
  <2>2. \A out : L(out, 2) = out
    BY <1>1, WhoSees DEF Longer, Viewers
  <2>3. Len(events) = 2
    BY <1>1
  <2> HIDE DEF L
  <2>4. project_events("RED", events) = L(L(<<>>, 1), 2)
    BY <2>3, ViewOfFew DEF L
  <2>5. QED
    BY <2>1, <2>2, <2>4
<1>2. ASSUME NEW d, NEW term, term.type \in Terminals, term.route # b.route,
             events = <<Dispatched(d), Attempted(b), term, Advance(t)>>
      PROVE  project_events("RED", events) = <<Strip(Attempted(b))>>
  <2>1. L(<<>>, 2) = <<Strip(Attempted(b))>>
    BY <1>2, WhoSees, AppendToNone DEF Longer
  <2>2. BlockedRoutes(events) = {b.route}
    <3>1. /\ events[1].type = "SUPPLY_DISPATCHED" /\ events[2].type = "ROUTE_BLOCK_ATTEMPTED"
          /\ events[3].type \in Terminals /\ events[4].type = "TURN_ADVANCED"
          /\ events[2].route = b.route /\ DOMAIN events = 1..4
      BY <1>2 DEF Dispatched, Attempted, Advance, Event
    <3>2. At(events, {"ROUTE_BLOCK_ATTEMPTED"}) = {2}
      BY <3>1 DEF At, Terminals
    <3>3. QED
      BY <3>1, <3>2 DEF BlockedRoutes
  <2>3. ~Visible("RED", term, events)
    BY <1>2, <2>2 DEF Visible, Terminals
  <2>4. \A out : L(out, 1) = out /\ L(out, 3) = out /\ L(out, 4) = out
    BY <1>2, <2>3, WhoSees DEF Longer, Viewers
  <2>5. Len(events) = 4
    BY <1>2
  <2> HIDE DEF L
  <2>6. project_events("RED", events) = L(L(L(L(<<>>, 1), 2), 3), 4)
    BY <2>5, ViewOfFew DEF L
  <2>7. QED
    BY <2>1, <2>4, <2>6
<1>3. QED
  BY <1>1, <1>2

LEMMA RedSeesNothing ==
  ASSUME NEW t, NEW events,
         \/ events = <<Advance(t)>>
         \/ \E d, term : /\ term.type \in Terminals
                         /\ events = <<Dispatched(d), term, Advance(t)>>
  PROVE  project_events("RED", events) = <<>>
<1> DEFINE L(out, n) == Longer(out, n, "RED", events)
<1>1. ASSUME events = <<Advance(t)>>
      PROVE  project_events("RED", events) = <<>>
  <2>1. L(<<>>, 1) = <<>>
    BY <1>1, WhoSees DEF Longer, Viewers
  <2>2. Len(events) = 1
    BY <1>1
  <2>3. QED
    BY <2>1, <2>2, ViewOfFew
<1>2. ASSUME NEW d, NEW term, term.type \in Terminals,
             events = <<Dispatched(d), term, Advance(t)>>
      PROVE  project_events("RED", events) = <<>>
  <2>1. BlockedRoutes(events) = {}
    <3>1. /\ events[1].type = "SUPPLY_DISPATCHED" /\ events[2].type \in Terminals
          /\ events[3].type = "TURN_ADVANCED" /\ DOMAIN events = 1..3
      BY <1>2 DEF Dispatched, Advance, Event
    <3>2. At(events, {"ROUTE_BLOCK_ATTEMPTED"}) = {}
      BY <3>1 DEF At, Terminals
    <3>3. QED
      BY <3>2 DEF BlockedRoutes
  <2>2. \A out : L(out, 1) = out /\ L(out, 2) = out /\ L(out, 3) = out
    BY <1>2, <2>1, WhoSees DEF Longer, Viewers
  <2>3. Len(events) = 3
    BY <1>2
  <2> HIDE DEF L
  <2>4. project_events("RED", events) = L(L(L(<<>>, 1), 2), 3)
    BY <2>3, ViewOfFew DEF L
  <2>5. QED
    BY <2>2, <2>4
<1>3. QED
  BY <1>1, <1>2

\* A view holds visible events only, each without its draw.
LEMMA ViewsHoldVisible ==
  ASSUME NEW viewer, NEW events, NEW m \in Nat, Len(events) = m
  PROVE  project_events(viewer, events)
           \in Seq({Strip(events[j]) : j \in {j \in 1..m : Visible(viewer, events[j], events)}})
<1> DEFINE seen == {j \in 1..m : Visible(viewer, events[j], events)}
           S    == {Strip(events[j]) : j \in seen}
<1>1. PICK f : /\ f[0] = <<>>
               /\ \A n \in 1..m : f[n] = Longer(f[n - 1], n, viewer, events)
               /\ project_events(viewer, events) = f[m]
  BY ViewStepByStep
<1> DEFINE K == {n \in Nat : n <= m => f[n] \in Seq(S)}
<1>2. 0 \in K
  <2> HIDE DEF S
  <2>1. <<>> \in Seq(S)
    OBVIOUS
  <2>2. QED
    BY <1>1, <2>1
<1>3. ASSUME NEW n \in Nat, n \in K
      PROVE  n + 1 \in K
  <2> SUFFICES ASSUME n + 1 <= m
               PROVE  f[n + 1] \in Seq(S)
    OBVIOUS
  <2>1. f[n] \in Seq(S) /\ n + 1 \in 1..m /\ n + 1 - 1 = n
    BY <1>3
  <2>2. f[n + 1] = Longer(f[n], n + 1, viewer, events)
    BY <1>1, <2>1
  <2>3. CASE Visible(viewer, events[n + 1], events)
    <3>1. Strip(events[n + 1]) \in S
      BY <2>1, <2>3
    <3>2. f[n + 1] = Append(f[n], Strip(events[n + 1]))
      BY <2>2, <2>3 DEF Longer
    <3> HIDE DEF S
    <3>3. QED
      BY <2>1, <3>1, <3>2
  <2>4. CASE ~Visible(viewer, events[n + 1], events)
    BY <2>1, <2>2, <2>4 DEF Longer
  <2>5. QED
    BY <2>3, <2>4
<1>4. m \in K
  <2> HIDE DEF K
  <2>1. QED
    BY <1>2, <1>3, NatSetInduction
<1>5. QED
  BY <1>1, <1>4

(***************************************************************************)
(* Two states that differ in the values of their thresholds only: a view   *)
(* of a turn is the same from both, if the turn ends the same.             *)
(***************************************************************************)
Twins(s, u) ==
  /\ s \in State /\ u \in State
  /\ DOMAIN s.secret = DOMAIN u.secret
  /\ s.origin = u.origin /\ s.in_transit = u.in_transit /\ s.delivered = u.delivered
  /\ s.loss_sink = u.loss_sink /\ s.as_of_turn = u.as_of_turn

WithThresholds(s, x) == [s EXCEPT !.secret = [r \in DOMAIN @ |-> x]]

LEMMA TwinOfThresholds ==
  ASSUME NEW s \in State, NEW x \in D100
  PROVE  Twins(s, WithThresholds(s, x))
<1> DEFINE secret == [r \in DOMAIN s.secret |-> x]
           u      == WithThresholds(s, x)
<1>1. PICK R \in SUBSET Routes : s.secret \in [R -> 0..100]
  BY DEF State, Secret
<1>2. secret \in [R -> 0..100]
  BY <1>1 DEF D100
<1>3. secret \in Secret /\ DOMAIN secret = DOMAIN s.secret
  BY <1>2 DEF Secret
<1>4. u = [s EXCEPT !.secret = secret]
  BY DEF WithThresholds
<1> HIDE DEF secret
<1>5. /\ u \in State /\ u.secret = secret
      /\ s.origin = u.origin /\ s.in_transit = u.in_transit /\ s.delivered = u.delivered
      /\ s.loss_sink = u.loss_sink /\ s.as_of_turn = u.as_of_turn
  BY <1>3, <1>4 DEF State
<1>6. QED
  BY <1>3, <1>5 DEF Twins

LEMMA TwinsAccept ==
  ASSUME NEW s, NEW u, Twins(s, u), NEW cmds, Acceptable(cmds, s)
  PROVE  Acceptable(cmds, u)
<1>1. \A c : IsLegal(c, s) => IsLegal(c, u)
  BY DEF Twins, IsLegal, Breaks
<1>2. QED
  BY <1>1 DEF Acceptable

\* The pools after a turn, one by one.
LEMMA ReducedPools ==
  ASSUME NEW s \in State, NEW e
  PROVE  LET n == reduce(s, e) IN
         /\ n.origin = s.origin - Amount(e, {"SUPPLY_DISPATCHED"})
         /\ n.in_transit = s.in_transit + Amount(e, {"SUPPLY_DISPATCHED"}) - Amount(e, Terminals)
         /\ n.delivered = s.delivered + Amount(e, {"SUPPLY_DELIVERED"})
         /\ n.loss_sink = s.loss_sink + Amount(e, {"SUPPLY_LOST"})
         /\ n.as_of_turn = IF At(e, {"TURN_ADVANCED"}) = {} THEN s.as_of_turn
                           ELSE Amount(e, {"TURN_ADVANCED"})
         /\ n.secret = s.secret
BY DEF reduce, State

LEMMA TwinStates ==
  ASSUME NEW s, NEW u, Twins(s, u), NEW e
  PROVE  project_state(reduce(s, e)) = project_state(reduce(u, e))
<1> DEFINE n == reduce(s, e)
           m == reduce(u, e)
<1>1. s \in State /\ u \in State
  BY DEF Twins
<1>2. /\ n.origin = m.origin /\ n.in_transit = m.in_transit /\ n.delivered = m.delivered
      /\ n.loss_sink = m.loss_sink /\ n.as_of_turn = m.as_of_turn
      /\ DOMAIN n.secret = DOMAIN m.secret
  BY <1>1, ReducedPools DEF Twins
<1> HIDE DEF n, m
<1>3. QED
  BY <1>2 DEF project_state, n, m

LEMMA OutcomeOfTurn ==
  ASSUME NEW events, NEW i, At(events, Terminals) = {i}
  PROVE  outcome(events) = events[i].type
BY DEF outcome

LEMMA TwinFates ==
  ASSUME NEW s, NEW u, Twins(s, u), NEW cmds, Acceptable(cmds, s), NEW t, NEW roll,
         outcome(resolve(cmds, s, t, roll)) = outcome(resolve(cmds, u, t, roll))
  PROVE  resolve(cmds, s, t, roll) = resolve(cmds, u, t, roll)
<1> DEFINE e == resolve(cmds, s, t, roll)
           f == resolve(cmds, u, t, roll)
<1>1. Acceptable(cmds, u)
  BY TwinsAccept
<1>2. \A d \in Dispatches(cmds) : Terminal(d, cmds, s, t, roll) = Terminal(d, cmds, u, t, roll)
  <2>1. CASE Dispatches(cmds) = {}
    BY <2>1
  <2>2. ASSUME NEW d, Dispatches(cmds) = {d}
        PROVE  Terminal(d, cmds, s, t, roll) = Terminal(d, cmds, u, t, roll)
    <3>1. PICK i : At(e, Terminals) = {i} /\ e[i] = Terminal(d, cmds, s, t, roll)
      BY <2>2, TerminalOfTurn
    <3>2. PICK j : At(f, Terminals) = {j} /\ f[j] = Terminal(d, cmds, u, t, roll)
      BY <1>1, <2>2, TerminalOfTurn
    <3>3. outcome(e) = e[i].type /\ outcome(f) = f[j].type
      BY <3>1, <3>2, OutcomeOfTurn
    <3>4. Terminal(d, cmds, s, t, roll).type = Terminal(d, cmds, u, t, roll).type
      BY <3>1, <3>2, <3>3
    <3>5. Lost(d, cmds, s, t, roll) <=> Lost(d, cmds, u, t, roll)
      BY <3>4 DEF Terminal, Event
    <3>6. Contested(d, cmds, s) = Contested(d, cmds, u)
      BY DEF Contested, Twins
    <3>7. QED
      BY <3>5, <3>6, Zenon DEF Terminal
  <2>3. Dispatches(cmds) = {} \/ \E d : Dispatches(cmds) = {d}
    BY TerminalOfTurn
  <2>4. QED
    BY <2>1, <2>2, <2>3
<1>3. {Terminal(d, cmds, s, t, roll) : d \in Dispatches(cmds)}
        = {Terminal(d, cmds, u, t, roll) : d \in Dispatches(cmds)}
  BY <1>2
<1>4. QED
  BY <1>3, Zenon DEF resolve

(***************************************************************************)
(* The gate on one record the engine made.                                 *)
(***************************************************************************)
LEMMA EventsAreCounted ==
  ASSUME NEW s, NEW cmds, Acceptable(cmds, s), NEW t, NEW roll
  PROVE  Len(resolve(cmds, s, t, roll)) \in 1..4
<1>1. /\ \A c, d \in Dispatches(cmds) : c = d
      /\ \A c, d \in Blocks(cmds) : c = d
  BY DEF Acceptable, Dispatches, Blocks
<1> DEFINE events == resolve(cmds, s, t, roll)
<1>2. \E a, b, c, d : events \in {<<a>>, <<a, b>>, <<a, b, c>>, <<a, b, c, d>>}
  <2> HIDE DEF events
  <2>1. QED
    BY <1>1, ResolveShape DEF events
<1>3. \A a, b, c, d : /\ Len(<<a>>) = 1 /\ Len(<<a, b>>) = 2 /\ Len(<<a, b, c>>) = 3
                      /\ Len(<<a, b, c, d>>) = 4
  OBVIOUS
<1>4. QED
  BY <1>2, <1>3

\* The views that are compared have the same events and state.
LEMMA ThresholdsStayHidden ==
  ASSUME NEW rec, NEW t, NEW seed_, NEW roll, EngineMade(rec, t, seed_, roll), NEW draws,
         NEW x \in FogThresholds, NEW y \in FogThresholds, NEW viewer
  PROVE  LET a == reresolve(rec, x, draws)
             b == reresolve(rec, y, draws)
         IN  outcome(a.events) = outcome(b.events)
               => View(viewer, rec.turn, a) = View(viewer, rec.turn, b)
<1> DEFINE s     == rec.start_state
           cmds  == rec.command_batch
           other == draws[ReplaySeedOf(rec)]
           p     == WithThresholds(s, x)
           q     == WithThresholds(s, y)
           e     == resolve(cmds, p, t, other)
           f     == resolve(cmds, q, t, other)
           a     == reresolve(rec, x, draws)
           b     == reresolve(rec, y, draws)
<1>1. s \in State /\ s.as_of_turn = t /\ Acceptable(cmds, s) /\ rec.turn = t
  BY DEF EngineMade
<1>2. a = transition(p, BatchOf(cmds), t, other) /\ b = transition(q, BatchOf(cmds), t, other)
  BY <1>1 DEF reresolve, WithThresholds
<1> HIDE DEF s, cmds, other, a, b
<1>3. Twins(s, p) /\ Twins(s, q)
  BY <1>1, TwinOfThresholds, FogAssumption
<1> HIDE DEF p, q
<1>4. /\ Acceptable(cmds, p) /\ Acceptable(cmds, q) /\ Twins(p, q)
      /\ p \in State /\ q \in State /\ p.as_of_turn = t /\ q.as_of_turn = t
  <2>1. Acceptable(cmds, p) /\ Acceptable(cmds, q)
    BY <1>1, <1>3, TwinsAccept
  <2>2. QED
    BY <1>1, <1>3, <2>1 DEF Twins
<1>5. /\ a = [status |-> "resolved", events |-> e, state |-> reduce(p, e)]
      /\ b = [status |-> "resolved", events |-> f, state |-> reduce(q, f)]
  BY <1>2, <1>4, CommittedResolves
<1>6. /\ a.events = e /\ a.state = reduce(p, e)
      /\ b.events = f /\ b.state = reduce(q, f)
  BY <1>5
<1>7. ASSUME outcome(a.events) = outcome(b.events)
      PROVE  View(viewer, rec.turn, a) = View(viewer, rec.turn, b)
  <2>1. e = f
    BY <1>4, <1>6, <1>7, TwinFates
  <2> HIDE DEF e, f
  <2>2. project_state(a.state) = project_state(b.state) /\ a.events = b.events
    BY <1>4, <1>6, <2>1, TwinStates
  <2>3. QED
    BY <2>2, Zenon DEF View, project_turn_record
<1>8. QED
  BY <1>7 DEF a, b

LEMMA MadeIsFoggy ==
  ASSUME NEW rec, NEW t, NEW seed_, NEW roll, EngineMade(rec, t, seed_, roll), NEW draws,
         NEW viewer \in Viewers
  PROVE  leak_problems(viewer, rec, draws) = {}
<1> DEFINE events == rec.event_batch
           view   == project_turn_record(viewer, rec.turn, rec.resulting_state, events)
           redone == {<<outcome(out.events), View(viewer, rec.turn, out)>> :
                        out \in {reresolve(rec, x, draws) : x \in FogThresholds}}
<1>1. PICK m \in Nat : Len(events) = m
  <2>1. Acceptable(rec.command_batch, rec.start_state)
        /\ events = resolve(rec.command_batch, rec.start_state, t, roll)
    BY DEF EngineMade
  <2> HIDE DEF events
  <2>2. Len(events) \in 1..4
    BY <2>1, EventsAreCounted
  <2>3. Len(events) \in Nat
    BY <2>2
  <2>4. QED
    BY <2>3, Zenon
<1>2. view.events = project_events(viewer, events) /\ view.state = project_state(rec.resulting_state)
  BY DEF project_turn_record
<1>3. \A i \in DOMAIN view.events : \E j \in 1..m :
        Visible(viewer, events[j], events) /\ view.events[i] = Strip(events[j])
  <2> HIDE DEF events, view
  <2> DEFINE S == {Strip(events[j]) : j \in {j \in 1..m : Visible(viewer, events[j], events)}}
  <2>1. view.events \in Seq(S)
    BY <1>1, <1>2, ViewsHoldVisible
  <2>2. \A i \in DOMAIN view.events : view.events[i] \in S
    <3> HIDE DEF S
    <3>1. QED
      BY <2>1
  <2>3. QED
    BY <2>2
<1>4. ("secret" \in DOMAIN view.state) = FALSE
  <2>1. DOMAIN view.state = {"origin", "in_transit", "delivered", "loss_sink", "as_of_turn",
                             "blockable"}
    BY <1>2 DEF project_state
  <2> HIDE DEF view
  <2>2. QED
    BY <2>1
<1>5. (viewer = "BLUE" /\ At(view.events, {"ROUTE_BLOCK_ATTEMPTED"}) # {}) = FALSE
  <2> SUFFICES ASSUME viewer = "BLUE", NEW i \in At(view.events, {"ROUTE_BLOCK_ATTEMPTED"})
               PROVE  FALSE
    OBVIOUS
  <2> HIDE DEF events, view
  <2>1. i \in DOMAIN view.events /\ view.events[i].type = "ROUTE_BLOCK_ATTEMPTED"
    BY DEF At
  <2>2. PICK j \in 1..m : Visible(viewer, events[j], events) /\ view.events[i] = Strip(events[j])
    BY <1>3, <2>1
  <2>3. events[j].type = "ROUTE_BLOCK_ATTEMPTED"
    BY <2>1, <2>2 DEF Strip
  <2>4. QED
    BY <2>2, <2>3 DEF Visible, Terminals
<1>6. (\E i \in DOMAIN view.events : "drawn" \in DOMAIN view.events[i]) = FALSE
  <2> HIDE DEF events, view
  <2>1. \A e : DOMAIN Strip(e) = {"type", "route", "quantity"}
    BY DEF Strip
  <2>2. QED
    BY <1>3, <2>1
<1>7. (\E a, b \in redone : a[1] = b[1] /\ a # b) = FALSE
  <2> SUFFICES ASSUME NEW a \in redone, NEW b \in redone, a[1] = b[1]
               PROVE  a = b
    OBVIOUS
  <2> DEFINE out(x) == reresolve(rec, x, draws)
  <2>1. PICK x \in FogThresholds : a = <<outcome(out(x).events), View(viewer, rec.turn, out(x))>>
    OBVIOUS
  <2>2. PICK y \in FogThresholds : b = <<outcome(out(y).events), View(viewer, rec.turn, out(y))>>
    OBVIOUS
  <2>3. outcome(out(x).events) = outcome(out(y).events)
          => View(viewer, rec.turn, out(x)) = View(viewer, rec.turn, out(y))
    BY ThresholdsStayHidden
  <2> HIDE DEF out
  <2>4. QED
    BY <2>1, <2>2, <2>3
<1>8. leak_problems(viewer, rec, draws)
        = LET clear == [ route_secret_in_view |-> FALSE, opponent_action_in_view |-> FALSE,
                         draw_field_in_view |-> FALSE, threshold_leaks_into_view |-> FALSE ]
          IN  {code \in DOMAIN clear : clear[code]}
  BY <1>4, <1>5, <1>6, <1>7, Zenon DEF leak_problems
<1>9. QED
  BY <1>8

(***************************************************************************)
(* validate_agent_fog passes on every record of every campaign: the view   *)
(* of a turn has no threshold, no draw and no move of the other player in  *)
(* it, and no counterfactual threshold changes it without changing the     *)
(* turn's outcome.                                                         *)
(***************************************************************************)
THEOREM EveryRecordIsFoggy == Spec => []FogGatePasses
<1>1. RecordsInv => FogGatePasses
  <2> SUFFICES ASSUME RecordsInv, records # <<>>
               PROVE  validate_agent_fog(<<records[turn]>>, FALSE, oracle) = 0
    BY DEF FogGatePasses, validate_agent_fog
  <2> DEFINE rec == records[turn]
  <2>1. turn \in 1..Len(records)
    BY DEF RecordsInv, Chained, turn
  <2>2. EngineMade(rec, turn - 1, seed, oracle[seed])
    BY <2>1 DEF RecordsInv, Chained
  <2> HIDE DEF rec
  <2>3. \A v \in Viewers : leak_problems(v, rec, oracle) = {}
    BY <2>2, MadeIsFoggy
  <2>4. <<rec>> # <<>> /\ DOMAIN <<rec>> = {1} /\ <<rec>>[1] = rec
    OBVIOUS
  <2>5. validate_agent_fog(<<rec>>, FALSE, oracle) = 0
    BY <2>3, <2>4 DEF validate_agent_fog
  <2>6. QED
    BY <2>5 DEF rec
<1>2. QED
  BY <1>1, RecordsInvariant, PTL

(***************************************************************************)
(* What a turn that loses nothing does to the pools, and what each player  *)
(* is shown of it.                                                         *)
(***************************************************************************)
Pools(e, q, t) ==
  /\ Amount(e, {"SUPPLY_DISPATCHED"}) = q /\ Amount(e, Terminals) = q
  /\ Amount(e, {"SUPPLY_DELIVERED"}) = q /\ Amount(e, {"SUPPLY_LOST"}) = 0
  /\ At(e, {"TURN_ADVANCED"}) # {} /\ Amount(e, {"TURN_ADVANCED"}) = t + 1

LEMMA PoolsOfNone ==
  ASSUME NEW t, NEW e,
         e = <<Advance(t)>> \/ \E b : e = <<Attempted(b), Advance(t)>>
  PROVE  Pools(e, 0, t)
<1>1. PICK n \in 1..2 : /\ DOMAIN e = 1..n
                        /\ e[n].type = "TURN_ADVANCED" /\ e[n].quantity = t + 1
                        /\ \A i \in 1..n-1 : e[i].type = "ROUTE_BLOCK_ATTEMPTED"
  BY DEF Attempted, Advance, Event
<1>2. /\ At(e, {"TURN_ADVANCED"}) = {n} /\ At(e, {"SUPPLY_DISPATCHED"}) = {}
      /\ At(e, Terminals) = {} /\ At(e, {"SUPPLY_DELIVERED"}) = {}
      /\ At(e, {"SUPPLY_LOST"}) = {}
  BY <1>1 DEF At, Terminals
<1>3. Amount(e, {"TURN_ADVANCED"}) = t + 1
  BY <1>1, <1>2, AmountOfOnly
<1>4. QED
  BY <1>2, <1>3, AmountOfNone DEF Pools

LEMMA PoolsOfDelivered ==
  ASSUME NEW t, NEW d, NEW term, term.type = "SUPPLY_DELIVERED", term.quantity = d.quantity,
         NEW e,
         \/ e = <<Dispatched(d), term, Advance(t)>>
         \/ \E b : e = <<Dispatched(d), Attempted(b), term, Advance(t)>>
  PROVE  Pools(e, d.quantity, t)
<1>1. PICK n \in 3..4 : /\ DOMAIN e = 1..n /\ e[n-1] = term
                        /\ e[1].type = "SUPPLY_DISPATCHED" /\ e[1].quantity = d.quantity
                        /\ e[n].type = "TURN_ADVANCED" /\ e[n].quantity = t + 1
                        /\ \A i \in 2..n-2 : e[i].type = "ROUTE_BLOCK_ATTEMPTED"
  BY DEF Dispatched, Attempted, Advance, Event
<1>2. /\ At(e, {"TURN_ADVANCED"}) = {n} /\ At(e, {"SUPPLY_DISPATCHED"}) = {1}
      /\ At(e, Terminals) = {n-1} /\ At(e, {"SUPPLY_DELIVERED"}) = {n-1}
      /\ At(e, {"SUPPLY_LOST"}) = {}
  BY <1>1 DEF At, Terminals
<1>3. /\ Amount(e, {"TURN_ADVANCED"}) = t + 1
      /\ Amount(e, {"SUPPLY_DISPATCHED"}) = d.quantity
      /\ Amount(e, Terminals) = d.quantity
      /\ Amount(e, {"SUPPLY_DELIVERED"}) = d.quantity
  BY <1>1, <1>2, AmountOfOnly
<1>4. QED
  BY <1>2, <1>3, AmountOfNone DEF Pools

LEMMA SamePools ==
  ASSUME NEW s \in State, NEW t, NEW q, NEW e, NEW f, Pools(e, q, t), Pools(f, q, t)
  PROVE  project_state(reduce(s, e)) = project_state(reduce(s, f))
<1> DEFINE n == reduce(s, e)
           m == reduce(s, f)
<1>1. /\ n.origin = m.origin /\ n.in_transit = m.in_transit /\ n.delivered = m.delivered
      /\ n.loss_sink = m.loss_sink /\ n.as_of_turn = m.as_of_turn /\ n.secret = m.secret
  BY ReducedPools DEF Pools
<1> HIDE DEF n, m
<1>2. QED
  BY <1>1 DEF project_state, n, m

\* The terminal of a dispatch that was not lost.
Delivery(d) == [type |-> "SUPPLY_DELIVERED", route |-> d.route, quantity |-> d.quantity]

LEMMA QuietTurn ==
  ASSUME NEW s, NEW cmds, Acceptable(cmds, s), NEW t, NEW roll
  PROVE  LET e == resolve(cmds, s, t, roll) IN
         /\ Dispatches(cmds) = {} => Pools(e, 0, t) /\ project_events("BLUE", e) = <<>>
         /\ \A d \in Dispatches(cmds) : ~Lost(d, cmds, s, t, roll) =>
              /\ Pools(e, d.quantity, t)
              /\ project_events("BLUE", e) = <<Strip(Dispatched(d)), Delivery(d)>>
         /\ (\A d \in Dispatches(cmds), b \in Blocks(cmds) : d.route # b.route) =>
              /\ Blocks(cmds) = {} => project_events("RED", e) = <<>>
              /\ \A b \in Blocks(cmds) : project_events("RED", e) = <<Strip(Attempted(b))>>
<1> DEFINE e == resolve(cmds, s, t, roll)
           term(d) == Terminal(d, cmds, s, t, roll)
<1>1. /\ \A c, d \in Dispatches(cmds) : c = d
      /\ \A c, d \in Blocks(cmds) : c = d
  BY DEF Acceptable, Dispatches, Blocks
<1>2. \A d : /\ term(d).type \in Terminals /\ term(d).route = d.route
             /\ term(d).quantity = d.quantity
             /\ ~Lost(d, cmds, s, t, roll) =>
                  term(d).type = "SUPPLY_DELIVERED" /\ Strip(term(d)) = Delivery(d)
  BY DEF Terminal, Event, Terminals, Strip, Delivery
<1>3. ASSUME Dispatches(cmds) = {}
      PROVE  Pools(e, 0, t) /\ project_events("BLUE", e) = <<>>
  <2>1. e = <<Advance(t)>> \/ \E b : e = <<Attempted(b), Advance(t)>>
    BY <1>1, <1>3, ResolveShape
  <2> HIDE DEF e
  <2>2. QED
    BY <2>1, PoolsOfNone, BlueSeesNothing
<1>4. ASSUME NEW d \in Dispatches(cmds), ~Lost(d, cmds, s, t, roll)
      PROVE  /\ Pools(e, d.quantity, t)
             /\ project_events("BLUE", e) = <<Strip(Dispatched(d)), Delivery(d)>>
  <2>1. \/ e = <<Dispatched(d), term(d), Advance(t)>>
        \/ \E b : e = <<Dispatched(d), Attempted(b), term(d), Advance(t)>>
    BY <1>1, <1>4, ResolveShape
  <2>2. /\ term(d).type = "SUPPLY_DELIVERED" /\ term(d).quantity = d.quantity
        /\ term(d).type \in Terminals /\ Strip(term(d)) = Delivery(d)
    BY <1>2, <1>4
  <2> HIDE DEF e, term
  <2>3. QED
    BY <2>1, <2>2, PoolsOfDelivered, BlueSees
<1>5. ASSUME \A d \in Dispatches(cmds), b \in Blocks(cmds) : d.route # b.route
      PROVE  /\ Blocks(cmds) = {} => project_events("RED", e) = <<>>
             /\ \A b \in Blocks(cmds) : project_events("RED", e) = <<Strip(Attempted(b))>>
  <2>1. \/ /\ Blocks(cmds) = {}
           /\ \/ e = <<Advance(t)>>
              \/ \E d : e = <<Dispatched(d), term(d), Advance(t)>>
        \/ \E b \in Blocks(cmds) :
              \/ e = <<Attempted(b), Advance(t)>>
              \/ \E d \in Dispatches(cmds) :
                   e = <<Dispatched(d), Attempted(b), term(d), Advance(t)>>
    BY <1>1, ResolveShape
  <2> HIDE DEF e, term
  <2>2. CASE Blocks(cmds) = {}
    <3>1. \/ e = <<Advance(t)>>
          \/ \E d, c : c.type \in Terminals /\ e = <<Dispatched(d), c, Advance(t)>>
      BY <1>2, <2>1, <2>2
    <3>2. QED
      BY <2>2, <3>1, RedSeesNothing
  <2>3. ASSUME NEW b \in Blocks(cmds)
        PROVE  project_events("RED", e) = <<Strip(Attempted(b))>>
    <3>1. \/ e = <<Attempted(b), Advance(t)>>
          \/ \E d, c : /\ c.type \in Terminals /\ c.route # b.route
                       /\ e = <<Dispatched(d), Attempted(b), c, Advance(t)>>
      BY <1>1, <1>2, <1>5, <2>1
    <3>2. QED
      BY <3>1, RedSees
  <2>4. QED
    BY <2>2, <2>3
<1>6. QED
  BY <1>3, <1>4, <1>5

(***************************************************************************)
(* What a player can do: BLUE dispatches, RED blocks, on a route of the    *)
(* board.  The moves of a turn are those of BLUE and those of RED.         *)
(***************************************************************************)
LEMMA LegalMoves ==
  ASSUME NEW s, NEW c, IsLegal(c, s)
  PROVE  /\ c.actor \in {"BLUE", "RED"} /\ c.route \in Routes
         /\ c.actor = "BLUE" => c.action = "DISPATCH_SUPPLY"
         /\ c.actor = "RED" => c.action = "BLOCK_ROUTE"
<1>1. /\ ~Breaks("unknown-actor", c, s) /\ ~Breaks("role-action-mismatch", c, s)
      /\ ~Breaks("unknown-route", c, s) /\ ~Breaks("invalid-enum", c, s)
  BY DEF IsLegal, LegalityCodes
<1>2. c.actor \in Actors /\ c.action \in Actions
  BY <1>1 DEF Breaks
<1>3. ActionOf[c.actor] = c.action /\ c.route \in Routes
  BY <1>1, <1>2 DEF Breaks
<1>4. QED
  BY <1>2, <1>3 DEF Actors, ActionOf

Reds(cmds) == {c \in cmds : c.actor = "RED"}

LEMMA MovesOfTurn ==
  ASSUME NEW s, NEW cmds, Acceptable(cmds, s)
  PROVE  /\ Blocks(cmds) = Reds(cmds) /\ Dispatches(cmds) = cmds \ Reds(cmds)
         /\ \A c \in cmds : c.route \in Routes
<1>1. \A c \in cmds : IsLegal(c, s)
  BY DEF Acceptable
<1>2. \A c \in cmds : /\ c.actor \in {"BLUE", "RED"} /\ c.route \in Routes
                      /\ c.actor = "BLUE" => c.action = "DISPATCH_SUPPLY"
                      /\ c.actor = "RED" => c.action = "BLOCK_ROUTE"
  BY <1>1, LegalMoves
<1>3. QED
  BY <1>2 DEF Blocks, Dispatches, Reds

\* BLUE alone.
LEMMA WithoutReds ==
  ASSUME NEW s, NEW cmds, Acceptable(cmds, s)
  PROVE  LET blue == cmds \ Reds(cmds) IN
         /\ Acceptable(blue, s)
         /\ Dispatches(blue) = Dispatches(cmds) /\ Blocks(blue) = {}
<1> DEFINE blue == cmds \ Reds(cmds)
<1>1. blue \subseteq cmds
  OBVIOUS
<1>2. Acceptable(blue, s)
  BY <1>1, FS_Subset DEF Acceptable
<1>3. QED
  BY <1>2 DEF Dispatches, Blocks, Reds

\* The same moves, with BLUE's on another route.
LEMMA Rerouting ==
  ASSUME NEW s, NEW cmds, Acceptable(cmds, s), NEW r \in Routes
  PROVE  LET blue  == cmds \ Reds(cmds)
             moved == {[c EXCEPT !.route = r] : c \in blue}
             other == Reds(cmds) \cup moved
         IN  /\ Acceptable(other, s)
             /\ Blocks(other) = Blocks(cmds) /\ Dispatches(other) = moved
<1> DEFINE blue  == cmds \ Reds(cmds)
           moved == {[c EXCEPT !.route = r] : c \in blue}
           other == Reds(cmds) \cup moved
<1>1. /\ IsFiniteSet(cmds) /\ cmds \subseteq Command /\ \A c \in cmds : IsLegal(c, s)
      /\ \A c, d \in cmds : c.actor = d.actor => c = d
  BY DEF Acceptable
<1>2. ASSUME NEW c \in blue
      PROVE  LET m == [c EXCEPT !.route = r] IN
             /\ m \in Command /\ IsLegal(m, s) /\ m.actor = c.actor /\ m.action = c.action
  <2> DEFINE m == [c EXCEPT !.route = r]
  <2>1. c \in Command /\ IsLegal(c, s)
    BY <1>1
  <2>2. /\ m \in Command /\ m.actor = c.actor /\ m.action = c.action
        /\ m.quantity = c.quantity /\ m.route = r
    BY <2>1 DEF Command
  <2> HIDE DEF m
  <2>3. \A i \in DOMAIN LegalityCodes : ~Breaks(LegalityCodes[i], m, s)
    BY <2>1, <2>2 DEF IsLegal, Breaks
  <2>4. QED
    BY <2>2, <2>3 DEF m, IsLegal
<1>3. \A c \in blue : c.actor = "BLUE" /\ c.action = "DISPATCH_SUPPLY"
  BY <1>1, LegalMoves DEF Reds
<1>4. /\ \A c \in Reds(cmds) : c.actor = "RED" /\ c.action = "BLOCK_ROUTE"
      /\ Reds(cmds) \subseteq cmds
  BY <1>1, LegalMoves DEF Reds
<1>5. moved = {} \/ \E c \in blue : blue = {c} /\ moved = {[c EXCEPT !.route = r]}
  <2>1. CASE blue = {}
    BY <2>1
  <2>2. ASSUME NEW c \in blue
        PROVE  blue = {c} /\ moved = {[c EXCEPT !.route = r]}
    <3>1. blue = {c}
      BY <1>1, <1>3
    <3> HIDE DEF blue
    <3>2. QED
      BY <3>1
  <2>3. QED
    BY <2>1, <2>2
<1>6. /\ moved \subseteq Command
      /\ \A m \in moved : IsLegal(m, s) /\ m.actor = "BLUE" /\ m.action = "DISPATCH_SUPPLY"
  BY <1>2, <1>3
<1>7. IsFiniteSet(moved) /\ \A c, d \in moved : c = d
  <2> HIDE DEF moved
  <2>1. moved = {} \/ \E m : moved = {m}
    BY <1>5
  <2>2. \A m : IsFiniteSet({m})
    BY FS_Singleton
  <2>3. QED
    BY <2>1, <2>2, FS_EmptySet
<1>8. IsFiniteSet(other)
  BY <1>1, <1>4, <1>7, FS_Subset, FS_Union
<1> HIDE DEF moved
<1>9. Acceptable(other, s)
  BY <1>1, <1>4, <1>6, <1>7, <1>8 DEF Acceptable
<1>10. Blocks(other) = Reds(cmds) /\ Dispatches(other) = moved
  BY <1>4, <1>6 DEF Blocks, Dispatches
<1>11. QED
  BY <1>9, <1>10, MovesOfTurn DEF moved

(***************************************************************************)
(* Two batches a player cannot tell apart.                                 *)
(***************************************************************************)
SameView(viewer, s, t, e, f) ==
  /\ project_events(viewer, e) = project_events(viewer, f)
  /\ project_state(reduce(s, e)) = project_state(reduce(s, f))

\* BLUE: the same dispatch, lost in neither.
LEMMA BlueCannotTell ==
  ASSUME NEW s \in State, NEW t, NEW roll,
         NEW cmds, Acceptable(cmds, s), NEW other, Acceptable(other, s),
         Dispatches(cmds) = Dispatches(other),
         \A d \in Dispatches(cmds) : ~Lost(d, cmds, s, t, roll) /\ ~Lost(d, other, s, t, roll)
  PROVE  SameView("BLUE", s, t, resolve(cmds, s, t, roll), resolve(other, s, t, roll))
<1> DEFINE e == resolve(cmds, s, t, roll)
           f == resolve(other, s, t, roll)
<1>1. CASE Dispatches(cmds) = {}
  <2>1. /\ Pools(e, 0, t) /\ project_events("BLUE", e) = <<>>
        /\ Pools(f, 0, t) /\ project_events("BLUE", f) = <<>>
    BY <1>1, QuietTurn
  <2> HIDE DEF e, f
  <2>2. SameView("BLUE", s, t, e, f)
    BY <2>1, SamePools DEF SameView
  <2>3. QED
    BY <2>2 DEF e, f
<1>2. ASSUME NEW d \in Dispatches(cmds)
      PROVE  SameView("BLUE", s, t, e, f)
  <2> DEFINE shown == <<Strip(Dispatched(d)), Delivery(d)>>
  <2>1. /\ Pools(e, d.quantity, t) /\ project_events("BLUE", e) = shown
        /\ Pools(f, d.quantity, t) /\ project_events("BLUE", f) = shown
    BY <1>2, QuietTurn
  <2> HIDE DEF e, f, shown
  <2>2. QED
    BY <2>1, SamePools DEF SameView
<1>3. QED
  BY <1>1, <1>2

\* RED: the same block, and a supply of the same size on a route it does not meet.
LEMMA RedCannotTell ==
  ASSUME NEW s \in State, NEW t, NEW roll,
         NEW cmds, Acceptable(cmds, s), NEW other, Acceptable(other, s),
         Blocks(cmds) = Blocks(other),
         \A d \in Dispatches(cmds) \cup Dispatches(other), b \in Blocks(cmds) : d.route # b.route,
         \/ Dispatches(cmds) = {} /\ Dispatches(other) = {}
         \/ \E d \in Dispatches(cmds), c \in Dispatches(other) : d.quantity = c.quantity
  PROVE  SameView("RED", s, t, resolve(cmds, s, t, roll), resolve(other, s, t, roll))
<1> DEFINE e == resolve(cmds, s, t, roll)
           f == resolve(other, s, t, roll)
<1>1. project_events("RED", e) = project_events("RED", f)
  <2>1. /\ Blocks(cmds) = {} => project_events("RED", e) = <<>>
        /\ \A b \in Blocks(cmds) : project_events("RED", e) = <<Strip(Attempted(b))>>
    BY QuietTurn
  <2>2. /\ Blocks(cmds) = {} => project_events("RED", f) = <<>>
        /\ \A b \in Blocks(cmds) : project_events("RED", f) = <<Strip(Attempted(b))>>
    BY QuietTurn
  <2> HIDE DEF e, f
  <2>3. QED
    BY <2>1, <2>2
<1>2. \E q : Pools(e, q, t) /\ Pools(f, q, t)
  <2>1. CASE Dispatches(cmds) = {} /\ Dispatches(other) = {}
    BY <2>1, QuietTurn
  <2>2. ASSUME NEW d \in Dispatches(cmds), NEW c \in Dispatches(other), d.quantity = c.quantity
        PROVE  \E q : Pools(e, q, t) /\ Pools(f, q, t)
    <3>1. ~Lost(d, cmds, s, t, roll) /\ ~Lost(c, other, s, t, roll)
      BY DEF Lost, Contested
    <3>2. Pools(e, d.quantity, t) /\ Pools(f, c.quantity, t)
      BY <3>1, QuietTurn
    <3> HIDE DEF e, f
    <3>3. QED
      BY <2>2, <3>2
  <2>3. QED
    BY <2>1, <2>2
<1> HIDE DEF e, f
<1>3. SameView("RED", s, t, e, f)
  BY <1>1, <1>2, SamePools DEF SameView
<1>4. QED
  BY <1>3 DEF e, f

\* A resolved turn's view in terms of its events.
LEMMA SameViewsShow ==
  ASSUME NEW viewer, NEW s, NEW t, NEW a, NEW b, NEW e, NEW f,
         a.events = e, a.state = reduce(s, e), b.events = f, b.state = reduce(s, f),
         SameView(viewer, s, t, e, f)
  PROVE  View(viewer, t, a) = View(viewer, t, b)
BY Zenon DEF SameView, View, project_turn_record

(***************************************************************************)
(* One record the engine made, seen by each player.                        *)
(***************************************************************************)
Seen(rec) == [status |-> "resolved", state |-> rec.resulting_state, events |-> rec.event_batch]
Had(rec, batch, roll) == transition(rec.start_state, batch, rec.turn, roll)

LEMMA BlueSeesEffect ==
  ASSUME NEW rec, NEW t, NEW seed_, NEW roll, EngineMade(rec, t, seed_, roll),
         outcome(rec.event_batch) # "SUPPLY_LOST"
  PROVE  View("BLUE", rec.turn, Seen(rec))
           = View("BLUE", rec.turn, Had(rec, BatchOf(rec.command_batch \ Reds(rec.command_batch)), roll))
<1> DEFINE s    == rec.start_state
           cmds == rec.command_batch
           blue == cmds \ Reds(cmds)
           e    == resolve(cmds, s, t, roll)
           f    == resolve(blue, s, t, roll)
           a    == Seen(rec)
           b    == Had(rec, BatchOf(blue), roll)
<1>1. /\ s \in State /\ s.as_of_turn = t /\ Acceptable(cmds, s) /\ rec.turn = t
      /\ rec.event_batch = e /\ rec.resulting_state = reduce(s, e)
  BY DEF EngineMade
<1>2. a.events = e /\ a.state = reduce(s, e)
  BY <1>1 DEF Seen
<1>3. b = transition(s, BatchOf(blue), t, roll)
  BY <1>1 DEF Had
<1> HIDE DEF s, cmds, a, b
<1>4. Acceptable(blue, s) /\ Dispatches(cmds) = Dispatches(blue) /\ Blocks(blue) = {}
  BY <1>1, WithoutReds
<1> HIDE DEF blue
<1>5. b.events = f /\ b.state = reduce(s, f)
  <2>1. b = [status |-> "resolved", events |-> f, state |-> reduce(s, f)]
    BY <1>1, <1>3, <1>4, CommittedResolves
  <2>2. QED
    BY <2>1
<1>6. \A d \in Dispatches(cmds) : ~Lost(d, cmds, s, t, roll)
  <2> SUFFICES ASSUME NEW d \in Dispatches(cmds), Lost(d, cmds, s, t, roll)
               PROVE  FALSE
    OBVIOUS
  <2>1. PICK i : At(e, Terminals) = {i} /\ e[i] = Terminal(d, cmds, s, t, roll)
    BY <1>1, TerminalOfTurn
  <2>2. e[i].type = "SUPPLY_LOST"
    BY <2>1 DEF Terminal, Event
  <2> HIDE DEF e
  <2>3. outcome(e) = "SUPPLY_LOST"
    BY <2>1, <2>2, OutcomeOfTurn
  <2>4. QED
    BY <1>1, <2>3
<1>7. \A d \in Dispatches(cmds) : ~Lost(d, blue, s, t, roll)
  BY <1>4 DEF Lost, Contested
<1>8. SameView("BLUE", s, t, e, f)
  BY <1>1, <1>4, <1>6, <1>7, BlueCannotTell
<1> HIDE DEF e, f
<1>9. View("BLUE", t, a) = View("BLUE", t, b)
  BY <1>2, <1>5, <1>8, SameViewsShow
<1>10. QED
  BY <1>1, <1>9 DEF a, b, blue, cmds

LEMMA RedSeesEffect ==
  ASSUME NEW rec, NEW t, NEW seed_, NEW roll, EngineMade(rec, t, seed_, roll),
         NEW r \in Routes,
         \A c \in Reds(rec.command_batch) : c.route # r,
         \A c \in rec.command_batch \ Reds(rec.command_batch), b \in Reds(rec.command_batch) :
           c.route # b.route
  PROVE  LET reds == Reds(rec.command_batch)
             blue == rec.command_batch \ reds
         IN  View("RED", rec.turn, Seen(rec))
               = View("RED", rec.turn,
                      Had(rec, BatchOf(reds \cup {[c EXCEPT !.route = r] : c \in blue}), roll))
<1> DEFINE s     == rec.start_state
           cmds  == rec.command_batch
           moved == {[c EXCEPT !.route = r] : c \in cmds \ Reds(cmds)}
           other == Reds(cmds) \cup moved
           e     == resolve(cmds, s, t, roll)
           f     == resolve(other, s, t, roll)
           a     == Seen(rec)
           b     == Had(rec, BatchOf(other), roll)
<1>1. /\ s \in State /\ s.as_of_turn = t /\ Acceptable(cmds, s) /\ rec.turn = t
      /\ rec.event_batch = e /\ rec.resulting_state = reduce(s, e)
  BY DEF EngineMade
<1>2. a.events = e /\ a.state = reduce(s, e)
  BY <1>1 DEF Seen
<1>3. b = transition(s, BatchOf(other), t, roll)
  BY <1>1 DEF Had
<1>4. /\ \A c \in Reds(cmds) : c.route # r
      /\ \A c \in cmds \ Reds(cmds), x \in Reds(cmds) : c.route # x.route
  OBVIOUS
<1> HIDE DEF s, cmds, a, b
<1>5. Acceptable(other, s) /\ Blocks(other) = Blocks(cmds) /\ Dispatches(other) = moved
  BY <1>1, Rerouting
<1>6. Blocks(cmds) = Reds(cmds) /\ Dispatches(cmds) = cmds \ Reds(cmds)
  BY <1>1, MovesOfTurn
<1> HIDE DEF other
<1>7. b.events = f /\ b.state = reduce(s, f)
  <2>1. b = [status |-> "resolved", events |-> f, state |-> reduce(s, f)]
    BY <1>1, <1>3, <1>5, CommittedResolves
  <2>2. QED
    BY <2>1
<1>8. \A c \in cmds : [c EXCEPT !.route = r].route = r /\ [c EXCEPT !.route = r].quantity = c.quantity
  BY <1>1 DEF Acceptable, Command
<1>9. \A d \in Dispatches(cmds) \cup Dispatches(other), x \in Blocks(cmds) : d.route # x.route
  BY <1>4, <1>5, <1>6, <1>8
<1>10. \/ Dispatches(cmds) = {} /\ Dispatches(other) = {}
       \/ \E d \in Dispatches(cmds), c \in Dispatches(other) : d.quantity = c.quantity
  <2>1. CASE cmds \ Reds(cmds) = {}
    BY <1>5, <1>6, <2>1
  <2>2. ASSUME NEW d \in cmds \ Reds(cmds)
        PROVE  \E x \in Dispatches(cmds), c \in Dispatches(other) : x.quantity = c.quantity
    <3>1. d \in Dispatches(cmds) /\ [d EXCEPT !.route = r] \in Dispatches(other)
      BY <1>5, <1>6
    <3>2. d.quantity = [d EXCEPT !.route = r].quantity
      BY <1>8
    <3>3. QED
      BY <3>1, <3>2, Zenon
  <2>3. QED
    BY <2>1, <2>2
<1>11. SameView("RED", s, t, e, f)
  BY <1>1, <1>5, <1>9, <1>10, RedCannotTell
<1> HIDE DEF e, f
<1>12. View("RED", t, a) = View("RED", t, b)
  BY <1>2, <1>7, <1>11, SameViewsShow
<1>13. QED
  BY <1>1, <1>12 DEF a, b, other, cmds

(***************************************************************************)
(* resolve and project_turn_record: a player learns of the other's move    *)
(* from its effect alone.  A turn whose supply was not lost looks to BLUE  *)
(* as if RED had done nothing, and a supply that met no block looks to RED *)
(* the same whichever unblocked route it took.                             *)
(***************************************************************************)
THEOREM MovesAreHidden == Spec => []MovesStayHidden
<1>1. RecordsInv => MovesStayHidden
  <2> SUFFICES ASSUME RecordsInv, records # <<>>
               PROVE  MovesStayHidden
    BY DEF MovesStayHidden
  <2> DEFINE rec  == records[turn]
             reds == Reds(rec.command_batch)
             blue == rec.command_batch \ reds
             roll == oracle[seed]
             Rerouted(r) == {[c EXCEPT !.route = r] : c \in blue}
  <2>1. turn \in 1..Len(records)
    BY DEF RecordsInv, Chained, turn
  <2>2. EngineMade(rec, turn - 1, seed, roll)
    BY <2>1 DEF RecordsInv, Chained
  <2> HIDE DEF rec
  <2>3. ASSUME outcome(rec.event_batch) # "SUPPLY_LOST"
        PROVE  View("BLUE", rec.turn, Seen(rec))
                 = View("BLUE", rec.turn, Had(rec, BatchOf(blue), roll))
    BY <2>2, <2>3, BlueSeesEffect
  <2>4. ASSUME {c.route : c \in blue} \subseteq Routes \ {c.route : c \in reds},
               NEW r \in Routes \ {c.route : c \in reds}
        PROVE  View("RED", rec.turn, Seen(rec))
                 = View("RED", rec.turn, Had(rec, BatchOf(reds \cup Rerouted(r)), roll))
    <3>1. /\ \A c \in reds : c.route # r
          /\ \A c \in blue, b \in reds : c.route # b.route
      BY <2>4
    <3>2. QED
      BY <2>2, <3>1, RedSeesEffect
  <2>5. QED
    BY <2>3, <2>4, Zenon DEF MovesStayHidden, Otherwise, Seen, Had, Reds, rec
<1>2. QED
  BY <1>1, RecordsInvariant, PTL

-----------------------------------------------------------------------------
(***************************************************************************)
(* The contexts compiled from a state directory that loads.  All items are *)
(* one sequence without repetition, so the files they come from are apart. *)
(***************************************************************************)
\* The items of a partition, file by file: the public one, then each private
\* one at some place.
ItemSeqs(p) == [i \in DOMAIN Files(p) |-> Files(p)[i].items]

IsPartition(p) ==
  /\ p.public \in Doc
  /\ IsFiniteSet(DOMAIN p.private)
  /\ \A o \in DOMAIN p.private : p.private[o] \in Doc

LEMMA FilesOfPartition ==
  ASSUME NEW p, IsPartition(p)
  PROVE  LET n == Cardinality(DOMAIN p.private) + 1
             q == ItemSeqs(p)
         IN  /\ q \in Seq(Seq(Items)) /\ Len(q) = n /\ 1 \in 1..n
             /\ q[1] = p.public.items
             /\ \A i \in 1..n : i # 1 =>
                  \E o \in DOMAIN p.private : q[i] = p.private[o].items
             /\ \A o \in DOMAIN p.private : \E i \in 2..n : q[i] = p.private[o].items
             /\ \A o, u \in DOMAIN p.private : o # u =>
                  \E i, j \in 2..n : i # j /\ q[i] = p.private[o].items /\ q[j] = p.private[u].items
<1> DEFINE O == DOMAIN p.private
           m == Cardinality(O)
           s == SetToSeq(O)
           rest == [i \in 1..m |-> p.private[s[i]]]
           q == ItemSeqs(p)
<1>1. /\ s \in [1..m -> O] /\ m \in Nat /\ IsInjective(s) /\ ToSet(s) = O
  BY SetInOrder DEF IsPartition
<1>2. Files(p) = <<p.public>> \o rest
  BY DEF Files
<1> HIDE DEF s, m
<1>3. rest \in Seq(Doc) /\ Len(rest) = m /\ DOMAIN rest = 1..m /\ p.public \in Doc
  <2>1. \A i \in 1..m : p.private[s[i]] \in Doc
    BY <1>1 DEF IsPartition
  <2>2. QED
    BY <1>1, <2>1 DEF IsPartition
<1>4. \A i \in 1..m : rest[i] = p.private[s[i]]
  OBVIOUS
<1> HIDE DEF rest
<1>5. /\ Files(p) \in Seq(Doc) /\ Len(Files(p)) = m + 1 /\ DOMAIN Files(p) = 1..m + 1
      /\ Files(p)[1] = p.public
      /\ \A i \in 1..m : Files(p)[i + 1] = rest[i]
  BY <1>1, <1>2, <1>3
<1>6. /\ q \in Seq(Seq(Items)) /\ Len(q) = m + 1
      /\ \A i \in 1..m + 1 : q[i] = Files(p)[i].items
  <2>1. \A i \in 1..m + 1 : Files(p)[i].items \in Seq(Items)
    <3>1. \A i \in 1..m + 1 : Files(p)[i] \in Doc
      BY <1>5
    <3>2. QED
      BY <3>1 DEF Doc
  <2>2. q = [i \in 1..m + 1 |-> Files(p)[i].items] /\ m + 1 \in Nat
    BY <1>1, <1>5 DEF ItemSeqs
  <2>3. QED
    BY <2>1, <2>2
<1> HIDE DEF q
<1>7. 1 \in 1..m + 1 /\ q[1] = p.public.items
  BY <1>1, <1>5, <1>6
<1>8. \A i \in 1..m : i + 1 \in 2..m + 1 /\ i + 1 \in 1..m + 1 /\ q[i + 1] = p.private[s[i]].items
  BY <1>1, <1>4, <1>5, <1>6
<1>9. ASSUME NEW i \in 1..m + 1, i # 1
      PROVE  \E o \in O : q[i] = p.private[o].items
  <2>1. i - 1 \in 1..m /\ (i - 1) + 1 = i
    BY <1>1, <1>9
  <2>2. s[i - 1] \in O /\ q[i] = p.private[s[i - 1]].items
    BY <1>1, <1>8, <2>1
  <2>3. QED
    BY <2>2
<1>10. ASSUME NEW o \in O
       PROVE  \E i \in 1..m : s[i] = o
  BY <1>1 DEF ToSet
<1>11. \A o \in O : \E i \in 2..m + 1 : q[i] = p.private[o].items
  BY <1>8, <1>10
<1>12. ASSUME NEW o \in O, NEW u \in O, o # u
       PROVE  \E i, j \in 2..m + 1 : i # j /\ q[i] = p.private[o].items /\ q[j] = p.private[u].items
  <2>1. PICK i \in 1..m : s[i] = o
    BY <1>10
  <2>2. PICK j \in 1..m : s[j] = u
    BY <1>10
  <2>3. i + 1 # j + 1
    BY <1>1, <1>12, <2>1, <2>2
  <2>4. QED
    BY <1>8, <2>1, <2>2, <2>3
<1>13. QED
  BY <1>6, <1>7, <1>9, <1>11, <1>12 DEF m, q

\* A directory that loads: the files are apart, and their items are all items.
LEMMA LoadedIsApart ==
  ASSUME NEW p, IsPartition(p), NEW agents, load_partition(p, agents)
  PROVE  /\ \A o \in DOMAIN p.private : ToSet(p.public.items) \cap ToSet(p.private[o].items) = {}
         /\ \A o, u \in DOMAIN p.private : o # u =>
              ToSet(p.private[o].items) \cap ToSet(p.private[u].items) = {}
         /\ ToSet(ItemsOf(Files(p)))
              = ToSet(p.public.items) \cup UNION {ToSet(p.private[o].items) : o \in DOMAIN p.private}
         /\ IsInjective(ItemsOf(Files(p)))
<1> DEFINE n == Cardinality(DOMAIN p.private) + 1
           q == ItemSeqs(p)
           x == FlattenSeq(q)
<1>1. /\ q \in Seq(Seq(Items)) /\ Len(q) = n /\ 1 \in 1..n
      /\ q[1] = p.public.items
      /\ \A i \in 1..n : i # 1 => \E o \in DOMAIN p.private : q[i] = p.private[o].items
      /\ \A o \in DOMAIN p.private : \E i \in 2..n : q[i] = p.private[o].items
      /\ \A o, u \in DOMAIN p.private : o # u =>
           \E i, j \in 2..n : i # j /\ q[i] = p.private[o].items /\ q[j] = p.private[u].items
  BY FilesOfPartition
<1>2. ItemsOf(Files(p)) = x
  BY DEF ItemsOf, ItemSeqs
<1>3. IsInjective(x)
  BY <1>2 DEF load_partition
<1> HIDE DEF n, q
<1>4. FlatUpTo(Items, q, x, n)
  BY <1>1, FlattenElements
<1>5. ToSet(x) = UNION {ToSet(q[i]) : i \in 1..n} /\ Apart(q, n)
  BY <1>3, <1>4 DEF FlatUpTo
<1> HIDE DEF x
<1>6. \A i \in 2..n : i \in 1..n /\ i # 1
  OBVIOUS
<1>7. ASSUME NEW o \in DOMAIN p.private
      PROVE  ToSet(p.public.items) \cap ToSet(p.private[o].items) = {}
  <2>1. PICK i \in 2..n : q[i] = p.private[o].items
    BY <1>1
  <2>2. i \in 1..n /\ i # 1 /\ 1 \in 1..n
    BY <1>1, <1>6
  <2>3. ToSet(q[1]) \cap ToSet(q[i]) = {}
    BY <1>5, <2>2 DEF Apart
  <2>4. QED
    BY <1>1, <2>1, <2>3
<1>8. ASSUME NEW o \in DOMAIN p.private, NEW u \in DOMAIN p.private, o # u
      PROVE  ToSet(p.private[o].items) \cap ToSet(p.private[u].items) = {}
  <2>1. PICK i, j \in 2..n : i # j /\ q[i] = p.private[o].items /\ q[j] = p.private[u].items
    BY <1>1, <1>8
  <2>2. i \in 1..n /\ j \in 1..n
    BY <1>6
  <2>3. QED
    BY <1>5, <2>1, <2>2 DEF Apart
<1>9. ToSet(x) = ToSet(p.public.items) \cup UNION {ToSet(p.private[o].items) : o \in DOMAIN p.private}
  <2> DEFINE all == UNION {ToSet(p.private[o].items) : o \in DOMAIN p.private}
  <2>1. ASSUME NEW i \in 1..n
        PROVE  ToSet(q[i]) \subseteq ToSet(p.public.items) \cup all
    <3>1. CASE i = 1
      BY <1>1, <3>1
    <3>2. CASE i # 1
      <4>1. PICK o \in DOMAIN p.private : q[i] = p.private[o].items
        BY <1>1, <3>2
      <4>2. QED
        BY <4>1
    <3>3. QED
      BY <3>1, <3>2
  <2>2. \A o \in DOMAIN p.private : \E i \in 1..n : ToSet(q[i]) = ToSet(p.private[o].items)
    BY <1>1, <1>6
  <2>3. \A y \in all : \E i \in 1..n : y \in ToSet(q[i])
    BY <2>2
  <2>4. \A y \in ToSet(p.public.items) : \E i \in 1..n : y \in ToSet(q[i])
    BY <1>1
  <2> HIDE DEF all
  <2>5. QED
    BY <1>5, <2>1, <2>3, <2>4 DEF all
<1>10. QED
  BY <1>2, <1>3, <1>7, <1>8, <1>9

LEMMA EveryDirectoryIsPrivate == EveryDirectory
<1> SUFFICES ASSUME NEW p \in Partitions, NEW agents \in AgentSets, load_partition(p, agents)
             PROVE  OnlyOwnersSee(p, agents)
  BY DEF EveryDirectory
<1> DEFINE all     == compile_all(p, agents)
           Sees(a) == ToSet(all[a])
           Own(o)  == ToSet(p.private[o].items)
           shared  == ToSet(p.public.items)
<1>1. IsPartition(p)
  BY PartitionAssumption DEF IsPartition
<1>2. /\ \A o \in DOMAIN p.private : shared \cap Own(o) = {}
      /\ \A o, u \in DOMAIN p.private : o # u => Own(o) \cap Own(u) = {}
      /\ ToSet(ItemsOf(Files(p))) = shared \cup UNION {Own(o) : o \in DOMAIN p.private}
      /\ IsInjective(ItemsOf(Files(p)))
  BY <1>1, LoadedIsApart
<1>3. Adjudicator \notin agents
  BY DEF load_partition
<1>4. all[Adjudicator] = ItemsOf(Files(p))
  BY DEF compile_all, compile_context
<1>5. ASSUME NEW a \in agents
      PROVE  Sees(a) = shared \cup (IF a \in DOMAIN p.private THEN Own(a) ELSE {})
  <2> DEFINE own == IF a \in DOMAIN p.private THEN p.private[a].items ELSE <<>>
  <2>1. all[a] = p.public.items \o own
    BY <1>3, <1>5 DEF compile_all, compile_context
  <2>2. p.public.items \in Seq(Items) /\ own \in Seq(Items)
    BY <1>1 DEF IsPartition, Doc
  <2>3. ToSet(own) = IF a \in DOMAIN p.private THEN Own(a) ELSE {}
    <3>1. ToSet(<<>>) = {}
      BY DEF ToSet
    <3>2. QED
      BY <3>1
  <2> HIDE DEF own, all
  <2>4. ToSet(all[a]) = shared \cup ToSet(own)
    BY <2>1, <2>2, JoinedElements
  <2>5. QED
    BY <2>3, <2>4
<1> HIDE DEF all, Own, shared
<1>6. \A a \in agents, o \in DOMAIN p.private : a # o => Sees(a) \cap Own(o) = {}
  BY <1>2, <1>5
<1>7. \A a, b \in agents : a # b => Sees(a) \cap Sees(b) = shared
  <2> SUFFICES ASSUME NEW a \in agents, NEW b \in agents, a # b
               PROVE  Sees(a) \cap Sees(b) = shared
    OBVIOUS
  <2> DEFINE A == IF a \in DOMAIN p.private THEN Own(a) ELSE {}
             B == IF b \in DOMAIN p.private THEN Own(b) ELSE {}
  <2>1. A \cap B = {}
    BY <1>2
  <2>2. Sees(a) = shared \cup A /\ Sees(b) = shared \cup B
    BY <1>5
  <2> HIDE DEF A, B
  <2>3. QED
    BY <2>1, <2>2
<1>8. IsInjective(all[Adjudicator]) /\ Sees(Adjudicator) = shared \cup UNION {Own(o) : o \in DOMAIN p.private}
  BY <1>2, <1>4
<1>9. QED
  BY <1>6, <1>7, <1>8 DEF OnlyOwnersSee, all, Own, shared

\* No context shows an item to an agent that does not own it, in any state
\* directory that loads, whatever agents and files there are.
THEOREM ContextsArePrivate == Spec => []ContextsStayPrivate
BY EveryDirectoryIsPrivate, PTL DEF ContextsStayPrivate
=============================================================================
