--------------------------- MODULE AgentGameProofs ---------------------------
(***************************************************************************)
(* The live game, for every board, set of players, budget and set of model *)
(* answers: an order screened one slot at a time is never refused by the   *)
(* engine when the turn is assembled, the provider is never paid more than *)
(* the cap nor called more often than the retries allow, and the game is a *)
(* campaign of the engine.  And what it commits passes the repository's    *)
(* own gates: its records the turn-replay gate at any point of the game,   *)
(* its ledger and artifacts the provenance gate at the horizon.  Last, the *)
(* bytes it commits read as the provider's did and hold no text.           *)
(***************************************************************************)
EXTENDS AgentGame, EngineProofs

(***************************************************************************)
(* What the screening of one attempt establishes.                          *)
(***************************************************************************)
Fits(s, c) == c \in Command /\ IsLegal(c, s)

LEMMA CodeOfIllegal ==
  ASSUME NEW c, NEW s, ~IsLegal(c, s)
  PROVE  \E i \in 1..6 : command_legality(c, s) = LegalityCodes[i]
<1> DEFINE First(i) == /\ Breaks(LegalityCodes[i], c, s)
                       /\ \A j \in 1..i-1 : ~Breaks(LegalityCodes[j], c, s)
<1>1. DOMAIN LegalityCodes = 1..6
  BY DEF LegalityCodes
<1>2. \E i \in 1..6 : First(i)
  <2> DEFINE B(i) == Breaks(LegalityCodes[i], c, s)
  <2>1. B(1) \/ B(2) \/ B(3) \/ B(4) \/ B(5) \/ B(6)
    BY <1>1 DEF IsLegal
  <2> HIDE DEF B
  <2>2. \E i \in 1..6 : B(i) /\ \A j \in 1..i-1 : ~B(j)
    <3>1. CASE B(1)
      BY <3>1
    <3>2. CASE ~B(1) /\ B(2)
      BY <3>2
    <3>3. CASE ~B(1) /\ ~B(2) /\ B(3)
      <4>1. \A j \in 1..3-1 : j = 1 \/ j = 2
        OBVIOUS
      <4>2. QED
        BY <3>3, <4>1
    <3>4. CASE ~B(1) /\ ~B(2) /\ ~B(3) /\ B(4)
      <4>1. \A j \in 1..4-1 : j = 1 \/ j = 2 \/ j = 3
        OBVIOUS
      <4>2. QED
        BY <3>4, <4>1
    <3>5. CASE ~B(1) /\ ~B(2) /\ ~B(3) /\ ~B(4) /\ B(5)
      <4>1. \A j \in 1..5-1 : j = 1 \/ j = 2 \/ j = 3 \/ j = 4
        OBVIOUS
      <4>2. QED
        BY <3>5, <4>1
    <3>6. CASE ~B(1) /\ ~B(2) /\ ~B(3) /\ ~B(4) /\ ~B(5) /\ B(6)
      <4>1. \A j \in 1..6-1 : j = 1 \/ j = 2 \/ j = 3 \/ j = 4 \/ j = 5
        OBVIOUS
      <4>2. QED
        BY <3>6, <4>1
    <3>7. QED
      BY <2>1, <3>1, <3>2, <3>3, <3>4, <3>5, <3>6
  <2>3. QED
    BY <2>2 DEF B
<1>3. command_legality(c, s) = LegalityCodes[CHOOSE i \in DOMAIN LegalityCodes : First(i)]
  BY DEF command_legality
<1>4. (CHOOSE i \in DOMAIN LegalityCodes : First(i)) \in 1..6
  BY <1>1, <1>2
<1>5. QED
  BY <1>3, <1>4

LEMMA LegalCodeMeansLegal ==
  ASSUME NEW c, NEW s, command_legality(c, s) = Legal
  PROVE  IsLegal(c, s)
<1>1. \A i \in 1..6 : LegalityCodes[i] # Legal
  BY DEF LegalityCodes, Legal
<1>2. QED
  BY <1>1, CodeOfIllegal

LEMMA CommandIsScreened ==
  ASSUME NEW p \in Actors, NEW s, NEW response \in Responses, NEW request, NEW code,
         classify_attempt(p, s, response, request, code).kind = "COMMAND"
  PROVE  Fits(s, Bound(p, response))
<1> DEFINE digest == IF extract_ok(response) THEN project_semantic(response) ELSE NoDigest
           reject == IF extract_ok(response) THEN legality_of(p, response, s)
                     ELSE response.reject
<1>1. KindOf(digest, reject) = "COMMAND"
  BY DEF classify_attempt
<1> HIDE DEF digest, reject
<1>2. digest # NoDigest /\ reject = None
  BY <1>1 DEF KindOf
<1>3. extract_ok(response) /\ legality_of(p, response, s) = None
  BY <1>2 DEF digest, reject
<1>4. response \in Response /\ response.reject = None /\ response.action \in Actions
  BY <1>3, ResponseAssumption DEF extract_ok
<1>5. Bound(p, response) \in Command
  <2>1. p \in STRING /\ response.action \in STRING
    BY <1>4, NameAssumption
  <2>2. response.route \in Routes \cup {NoRoute} /\ response.quantity \in Int
    BY <1>4 DEF Response
  <2>3. QED
    BY <2>1, <2>2 DEF Bound, Command
<1>6. command_legality(Bound(p, response), s) = Legal
  <2>1. SUFFICES ASSUME command_legality(Bound(p, response), s) # Legal
                 PROVE  FALSE
    OBVIOUS
  <2>2. command_legality(Bound(p, response), s) = None
    BY <1>3, <2>1 DEF legality_of
  <2>3. PICK i \in 1..6 : command_legality(Bound(p, response), s) = LegalityCodes[i]
    BY <2>1, CodeOfIllegal DEF command_legality
  <2>4. LegalityCodes[i] \in CORRECTION_CODES
    BY DEF LegalityCodes, CORRECTION_CODES, LEGALITY_REJECT_CODES
  <2>5. QED
    BY <2>2, <2>3, <2>4, NoneAssumption
<1>7. QED
  BY <1>5, <1>6, LegalCodeMeansLegal DEF Fits

(***************************************************************************)
(* The game.  GameInv is inductive: the commands of the turn fit the head, *)
(* each from another slot already asked, and an attempt of the slot being  *)
(* asked is a COMMAND only if it is the last, and then it fits the head.   *)
(***************************************************************************)
Asking == pc \in {"fetch", "decide"}

CommandsFit ==
  /\ cmds \in Seq(Command)
  /\ \A i \in DOMAIN cmds : Fits(head, cmds[i])
  /\ \A i, j \in DOMAIN cmds : cmds[i].actor = cmds[j].actor => i = j

AskedInOrder ==
  /\ at \in DOMAIN Slots
  /\ \A i \in DOMAIN cmds : \E k \in 1..at-1 : cmds[i].actor = Slots[k]

AttemptsFit ==
  /\ \E S : made \in Seq(S)
  /\ \A i \in DOMAIN made : made[i].kind = "COMMAND" =>
       /\ pc = "decide" /\ i = Len(made)
       /\ Fits(head, Bound(slot, made[i].response))

GameInv ==
  /\ NeverRefused
  /\ \E S : records \in Seq(S)
  /\ head \in State /\ head.as_of_turn = turn
  /\ CommandsFit
  /\ Asking => AskedInOrder /\ AttemptsFit
  /\ pc = "assemble" => at = 1 /\ made = <<>>

\* Of the first slot of a turn nothing was asked yet.
LEMMA FreshTurn ==
  ASSUME NEW t
  PROVE  /\ StartOfTurn(t) \in {"horizon", "assemble", "fetch"}
         /\ StartOfTurn(t) = "fetch" => 1 \in DOMAIN Slots
<1>1. Slots # <<>> => 1 \in DOMAIN Slots
  BY SlotsAssumption
<1>2. QED
  BY <1>1 DEF StartOfTurn

LEMMA GameInit == Init => GameInv
<1> SUFFICES ASSUME Init
             PROVE  GameInv
  OBVIOUS
<1>1. PICK o \in Origins, x \in Secrets : head = StartState(o, x)
  BY DEF Init
<1>2. records = <<>> /\ made = <<>> /\ cmds = <<>> /\ at = 1 /\ pc = StartOfTurn(0)
  BY DEF Init
<1>3. head \in State /\ head.as_of_turn = 0
  BY <1>1, StartAssumption DEF StartState, State
<1>4. turn = 0
  BY <1>2 DEF turn
<1>5. CommandsFit
  BY <1>2 DEF CommandsFit
<1>6. pc \in {"horizon", "assemble", "fetch"} /\ (pc = "fetch" => 1 \in DOMAIN Slots)
  BY <1>2, FreshTurn
<1>7. Asking => AskedInOrder /\ AttemptsFit
  BY <1>2, <1>6 DEF Asking, AskedInOrder, AttemptsFit
<1>8. QED
  BY <1>2, <1>3, <1>4, <1>5, <1>6, <1>7 DEF GameInv, NeverRefused

\* A step that leaves the slot with the attempts it has.
LEMMA SameAttempts ==
  ASSUME GameInv, pc = "fetch", UNCHANGED <<head, at, made, cmds, records>>,
         pc' \in {"decide", "spend-cap", "aborted", "crashed"}
  PROVE  GameInv'
<1>1. AskedInOrder /\ AttemptsFit
  BY DEF GameInv, Asking
<1>2. \A i \in DOMAIN made : made[i].kind # "COMMAND"
  BY <1>1 DEF AttemptsFit
<1>3. AskedInOrder' /\ AttemptsFit'
  BY <1>1, <1>2 DEF AskedInOrder, AttemptsFit
<1>4. CommandsFit'
  BY DEF GameInv, CommandsFit, Fits
<1>5. QED
  BY <1>3, <1>4 DEF GameInv, NeverRefused, turn

LEMMA AnswerFits ==
  ASSUME GameInv, NEW in, NEW cost, NEW response \in Responses,
         CallAnswers(in, cost, response)
  PROVE  GameInv'
<1> DEFINE request == render_request_envelope(slot, turn, head, correction)
           a       == classify_attempt(slot, head, response, request, correction)
<1>1. /\ pc = "fetch"
      /\ UNCHANGED <<head, at, cmds, records>>
      /\ made' = Append(made, a)
      /\ pc' = IF a.kind = "COMMAND" \/ Len(made) = MaxRetries THEN "decide" ELSE "fetch"
  BY DEF CallAnswers, Called
<1>2. AskedInOrder /\ AttemptsFit
  BY <1>1 DEF GameInv, Asking
<1>3. slot \in Actors
  BY <1>2, SlotsAssumption DEF AskedInOrder, slot
<1>4. a.kind = "COMMAND" => Fits(head, Bound(slot, response))
  BY <1>3, CommandIsScreened
<1>5. a.response = response
  BY DEF classify_attempt
<1> HIDE DEF a
<1>6. PICK S : made \in Seq(S)
  BY <1>2 DEF AttemptsFit
<1>7. /\ made \in Seq(S \cup {a})
      /\ made' \in Seq(S \cup {a})
      /\ Len(made') = Len(made) + 1
      /\ made'[Len(made')] = a
      /\ \A i \in 1..Len(made) : made'[i] = made[i]
      /\ DOMAIN made' = 1..Len(made) + 1
  BY <1>1, <1>6
<1>8. \A i \in DOMAIN made : made[i].kind # "COMMAND"
  BY <1>1, <1>2 DEF AttemptsFit
<1>9. slot' = slot
  BY <1>1 DEF slot
<1>10. ASSUME NEW i \in DOMAIN made', made'[i].kind = "COMMAND"
       PROVE  /\ pc' = "decide" /\ i = Len(made')
              /\ Fits(head', Bound(slot', made'[i].response))
  <2>1. i = Len(made')
    BY <1>6, <1>7, <1>8, <1>10
  <2>2. made'[i] = a
    BY <1>7, <2>1
  <2>3. Fits(head, Bound(slot, response))
    BY <1>4, <1>10, <2>2
  <2>4. QED
    BY <1>1, <1>5, <1>9, <1>10, <2>1, <2>2, <2>3
<1>11. AttemptsFit'
  BY <1>7, <1>10 DEF AttemptsFit
<1>12. AskedInOrder'
  BY <1>1, <1>2 DEF AskedInOrder
<1>13. CommandsFit'
  BY <1>1 DEF GameInv, CommandsFit, Fits
<1>14. QED
  BY <1>1, <1>11, <1>12, <1>13 DEF GameInv, NeverRefused, turn

\* The loop of run_slot_attempts ends with the first COMMAND, so the decisive
\* attempt is the last one.
LEMMA LastIsDecisive ==
  ASSUME NEW S, made \in Seq(S), made # <<>>, AttemptsFit
  PROVE  decisive(made) = Len(made) /\ Len(made) \in DOMAIN made
<1> DEFINE commands == {i \in DOMAIN made : made[i].kind = "COMMAND"}
<1>1. Len(made) \in DOMAIN made
  OBVIOUS
<1>2. commands = {} \/ commands = {Len(made)}
  BY DEF AttemptsFit
<1>3. decisive(made) = IF commands = {} THEN Len(made)
                       ELSE CHOOSE i \in commands : \A j \in commands : i <= j
  BY DEF decisive
<1> HIDE DEF commands
<1>4. CASE commands = {}
  BY <1>1, <1>3, <1>4
<1>5. CASE commands = {Len(made)}
  <2>1. (CHOOSE i \in commands : \A j \in commands : i <= j) = Len(made)
    BY <1>5
  <2>2. QED
    BY <1>1, <1>3, <1>5, <2>1
<1>6. QED
  BY <1>2, <1>4, <1>5

\* One more command that fits, of a slot that has none yet.
LEMMA OneMoreFits ==
  ASSUME NEW s, NEW b \in Seq(Command), NEW c, Fits(s, c),
         \A i \in DOMAIN b : Fits(s, b[i]) /\ b[i].actor # c.actor,
         \A i, j \in DOMAIN b : b[i].actor = b[j].actor => i = j
  PROVE  LET e == Append(b, c) IN
         /\ e \in Seq(Command)
         /\ \A i \in DOMAIN e : Fits(s, e[i])
         /\ \A i, j \in DOMAIN e : e[i].actor = e[j].actor => i = j
<1> DEFINE e == Append(b, c)
<1>1. c \in Command
  BY DEF Fits
<1>2. /\ e \in Seq(Command)
      /\ DOMAIN e = 1..Len(b) + 1
      /\ DOMAIN b = 1..Len(b)
      /\ e[Len(b) + 1] = c
      /\ \A i \in 1..Len(b) : e[i] = b[i]
  BY <1>1
<1> HIDE DEF e
<1>3. \A i \in DOMAIN e : i = Len(b) + 1 \/ i \in DOMAIN b
  BY <1>2
<1>4. \A i \in DOMAIN e : Fits(s, e[i])
  BY <1>2, <1>3
<1>5. ASSUME NEW i \in DOMAIN e, NEW j \in DOMAIN e, e[i].actor = e[j].actor
      PROVE  i = j
  <2>1. CASE i \in DOMAIN b /\ j \in DOMAIN b
    BY <1>2, <1>5, <2>1
  <2>2. CASE i = Len(b) + 1 /\ j \in DOMAIN b
    BY <1>2, <1>5, <2>2
  <2>3. CASE i \in DOMAIN b /\ j = Len(b) + 1
    BY <1>2, <1>5, <2>3
  <2>4. QED
    BY <1>3, <2>1, <2>2, <2>3
<1>6. QED
  BY <1>2, <1>4, <1>5 DEF e

LEMMA SlotFits ==
  ASSUME GameInv, SlotEnds
  PROVE  GameInv'
<1> DEFINE d == made[decisive(made)]
<1>1. /\ pc = "decide"
      /\ IF made = <<>> THEN cmds' = cmds
         ELSE cmds' = IF d.kind = "COMMAND" THEN Append(cmds, Bound(slot, d.response)) ELSE cmds
      /\ made' = <<>>
      /\ pc' = IF at = Len(Slots) THEN "assemble" ELSE "fetch"
      /\ at' = IF at = Len(Slots) THEN 1 ELSE at + 1
      /\ UNCHANGED <<head, records>>
  BY DEF SlotEnds
<1>2. AskedInOrder /\ AttemptsFit /\ CommandsFit
  BY <1>1 DEF GameInv, Asking
<1>3. /\ Slots \in Seq(Actors) /\ at \in 1..Len(Slots) /\ slot = Slots[at]
  BY <1>2, SlotsAssumption DEF AskedInOrder, slot
<1>4. \A i \in DOMAIN cmds : cmds[i].actor # slot
  <2> SUFFICES ASSUME NEW i \in DOMAIN cmds
               PROVE  cmds[i].actor # slot
    OBVIOUS
  <2>1. PICK k \in 1..at-1 : cmds[i].actor = Slots[k]
    BY <1>2 DEF AskedInOrder
  <2>2. k \in DOMAIN Slots /\ at \in DOMAIN Slots /\ k # at
    BY <1>3
  <2>3. QED
    BY <1>3, <2>1, <2>2, SlotsAssumption
<1>5. cmds' = cmds \/ \E c : c.actor = slot /\ Fits(head, c) /\ cmds' = Append(cmds, c)
  <2>1. CASE made # <<>> /\ d.kind = "COMMAND"
    <3>1. PICK S : made \in Seq(S)
      BY <1>2 DEF AttemptsFit
    <3>2. decisive(made) \in DOMAIN made
      BY <1>2, <2>1, <3>1, LastIsDecisive
    <3>3. Fits(head, Bound(slot, d.response))
      BY <1>2, <2>1, <3>2 DEF AttemptsFit
    <3>4. Bound(slot, d.response).actor = slot
      BY DEF Bound
    <3>5. QED
      BY <1>1, <2>1, <3>3, <3>4
  <2>2. QED
    BY <1>1, <2>1
<1>6. CommandsFit' /\ \A i \in DOMAIN cmds' : \/ i \in DOMAIN cmds /\ cmds'[i] = cmds[i]
                                             \/ cmds'[i].actor = slot
  <2>1. CASE cmds' = cmds
    BY <1>1, <1>2, <2>1 DEF CommandsFit, Fits
  <2>2. CASE cmds' # cmds
    <3>1. PICK c : c.actor = slot /\ Fits(head, c) /\ cmds' = Append(cmds, c)
      BY <1>5, <2>2
    <3>2. cmds \in Seq(Command)
      BY <1>2 DEF CommandsFit
    <3>3. /\ cmds' \in Seq(Command)
          /\ \A i \in DOMAIN cmds' : Fits(head, cmds'[i])
          /\ \A i, j \in DOMAIN cmds' : cmds'[i].actor = cmds'[j].actor => i = j
      BY <1>2, <1>4, <3>1, <3>2, OneMoreFits DEF CommandsFit
    <3>4. \A i \in DOMAIN cmds' : \/ i \in DOMAIN cmds /\ cmds'[i] = cmds[i]
                                  \/ cmds'[i].actor = slot
      <4>1. c \in Command
        BY <3>1 DEF Fits
      <4>2. QED
        BY <3>1, <3>2, <4>1
    <3>5. QED
      BY <1>1, <3>3, <3>4 DEF CommandsFit
  <2>3. QED
    BY <2>1, <2>2
<1>7. CASE at = Len(Slots)
  BY <1>1, <1>6, <1>7 DEF GameInv, NeverRefused, turn, Asking
<1>8. CASE at # Len(Slots)
  <2>1. at + 1 \in DOMAIN Slots /\ at \in 1..at /\ 1..at-1 \subseteq 1..at
    BY <1>3, <1>8
  <2>2. ASSUME NEW i \in DOMAIN cmds'
        PROVE  \E k \in 1..at : cmds'[i].actor = Slots[k]
    BY <1>2, <1>3, <1>6, <2>1 DEF AskedInOrder
  <2>3. AskedInOrder'
    BY <1>1, <1>3, <1>8, <2>1, <2>2 DEF AskedInOrder
  <2>4. AttemptsFit'
    BY <1>1 DEF AttemptsFit
  <2>5. QED
    BY <1>1, <1>6, <1>8, <2>3, <2>4 DEF GameInv, NeverRefused, turn
<1>9. QED
  BY <1>7, <1>8

\* The orders of the turn are accepted by assemble, and its result is kept.
LEMMA TurnIsPlayed ==
  ASSUME GameInv, Assemble
  PROVE  LET result == transition(head, cmds, turn, roll)
             rec    == TurnRecord(head, cmds, turn, ReplaySeed, result)
         IN  /\ result.status = "resolved"
             /\ result.state \in State /\ result.state.as_of_turn = turn + 1
             /\ records' = Append(records, rec) /\ head' = result.state
             /\ pc' = StartOfTurn(turn + 1) /\ roll' = roll /\ cmds' = <<>>
             /\ turn \in Nat /\ turn' = turn + 1 /\ records' # <<>>
<1> DEFINE result == transition(head, cmds, turn, roll)
           rec    == TurnRecord(head, cmds, turn, ReplaySeed, result)
<1>1. CommandsFit /\ head \in State /\ head.as_of_turn = turn
  BY DEF GameInv
<1>2. cmds \in Seq(Command) /\ validate_all(cmds, head)
  BY <1>1 DEF CommandsFit, Fits, validate_all
<1>3. result # Rejected(head)
  BY <1>2 DEF transition, Rejected
<1>4. /\ result.status = "resolved"
      /\ result.state \in State /\ result.state.as_of_turn = turn + 1
  BY <1>1, <1>2, <1>3, TransitionAnswers
<1>5. /\ records' = Append(records, rec) /\ head' = result.state
      /\ pc' = StartOfTurn(turn + 1) /\ roll' = roll /\ cmds' = <<>>
  BY <1>4 DEF Assemble
<1>6. turn \in Nat /\ turn' = turn + 1 /\ records' # <<>>
  <2>1. PICK S : records \in Seq(S)
    BY DEF GameInv
  <2> HIDE DEF rec
  <2>2. records \in Seq(S \cup {rec})
    BY <2>1
  <2>3. QED
    BY <1>5, <2>2 DEF turn
<1>7. QED
  BY <1>4, <1>5, <1>6

LEMMA TurnFits ==
  ASSUME GameInv, Assemble
  PROVE  GameInv'
<1> DEFINE result == transition(head, cmds, turn, roll)
           rec    == TurnRecord(head, cmds, turn, ReplaySeed, result)
<1>1. pc = "assemble" /\ UNCHANGED <<at, made>>
  BY DEF Assemble
<1>2. /\ result.state \in State /\ result.state.as_of_turn = turn + 1
      /\ records' = Append(records, rec) /\ head' = result.state
      /\ pc' = StartOfTurn(turn + 1) /\ cmds' = <<>> /\ turn' = turn + 1
  BY TurnIsPlayed
<1> HIDE DEF result, rec
<1>3. \E S : records' \in Seq(S)
  <2>1. PICK S : records \in Seq(S)
    BY DEF GameInv
  <2>2. records \in Seq(S \cup {rec})
    BY <2>1
  <2>3. records' \in Seq(S \cup {rec})
    BY <1>2, <2>2
  <2>4. QED
    BY <2>3
<1>4. pc' \in {"horizon", "assemble", "fetch"} /\ (pc' = "fetch" => 1 \in DOMAIN Slots)
  BY <1>2, FreshTurn
<1>5. at' = 1 /\ made' = <<>>
  BY <1>1 DEF GameInv
<1>6. CommandsFit'
  BY <1>2 DEF CommandsFit
<1>7. Asking' => AskedInOrder' /\ AttemptsFit'
  BY <1>2, <1>4, <1>5 DEF Asking, AskedInOrder, AttemptsFit
<1>8. QED
  BY <1>2, <1>3, <1>4, <1>5, <1>6, <1>7 DEF GameInv, NeverRefused

LEMMA GameNext == GameInv /\ [Next]_vars => GameInv'
<1> SUFFICES ASSUME GameInv, [Next]_vars
             PROVE  GameInv'
  OBVIOUS
<1>1. CASE CountFails
  BY <1>1, SameAttempts DEF CountFails, game
<1>2. ASSUME NEW in \in Inputs, CapRefuses(in)
      PROVE  GameInv'
  BY <1>2, SameAttempts DEF CapRefuses, game
<1>3. ASSUME NEW in \in Inputs, NEW cost \in Charges(in), CallRaises(in, cost)
      PROVE  GameInv'
  BY <1>3, SameAttempts DEF CallRaises, game
<1>4. ASSUME NEW in \in Inputs, NEW cost \in Charges(in), CallExcluded(in, cost)
      PROVE  GameInv'
  BY <1>4, SameAttempts DEF CallExcluded, Called
<1>5. ASSUME NEW in \in Inputs, NEW cost \in Charges(in), NEW response \in Responses,
             CallAnswers(in, cost, response)
      PROVE  GameInv'
  BY <1>5, AnswerFits
<1>6. ASSUME NEW in \in Inputs, NEW cost \in Charges(in), NEW response \in Responses,
             CallAsserts(in, cost, response)
      PROVE  GameInv'
  BY <1>6, SameAttempts DEF CallAsserts, Called
<1>7. CASE SlotEnds
  BY <1>7, SlotFits
<1>8. CASE Assemble
  BY <1>8, TurnFits
<1>9. CASE UNCHANGED vars
  <2>1. UNCHANGED <<head, at, made, cmds, records, pc>>
    BY <1>9 DEF vars, game
  <2>2. slot' = slot /\ turn' = turn
    BY <2>1 DEF slot, turn
  <2>3. CommandsFit' /\ (Asking' => AskedInOrder' /\ AttemptsFit')
    BY <2>1, <2>2 DEF GameInv, CommandsFit, Fits, Asking, AskedInOrder, AttemptsFit
  <2>4. QED
    BY <2>1, <2>2, <2>3 DEF GameInv, NeverRefused
<1>10. QED
  BY <1>1, <1>2, <1>3, <1>4, <1>5, <1>6, <1>7, <1>8, <1>9 DEF Next, Fail, Progress

LEMMA GameInvariant == Spec => []GameInv
BY GameInit, GameNext, PTL DEF Spec

(***************************************************************************)
(* run_game's pre-screening is enough: orders ruled legal one by one, each *)
(* alone against the head of the turn, are accepted together by assemble,  *)
(* which neither rejects nor raises, so the backstop is never reached.     *)
(***************************************************************************)
THEOREM ScreenedOrdersResolve == Spec => []NeverRefused
<1>1. GameInv => NeverRefused
  BY DEF GameInv
<1>2. QED
  BY <1>1, GameInvariant, PTL

(***************************************************************************)
(* The spend guard.  Until a call raises, the guard has counted exactly    *)
(* what was charged, so that what one count missed is in the sum the next  *)
(* request is tested with.                                                 *)
(***************************************************************************)
Missed == Undercount * PriceIn

SpendInv ==
  /\ spend \in Nat /\ billed \in Nat /\ billed <= Cap + Missed
  /\ pc # "aborted" => billed = spend

\* What a call costs is at most the ceiling its request was admitted with and
\* the input its count missed.
LEMMA CostWithinCeiling ==
  ASSUME NEW in \in Inputs, NEW cost \in Charges(in)
  PROVE  /\ cost \in Nat
         /\ micro_usd(in, MaxTokens) \in Nat
         /\ Missed \in Nat
         /\ cost <= micro_usd(in, MaxTokens) + Missed
<1>1. PICK use \in Usages[in] : cost = micro_usd(use[1], use[2])
  BY DEF Charges
<1> DEFINE used == use[1]
           out  == use[2]
<1>2. /\ in \in Nat /\ used \in Nat /\ out \in Nat
      /\ Undercount \in Nat /\ MaxTokens \in Nat /\ PriceIn \in Nat /\ PriceOut \in Nat
      /\ used <= in + Undercount /\ out <= MaxTokens
  BY BudgetAssumption, UsageAssumption
<1>3. cost = used * PriceIn + out * PriceOut
  BY <1>1 DEF micro_usd
<1> HIDE DEF used, out
<1>4. \A m, n, p \in Nat : m <= n => m * p <= n * p
  <2> SUFFICES ASSUME NEW m \in Nat, NEW n \in Nat, NEW p \in Nat, m <= n
               PROVE  m * p <= n * p
    OBVIOUS
  <2>1. n - m \in Nat /\ n = m + (n - m)
    OBVIOUS
  <2>2. (n - m) * p \in Nat /\ n * p = m * p + (n - m) * p
    BY <2>1
  <2>3. m * p \in Nat /\ n * p \in Nat
    OBVIOUS
  <2>4. QED
    BY <2>2, <2>3
<1>5. out * PriceOut <= MaxTokens * PriceOut
  BY <1>2, <1>4
<1>6. used * PriceIn <= (in + Undercount) * PriceIn
  BY <1>2, <1>4
<1>7. (in + Undercount) * PriceIn = in * PriceIn + Undercount * PriceIn
  BY <1>2
<1>8. /\ used * PriceIn \in Nat /\ in * PriceIn \in Nat /\ Undercount * PriceIn \in Nat
      /\ out * PriceOut \in Nat /\ MaxTokens * PriceOut \in Nat
  BY <1>2
<1>9. QED
  BY <1>3, <1>5, <1>6, <1>7, <1>8 DEF micro_usd, Missed

LEMMA SpendNext == SpendInv /\ [Next]_vars => SpendInv'
<1> SUFFICES ASSUME SpendInv, [Next]_vars
             PROVE  SpendInv'
  OBVIOUS
<1>1. CASE CountFails
  BY <1>1 DEF CountFails, SpendInv
<1>2. ASSUME NEW in \in Inputs, CapRefuses(in)
      PROVE  SpendInv'
  BY <1>2 DEF CapRefuses, SpendInv
<1>3. ASSUME NEW in \in Inputs, NEW cost \in Charges(in), CallRaises(in, cost)
      PROVE  SpendInv'
  <2> DEFINE ceiling == micro_usd(in, MaxTokens)
  <2>1. cost \in Nat /\ ceiling \in Nat /\ Missed \in Nat /\ cost <= ceiling + Missed
    BY CostWithinCeiling
  <2>2. /\ spend + ceiling <= Cap /\ pc = "fetch" /\ pc' = "aborted"
        /\ billed' \in {billed, billed + cost} /\ spend' = spend
    BY <1>3 DEF CallRaises, spend_ok
  <2> HIDE DEF ceiling
  <2>3. QED
    BY <2>1, <2>2, BudgetAssumption DEF SpendInv
<1>4. ASSUME NEW in \in Inputs, NEW cost \in Charges(in), Called(in, cost)
      PROVE  SpendInv'
  <2> DEFINE ceiling == micro_usd(in, MaxTokens)
  <2>1. cost \in Nat /\ ceiling \in Nat /\ Missed \in Nat /\ cost <= ceiling + Missed
    BY CostWithinCeiling
  <2>2. /\ spend + ceiling <= Cap /\ pc = "fetch"
        /\ billed' = billed + cost /\ spend' = spend + cost
    BY <1>4 DEF Called, spend_ok
  <2> HIDE DEF ceiling
  <2>3. QED
    BY <2>1, <2>2, BudgetAssumption DEF SpendInv
<1>5. CASE SlotEnds
  BY <1>5 DEF SlotEnds, SpendInv
<1>6. CASE Assemble
  <2>1. UNCHANGED <<spend, billed>> /\ pc # "aborted"
    BY <1>6 DEF Assemble
  <2>2. QED
    BY <2>1 DEF SpendInv
<1>7. CASE UNCHANGED vars
  BY <1>7 DEF vars, SpendInv
<1>8. QED
  BY <1>1, <1>2, <1>3, <1>4, <1>5, <1>6, <1>7
     DEF Next, Fail, Progress, CallExcluded, CallAnswers, CallAsserts

(***************************************************************************)
(* spend_ok and on_spent: however many calls a game makes and whatever     *)
(* their usage blocks say, the bill passes the cap by no more than the     *)
(* input that the count of one call missed; a call that raised after it    *)
(* was charged included.  Where counts are exact, the cap holds.           *)
(***************************************************************************)
THEOREM OverrunIsBounded == Spec => []OverrunIsOneCall
<1>1. Init => SpendInv
  <2>1. Missed \in Nat /\ Cap \in Nat
    BY BudgetAssumption DEF Missed
  <2>2. QED
    BY <2>1 DEF Init, SpendInv
<1>2. SpendInv => OverrunIsOneCall
  BY DEF SpendInv, OverrunIsOneCall, Missed
<1>3. QED
  BY <1>1, <1>2, SpendNext, PTL DEF Spec

(***************************************************************************)
(* The loop of run_slot_attempts.  What the calls so far may be: those of  *)
(* the slots that are done, and the attempts of the slot being asked, of   *)
(* which MaxRetries at most are made when another is fetched.              *)
(***************************************************************************)
Budget(slots) == slots * (MaxRetries + 1)
SlotsDone     == turn * Len(Slots) + at - 1

BudgetInv ==
  /\ calls \in Nat /\ at \in Nat
  /\ pc = "fetch" => Len(made) <= MaxRetries /\ calls <= Budget(SlotsDone) + Len(made)
  /\ pc = "assemble" => calls <= Budget(turn * Len(Slots) + Len(Slots))
  /\ pc \notin {"fetch", "assemble"} => calls <= Budget(SlotsDone + 1)

\* The products of the budget: a slot costs MaxRetries + 1, a turn its slots.
LEMMA BudgetOfSlot ==
  ASSUME NEW k \in Int
  PROVE  Budget(k) \in Int /\ Budget(k + 1) = Budget(k) + MaxRetries + 1
<1> DEFINE n == MaxRetries + 1
<1>1. MaxRetries \in Nat /\ n \in Nat
  BY BudgetAssumption
<1> HIDE DEF n
<1>2. k * n \in Int /\ (k + 1) * n = k * n + n
  BY <1>1
<1>3. Budget(k) = k * n /\ Budget(k + 1) = (k + 1) * n
  BY DEF Budget, n
<1> DEFINE p == k * n
<1> HIDE DEF p
<1>4. Budget(k) = p /\ Budget(k + 1) = p + n /\ p \in Int
  BY <1>2, <1>3 DEF p
<1>5. QED
  BY <1>1, <1>4 DEF n

LEMMA SlotsOfTurn ==
  ASSUME NEW t \in Nat
  PROVE  /\ Len(Slots) \in Nat /\ t * Len(Slots) \in Nat
         /\ (t + 1) * Len(Slots) = t * Len(Slots) + Len(Slots)
<1> DEFINE n == Len(Slots)
<1>1. n \in Nat
  BY SlotsAssumption
<1> HIDE DEF n
<1>2. t * n \in Nat /\ (t + 1) * n = t * n + n
  BY <1>1
<1>3. QED
  BY <1>1, <1>2 DEF n

\* A slot of the loop, and the attempts it has, are in range.
LEMMA AskingCounts ==
  ASSUME GameInv, pc \in {"fetch", "decide"}
  PROVE  /\ turn \in Nat /\ at \in 1..Len(Slots) /\ Len(made) \in Nat
         /\ SlotsDone \in Nat /\ Budget(SlotsDone) \in Int
         /\ Budget(SlotsDone + 1) = Budget(SlotsDone) + MaxRetries + 1
<1>1. turn \in Nat
  BY DEF GameInv, turn
<1>2. at \in 1..Len(Slots) /\ Len(made) \in Nat
  BY SlotsAssumption DEF GameInv, Asking, AskedInOrder, AttemptsFit
<1> DEFINE n == Len(Slots)
           p == turn * n
<1>3. p \in Nat /\ n \in Nat
  BY <1>1, SlotsOfTurn
<1> HIDE DEF p, n
<1>4. p + at - 1 \in Nat
  BY <1>2, <1>3 DEF n
<1>5. SlotsDone \in Nat
  BY <1>4 DEF SlotsDone, p, n
<1> DEFINE k == SlotsDone
<1>6. k \in Int /\ k \in Nat
  BY <1>5
<1> HIDE DEF k
<1>7. Budget(k) \in Int /\ Budget(k + 1) = Budget(k) + MaxRetries + 1
  BY <1>6, BudgetOfSlot
<1>8. QED
  BY <1>1, <1>2, <1>6, <1>7 DEF k

\* A step that leaves the slot, with or without one more call.
LEMMA BudgetLeaves ==
  ASSUME GameInv, BudgetInv, pc = "fetch", UNCHANGED <<at, records>>,
         calls' \in {calls, calls + 1},
         \/ pc' \notin {"fetch", "assemble"}
         \/ pc' = "fetch" /\ calls' = calls + 1 /\ Len(made') = Len(made) + 1
              /\ Len(made) # MaxRetries
  PROVE  BudgetInv'
<1> DEFINE done == SlotsDone
<1>1. /\ Len(made) \in Nat /\ Budget(done) \in Int /\ MaxRetries \in Nat
      /\ Budget(done + 1) = Budget(done) + MaxRetries + 1
  BY AskingCounts, BudgetAssumption
<1>2. SlotsDone' = done
  BY DEF SlotsDone, turn
<1>3. calls \in Nat /\ Len(made) <= MaxRetries /\ calls <= Budget(done) + Len(made)
  BY DEF BudgetInv
<1>4. \A k : Budget(k)' = Budget(k')
  BY DEF Budget
<1>5. Budget(SlotsDone)' = Budget(done) /\ Budget(SlotsDone + 1)' = Budget(done + 1)
  BY <1>2 DEF Budget
<1> HIDE DEF done
<1>6. QED
  BY <1>1, <1>3, <1>5 DEF BudgetInv

\* The slot is done: the next is asked, or the turn is assembled.
LEMMA BudgetOfSlotEnds ==
  ASSUME GameInv, BudgetInv, SlotEnds
  PROVE  BudgetInv'
<1> DEFINE n == Len(Slots)
           p == turn * n
           done == p + at - 1
<1>1. turn \in Nat /\ at \in 1..n
  BY AskingCounts DEF SlotEnds
<1>2. n \in Nat /\ p \in Nat
  BY <1>1, SlotsOfTurn
<1>3. /\ calls \in Nat /\ calls <= Budget(done + 1)
      /\ calls' = calls /\ made' = <<>> /\ turn' = turn
      /\ pc' = IF at = n THEN "assemble" ELSE "fetch"
      /\ at' = IF at = n THEN 1 ELSE at + 1
  BY DEF SlotEnds, BudgetInv, SlotsDone, turn
<1>4. Len(made') = 0
  BY <1>3
<1>5. MaxRetries \in Nat /\ at' \in Nat
  BY <1>1, <1>2, <1>3, BudgetAssumption
<1> HIDE DEF n, p
<1>6. CASE at = n
  <2>1. done + 1 = p + n
    BY <1>1, <1>2, <1>6
  <2>2. calls' <= Budget(p + n) /\ pc' = "assemble" /\ calls' \in Nat
    BY <1>3, <1>6, <2>1
  <2>3. (turn * Len(Slots) + Len(Slots))' = p + n
    BY <1>3 DEF p, n
  <2>4. QED
    BY <1>5, <2>2, <2>3 DEF BudgetInv
<1>7. CASE at # n
  <2>1. done + 1 = p + (at + 1) - 1
    BY <1>1, <1>2
  <2>2. SlotsDone' = p + (at + 1) - 1
    BY <1>3, <1>7 DEF SlotsDone, p, n
  <2>3. Budget(done + 1) \in Int
    BY <1>1, <1>2, BudgetOfSlot
  <2>4. calls' <= Budget(SlotsDone') + Len(made') /\ pc' = "fetch" /\ calls' \in Nat
    BY <1>3, <1>4, <1>7, <2>1, <2>2, <2>3
  <2>5. QED
    BY <1>4, <1>5, <2>4 DEF BudgetInv
<1>8. QED
  BY <1>6, <1>7

\* The turn is assembled: the next one starts with its first slot.
LEMMA BudgetOfTurn ==
  ASSUME GameInv, BudgetInv, Assemble
  PROVE  BudgetInv'
<1> DEFINE n == Len(Slots)
           p == turn * n
<1>1. /\ pc = "assemble" /\ at = 1 /\ made = <<>>
      /\ UNCHANGED <<at, made, calls>>
  BY DEF GameInv, Assemble
<1>2. pc' = StartOfTurn(turn + 1)
  BY TurnIsPlayed
<1>3. turn \in Nat /\ turn' = turn + 1
  BY TurnIsPlayed
<1>4. /\ n \in Nat /\ p \in Nat /\ turn' * n = p + n
  BY <1>3, SlotsOfTurn
<1>5. calls \in Nat /\ calls <= Budget(p + n)
  BY <1>1 DEF BudgetInv
<1>6. pc' \in {"horizon", "assemble", "fetch"}
  BY <1>2, FreshTurn
<1> DEFINE done == p + n
<1> HIDE DEF n, p
<1>7. done \in Nat /\ Budget(done) \in Int /\ Budget(done + 1) = Budget(done) + MaxRetries + 1
  BY <1>4, BudgetOfSlot
<1>8. SlotsDone' = done
  BY <1>1, <1>4 DEF SlotsDone, n
<1>9. MaxRetries \in Nat /\ Len(made') = 0
  BY <1>1, BudgetAssumption
<1>10. CASE pc' = "assemble"
  <2>1. n = 0 /\ (turn * Len(Slots) + Len(Slots))' = done
    <3>1. Slots = <<>>
      BY <1>2, <1>10 DEF StartOfTurn
    <3>2. n = 0
      BY <3>1 DEF n
    <3>3. QED
      BY <1>4, <3>2 DEF n
  <2>2. QED
    BY <1>1, <1>5, <1>10, <2>1 DEF BudgetInv
<1>11. CASE pc' = "fetch"
  BY <1>1, <1>5, <1>7, <1>8, <1>9, <1>11 DEF BudgetInv
<1>12. CASE pc' = "horizon"
  <2>1. calls' \in Nat /\ calls' <= Budget(done + 1)
    BY <1>1, <1>5, <1>7, <1>9
  <2>2. QED
    BY <1>1, <1>8, <1>12, <2>1 DEF BudgetInv
<1>13. QED
  BY <1>6, <1>10, <1>11, <1>12

LEMMA BudgetNext == GameInv /\ BudgetInv /\ [Next]_vars => BudgetInv'
<1> SUFFICES ASSUME GameInv, BudgetInv, [Next]_vars
             PROVE  BudgetInv'
  OBVIOUS
<1>1. CASE CountFails
  BY <1>1, BudgetLeaves DEF CountFails, game
<1>2. ASSUME NEW in \in Inputs, CapRefuses(in)
      PROVE  BudgetInv'
  BY <1>2, BudgetLeaves DEF CapRefuses, game
<1>3. ASSUME NEW in \in Inputs, NEW cost \in Charges(in), CallRaises(in, cost)
      PROVE  BudgetInv'
  BY <1>3, BudgetLeaves DEF CallRaises, game
<1>4. ASSUME NEW in \in Inputs, NEW cost \in Charges(in), CallExcluded(in, cost)
      PROVE  BudgetInv'
  BY <1>4, BudgetLeaves DEF CallExcluded, Called
<1>5. ASSUME NEW in \in Inputs, NEW cost \in Charges(in), NEW response \in Responses,
             CallAnswers(in, cost, response)
      PROVE  BudgetInv'
  <2> DEFINE request == render_request_envelope(slot, turn, head, correction)
             a       == classify_attempt(slot, head, response, request, correction)
  <2>1. /\ pc = "fetch" /\ calls' = calls + 1 /\ UNCHANGED <<at, records>>
        /\ made' = Append(made, a)
        /\ pc' = IF a.kind = "COMMAND" \/ Len(made) = MaxRetries THEN "decide" ELSE "fetch"
    BY <1>5 DEF CallAnswers, Called
  <2> HIDE DEF a
  <2>2. PICK S : made \in Seq(S)
    BY <2>1 DEF GameInv, Asking, AttemptsFit
  <2>3. made \in Seq(S \cup {a})
    BY <2>2
  <2>4. Len(made') = Len(made) + 1
    BY <2>1, <2>3
  <2>5. QED
    BY <2>1, <2>4, BudgetLeaves
<1>6. ASSUME NEW in \in Inputs, NEW cost \in Charges(in), NEW response \in Responses,
             CallAsserts(in, cost, response)
      PROVE  BudgetInv'
  BY <1>6, BudgetLeaves DEF CallAsserts, Called
<1>7. CASE SlotEnds
  BY <1>7, BudgetOfSlotEnds
<1>8. CASE Assemble
  BY <1>8, BudgetOfTurn
<1>9. CASE UNCHANGED vars
  BY <1>9 DEF vars, game, BudgetInv, SlotsDone, turn
<1>10. QED
  BY <1>1, <1>2, <1>3, <1>4, <1>5, <1>6, <1>7, <1>8, <1>9 DEF Next, Fail, Progress

LEMMA BudgetInit == Init => BudgetInv
<1> SUFFICES ASSUME Init
             PROVE  BudgetInv
  OBVIOUS
<1>1. records = <<>> /\ made = <<>> /\ at = 1 /\ calls = 0 /\ pc = StartOfTurn(0)
  BY DEF Init
<1>2. Len(made) = 0 /\ turn = 0 /\ Len(Slots) \in Nat /\ MaxRetries \in Nat
  BY <1>1, SlotsAssumption, BudgetAssumption DEF turn
<1>3. turn * Len(Slots) = 0
  BY <1>2
<1>4. SlotsDone = 0 /\ SlotsDone + 1 = 1
  BY <1>1, <1>3 DEF SlotsDone
<1>5. Budget(0) = 0 /\ Budget(1) = MaxRetries + 1
  BY <1>2 DEF Budget
<1>6. pc = "assemble" => turn * Len(Slots) + Len(Slots) = 0
  <2>1. pc = "assemble" => Slots = <<>>
    BY <1>1 DEF StartOfTurn
  <2>2. QED
    BY <1>3, <2>1
<1>7. QED
  BY <1>1, <1>2, <1>4, <1>5, <1>6 DEF BudgetInv

(***************************************************************************)
(* run_slot_attempts: one call and MaxRetries retries at most for every    *)
(* slot of every turn, however the calls end and the answers are ruled.    *)
(***************************************************************************)
THEOREM CallsAreBounded == Spec => []CallBudget
<1>1. GameInv /\ BudgetInv => CallBudget
  <2> SUFFICES ASSUME GameInv, BudgetInv
               PROVE  CallBudget
    OBVIOUS
  <2> DEFINE n == Len(Slots)
             p == turn * n
  <2>1. turn \in Nat
    BY DEF GameInv, turn
  <2>2. n \in Nat /\ p \in Nat
    BY <2>1, SlotsOfTurn
  <2>3. CASE pc = "assemble"
    BY <2>3 DEF BudgetInv, CallBudget, Budget
  <2>4. CASE pc = "fetch"
    <3> DEFINE k == SlotsDone
    <3>1. at \in 1..n /\ k = p + at - 1
      BY <2>4, AskingCounts DEF SlotsDone
    <3>2. Budget(k + 1) = Budget(k) + MaxRetries + 1 /\ Budget(k) \in Int
      BY <2>4, AskingCounts
    <3>3. calls <= Budget(k) + Len(made) /\ Len(made) <= MaxRetries /\ calls \in Nat
      BY <2>4 DEF BudgetInv
    <3>4. MaxRetries \in Nat /\ Len(made) \in Nat
      BY <2>4, BudgetAssumption, AskingCounts
    <3> HIDE DEF k, p, n
    <3>5. calls <= Budget(k + 1)
      BY <3>2, <3>3, <3>4
    <3>6. k + 1 = p + at
      BY <2>2, <3>1
    <3>7. calls <= Budget(p + at)
      BY <3>5, <3>6
    <3>8. QED
      BY <2>4, <3>7 DEF CallBudget, Budget, p, n
  <2>5. CASE pc \notin {"assemble", "fetch"}
    <3>1. calls <= Budget(p + at - 1 + 1) /\ at \in Nat
      BY <2>5 DEF BudgetInv, SlotsDone
    <3> HIDE DEF p, n
    <3>2. p + at - 1 + 1 = p + at
      BY <2>2, <3>1
    <3>3. calls <= Budget(p + at)
      BY <3>1, <3>2
    <3>4. QED
      BY <2>5, <3>3 DEF CallBudget, Budget, p, n
  <2>6. QED
    BY <2>3, <2>4, <2>5
<1>2. QED
  BY <1>1, BudgetInit, BudgetNext, GameInvariant, PTL DEF Spec

(***************************************************************************)
(* The batches a turn may have.  BatchesUpTo is a recursive function: that *)
(* it exists, and so satisfies its own equation, is shown by induction.    *)
(***************************************************************************)
\* The batches of n slots, from those of n - 1.
Longer(batches, n) == {b \o o : b \in batches, o \in Orders(Slots[n])}

Builds(f, m) == f = [n \in 0..m |-> IF n = 0 THEN {<<>>} ELSE Longer(f[n - 1], n)]

LEMMA BatchesExist ==
  ASSUME NEW m \in Nat
  PROVE  \E f : Builds(f, m)
<1> DEFINE K == {k \in Nat : \E f : Builds(f, k)}
<1>1. 0 \in K
  <2> DEFINE f == [n \in 0..0 |-> {<<>>}]
  <2>1. f = [n \in 0..0 |-> IF n = 0 THEN {<<>>} ELSE Longer(f[n - 1], n)]
    OBVIOUS
  <2> HIDE DEF f
  <2>2. Builds(f, 0)
    BY <2>1 DEF Builds
  <2>3. QED
    BY <2>2
<1>2. ASSUME NEW k \in Nat, k \in K
      PROVE  k + 1 \in K
  <2>1. PICK f : Builds(f, k)
    BY <1>2
  <2> DEFINE g == [n \in 0..k+1 |-> IF n = k + 1 THEN Longer(f[k], k + 1) ELSE f[n]]
  <2>2. \A n \in 0..k : f[n] = IF n = 0 THEN {<<>>} ELSE Longer(f[n - 1], n)
    BY <2>1 DEF Builds
  <2>3. \A n \in 0..k+1 : g[n] = IF n = 0 THEN {<<>>} ELSE Longer(g[n - 1], n)
    <3> SUFFICES ASSUME NEW n \in 0..k+1
                 PROVE  g[n] = IF n = 0 THEN {<<>>} ELSE Longer(g[n - 1], n)
      OBVIOUS
    <3>1. CASE n = k + 1
      <4>1. n # 0 /\ n - 1 = k /\ k \in 0..k+1 /\ k # k + 1
        BY <3>1
      <4>2. g[n] = Longer(f[k], n) /\ g[n - 1] = f[k]
        BY <3>1, <4>1
      <4>3. QED
        BY <4>1, <4>2
    <3>2. CASE n \in 0..k
      <4>1. n # k + 1 /\ (n # 0 => n - 1 \in 0..k+1 /\ n - 1 # k + 1)
        BY <3>2
      <4>2. g[n] = f[n] /\ (n # 0 => g[n - 1] = f[n - 1])
        BY <4>1
      <4>3. QED
        BY <2>2, <3>2, <4>2
    <3>3. QED
      BY <3>1, <3>2
  <2>4. g = [n \in 0..k+1 |-> g[n]]
    OBVIOUS
  <2> HIDE DEF g
  <2>5. Builds(g, k + 1)
    BY <2>3, <2>4 DEF Builds
  <2>6. QED
    BY <2>5
<1>3. Nat \subseteq K
  <2> HIDE DEF K
  <2>1. QED
    BY <1>1, <1>2, NatSetInduction
<1>4. QED
  BY <1>3

LEMMA BatchesDefined ==
  \A n \in 0..Len(Slots) :
    BatchesUpTo[n] = IF n = 0 THEN {<<>>} ELSE Longer(BatchesUpTo[n - 1], n)
<1>1. Len(Slots) \in Nat
  BY SlotsAssumption
<1>2. PICK f : Builds(f, Len(Slots))
  BY <1>1, BatchesExist
<1>3. BatchesUpTo = CHOOSE g : Builds(g, Len(Slots))
  BY DEF BatchesUpTo, Builds, Longer
<1>4. Builds(BatchesUpTo, Len(Slots))
  BY <1>2, <1>3
<1>5. QED
  BY <1>4 DEF Builds

(***************************************************************************)
(* The orders of the turn so far are a batch of the slots asked, and a     *)
(* turn is only played before the horizon.                                 *)
(***************************************************************************)
BatchInv ==
  /\ turn <= Turns
  /\ pc \in {"fetch", "decide", "assemble"} => turn # Turns
  /\ Asking => /\ cmds \in BatchesUpTo[at - 1]
               /\ \A i \in DOMAIN made : made[i].kind = "COMMAND" =>
                    <<Bound(slot, made[i].response)>> \in Orders(slot)
  /\ pc = "assemble" => cmds \in OrderBatches

\* Nobody was asked yet: the only batch is the empty one.
LEMMA NoOrderYet == <<>> \in BatchesUpTo[0]
<1>1. 0 \in 0..Len(Slots)
  BY SlotsAssumption
<1>2. QED
  BY <1>1, BatchesDefined

LEMMA BatchOfNextTurn ==
  ASSUME NEW t \in Nat, t <= Turns
  PROVE  /\ StartOfTurn(t) \in {"horizon", "assemble", "fetch"}
         /\ StartOfTurn(t) # "horizon" => t # Turns
         /\ StartOfTurn(t) = "assemble" => <<>> \in OrderBatches
<1>1. Slots = <<>> => Len(Slots) = 0
  OBVIOUS
<1>2. QED
  BY <1>1, NoOrderYet DEF StartOfTurn, OrderBatches

LEMMA BatchInit == Init => BatchInv
<1> SUFFICES ASSUME Init
             PROVE  BatchInv
  OBVIOUS
<1>1. records = <<>> /\ made = <<>> /\ cmds = <<>> /\ at = 1 /\ pc = StartOfTurn(0)
  BY DEF Init
<1>2. turn = 0 /\ 0 <= Turns /\ at - 1 = 0
  BY <1>1, BudgetAssumption DEF turn
<1>3. QED
  BY <1>1, <1>2, NoOrderYet, BatchOfNextTurn DEF BatchInv, Asking

\* A screened order is one of the slot's orders.
LEMMA CommandIsAnOrder ==
  ASSUME NEW p, NEW s, NEW r \in Responses, NEW request, NEW code,
         classify_attempt(p, s, r, request, code).kind = "COMMAND"
  PROVE  <<Bound(p, r)>> \in Orders(p)
<1> DEFINE digest == IF extract_ok(r) THEN project_semantic(r) ELSE NoDigest
           reject == IF extract_ok(r) THEN legality_of(p, r, s) ELSE r.reject
<1>1. KindOf(digest, reject) = "COMMAND"
  BY DEF classify_attempt
<1>2. digest # NoDigest
  <2> HIDE DEF digest, reject
  <2>1. QED
    BY <1>1 DEF KindOf
<1>3. r.reject = None
  BY <1>2 DEF extract_ok
<1>4. QED
  BY <1>3 DEF Orders

\* What the answer to a call leaves of the batch.
LEMMA BatchAnswer ==
  ASSUME GameInv, BatchInv, NEW in, NEW cost, NEW response \in Responses,
         CallAnswers(in, cost, response)
  PROVE  BatchInv'
<1> DEFINE request == render_request_envelope(slot, turn, head, correction)
           a       == classify_attempt(slot, head, response, request, correction)
<1>1. /\ pc = "fetch" /\ pc' \in {"fetch", "decide"}
      /\ UNCHANGED <<at, cmds, records>> /\ made' = Append(made, a)
  BY DEF CallAnswers, Called
<1>2. a.kind = "COMMAND" => <<Bound(slot, response)>> \in Orders(slot)
  BY CommandIsAnOrder
<1>3. a.response = response
  BY DEF classify_attempt
<1> HIDE DEF a
<1>4. PICK S : made \in Seq(S)
  BY <1>1 DEF GameInv, Asking, AttemptsFit
<1>5. made \in Seq(S \cup {a})
  BY <1>4
<1>6. \A i \in DOMAIN made' : made'[i] = a \/ (i \in DOMAIN made /\ made'[i] = made[i])
  BY <1>1, <1>5
<1>7. cmds \in BatchesUpTo[at - 1] /\ \A i \in DOMAIN made : made[i].kind = "COMMAND" =>
        <<Bound(slot, made[i].response)>> \in Orders(slot)
  BY <1>1 DEF BatchInv, Asking
<1>8. slot' = slot /\ turn' = turn /\ \A p : Orders(p)' = Orders(p')
  BY <1>1 DEF slot, turn, Orders
<1>9. ASSUME NEW i \in DOMAIN made', made'[i].kind = "COMMAND"
      PROVE  <<Bound(slot, made'[i].response)>> \in Orders(slot)
  BY <1>2, <1>3, <1>6, <1>7, <1>9
<1>10. QED
  BY <1>1, <1>7, <1>8, <1>9 DEF BatchInv, Asking

\* The slot that is done adds its order, or nothing, to the batch.
LEMMA BatchOfSlot ==
  ASSUME NEW n \in 1..Len(Slots), NEW b \in BatchesUpTo[n - 1], NEW o \in Orders(Slots[n])
  PROVE  b \o o \in BatchesUpTo[n]
<1>1. n \in 0..Len(Slots) /\ n # 0
  BY SlotsAssumption
<1>2. BatchesUpTo[n] = Longer(BatchesUpTo[n - 1], n)
  BY <1>1, BatchesDefined
<1>3. b \o o \in Longer(BatchesUpTo[n - 1], n)
  BY DEF Longer
<1>4. QED
  BY <1>2, <1>3

LEMMA BatchSlotEnds ==
  ASSUME GameInv, BatchInv, SlotEnds
  PROVE  BatchInv'
<1> DEFINE d == made[decisive(made)]
           c == Bound(slot, d.response)
<1>1. /\ pc = "decide" /\ made' = <<>> /\ UNCHANGED records
      /\ IF made = <<>> THEN cmds' = cmds
         ELSE cmds' = IF d.kind = "COMMAND" THEN Append(cmds, c) ELSE cmds
      /\ pc' = IF at = Len(Slots) THEN "assemble" ELSE "fetch"
      /\ at' = IF at = Len(Slots) THEN 1 ELSE at + 1
  BY DEF SlotEnds
<1>2. AskedInOrder /\ AttemptsFit /\ CommandsFit
  BY <1>1 DEF GameInv, Asking
<1>3. at \in 1..Len(Slots) /\ slot = Slots[at] /\ cmds \in Seq(Command)
  BY <1>2, SlotsAssumption DEF AskedInOrder, CommandsFit, slot
<1>4. cmds \in BatchesUpTo[at - 1]
  BY <1>1 DEF BatchInv, Asking
<1>5. \E o \in Orders(slot) : cmds' = cmds \o o
  <2>1. CASE made # <<>> /\ d.kind = "COMMAND"
    <3>1. PICK S : made \in Seq(S)
      BY <1>2 DEF AttemptsFit
    <3>2. decisive(made) \in DOMAIN made
      BY <1>2, <2>1, <3>1, LastIsDecisive
    <3>3. <<c>> \in Orders(slot)
      BY <1>1, <2>1, <3>2 DEF BatchInv, Asking
    <3>4. c \in Command
      BY <1>2, <2>1, <3>2 DEF AttemptsFit, Fits
    <3> HIDE DEF c
    <3>5. Append(cmds, c) = cmds \o <<c>>
      BY <1>3, <3>4
    <3>6. QED
      BY <1>1, <2>1, <3>3, <3>5
  <2>2. CASE cmds' = cmds
    <3>1. <<>> \in Orders(slot) /\ cmds \o <<>> = cmds
      BY <1>3 DEF Orders
    <3>2. QED
      BY <2>2, <3>1
  <2>3. QED
    BY <1>1, <2>1, <2>2
<1>6. cmds' \in BatchesUpTo[at]
  BY <1>3, <1>4, <1>5, BatchOfSlot
<1>7. turn' = turn
  BY <1>1 DEF turn
<1>8. CASE at = Len(Slots)
  BY <1>1, <1>6, <1>7, <1>8 DEF BatchInv, Asking, OrderBatches
<1>9. CASE at # Len(Slots)
  <2>1. at' = at + 1 /\ at' - 1 = at /\ pc' = "fetch"
    BY <1>1, <1>3, <1>9
  <2>2. QED
    BY <1>1, <1>6, <1>7, <2>1 DEF BatchInv, Asking
<1>10. QED
  BY <1>8, <1>9

LEMMA BatchAssemble ==
  ASSUME GameInv, BatchInv, Assemble
  PROVE  BatchInv'
<1>1. /\ pc' = StartOfTurn(turn + 1) /\ cmds' = <<>>
      /\ turn \in Nat /\ turn' = turn + 1
  BY TurnIsPlayed
<1>2. pc = "assemble" /\ at = 1 /\ made = <<>> /\ UNCHANGED <<at, made>>
  BY DEF GameInv, Assemble
<1>3. turn + 1 <= Turns
  BY <1>1, <1>2, BudgetAssumption DEF BatchInv
<1>4. /\ pc' \in {"horizon", "assemble", "fetch"}
      /\ pc' # "horizon" => turn' # Turns
      /\ pc' = "assemble" => cmds' \in OrderBatches
  <2>1. turn + 1 \in Nat
    BY <1>1
  <2>2. QED
    BY <1>1, <1>3, <2>1, BatchOfNextTurn
<1>5. at' - 1 = 0
  BY <1>2
<1>6. QED
  BY <1>1, <1>2, <1>3, <1>4, <1>5, NoOrderYet DEF BatchInv, Asking

LEMMA BatchNext == GameInv /\ BatchInv /\ [Next]_vars => BatchInv'
<1> SUFFICES ASSUME GameInv, BatchInv, [Next]_vars
             PROVE  BatchInv'
  OBVIOUS
<1>1. ASSUME UNCHANGED <<at, made, cmds, records>>,
             \/ pc' = pc
             \/ pc = "fetch" /\ pc' \in {"decide", "spend-cap", "aborted", "crashed"}
      PROVE  BatchInv'
  <2>1. slot' = slot /\ turn' = turn /\ Orders(slot)' = Orders(slot)
    BY <1>1 DEF slot, turn, Orders
  <2>2. QED
    BY <1>1, <2>1 DEF BatchInv, Asking
<1>2. CASE CountFails
  BY <1>1, <1>2 DEF CountFails, game
<1>3. ASSUME NEW in \in Inputs, CapRefuses(in)
      PROVE  BatchInv'
  BY <1>1, <1>3 DEF CapRefuses, game
<1>4. ASSUME NEW in \in Inputs, NEW cost \in Charges(in), CallRaises(in, cost)
      PROVE  BatchInv'
  BY <1>1, <1>4 DEF CallRaises, game
<1>5. ASSUME NEW in \in Inputs, NEW cost \in Charges(in), CallExcluded(in, cost)
      PROVE  BatchInv'
  BY <1>1, <1>5 DEF CallExcluded, Called
<1>6. ASSUME NEW in \in Inputs, NEW cost \in Charges(in), NEW response \in Responses,
             CallAnswers(in, cost, response)
      PROVE  BatchInv'
  BY <1>6, BatchAnswer
<1>7. ASSUME NEW in \in Inputs, NEW cost \in Charges(in), NEW response \in Responses,
             CallAsserts(in, cost, response)
      PROVE  BatchInv'
  BY <1>1, <1>7 DEF CallAsserts, Called
<1>8. CASE SlotEnds
  BY <1>8, BatchSlotEnds
<1>9. CASE Assemble
  BY <1>9, BatchAssemble
<1>10. CASE UNCHANGED vars
  BY <1>1, <1>10 DEF vars, game
<1>11. QED
  BY <1>2, <1>3, <1>4, <1>5, <1>6, <1>7, <1>8, <1>9, <1>10 DEF Next, Fail, Progress

LEMMA BatchInvariant == Spec => []BatchInv
BY BatchInit, BatchNext, GameInvariant, PTL DEF Spec

(***************************************************************************)
(* Campaign's operators at the game's constants are the game's own.        *)
(***************************************************************************)
LEMMA SameTransition ==
  ASSUME NEW s, NEW b, NEW t, NEW r
  PROVE  Played!transition(s, b, t, r) = transition(s, b, t, r)
<1>1. Played!validate_all(b, s) = validate_all(b, s)
  BY Zenon DEF validate_all, Played!validate_all, IsLegal, Played!IsLegal, LegalityCodes,
               Played!LegalityCodes, Breaks, Played!Breaks, Actors, Played!Actors, Actions,
               Played!Actions, ActionOf, Played!ActionOf
<1>2. Played!resolve(Played!Commands(b), s, t, r) = resolve(Commands(b), s, t, r)
  BY Zenon DEF resolve, Played!resolve, Commands, Played!Commands, Optional, Played!Optional,
               Dispatches, Played!Dispatches, Blocks, Played!Blocks, Terminal, Played!Terminal,
               Lost, Played!Lost, Contested, Played!Contested, Event, Played!Event
<1>3. \A e : Played!reduce(s, e) = reduce(s, e)
  BY Zenon DEF reduce, Played!reduce, Amount, Played!Amount, At, Played!At, Terminals,
               Played!Terminals
<1>4. \A e : Played!SoundSuccessor(s, e) = SoundSuccessor(s, e)
  BY Zenon DEF SoundSuccessor, Played!SoundSuccessor, reduce, Played!reduce, WellFormed,
               Played!WellFormed, conservation_total, Played!conservation_total,
               is_non_negative, Played!is_non_negative, Amount, Played!Amount, At, Played!At,
               Terminals, Played!Terminals, EventTypes, Played!EventTypes
<1>5. Played!Rejected(s) = Rejected(s)
  BY DEF Played!Rejected, Rejected
<1>6. QED
  BY <1>1, <1>2, <1>3, <1>4, <1>5 DEF transition, Played!transition

LEMMA SameRecord ==
  ASSUME NEW s, NEW b, NEW t, NEW r
  PROVE  Played!TurnRecord(s, b, t, ReplaySeed, r) = TurnRecord(s, b, t, ReplaySeed, r)
BY Zenon DEF TurnRecord, Played!TurnRecord, Draws, Played!Draws, Commands, Played!Commands

LEMMA PlayedInit == Init => Played!Init
<1> SUFFICES ASSUME Init
             PROVE  Played!Init
  OBVIOUS
<1>1. PICK o \in Origins, x \in Secrets : head = StartState(o, x)
  BY DEF Init
<1>2. head = Played!StartState(o, x)
  BY <1>1 DEF StartState, Played!StartState
<1>3. oracle \in Played!Oracle /\ ReplaySeed \in {ReplaySeed}
  BY DEF Init, oracle, Played!Oracle
<1>4. records = <<>> /\ pc = StartOfTurn(0)
  BY DEF Init
<1>5. pc \notin {"rejected", "raised"}
  BY <1>4, FreshTurn
<1>6. QED
  BY <1>2, <1>3, <1>4, <1>5 DEF Played!Init

\* Assembling a turn is a turn of the campaign on the orders of its slots.
LEMMA TurnStep ==
  ASSUME GameInv, BatchInv, Assemble
  PROVE  Played!Resolved(cmds) /\ cmds \in OrderBatches
<1> DEFINE result == transition(head, cmds, turn, roll)
<1>1. /\ result.status = "resolved"
      /\ records' = Append(records, TurnRecord(head, cmds, turn, ReplaySeed, result))
      /\ head' = result.state /\ pc' = StartOfTurn(turn + 1) /\ roll' = roll
      /\ turn \in Nat /\ records' # <<>>
  BY TurnIsPlayed
<1>2. pc = "assemble"
  BY DEF Assemble
<1>3. cmds \in OrderBatches /\ turn < Turns
  BY <1>1, <1>2, BudgetAssumption DEF BatchInv
<1>4. Played!turn = turn
  BY DEF Played!turn, turn
<1>5. oracle[ReplaySeed] = roll /\ oracle' = oracle
  BY <1>1 DEF oracle
<1>6. Played!transition(head, cmds, Played!turn, oracle[ReplaySeed]) = result
  BY <1>4, <1>5, SameTransition
<1>7. pc' \notin {"rejected", "raised"}
  BY <1>1, FreshTurn
<1>8. Played!TurnRecord(head, cmds, Played!turn, ReplaySeed, result)
        = TurnRecord(head, cmds, turn, ReplaySeed, result)
  BY <1>4, SameRecord
<1> HIDE DEF result
<1>9. QED
  BY <1>1, <1>3, <1>4, <1>5, <1>6, <1>7, <1>8 DEF Played!Resolved

LEMMA PlayedStep ==
  GameInv /\ BatchInv /\ [Next]_vars => [Played!Next]_(Played!vars)
<1> SUFFICES ASSUME GameInv, BatchInv, [Next]_vars
             PROVE  Played!Next \/ UNCHANGED Played!vars
  OBVIOUS
<1>1. CASE Assemble
  BY <1>1, TurnStep DEF Played!Next
<1>2. ASSUME UNCHANGED <<roll, head, records>>,
             pc' = pc \/ (pc' \notin {"rejected", "raised"} /\ pc \notin {"rejected", "raised"})
      PROVE  UNCHANGED Played!vars
  BY <1>2 DEF Played!vars, oracle
<1>3. CASE Fail
  BY <1>2, <1>3 DEF Fail, CountFails, CallRaises, game
<1>4. CASE UNCHANGED vars
  BY <1>2, <1>4 DEF vars, game
<1>5. CASE Progress /\ ~Assemble
  BY <1>2, <1>5 DEF Progress, CapRefuses, CallExcluded, CallAnswers, CallAsserts, Called,
                    SlotEnds, game
<1>6. QED
  BY <1>1, <1>3, <1>4, <1>5 DEF Next

(***************************************************************************)
(* run_game is a campaign of the engine: whatever is asked, answered,      *)
(* retried, excluded or refused by the cap, a turn of the game is one turn *)
(* of a Campaign on one order or none of each slot, and the rest of its    *)
(* steps change nothing a Campaign has.                                    *)
(***************************************************************************)
THEOREM GameIsACampaign == Spec => PlaysCampaign
BY PlayedInit, PlayedStep, GameInvariant, BatchInvariant, PTL
   DEF Spec, PlaysCampaign, Played!Spec

-----------------------------------------------------------------------------
(***************************************************************************)
(* The records are a chain the engine made with the master seed.           *)
(***************************************************************************)
GameRecordsInv == Chained(records, head, ReplaySeed, roll)

\* What assemble does, in every state of a game: the turn always resolves.
LEMMA TurnResolves ==
  ASSUME GameInv, Assemble
  PROVE  LET result == transition(head, cmds, turn, roll)
             rec    == TurnRecord(head, cmds, turn, ReplaySeed, result)
         IN  /\ result.status = "resolved"
             /\ records' = Append(records, rec) /\ head' = result.state
             /\ pc' = StartOfTurn(turn + 1) /\ roll' = roll
             /\ EngineMade(rec, turn, ReplaySeed, roll)
<1> DEFINE result == transition(head, cmds, turn, roll)
           rec    == TurnRecord(head, cmds, turn, ReplaySeed, result)
<1>1. CommandsFit /\ head \in State /\ head.as_of_turn = turn
  BY DEF GameInv
<1>2. cmds \in Seq(Command)
  BY <1>1 DEF CommandsFit
<1>3. /\ result.status = "resolved"
      /\ records' = Append(records, rec) /\ head' = result.state
      /\ pc' = StartOfTurn(turn + 1) /\ roll' = roll
  BY TurnIsPlayed
<1>4. EngineMade(rec, turn, ReplaySeed, roll)
  BY <1>1, <1>2, <1>3, TurnRecordIsMade
<1>5. QED
  BY <1>3, <1>4

LEMMA GameRecordsNext ==
  GameInv /\ GameRecordsInv /\ [Next]_vars => GameRecordsInv'
<1> SUFFICES ASSUME GameInv, GameRecordsInv, [Next]_vars
             PROVE  GameRecordsInv'
  OBVIOUS
<1>1. CASE Assemble
  <2> DEFINE result == transition(head, cmds, turn, roll)
             rec    == TurnRecord(head, cmds, turn, ReplaySeed, result)
  <2>1. /\ EngineMade(rec, turn, ReplaySeed, roll)
        /\ records' = Append(records, rec) /\ head' = result.state /\ roll' = roll
    BY <1>1, TurnResolves
  <2>2. rec.start_state = head /\ rec.resulting_state = result.state
    BY DEF TurnRecord
  <2> HIDE DEF result, rec
  <2>3. Chained(Append(records, rec), rec.resulting_state, ReplaySeed, roll)
    BY <2>1, <2>2, ChainGrows DEF GameRecordsInv, turn
  <2>4. QED
    BY <2>1, <2>2, <2>3 DEF GameRecordsInv
<1>2. CASE UNCHANGED <<records, head, roll>>
  BY <1>2 DEF GameRecordsInv
<1>3. QED
  BY <1>1, <1>2
     DEF Next, Fail, Progress, CountFails, CapRefuses, CallRaises, CallExcluded, CallAnswers,
         CallAsserts, Called, SlotEnds, vars, game

LEMMA GameRecordsInvariant == Spec => []GameRecordsInv
<1>1. Init => GameRecordsInv
  BY DEF Init, GameRecordsInv, Chained
<1>2. QED
  BY <1>1, GameInvariant, GameRecordsNext, PTL DEF Spec

(***************************************************************************)
(* run_game's bundle: however the game stopped, at its horizon or at the   *)
(* spend cap in the middle of a turn, the records it leaves are a chain    *)
(* that check_record and check_chain accept.                               *)
(***************************************************************************)
THEOREM GamesReplay == Spec => []PrefixReplays
<1>1. GameRecordsInv => PrefixReplays
  <2> SUFFICES ASSUME GameRecordsInv
               PROVE  PrefixReplays
    OBVIOUS
  <2>1. oracle[ReplaySeed] = roll
    BY DEF oracle
  <2>2. ASSUME NEW i \in DOMAIN records
        PROVE  check_record(records[i], oracle) = {}
    <3> DEFINE rec == records[i]
    <3>1. EngineMade(rec, i - 1, ReplaySeed, oracle[ReplaySeed])
      BY <2>1 DEF GameRecordsInv, Chained
    <3> HIDE DEF rec
    <3>2. check_record(rec, oracle) = {}
      BY <3>1, MadeReplays, ReplaySeedAssumption
    <3>3. QED
      BY <3>2 DEF rec
  <2>3. check_chain(records) = {}
    BY ChainPasses DEF GameRecordsInv
  <2>4. QED
    BY <2>2, <2>3 DEF PrefixReplays
<1>2. QED
  BY <1>1, GameRecordsInvariant, PTL

(***************************************************************************)
(* The provenance gate on one slot.  What classify_attempt makes of a      *)
(* response is what the gate re-derives from it: Ruled.                    *)
(***************************************************************************)
Ruled(a, p, start) ==
  \/ /\ a.kind = "COMMAND" /\ extract_ok(a.response)
     /\ a.digest = project_semantic(a.response) /\ a.digest # NoDigest
     /\ a.reject = None /\ legality_of(p, a.response, start) = None
  \/ /\ a.kind = "FORFEIT" /\ ~extract_ok(a.response)
     /\ a.digest = NoDigest
     /\ a.reject = a.response.reject /\ a.reject \in REJECT_CODES
  \/ /\ a.kind = "ILLEGAL_FORFEIT" /\ extract_ok(a.response)
     /\ a.digest = project_semantic(a.response) /\ a.digest # NoDigest
     /\ a.reject = legality_of(p, a.response, start)
     /\ a.reject # None /\ a.reject \in LEGALITY_REJECT_CODES

LEMMA LegalityIsACode ==
  ASSUME NEW p, NEW response, NEW start
  PROVE  legality_of(p, response, start) \in {None} \cup LEGALITY_REJECT_CODES
<1> DEFINE c == Bound(p, response)
<1>1. CASE IsLegal(c, start)
  BY <1>1 DEF legality_of, command_legality
<1>2. CASE ~IsLegal(c, start)
  <2>1. PICK i \in 1..6 : command_legality(c, start) = LegalityCodes[i]
    BY <1>2, CodeOfIllegal
  <2>2. DOMAIN LegalityCodes = 1..6
    BY DEF LegalityCodes
  <2>3. command_legality(c, start) \in LEGALITY_REJECT_CODES
    BY <2>1, <2>2 DEF LEGALITY_REJECT_CODES
  <2> HIDE DEF c
  <2>4. QED
    BY <2>3 DEF legality_of, c
<1>3. QED
  BY <1>1, <1>2

LEMMA AttemptIsRuled ==
  ASSUME NEW p, NEW start, NEW r \in Responses, NEW request, NEW code
  PROVE  LET a == classify_attempt(p, start, r, request, code) IN
         Ruled(a, p, start) /\ a.response = r /\ a.request = request /\ a.correction = code
<1> DEFINE ok     == extract_ok(r)
           digest == IF ok THEN project_semantic(r) ELSE NoDigest
           law    == legality_of(p, r, start)
           reject == IF ok THEN law ELSE r.reject
           a      == classify_attempt(p, start, r, request, code)
<1>1. /\ a.kind = KindOf(digest, reject) /\ a.digest = digest /\ a.reject = reject
      /\ a.response = r /\ a.request = request /\ a.correction = code
  BY DEF classify_attempt
<1>2. ok => project_semantic(r) # NoDigest
  <2>1. ok => r.action \in Actions
    BY ResponseAssumption DEF extract_ok
  <2>2. None \notin Actions
    BY NoneAssumption
  <2>3. QED
    BY <2>1, <2>2 DEF project_semantic, NoDigest
<1>3. ~ok => r.reject \in REJECT_CODES
  BY ResponseAssumption DEF extract_ok, Response
<1>4. law = None \/ (law # None /\ law \in LEGALITY_REJECT_CODES)
  BY LegalityIsACode
<1>5. ASSUME ~ok PROVE Ruled(a, p, start)
  <2>1. a.kind = "FORFEIT" /\ a.digest = NoDigest /\ a.reject = r.reject
    BY <1>1, <1>5 DEF KindOf
  <2> HIDE DEF a
  <2>2. QED
    BY <1>1, <1>3, <1>5, <2>1 DEF Ruled
<1>6. ASSUME ok /\ law = None PROVE Ruled(a, p, start)
  <2>1. a.kind = "COMMAND" /\ a.digest = project_semantic(r) /\ a.reject = None
    BY <1>1, <1>2, <1>6 DEF KindOf
  <2> HIDE DEF a
  <2>2. QED
    BY <1>1, <1>2, <1>6, <2>1 DEF Ruled
<1>7. ASSUME ok /\ law # None PROVE Ruled(a, p, start)
  <2>1. a.kind = "ILLEGAL_FORFEIT" /\ a.digest = project_semantic(r) /\ a.reject = law
    BY <1>1, <1>2, <1>7 DEF KindOf
  <2> HIDE DEF a
  <2>2. QED
    BY <1>1, <1>2, <1>4, <1>7, <2>1 DEF Ruled
<1>8. QED
  BY <1>1, <1>5, <1>6, <1>7

(***************************************************************************)
(* The attempts of slot p in turn t, whose head is start: each is ruled,   *)
(* asked with the code of the one before and with the request the gate     *)
(* renders, its bytes are committed, and only the last may be a COMMAND.   *)
(***************************************************************************)
Carried(a, i) == IF i = 1 THEN None ELSE a[i - 1].reject

Tried(a, i, p, t, start) ==
  /\ Ruled(a[i], p, start)
  /\ a[i].correction = Carried(a, i)
  /\ a[i].request = render_request_envelope(p, t, start, Carried(a, i))
  /\ a[i].kind = "COMMAND" => i = Len(a)

Tries(a, p, t, start) ==
  /\ \E S : a \in Seq(S)
  /\ \A i \in 1..Len(a) : Tried(a, i, p, t, start)

\* The step live_step makes of them, field by field.
StepOf(step, a, p, t) ==
  LET last == a[Len(a)] IN
  /\ step.slot = p /\ step.turn = t /\ step.prompt_version = "a1b"
  /\ step.kind = last.kind /\ step.digest = last.digest /\ step.reject = last.reject
  /\ step.response = last.response /\ step.request = last.request
  /\ step.correction = last.correction
  /\ step.priors = [i \in 1..Len(a)-1 |-> prior_attempt(a[i])]

LEMMA LastTryIsDecisive ==
  ASSUME NEW a, NEW p, NEW t, NEW start, Tries(a, p, t, start), a # <<>>
  PROVE  decisive(a) = Len(a) /\ Len(a) \in 1..Len(a) /\ DOMAIN a = 1..Len(a)
<1> DEFINE commands == {i \in DOMAIN a : a[i].kind = "COMMAND"}
<1>1. Len(a) \in 1..Len(a) /\ DOMAIN a = 1..Len(a)
  BY DEF Tries
<1>2. commands = {} \/ commands = {Len(a)}
  BY <1>1 DEF Tries, Tried
<1>3. decisive(a) = IF commands = {} THEN Len(a)
                    ELSE CHOOSE i \in commands : \A j \in commands : i <= j
  BY DEF decisive
<1> HIDE DEF commands
<1>4. CASE commands = {}
  BY <1>1, <1>3, <1>4
<1>5. CASE commands = {Len(a)}
  <2>1. Len(a) <= Len(a)
    BY DEF Tries
  <2>2. (CHOOSE i \in commands : \A j \in commands : i <= j) = Len(a)
    BY <1>5, <2>1
  <2>3. QED
    BY <1>1, <1>3, <1>5, <2>2
<1>6. QED
  BY <1>2, <1>4, <1>5

LEMMA StepOfTries ==
  ASSUME NEW a, NEW p, NEW t, NEW start, Tries(a, p, t, start), a # <<>>
  PROVE  StepOf(live_step(p, t, a), a, p, t)
<1> DEFINE n == Len(a)
<1>1. decisive(a) = n /\ n \in 1..n
  BY LastTryIsDecisive
<1>2. KindOf(a[n].digest, a[n].reject) = a[n].kind
  <2>1. Ruled(a[n], p, start)
    BY <1>1 DEF Tries, Tried
  <2>2. None \notin REJECT_CODES /\ None \notin LEGALITY_REJECT_CODES
    BY NoneAssumption DEF CORRECTION_CODES
  <2> HIDE DEF n
  <2>3. QED
    BY <2>1, <2>2 DEF Ruled, KindOf
<1>3. live_step(p, t, a) =
        [ turn |-> t, slot |-> p, prompt_version |-> "a1b", kind |-> a[n].kind,
          digest |-> a[n].digest, reject |-> a[n].reject, response |-> a[n].response,
          request |-> a[n].request, correction |-> a[n].correction,
          priors |-> [i \in 1..n-1 |-> prior_attempt(a[i])] ]
  BY <1>1, <1>2, Zenon DEF live_step
<1> HIDE DEF n
<1>4. QED
  BY <1>3 DEF StepOf, n

(***************************************************************************)
(* The checks of the gate on such a step, one by one.                      *)
(***************************************************************************)
LEMMA CarriedIsACode ==
  ASSUME NEW a, NEW p, NEW t, NEW start, Tries(a, p, t, start), NEW i \in 1..Len(a)
  PROVE  /\ a[i].correction \in CORRECTION_CODES \cup {None}
         /\ i # Len(a) => a[i].kind \in {"FORFEIT", "ILLEGAL_FORFEIT"}
         /\ a[i].kind = "FORFEIT" => a[i].reject \in REJECT_CODES
         /\ a[i].kind = "ILLEGAL_FORFEIT" => a[i].reject \in LEGALITY_REJECT_CODES
<1>1. Ruled(a[i], p, start) /\ a[i].correction = Carried(a, i)
      /\ (a[i].kind = "COMMAND" => i = Len(a))
  BY DEF Tries, Tried
<1>2. Carried(a, i) \in CORRECTION_CODES \cup {None}
  <2>1. CASE i = 1
    BY <2>1 DEF Carried
  <2>2. CASE i # 1
    <3>1. Len(a) \in Nat
      BY DEF Tries
    <3>2. i - 1 \in 1..Len(a)
      BY <2>2, <3>1
    <3>3. Ruled(a[i - 1], p, start)
      BY <3>2 DEF Tries, Tried
    <3>4. a[i - 1].reject \in CORRECTION_CODES \cup {None}
      BY <3>3 DEF Ruled, CORRECTION_CODES
    <3>5. QED
      BY <2>2, <3>4 DEF Carried
  <2>3. QED
    BY <2>1, <2>2
<1>3. a[i].correction \in CORRECTION_CODES \cup {None}
  BY <1>1, <1>2
<1>4. /\ i # Len(a) => a[i].kind \in {"FORFEIT", "ILLEGAL_FORFEIT"}
      /\ a[i].kind = "FORFEIT" => a[i].reject \in REJECT_CODES
      /\ a[i].kind = "ILLEGAL_FORFEIT" => a[i].reject \in LEGALITY_REJECT_CODES
  BY <1>1 DEF Ruled
<1>5. QED
  BY <1>3, <1>4

LEMMA StructureHolds ==
  ASSUME NEW step, NEW a, NEW p, NEW t, NEW start, Tries(a, p, t, start), a # <<>>,
         StepOf(step, a, p, t)
  PROVE  structural_problems(step) = {}
<1> DEFINE n    == Len(a)
           last == a[n]
<1>1. n \in 1..n /\ n \in Nat
  BY LastTryIsDecisive DEF Tries
<1>2. Ruled(last, p, start) /\ last.correction \in CORRECTION_CODES \cup {None}
  BY <1>1, CarriedIsACode DEF Tries, Tried
<1>3. /\ step.kind = last.kind /\ step.digest = last.digest /\ step.reject = last.reject
      /\ step.correction = last.correction
      /\ step.priors = [i \in 1..n-1 |-> prior_attempt(a[i])]
  BY DEF StepOf
<1> DEFINE priors == step.priors
<1>4. ASSUME NEW i \in DOMAIN priors
      PROVE  /\ priors[i].correction \in CORRECTION_CODES \cup {None}
             /\ priors[i].kind \in {"FORFEIT", "ILLEGAL_FORFEIT"}
             /\ priors[i].kind = "FORFEIT" => priors[i].reject \in REJECT_CODES
             /\ priors[i].kind = "ILLEGAL_FORFEIT" => priors[i].reject \in LEGALITY_REJECT_CODES
  <2>1. i \in 1..n /\ i # n /\ priors[i] = prior_attempt(a[i])
    BY <1>1, <1>3
  <2>2. /\ priors[i].correction = a[i].correction /\ priors[i].kind = a[i].kind
        /\ priors[i].reject = a[i].reject
    BY <2>1 DEF prior_attempt
  <2> HIDE DEF priors
  <2>3. /\ a[i].correction \in CORRECTION_CODES \cup {None}
        /\ a[i].kind \in {"FORFEIT", "ILLEGAL_FORFEIT"}
        /\ a[i].kind = "FORFEIT" => a[i].reject \in REJECT_CODES
        /\ a[i].kind = "ILLEGAL_FORFEIT" => a[i].reject \in LEGALITY_REJECT_CODES
    BY <2>1, CarriedIsACode
  <2>4. QED
    BY <2>2, <2>3
<1> HIDE DEF n, last
<1>5. /\ (\/ step.kind = "COMMAND" /\ (step.digest = NoDigest \/ step.reject # None)
          \/ step.kind = "FORFEIT" /\ step.digest # NoDigest
          \/ step.kind = "ILLEGAL_FORFEIT" /\ step.digest = NoDigest) = FALSE
      /\ (\/ step.kind = "FORFEIT" /\ step.reject \notin REJECT_CODES
          \/ step.kind = "ILLEGAL_FORFEIT" /\ step.reject \notin LEGALITY_REJECT_CODES) = FALSE
      /\ (step.correction \notin CORRECTION_CODES \cup {None}) = FALSE
  BY <1>2, <1>3 DEF Ruled
<1>6. (\E i \in DOMAIN step.priors : LET prior == step.priors[i] IN
         \/ prior.correction \notin CORRECTION_CODES \cup {None}
         \/ prior.kind \notin {"FORFEIT", "ILLEGAL_FORFEIT"}
         \/ prior.kind = "FORFEIT" /\ prior.reject \notin REJECT_CODES
         \/ prior.kind = "ILLEGAL_FORFEIT" /\ prior.reject \notin LEGALITY_REJECT_CODES) = FALSE
  BY <1>4
<1>7. structural_problems(step)
        = Codes([ digest_presence |-> FALSE, invalid_reject |-> FALSE,
                  invalid_correction |-> FALSE, invalid_prior |-> FALSE ])
  BY <1>5, <1>6, Zenon DEF structural_problems
<1>8. QED
  BY <1>7 DEF Codes

\* The turn of the step is committed, with this slot's part of its commands.
Bundles(turns_, a, p, t, start) ==
  /\ t \in DOMAIN turns_
  /\ turns_[t].turn = t /\ turns_[t].start_state = start /\ start.as_of_turn = t
  /\ FromSlot(turns_[t], p) = IF a[Len(a)].kind = "COMMAND" THEN {Bound(p, a[Len(a)].response)}
                              ELSE {}

LEMMA EnvelopeHolds ==
  ASSUME NEW step, NEW a, NEW p, NEW t, NEW start, Tries(a, p, t, start),
         StepOf(step, a, p, t), NEW turns_, Bundles(turns_, a, p, t, start), NEW i \in 1..Len(a)
  PROVE  bind_request_envelope(step, a[i].correction, a[i].request, turns_) = {}
<1> DEFINE code == a[i].correction
           request == a[i].request
<1>1. step.turn = t /\ step.slot = p /\ step.prompt_version = "a1b"
  BY DEF StepOf
<1>2. t \in DOMAIN turns_ /\ turns_[t].start_state = start
  BY DEF Bundles
<1>3. request = render_request_envelope(p, t, start, code)
  BY DEF Tries, Tried
<1>4. step.prompt_version \notin INTEGRITY_ONLY_PROMPT_VERSIONS
  BY <1>1 DEF INTEGRITY_ONLY_PROMPT_VERSIONS
<1> HIDE DEF code, request
<1>5. bind_request_envelope(step, code, request, turns_) = {}
  BY <1>1, <1>2, <1>3, <1>4, Zenon DEF bind_request_envelope
<1>6. QED
  BY <1>5 DEF code, request

LEMMA BindingHolds ==
  ASSUME NEW step, NEW a, NEW p, NEW t, NEW start, Tries(a, p, t, start), a # <<>>,
         StepOf(step, a, p, t), NEW turns_, Bundles(turns_, a, p, t, start),
         NEW llm, \A i \in 1..Len(a) : {a[i].response, a[i].request} \subseteq llm
  PROVE  binding_problems(step, turns_, llm) = {}
<1> DEFINE n    == Len(a)
           last == a[n]
           envelope == bind_request_envelope(step, step.correction, step.request, turns_)
           rec  == turns_[t]
<1>1. n \in 1..n
  BY LastTryIsDecisive
<1>2. Ruled(last, p, start) /\ {last.response, last.request} \subseteq llm
  BY <1>1 DEF Tries, Tried
<1>3. /\ step.kind = last.kind /\ step.digest = last.digest /\ step.reject = last.reject
      /\ step.response = last.response /\ step.request = last.request
      /\ step.correction = last.correction /\ step.turn = t /\ step.slot = p
  BY DEF StepOf
<1>4. envelope = {}
  <2>1. bind_request_envelope(step, last.correction, last.request, turns_) = {}
    BY <1>1, EnvelopeHolds
  <2>2. QED
    BY <1>3, <2>1
<1>5. /\ t \in DOMAIN turns_ /\ rec.turn = t
      /\ rec.start_state = start /\ start.as_of_turn = t
      /\ FromSlot(rec, p) = IF last.kind = "COMMAND" THEN {Bound(p, last.response)} ELSE {}
  BY DEF Bundles
<1>6. ~TurnMismatch(step, rec)
  BY <1>3, <1>5 DEF TurnMismatch
<1> HIDE DEF n, last, envelope, rec
<1>7. {step.response, step.request} \ llm = {}
  BY <1>2, <1>3
<1>8. CASE last.kind = "FORFEIT"
  <2>1. step.kind = "FORFEIT" /\ ~extract_ok(step.response) /\ step.response.reject = step.reject
    BY <1>2, <1>3, <1>8 DEF Ruled
  <2>2. extract_ok(step.response) = FALSE
        /\ (~extract_ok(step.response) /\ step.response.reject # step.reject) = FALSE
    BY <2>1 DEF extract_ok
  <2>3. ForfeitProblems(step)
          = Codes([spurious_forfeit |-> FALSE, forfeit_code_mismatch |-> FALSE])
    BY <2>2, Zenon DEF ForfeitProblems
  <2>4. ForfeitProblems(step) = {}
    BY <2>3 DEF Codes
  <2>5. binding_problems(step, turns_, llm) = ForfeitProblems(step) \cup envelope
    BY <1>7, <2>1, Zenon DEF binding_problems, envelope
  <2>6. QED
    BY <1>4, <2>4, <2>5
<1>9. CASE last.kind = "COMMAND"
  <2>1. /\ step.kind = "COMMAND" /\ step.kind # "FORFEIT" /\ extract_ok(step.response)
        /\ project_semantic(step.response) = step.digest
    BY <1>2, <1>3, <1>9 DEF Ruled
  <2>2. FromSlot(rec, step.slot) = {Bound(step.slot, step.response)}
    BY <1>3, <1>5, <1>9
  <2>3. Cardinality(FromSlot(rec, step.slot)) = 1
    BY <2>2, FS_Singleton
  <2>4. (FromSlot(rec, step.slot) # {Bound(step.slot, step.response)}) = FALSE
        /\ TurnMismatch(step, rec) = FALSE
    BY <1>6, <2>2 DEF TurnMismatch
  <2>5. CommandProblems(step, rec)
          = Codes([semantic_digest_mismatch |-> FALSE, turn_mismatch |-> FALSE])
    BY <2>3, <2>4, Zenon DEF CommandProblems
  <2>6. CommandProblems(step, rec) = {}
    BY <2>5 DEF Codes
  <2>7. binding_problems(step, turns_, llm) = {} \cup (envelope \cup CommandProblems(step, rec))
    BY <1>3, <1>5, <1>7, <2>1, Zenon DEF binding_problems, envelope, rec
  <2>8. QED
    BY <1>4, <2>6, <2>7
<1>10. CASE last.kind = "ILLEGAL_FORFEIT"
  <2> DEFINE law == legality_of(step.slot, step.response, rec.start_state)
  <2>1. /\ step.kind = "ILLEGAL_FORFEIT" /\ step.kind # "FORFEIT" /\ step.kind # "COMMAND"
        /\ extract_ok(step.response) /\ project_semantic(step.response) = step.digest
        /\ law = step.reject /\ step.reject # None
    BY <1>2, <1>3, <1>5, <1>10 DEF Ruled
  <2>2. /\ (law = None) = FALSE
        /\ (law # None /\ law # step.reject) = FALSE
        /\ (FromSlot(rec, step.slot) # {}) = FALSE
        /\ TurnMismatch(step, rec) = FALSE
    BY <1>3, <1>5, <1>6, <1>10, <2>1 DEF TurnMismatch
  <2>3. IllegalForfeitProblems(step, rec)
          = Codes([spurious_illegal_forfeit |-> FALSE, illegal_code_mismatch |-> FALSE,
                   illegal_forfeit_has_command |-> FALSE, turn_mismatch |-> FALSE])
    BY <2>2, Zenon DEF IllegalForfeitProblems
  <2>4. IllegalForfeitProblems(step, rec) = {}
    BY <2>3 DEF Codes
  <2>5. binding_problems(step, turns_, llm)
          = {} \cup (envelope \cup IllegalForfeitProblems(step, rec))
    BY <1>3, <1>5, <1>7, <2>1, Zenon DEF binding_problems, envelope, rec
  <2>6. QED
    BY <1>4, <2>4, <2>5
<1>11. QED
  BY <1>2, <1>8, <1>9, <1>10 DEF Ruled

LEMMA ChainHolds ==
  ASSUME NEW step, NEW a, NEW p, NEW t, NEW start, Tries(a, p, t, start), a # <<>>,
         StepOf(step, a, p, t)
  PROVE  ~ChainBroken(step)
<1> DEFINE n      == Len(a)
           priors == step.priors
           earlier == [i \in DOMAIN priors |-> priors[i].correction]
           corrections == Append(earlier, step.correction)
<1>1. n \in 1..n /\ n \in Nat
  BY LastTryIsDecisive DEF Tries
<1>2. /\ step.correction = a[n].correction
      /\ priors = [i \in 1..n-1 |-> prior_attempt(a[i])]
  BY DEF StepOf
<1>3. \A i \in 1..n-1 : priors[i].correction = a[i].correction /\ priors[i].reject = a[i].reject
  BY <1>2 DEF prior_attempt
<1>4. DOMAIN priors = 1..n-1 /\ n - 1 \in Nat /\ (n - 1) + 1 = n
  BY <1>1, <1>2
<1> HIDE DEF n, priors
<1>5. \A i \in 1..n-1 : earlier[i] = a[i].correction
  BY <1>3, <1>4
<1>6. earlier \in Seq({earlier[i] : i \in 1..n-1} \cup {step.correction}) /\ Len(earlier) = n - 1
  <2>1. earlier \in [1..n-1 -> {earlier[i] : i \in 1..n-1} \cup {step.correction}]
    BY <1>4
  <2> HIDE DEF earlier
  <2>2. QED
    BY <1>4, <2>1
<1> HIDE DEF earlier
<1>7. /\ DOMAIN corrections = 1..n
      /\ \A i \in 1..n : corrections[i] = IF i = n THEN step.correction ELSE earlier[i]
  BY <1>4, <1>6
<1> HIDE DEF corrections
<1>8. ASSUME NEW i \in DOMAIN corrections
      PROVE  corrections[i] = IF i = 1 THEN None ELSE priors[i - 1].reject
  <2>1. i \in 1..n /\ (i # n => i \in 1..n-1)
    BY <1>4, <1>7
  <2>2. corrections[i] = a[i].correction
    BY <1>2, <1>5, <1>7, <2>1
  <2>3. a[i].correction = Carried(a, i)
    BY <2>1 DEF Tries, Tried, n
  <2>4. i # 1 => i - 1 \in 1..n-1
    BY <1>4, <2>1
  <2>5. QED
    BY <1>3, <2>2, <2>3, <2>4 DEF Carried
<1>9. ~\E i \in DOMAIN corrections :
         corrections[i] # IF i = 1 THEN None ELSE priors[i - 1].reject
  BY <1>8
<1>10. QED
  BY <1>9, Zenon DEF ChainBroken, corrections, earlier, priors

\* A prior attempt of the step is judged as it was ruled.
LEMMA PriorHolds ==
  ASSUME NEW step, NEW a, NEW p, NEW t, NEW start, Tries(a, p, t, start), a # <<>>,
         StepOf(step, a, p, t), NEW i \in 1..Len(a), i # Len(a)
  PROVE  prior_problems(step, prior_attempt(a[i]), start) = {}
<1> DEFINE prior == prior_attempt(a[i])
           ok    == extract_ok(prior.response)
           law   == legality_of(step.slot, prior.response, start)
<1>1. /\ prior.kind = a[i].kind /\ prior.reject = a[i].reject /\ prior.response = a[i].response
      /\ step.slot = p
  BY DEF prior_attempt, StepOf
<1>2. Ruled(a[i], p, start) /\ a[i].kind # "COMMAND"
  BY DEF Tries, Tried
<1> HIDE DEF prior
<1>3. /\ ok = (prior.kind # "FORFEIT") /\ prior.kind \in {"FORFEIT", "ILLEGAL_FORFEIT"}
      /\ ~ok => prior.response.reject = prior.reject
      /\ ok => law = prior.reject /\ law # None
  BY <1>1, <1>2 DEF Ruled, extract_ok
<1> HIDE DEF ok, law
<1>4. /\ (ok = (prior.kind = "FORFEIT")) = FALSE
      /\ (\/ prior.kind = "FORFEIT" /\ ~ok /\ prior.response.reject # prior.reject
          \/ /\ prior.kind = "ILLEGAL_FORFEIT" /\ ok
             /\ law # None /\ law # prior.reject) = FALSE
      /\ (prior.kind = "ILLEGAL_FORFEIT" /\ ok /\ law = None) = FALSE
  BY <1>3
<1>5. prior_problems(step, prior, start)
        = Codes([prior_not_rejected |-> FALSE, prior_code_mismatch |-> FALSE, prior_legal |-> FALSE])
  BY <1>4, Zenon DEF prior_problems, ok, law
<1>6. prior_problems(step, prior, start) = {}
  BY <1>5 DEF Codes
<1>7. QED
  BY <1>6 DEF prior

LEMMA RetriesHold ==
  ASSUME NEW step, NEW a, NEW p, NEW t, NEW start, Tries(a, p, t, start), a # <<>>,
         StepOf(step, a, p, t), NEW turns_, Bundles(turns_, a, p, t, start),
         NEW llm, \A i \in 1..Len(a) : {a[i].response, a[i].request} \subseteq llm
  PROVE  retry_problems(step, turns_, llm) = {}
<1> DEFINE from  == IF step.turn \in DOMAIN turns_ THEN turns_[step.turn].start_state ELSE Unlimited
           Prior(q) ==
             IF q.response \notin llm THEN {"prior_artifact_missing"}
             ELSE (IF q.request \in llm THEN {} ELSE {"prior_artifact_missing"})
                    \cup prior_problems(step, q, from)
                    \cup bind_request_envelope(step, q.correction, q.request, turns_)
           priors == step.priors
<1>1. /\ step.turn = t /\ t \in DOMAIN turns_ /\ turns_[t].start_state = start
      /\ priors = [i \in 1..Len(a)-1 |-> prior_attempt(a[i])]
  BY DEF StepOf, Bundles
<1>2. from = start
  BY <1>1
<1>3. Len(a) \in Nat
  BY DEF Tries
<1> HIDE DEF from
<1>4. ASSUME NEW i \in DOMAIN priors
      PROVE  Prior(priors[i]) = {}
  <2> DEFINE q == prior_attempt(a[i])
  <2>1. i \in 1..Len(a) /\ i # Len(a) /\ priors[i] = q
    BY <1>1, <1>3
  <2>2. /\ q.response = a[i].response /\ q.request = a[i].request
        /\ q.correction = a[i].correction
    BY DEF prior_attempt
  <2>3. prior_problems(step, q, start) = {}
    BY <2>1, PriorHolds
  <2> HIDE DEF q
  <2>4. bind_request_envelope(step, q.correction, q.request, turns_) = {}
    <3>1. bind_request_envelope(step, a[i].correction, a[i].request, turns_) = {}
      BY <2>1, EnvelopeHolds
    <3>2. QED
      BY <2>2, <3>1
  <2>5. q.response \in llm /\ q.request \in llm
    BY <2>1, <2>2
  <2>6. Prior(q) = {}
    BY <1>2, <2>3, <2>4, <2>5
  <2> HIDE DEF Prior
  <2>7. QED
    BY <2>1, <2>6
<1>5. retry_problems(step, turns_, llm)
        = (IF ChainBroken(step) THEN {"retry_correction_chain"} ELSE {})
            \cup UNION {Prior(priors[i]) : i \in DOMAIN priors}
  BY Zenon DEF retry_problems, from
<1>6. ~ChainBroken(step)
  BY ChainHolds
<1> HIDE DEF Prior, priors
<1>7. UNION {Prior(priors[i]) : i \in DOMAIN priors} = {}
  BY <1>4
<1>8. QED
  BY <1>5, <1>6, <1>7

LEMMA StepPasses ==
  ASSUME NEW a, NEW p, NEW t, NEW start, Tries(a, p, t, start), a # <<>>,
         NEW turns_, Bundles(turns_, a, p, t, start),
         NEW llm, \A i \in 1..Len(a) : {a[i].response, a[i].request} \subseteq llm
  PROVE  step_problems(live_step(p, t, a), turns_, llm) = {}
<1> DEFINE step == live_step(p, t, a)
<1>1. StepOf(step, a, p, t)
  BY StepOfTries
<1> HIDE DEF step
<1>2. structural_problems(step) = {} /\ binding_problems(step, turns_, llm) = {}
      /\ retry_problems(step, turns_, llm) = {}
  BY <1>1, StructureHolds, BindingHolds, RetriesHold
<1>3. step_problems(step, turns_, llm) = {}
  BY <1>2 DEF step_problems
<1>4. QED
  BY <1>3 DEF step

(***************************************************************************)
(* The ledger of a game in progress.  Every step was made of tries at the  *)
(* head of its turn and holds for the slot's part of that turn's orders,   *)
(* which are those committed or, of the current turn, those so far; every  *)
(* order has its step; no slot has two steps in a turn.                    *)
(***************************************************************************)
StartOf(t)  == IF t < turn THEN records[t + 1].start_state ELSE head
OrdersOf(t) == IF t < turn THEN records[t + 1].command_batch ELSE Commands(cmds)

From(orders, p) == {c \in orders : c.actor = p}

SoundStep(step, start, orders, llm) ==
  /\ step.slot \in Actors
  /\ \E a : /\ a # <<>> /\ Tries(a, step.slot, step.turn, start)
            /\ step = live_step(step.slot, step.turn, a)
            /\ \A i \in 1..Len(a) : {a[i].response, a[i].request} \subseteq llm
            /\ From(orders, step.slot)
                 = IF a[Len(a)].kind = "COMMAND" THEN {Bound(step.slot, a[Len(a)].response)} ELSE {}

StepsSound ==
  /\ \E S : steps \in Seq(S)
  /\ \A i \in DOMAIN steps :
       /\ steps[i].turn \in 0..turn
       /\ SoundStep(steps[i], StartOf(steps[i].turn), OrdersOf(steps[i].turn), artifacts)
  /\ \A i, j \in DOMAIN steps :
       steps[i].turn = steps[j].turn /\ steps[i].slot = steps[j].slot => i = j

CoveredBy(c, t) ==
  \E i \in DOMAIN steps : steps[i].kind = "COMMAND" /\ steps[i].turn = t /\ steps[i].slot = c.actor

OrdersCovered == \A t \in 0..turn : \A c \in OrdersOf(t) : CoveredBy(c, t)

LedgerInv ==
  /\ StepsSound /\ OrdersCovered
  /\ Asking => /\ Tries(made, slot, turn, head)
               /\ \A i \in DOMAIN steps : steps[i].turn = turn =>
                    \E k \in 1..at-1 : steps[i].slot = Slots[k]
  /\ pc = "horizon" => \A i \in DOMAIN steps : steps[i].turn # turn

\* A step stays sound when bytes are added and its slot's orders stay.
LEMMA SoundStepKept ==
  ASSUME NEW step, NEW start, NEW orders, NEW llm, SoundStep(step, start, orders, llm),
         NEW orders2, From(orders2, step.slot) = From(orders, step.slot),
         NEW llm2, llm \subseteq llm2
  PROVE  SoundStep(step, start, orders2, llm2)
<1>1. PICK a : /\ a # <<>> /\ Tries(a, step.slot, step.turn, start)
               /\ step = live_step(step.slot, step.turn, a)
               /\ \A i \in 1..Len(a) : {a[i].response, a[i].request} \subseteq llm
               /\ From(orders, step.slot)
                    = IF a[Len(a)].kind = "COMMAND" THEN {Bound(step.slot, a[Len(a)].response)}
                      ELSE {}
  BY Zenon DEF SoundStep
<1>2. \A i \in 1..Len(a) : {a[i].response, a[i].request} \subseteq llm2
  BY <1>1
<1>3. step.slot \in Actors
  BY DEF SoundStep
<1>4. QED
  BY <1>1, <1>2, <1>3, Zenon DEF SoundStep

\* A fetch leaves the ledger alone, whatever it adds to the attempts.
LEMMA LedgerFetch ==
  ASSUME LedgerInv, pc = "fetch", UNCHANGED <<head, at, cmds, records, steps, artifacts>>,
         pc' # "horizon", Asking' => Tries(made', slot, turn, head)
  PROVE  LedgerInv'
<1>1. slot' = slot /\ turn' = turn
  BY DEF slot, turn
<1>2. \A t : StartOf(t)' = StartOf(t) /\ OrdersOf(t)' = OrdersOf(t)
  BY <1>1 DEF StartOf, OrdersOf
<1>3. StepsSound'
  BY <1>1, <1>2 DEF LedgerInv, StepsSound
<1>4. OrdersCovered'
  BY <1>1, <1>2 DEF LedgerInv, OrdersCovered, CoveredBy
<1>5. Asking
  BY DEF Asking
<1>6. Asking' => /\ Tries(made', slot', turn', head')
                 /\ \A i \in DOMAIN steps' : steps'[i].turn = turn' =>
                      \E k \in 1..at'-1 : steps'[i].slot = Slots[k]
  BY <1>1, <1>5 DEF LedgerInv
<1>7. QED
  BY <1>3, <1>4, <1>6 DEF LedgerInv

\* An answer is one more try.
LEMMA OneMoreTry ==
  ASSUME GameInv, LedgerInv, NEW in, NEW cost, NEW response \in Responses,
         CallAnswers(in, cost, response)
  PROVE  Tries(made', slot, turn, head)
<1> DEFINE request == render_request_envelope(slot, turn, head, correction)
           a       == classify_attempt(slot, head, response, request, correction)
           n       == Len(made)
<1>1. pc = "fetch" /\ made' = Append(made, a)
  BY DEF CallAnswers, Called
<1>2. Tries(made, slot, turn, head) /\ AttemptsFit
  BY <1>1 DEF LedgerInv, GameInv, Asking
<1>3. Ruled(a, slot, head) /\ a.request = request /\ a.correction = correction
  BY AttemptIsRuled
<1> HIDE DEF a
<1>4. PICK S : made \in Seq(S)
  BY <1>2 DEF AttemptsFit
<1>5. made \in Seq(S \cup {a})
  BY <1>4
<1>6. /\ made' \in Seq(S \cup {a}) /\ Len(made') = n + 1 /\ n \in Nat
      /\ made'[n + 1] = a
      /\ \A i \in 1..n : made'[i] = made[i]
      /\ DOMAIN made = 1..n
      /\ made = <<>> <=> n = 0
  BY <1>1, <1>5
<1> HIDE DEF n
<1>7. ASSUME NEW i \in 1..n
      PROVE  Tried(made', i, slot, turn, head)
  <2>1. Tried(made, i, slot, turn, head)
    BY <1>2 DEF Tries, n
  <2>2. made'[i] = made[i] /\ made[i].kind # "COMMAND"
    BY <1>1, <1>2, <1>6 DEF AttemptsFit
  <2>3. Carried(made', i) = Carried(made, i)
    <3>1. i # 1 => i - 1 \in 1..n
      BY <1>6
    <3>2. QED
      BY <1>6, <3>1 DEF Carried
  <2>4. QED
    BY <2>1, <2>2, <2>3 DEF Tried
<1>8. Tried(made', n + 1, slot, turn, head)
  <2>1. Carried(made', n + 1) = correction
    <3>1. CASE n = 0
      BY <1>6, <3>1 DEF Carried, correction
    <3>2. CASE n # 0
      <4>1. n + 1 # 1 /\ (n + 1) - 1 = n /\ n \in 1..n
        BY <1>6, <3>2
      <4>2. made'[n] = made[n]
        BY <1>6, <4>1
      <4>3. QED
        BY <1>6, <3>2, <4>1, <4>2 DEF Carried, correction, n
    <3>3. QED
      BY <3>1, <3>2
  <2>2. QED
    BY <1>3, <1>6, <2>1 DEF Tried
<1>9. QED
  <2>1. \A i \in 1..n+1 : i \in 1..n \/ i = n + 1
    BY <1>6
  <2>2. QED
    BY <1>6, <1>7, <1>8, <2>1 DEF Tries

\* What a slot ends with: no step, or the one of its tries, and no order, or
\* the one of the last.
LEMMA SlotOutcome ==
  ASSUME GameInv, LedgerInv, SlotEnds
  PROVE  LET n    == Len(made)
             step == live_step(slot, turn, made)
             own  == IF made[n].kind = "COMMAND" THEN {Bound(slot, made[n].response)} ELSE {}
         IN  /\ slot \in Actors /\ From(Commands(cmds), slot) = {}
             /\ \/ made = <<>> /\ UNCHANGED <<steps, artifacts, cmds>>
                \/ /\ made # <<>> /\ Tries(made, slot, turn, head)
                   /\ steps' = Append(steps, step)
                   /\ artifacts \subseteq artifacts'
                   /\ \A i \in 1..n : {made[i].response, made[i].request} \subseteq artifacts'
                   /\ Commands(cmds') = Commands(cmds) \cup own
<1> DEFINE n    == Len(made)
           step == live_step(slot, turn, made)
           own  == IF made[n].kind = "COMMAND" THEN {Bound(slot, made[n].response)} ELSE {}
<1>1. /\ pc = "decide" /\ Asking /\ AskedInOrder /\ AttemptsFit /\ CommandsFit
      /\ Tries(made, slot, turn, head)
  BY DEF SlotEnds, GameInv, LedgerInv, Asking
<1>2. Slots \in Seq(Actors) /\ at \in 1..Len(Slots) /\ slot = Slots[at] /\ slot \in Actors
  BY <1>1, SlotsAssumption DEF AskedInOrder, slot
<1>3. From(Commands(cmds), slot) = {}
  <2> SUFFICES ASSUME NEW i \in DOMAIN cmds, cmds[i].actor = slot
               PROVE  FALSE
    BY DEF From, Commands
  <2>1. PICK k \in 1..at-1 : cmds[i].actor = Slots[k]
    BY <1>1 DEF AskedInOrder
  <2>2. k \in DOMAIN Slots /\ at \in DOMAIN Slots /\ k # at
    BY <1>2
  <2>3. QED
    BY <1>2, <2>1, <2>2, SlotsAssumption
<1>4. CASE made = <<>>
  BY <1>2, <1>3, <1>4 DEF SlotEnds
<1>5. CASE made # <<>>
  <2> DEFINE bytes(i) == {made[i].response, made[i].request}
  <2>1. decisive(made) = n
    BY <1>1, <1>5, LastTryIsDecisive
  <2>2. /\ steps' = Append(steps, step)
        /\ artifacts' = artifacts \cup UNION {bytes(i) : i \in 1..n}
        /\ cmds' = IF made[n].kind = "COMMAND" THEN Append(cmds, Bound(slot, made[n].response))
                   ELSE cmds
    BY <1>5, <2>1, Zenon DEF SlotEnds
  <2> HIDE DEF bytes, n, step
  <2>3. artifacts \subseteq artifacts' /\ \A i \in 1..n : bytes(i) \subseteq artifacts'
    BY <2>2
  <2>4. Commands(cmds') = Commands(cmds) \cup own
    <3>1. CASE made[n].kind = "COMMAND"
      <4> DEFINE c == Bound(slot, made[n].response)
      <4>1. cmds \in Seq(Command) /\ cmds' = Append(cmds, c)
        BY <1>1, <2>2, <3>1 DEF CommandsFit
      <4> HIDE DEF c
      <4>2. cmds \in Seq(Command \cup {c})
        BY <4>1
      <4>3. /\ DOMAIN cmds' = 1..Len(cmds) + 1 /\ DOMAIN cmds = 1..Len(cmds) /\ Len(cmds) \in Nat
            /\ cmds'[Len(cmds) + 1] = c /\ \A i \in 1..Len(cmds) : cmds'[i] = cmds[i]
        BY <4>1, <4>2
      <4>4. Commands(cmds') = Commands(cmds) \cup {c}
        BY <4>3 DEF Commands
      <4>5. QED
        BY <3>1, <4>4 DEF c
    <3>2. CASE made[n].kind # "COMMAND"
      BY <2>2, <3>2
    <3>3. QED
      BY <3>1, <3>2
  <2>5. QED
    BY <1>1, <1>2, <1>3, <1>5, <2>2, <2>3, <2>4 DEF bytes, n, step
<1>6. QED
  BY <1>4, <1>5

\* A slot without an attempt leaves no trace.
LEMMA LedgerSkips ==
  ASSUME GameInv, LedgerInv, SlotEnds, UNCHANGED <<steps, artifacts, cmds>>
  PROVE  StepsSound' /\ OrdersCovered' /\ turn' = turn
<1>1. UNCHANGED <<head, records>>
  BY DEF SlotEnds
<1>2. turn' = turn
  BY <1>1 DEF turn
<1>3. \A t : StartOf(t)' = StartOf(t) /\ OrdersOf(t)' = OrdersOf(t)
  BY <1>1, <1>2 DEF StartOf, OrdersOf
<1>4. QED
  BY <1>2, <1>3 DEF LedgerInv, StepsSound, OrdersCovered, CoveredBy

\* A slot with attempts adds its step, and its order if it has one.
LEMMA LedgerAdds ==
  ASSUME GameInv, LedgerInv, SlotEnds, made # <<>>, slot \in Actors,
         From(Commands(cmds), slot) = {}, Tries(made, slot, turn, head),
         NEW step, step = live_step(slot, turn, made),
         NEW own, own = IF made[Len(made)].kind = "COMMAND"
                        THEN {Bound(slot, made[Len(made)].response)} ELSE {},
         steps' = Append(steps, step), artifacts \subseteq artifacts',
         \A i \in 1..Len(made) : {made[i].response, made[i].request} \subseteq artifacts',
         Commands(cmds') = Commands(cmds) \cup own
  PROVE  StepsSound' /\ OrdersCovered' /\ turn' = turn
<1> DEFINE n == Len(steps)
<1>1. UNCHANGED <<head, records>> /\ Asking
  BY DEF SlotEnds, Asking
<1>2. turn' = turn /\ turn \in Nat
  BY <1>1 DEF turn, GameInv
<1>3. /\ \A t : StartOf(t)' = StartOf(t)
      /\ \A t : t < turn => OrdersOf(t)' = OrdersOf(t)
  BY <1>1, <1>2 DEF StartOf, OrdersOf
<1>4. /\ OrdersOf(turn) = Commands(cmds) /\ OrdersOf(turn)' = Commands(cmds')
      /\ StartOf(turn) = head
  BY <1>2 DEF OrdersOf, StartOf
<1>5. /\ step.slot = slot /\ step.turn = turn
      /\ step.kind = made[Len(made)].kind
  <2>1. StepOf(step, made, slot, turn)
    BY StepOfTries
  <2>2. QED
    BY <2>1 DEF StepOf
<1>6. PICK S : steps \in Seq(S)
  BY DEF LedgerInv, StepsSound
<1>7. /\ steps' \in Seq(S \cup {step}) /\ DOMAIN steps' = 1..n+1 /\ DOMAIN steps = 1..n
      /\ n \in Nat /\ steps'[n + 1] = step
      /\ \A i \in 1..n : steps'[i] = steps[i]
  <2>1. steps \in Seq(S \cup {step})
    BY <1>6
  <2>2. QED
    BY <2>1
<1>8. \A c \in own : c.actor = slot
  BY DEF Bound
<1>9. \A i \in 1..n : steps[i].turn = turn => steps[i].slot # slot
  <2> SUFFICES ASSUME NEW i \in 1..n, steps[i].turn = turn, steps[i].slot = slot
               PROVE  FALSE
    OBVIOUS
  <2>1. PICK k \in 1..at-1 : steps[i].slot = Slots[k]
    BY <1>1, <1>7 DEF LedgerInv
  <2>2. at \in 1..Len(Slots) /\ Slots \in Seq(Actors) /\ slot = Slots[at]
    BY <1>1, SlotsAssumption DEF GameInv, AskedInOrder, slot
  <2>3. k \in DOMAIN Slots /\ at \in DOMAIN Slots /\ k # at
    BY <2>2
  <2>4. QED
    BY <2>1, <2>2, <2>3, SlotsAssumption
<1> HIDE DEF n
<1>10. ASSUME NEW i \in 1..n, NEW old, old = steps[i], NEW t, t = old.turn
       PROVE  t \in 0..turn /\ SoundStep(old, StartOf(t), OrdersOf(t)', artifacts')
  <2>1. t \in 0..turn /\ SoundStep(old, StartOf(t), OrdersOf(t), artifacts)
    BY <1>7, <1>10 DEF LedgerInv, StepsSound
  <2>2. From(OrdersOf(t)', old.slot) = From(OrdersOf(t), old.slot)
    <3>1. CASE t = turn
      <4>1. old.slot # slot
        BY <1>9, <1>10, <3>1
      <4>2. OrdersOf(t)' = OrdersOf(t) \cup own
        BY <1>2, <1>4, <3>1
      <4>3. QED
        BY <1>8, <4>1, <4>2 DEF From
    <3>2. CASE t # turn
      <4>1. t < turn
        BY <1>2, <2>1, <3>2
      <4>2. QED
        BY <1>3, <4>1
    <3>3. QED
      BY <3>1, <3>2
  <2> DEFINE start == StartOf(t)
             was   == OrdersOf(t)
             is    == OrdersOf(t)'
             now   == artifacts'
  <2> HIDE DEF start, was, is, now
  <2>3. SoundStep(old, start, was, artifacts) /\ From(is, old.slot) = From(was, old.slot)
        /\ artifacts \subseteq now
    BY <2>1, <2>2 DEF start, was, is, now
  <2>4. SoundStep(old, start, is, now)
    BY <2>3, SoundStepKept
  <2>5. QED
    BY <2>1, <2>4 DEF start, is, now
<1>11. SoundStep(step, head, Commands(cmds'), artifacts')
  <2>1. From(Commands(cmds'), slot) = own
    <3> DEFINE is == Commands(cmds')
               was == Commands(cmds)
    <3>1. is = was \cup own /\ From(was, slot) = {}
      OBVIOUS
    <3> HIDE DEF is, was
    <3>2. From(is, slot) = own
      BY <1>8, <3>1 DEF From
    <3>3. QED
      BY <3>2 DEF is
  <2>2. QED
    BY <1>5, <2>1, Zenon DEF SoundStep
<1>12. ASSUME NEW i \in DOMAIN steps', NEW t, t = steps'[i].turn
       PROVE  t \in 0..turn' /\ SoundStep(steps'[i], StartOf(t)', OrdersOf(t)', artifacts')
  <2>1. CASE i \in 1..n
    <3>1. steps'[i] = steps[i]
      BY <1>7, <2>1
    <3>2. t \in 0..turn /\ SoundStep(steps[i], StartOf(t), OrdersOf(t)', artifacts')
      BY <1>10, <1>12, <2>1, <3>1
    <3>3. QED
      BY <1>2, <1>3, <3>1, <3>2
  <2>2. CASE i = n + 1
    <3>1. steps'[i] = step /\ t = turn
      BY <1>5, <1>7, <1>12, <2>2
    <3>2. t \in 0..turn' /\ StartOf(t)' = head /\ OrdersOf(t)' = Commands(cmds')
      BY <1>2, <1>3, <1>4, <3>1
    <3>3. QED
      BY <1>11, <3>1, <3>2
  <2>3. QED
    BY <1>7, <2>1, <2>2
<1>13. \A i, j \in DOMAIN steps' :
          steps'[i].turn = steps'[j].turn /\ steps'[i].slot = steps'[j].slot => i = j
  <2> SUFFICES ASSUME NEW i \in 1..n+1, NEW j \in 1..n+1,
                      steps'[i].turn = steps'[j].turn, steps'[i].slot = steps'[j].slot
               PROVE  i = j
    BY <1>7
  <2>1. CASE i \in 1..n /\ j \in 1..n
    <3>1. steps'[i] = steps[i] /\ steps'[j] = steps[j] /\ i \in DOMAIN steps /\ j \in DOMAIN steps
      BY <1>7, <2>1
    <3>2. QED
      BY <3>1 DEF LedgerInv, StepsSound
  <2>2. CASE i = n + 1 /\ j \in 1..n
    BY <1>5, <1>7, <1>9, <2>2
  <2>3. CASE i \in 1..n /\ j = n + 1
    BY <1>5, <1>7, <1>9, <2>3
  <2>4. QED
    BY <1>7, <2>1, <2>2, <2>3
<1>14. StepsSound'
  BY <1>7, <1>12, <1>13 DEF StepsSound
<1>15. ASSUME NEW t \in 0..turn, NEW c \in OrdersOf(t)'
       PROVE  CoveredBy(c, t)'
  <2>1. CASE c \in OrdersOf(t)
    <3>1. PICK i \in DOMAIN steps : steps[i].kind = "COMMAND" /\ steps[i].turn = t
                                    /\ steps[i].slot = c.actor
      BY <2>1 DEF LedgerInv, OrdersCovered, CoveredBy
    <3>2. i \in DOMAIN steps' /\ steps'[i] = steps[i]
      BY <1>7, <3>1
    <3>3. QED
      BY <3>1, <3>2 DEF CoveredBy
  <2>2. CASE c \notin OrdersOf(t)
    <3>1. t = turn /\ c \in own
      BY <1>2, <1>3, <1>4, <2>2
    <3>2. made[Len(made)].kind = "COMMAND" /\ c.actor = slot
      BY <1>8, <3>1
    <3>3. n + 1 \in DOMAIN steps' /\ steps'[n + 1] = step
      BY <1>7
    <3>4. QED
      BY <1>5, <3>1, <3>2, <3>3 DEF CoveredBy
  <2>3. QED
    BY <2>1, <2>2
<1>16. OrdersCovered'
  BY <1>2, <1>15 DEF OrdersCovered
<1>17. QED
  BY <1>2, <1>14, <1>16

LEMMA LedgerSlotEnds ==
  ASSUME GameInv, LedgerInv, SlotEnds
  PROVE  LedgerInv'
<1> DEFINE n    == Len(made)
           step == live_step(slot, turn, made)
           own  == IF made[n].kind = "COMMAND" THEN {Bound(slot, made[n].response)} ELSE {}
<1>1. /\ pc = "decide" /\ made' = <<>> /\ UNCHANGED <<head, records>>
      /\ pc' = IF at = Len(Slots) THEN "assemble" ELSE "fetch"
      /\ at' = IF at = Len(Slots) THEN 1 ELSE at + 1
  BY DEF SlotEnds
<1>2. /\ slot \in Actors /\ From(Commands(cmds), slot) = {}
      /\ \/ made = <<>> /\ UNCHANGED <<steps, artifacts, cmds>>
         \/ /\ made # <<>> /\ Tries(made, slot, turn, head)
            /\ steps' = Append(steps, step)
            /\ artifacts \subseteq artifacts'
            /\ \A i \in 1..n : {made[i].response, made[i].request} \subseteq artifacts'
            /\ Commands(cmds') = Commands(cmds) \cup own
  BY SlotOutcome
<1>3. StepsSound' /\ OrdersCovered' /\ turn' = turn
  <2>1. CASE made = <<>> /\ UNCHANGED <<steps, artifacts, cmds>>
    BY <2>1, LedgerSkips
  <2>2. CASE made # <<>> /\ steps' = Append(steps, step)
    BY <1>2, <2>2, LedgerAdds
  <2>3. QED
    BY <1>2, <2>1, <2>2
<1>4. at \in 1..Len(Slots) /\ Slots \in Seq(Actors) /\ slot = Slots[at]
  BY <1>1, SlotsAssumption DEF GameInv, Asking, AskedInOrder, slot
<1>5. ASSUME NEW i \in DOMAIN steps', steps'[i].turn = turn
      PROVE  \E k \in 1..at : steps'[i].slot = Slots[k]
  <2>1. CASE UNCHANGED steps
    <3>1. PICK k \in 1..at-1 : steps[i].slot = Slots[k]
      BY <1>1, <1>5, <2>1 DEF LedgerInv, Asking
    <3>2. k \in 1..at
      BY <1>4
    <3>3. QED
      BY <2>1, <3>1, <3>2
  <2>2. CASE made # <<>> /\ steps' = Append(steps, step)
    <3>1. step.slot = slot
      <4>1. StepOf(step, made, slot, turn)
        BY <1>2, <2>2, StepOfTries
      <4>2. QED
        BY <4>1 DEF StepOf
    <3>2. PICK S : steps \in Seq(S)
      BY DEF LedgerInv, StepsSound
    <3> HIDE DEF step
    <3>3. steps \in Seq(S \cup {step})
      BY <3>2
    <3>4. (i \in DOMAIN steps /\ steps'[i] = steps[i]) \/ steps'[i] = step
      BY <1>5, <2>2, <3>3
    <3>5. CASE i \in DOMAIN steps /\ steps'[i] = steps[i]
      <4>1. PICK k \in 1..at-1 : steps[i].slot = Slots[k]
        BY <1>1, <1>5, <3>5 DEF LedgerInv, Asking
      <4>2. k \in 1..at
        BY <1>4
      <4>3. QED
        BY <3>5, <4>1, <4>2
    <3>6. CASE steps'[i] = step
      <4>1. at \in 1..at
        BY <1>4
      <4>2. QED
        BY <1>4, <3>1, <3>6, <4>1
    <3>7. QED
      BY <3>4, <3>5, <3>6
  <2>3. QED
    BY <1>2, <2>1, <2>2
<1>6. CASE at = Len(Slots)
  BY <1>1, <1>3, <1>6 DEF LedgerInv, Asking
<1>7. CASE at # Len(Slots)
  <2>1. Tries(made', slot', turn', head')
    BY <1>1 DEF Tries
  <2>2. at' = at + 1 /\ pc' = "fetch" /\ (at + 1) - 1 = at
    BY <1>1, <1>4, <1>7
  <2>3. \A i \in DOMAIN steps' : steps'[i].turn = turn' => \E k \in 1..at'-1 : steps'[i].slot = Slots[k]
    BY <1>3, <1>5, <2>2
  <2>4. QED
    BY <1>3, <2>1, <2>2, <2>3 DEF LedgerInv
<1>8. QED
  BY <1>6, <1>7

\* The orders so far are committed as the turn's; the next turn has none.
LEMMA LedgerAssemble ==
  ASSUME GameInv, LedgerInv, Assemble
  PROVE  LedgerInv'
<1> DEFINE result == transition(head, cmds, turn, roll)
           rec    == TurnRecord(head, cmds, turn, ReplaySeed, result)
<1>1. records' = Append(records, rec) /\ pc' = StartOfTurn(turn + 1)
  BY TurnResolves
<1>2. rec.start_state = head /\ rec.command_batch = Commands(cmds)
  BY DEF TurnRecord
<1> HIDE DEF result, rec
<1>3. /\ cmds' = <<>> /\ made = <<>> /\ UNCHANGED <<made, steps, artifacts>>
  BY DEF Assemble, GameInv
<1>4. PICK S : records \in Seq(S)
  BY DEF GameInv
<1>5. /\ turn \in Nat /\ turn' = turn + 1
      /\ records'[turn + 1] = rec
      /\ \A i \in 1..turn : records'[i] = records[i]
  <2>1. records \in Seq(S \cup {rec})
    BY <1>4
  <2>2. QED
    BY <1>1, <2>1 DEF turn
<1>6. ASSUME NEW t \in 0..turn
      PROVE  StartOf(t)' = StartOf(t) /\ OrdersOf(t)' = OrdersOf(t)
  <2>1. t < turn' /\ t + 1 \in 1..turn + 1
    BY <1>5
  <2>2. StartOf(t)' = records'[t + 1].start_state /\ OrdersOf(t)' = records'[t + 1].command_batch
    BY <2>1 DEF StartOf, OrdersOf
  <2>3. CASE t < turn
    <3>1. t + 1 \in 1..turn
      BY <1>5, <2>3
    <3>2. QED
      BY <1>5, <2>2, <2>3, <3>1 DEF StartOf, OrdersOf
  <2>4. CASE t = turn
    BY <1>2, <1>5, <2>2, <2>4 DEF StartOf, OrdersOf
  <2>5. QED
    BY <1>5, <2>3, <2>4
<1>7. StepsSound'
  <2>1. ASSUME NEW i \in DOMAIN steps, NEW t, t = steps[i].turn
        PROVE  t \in 0..turn' /\ SoundStep(steps[i], StartOf(t)', OrdersOf(t)', artifacts)
    <3>1. t \in 0..turn /\ SoundStep(steps[i], StartOf(t), OrdersOf(t), artifacts)
      BY <2>1 DEF LedgerInv, StepsSound
    <3>2. QED
      BY <1>5, <1>6, <3>1
  <2>2. /\ \E T : steps \in Seq(T)
        /\ \A i, j \in DOMAIN steps :
             steps[i].turn = steps[j].turn /\ steps[i].slot = steps[j].slot => i = j
    BY DEF LedgerInv, StepsSound
  <2>3. QED
    BY <1>3, <2>1, <2>2 DEF StepsSound
<1>8. OrdersCovered'
  <2>1. ASSUME NEW t \in 0..turn', NEW c \in OrdersOf(t)'
        PROVE  CoveredBy(c, t)'
    <3>1. CASE t = turn'
      BY <1>3, <1>5, <2>1, <3>1 DEF OrdersOf, Commands
    <3>2. CASE t # turn'
      <4>1. t \in 0..turn
        BY <1>5, <3>2
      <4>2. CoveredBy(c, t)
        BY <1>6, <4>1 DEF LedgerInv, OrdersCovered
      <4>3. QED
        BY <1>3, <4>2 DEF CoveredBy
    <3>3. QED
      BY <3>1, <3>2
  <2>2. QED
    BY <2>1 DEF OrdersCovered
<1>9. \A i \in DOMAIN steps' : steps'[i].turn # turn'
  <2>1. \A i \in DOMAIN steps : steps[i].turn \in 0..turn
    BY DEF LedgerInv, StepsSound
  <2>2. QED
    BY <1>3, <1>5, <2>1
<1>10. Tries(made', slot', turn', head')
  BY <1>3 DEF Tries
<1>11. QED
  BY <1>7, <1>8, <1>9, <1>10 DEF LedgerInv

LEMMA LedgerNext == GameInv /\ LedgerInv /\ [Next]_vars => LedgerInv'
<1> SUFFICES ASSUME GameInv, LedgerInv, [Next]_vars
             PROVE  LedgerInv'
  OBVIOUS
<1> DEFINE same == UNCHANGED <<head, at, cmds, records, steps, artifacts>>
<1>1. ASSUME pc = "fetch", same, UNCHANGED made, pc' # "horizon"
      PROVE  LedgerInv'
  <2>1. Tries(made, slot, turn, head)
    BY <1>1 DEF LedgerInv, Asking
  <2>2. Tries(made', slot, turn, head)
    BY <1>1, <2>1 DEF Tries, Tried, Carried
  <2>3. QED
    BY <1>1, <2>2, LedgerFetch
<1>2. CASE CountFails
  BY <1>1, <1>2 DEF CountFails, game
<1>3. ASSUME NEW in \in Inputs, CapRefuses(in)
      PROVE  LedgerInv'
  BY <1>1, <1>3 DEF CapRefuses, game
<1>4. ASSUME NEW in \in Inputs, NEW cost \in Charges(in), CallRaises(in, cost)
      PROVE  LedgerInv'
  BY <1>1, <1>4 DEF CallRaises, game
<1>5. ASSUME NEW in \in Inputs, NEW cost \in Charges(in), CallExcluded(in, cost)
      PROVE  LedgerInv'
  BY <1>1, <1>5 DEF CallExcluded, Called
<1>6. ASSUME NEW in \in Inputs, NEW cost \in Charges(in), NEW response \in Responses,
             CallAnswers(in, cost, response)
      PROVE  LedgerInv'
  <2>1. Tries(made', slot, turn, head)
    BY <1>6, OneMoreTry
  <2>2. pc = "fetch" /\ same /\ pc' # "horizon"
    BY <1>6 DEF CallAnswers, Called
  <2>3. QED
    BY <2>1, <2>2, LedgerFetch
<1>7. ASSUME NEW in \in Inputs, NEW cost \in Charges(in), NEW response \in Responses,
             CallAsserts(in, cost, response)
      PROVE  LedgerInv'
  BY <1>1, <1>7 DEF CallAsserts, Called
<1>8. CASE SlotEnds
  BY <1>8, LedgerSlotEnds
<1>9. CASE Assemble
  BY <1>9, LedgerAssemble
<1>10. CASE UNCHANGED vars
  <2>1. UNCHANGED <<head, at, made, cmds, records, steps, artifacts, pc>>
    BY <1>10 DEF vars, game
  <2>2. slot' = slot /\ turn' = turn
    BY <2>1 DEF slot, turn
  <2>3. \A t : StartOf(t)' = StartOf(t) /\ OrdersOf(t)' = OrdersOf(t)
    BY <2>1, <2>2 DEF StartOf, OrdersOf
  <2>4. StepsSound' /\ OrdersCovered'
    BY <2>1, <2>2, <2>3 DEF LedgerInv, StepsSound, OrdersCovered, CoveredBy
  <2>5. QED
    BY <2>1, <2>2, <2>4 DEF LedgerInv, Asking, Tries, Tried, Carried
<1>11. QED
  BY <1>2, <1>3, <1>4, <1>5, <1>6, <1>7, <1>8, <1>9, <1>10 DEF Next, Fail, Progress

LEMMA LedgerInit == Init => LedgerInv
<1> SUFFICES ASSUME Init
             PROVE  LedgerInv
  OBVIOUS
<1>1. records = <<>> /\ made = <<>> /\ cmds = <<>> /\ steps = <<>>
  BY DEF Init
<1>2. turn = 0
  BY <1>1 DEF turn
<1>3. StepsSound
  BY <1>1 DEF StepsSound
<1>4. OrdersCovered
  BY <1>1, <1>2 DEF OrdersCovered, OrdersOf, Commands
<1>5. Tries(made, slot, turn, head)
  BY <1>1 DEF Tries
<1>6. QED
  BY <1>1, <1>3, <1>4, <1>5 DEF LedgerInv

LEMMA LedgerInvariant == Spec => []LedgerInv
BY LedgerInit, LedgerNext, GameInvariant, PTL DEF Spec

LEMMA CommittedTurn ==
  ASSUME GameRecordsInv, NEW t \in Nat, t < turn
  PROVE  /\ records[t + 1].turn = t /\ records[t + 1].start_state.as_of_turn = t
         /\ EngineMade(records[t + 1], t, ReplaySeed, roll)
<1>1. Len(records) \in Nat
  BY DEF GameRecordsInv, Chained
<1>2. ASSUME NEW i \in 1..Len(records), NEW u, u = i - 1
      PROVE  EngineMade(records[i], u, ReplaySeed, roll)
  BY <1>2 DEF GameRecordsInv, Chained
<1>3. t + 1 \in 1..Len(records) /\ t = (t + 1) - 1
  BY <1>1 DEF turn
<1>4. EngineMade(records[t + 1], t, ReplaySeed, roll)
  BY <1>2, <1>3
<1>5. QED
  BY <1>4 DEF EngineMade

\* A step of a committed turn passes all checks of the gate.
LEMMA CommittedStepPasses ==
  ASSUME GameRecordsInv, LedgerInv, NEW i \in DOMAIN steps, steps[i].turn < turn
  PROVE  step_problems(steps[i], turns, artifacts) = {}
<1> SUFFICES ASSUME NEW step, step = steps[i], NEW t, t = step.turn, NEW p, p = step.slot
             PROVE  step_problems(step, turns, artifacts) = {}
  OBVIOUS
<1> DEFINE start == StartOf(t)
           rec   == records[t + 1]
<1>1. turn \in Nat
  BY DEF GameRecordsInv, Chained, turn
<1>2. t \in 0..turn-1 /\ t < turn
  <2>1. t \in 0..turn /\ t < turn
    BY DEF LedgerInv, StepsSound
  <2>2. QED
    BY <1>1, <2>1
<1>3. SoundStep(step, start, OrdersOf(t), artifacts)
  BY DEF LedgerInv, StepsSound
<1>4. start = rec.start_state /\ OrdersOf(t) = rec.command_batch
  BY <1>2 DEF StartOf, OrdersOf
<1>5. PICK a : /\ a # <<>> /\ Tries(a, p, t, start)
               /\ step = live_step(p, t, a)
               /\ \A k \in 1..Len(a) : {a[k].response, a[k].request} \subseteq artifacts
               /\ From(OrdersOf(t), p)
                    = IF a[Len(a)].kind = "COMMAND" THEN {Bound(p, a[Len(a)].response)} ELSE {}
  <2> HIDE DEF start
  <2>1. QED
    BY <1>3, Zenon DEF SoundStep
<1>6. rec.turn = t /\ rec.start_state.as_of_turn = t
  <2>1. t \in Nat
    BY <1>2
  <2>2. QED
    BY <1>2, <2>1, CommittedTurn
<1>7. t \in DOMAIN turns /\ turns[t] = rec
  BY <1>2 DEF turns
<1>8. FromSlot(turns[t], p) = From(OrdersOf(t), p)
  BY <1>4, <1>7 DEF FromSlot, From
<1>9. Bundles(turns, a, p, t, start)
  BY <1>4, <1>5, <1>6, <1>7, <1>8 DEF Bundles
<1> HIDE DEF start
<1> DEFINE files == turns
           llm   == artifacts
<1>10. Bundles(files, a, p, t, start)
       /\ \A k \in 1..Len(a) : {a[k].response, a[k].request} \subseteq llm
  BY <1>5, <1>9
<1> HIDE DEF files, llm
<1>11. step_problems(live_step(p, t, a), files, llm) = {}
  BY <1>5, <1>10, StepPasses
<1>12. QED
  BY <1>5, <1>11 DEF files, llm

LEMMA LedgerPasses ==
  ASSUME GameRecordsInv, LedgerInv, \A i \in DOMAIN steps : steps[i].turn # turn
  PROVE  ledger_problems(steps, turns) = {}
<1>1. turn \in Nat
  BY DEF GameRecordsInv, Chained, turn
<1>2. (\E i, j \in DOMAIN steps :
         i # j /\ steps[i].turn = steps[j].turn /\ steps[i].slot = steps[j].slot) = FALSE
  BY DEF LedgerInv, StepsSound
<1>3. ASSUME NEW t \in DOMAIN turns, NEW c \in turns[t].command_batch
      PROVE  \E i \in DOMAIN steps : /\ steps[i].kind = "COMMAND"
                                     /\ steps[i].turn = turns[t].turn
                                     /\ steps[i].slot = c.actor
  <2>1. t \in 0..turn-1 /\ t < turn /\ t \in 0..turn /\ turns[t] = records[t + 1]
    BY <1>1 DEF turns
  <2>2. c \in OrdersOf(t)
    BY <2>1 DEF OrdersOf
  <2>3. CoveredBy(c, t)
    BY <2>1, <2>2 DEF LedgerInv, OrdersCovered
  <2>4. turns[t].turn = t
    <3>1. t \in Nat
      BY <2>1
    <3>2. QED
      BY <2>1, <3>1, CommittedTurn
  <2>5. QED
    BY <2>3, <2>4 DEF CoveredBy
<1>4. (\E t \in DOMAIN turns : \E c \in turns[t].command_batch :
         ~\E i \in DOMAIN steps : /\ steps[i].kind = "COMMAND"
                                  /\ steps[i].turn = turns[t].turn
                                  /\ steps[i].slot = c.actor) = FALSE
  BY <1>3
<1>5. ledger_problems(steps, turns)
        = Codes([duplicate_step |-> FALSE, uncovered_command |-> FALSE])
  BY <1>2, <1>4, Zenon DEF ledger_problems
<1>6. QED
  BY <1>5 DEF Codes

\* The step of a slot whose turn has no record is refused: its request cannot
\* be rendered again, and its command is in no batch.
LEMMA OrphanIsRefused ==
  ASSUME LedgerInv, NEW i \in DOMAIN steps, ~(steps[i].turn < turn), turn \in Nat
  PROVE  step_problems(steps[i], turns, artifacts) # {}
<1> DEFINE step == steps[i]
<1>1. SoundStep(step, StartOf(step.turn), OrdersOf(step.turn), artifacts)
  BY DEF LedgerInv, StepsSound
<1>2. PICK a : step = live_step(step.slot, step.turn, a)
  BY <1>1 DEF SoundStep
<1>3. step.prompt_version = "a1b"
  BY <1>2 DEF live_step
<1>4. step.turn \notin DOMAIN turns
  BY DEF turns
<1>5. bind_request_envelope(step, step.correction, step.request, turns) = {"turn_record_missing"}
  BY <1>3, <1>4 DEF bind_request_envelope, INTEGRITY_ONLY_PROMPT_VERSIONS
<1> HIDE DEF step
<1>6. binding_problems(step, turns, artifacts) # {}
  BY <1>4, <1>5, Zenon DEF binding_problems
<1>7. step_problems(step, turns, artifacts) # {}
  BY <1>6, Zenon DEF step_problems
<1>8. QED
  BY <1>7 DEF step

(***************************************************************************)
(* run_game against validate_agent_provenance: the gate, which re-derives  *)
(* every step from the committed bytes and turn records alone, accepts a   *)
(* game wherever it stopped, whatever the model answered and wherever      *)
(* slots were excluded or retries ran out - unless no slot was answered at *)
(* all, or the cap cut a turn off after one of its slots was.              *)
(***************************************************************************)
THEOREM GamesPassTheGate == Spec => []GameBinds
<1>1. GameRecordsInv /\ LedgerInv => GameBinds
  <2> SUFFICES ASSUME GameRecordsInv, LedgerInv, Bundled
               PROVE  judge_steps(steps, turns, artifacts) = {} <=> steps # <<>> /\ ~CutOff
    BY DEF GameBinds
  <2> DEFINE problems == UNION {step_problems(steps[i], turns, artifacts) : i \in DOMAIN steps}
  <2>1. turn \in Nat /\ \A i \in DOMAIN steps : steps[i].turn \in 0..turn
    BY DEF LedgerInv, StepsSound, GameRecordsInv, Chained, turn
  <2>2. ASSUME steps # <<>>, ~CutOff
        PROVE  judge_steps(steps, turns, artifacts) = {}
    <3>1. \A i \in DOMAIN steps : steps[i].turn # turn
      BY <2>2 DEF Bundled, CutOff, LedgerInv
    <3>2. \A i \in DOMAIN steps : steps[i].turn < turn
      BY <2>1, <3>1
    <3>3. \A i \in DOMAIN steps : step_problems(steps[i], turns, artifacts) = {}
      BY <3>2, CommittedStepPasses
    <3>4. problems = {}
      BY <3>3
    <3>5. ledger_problems(steps, turns) = {}
      BY <3>1, LedgerPasses
    <3>6. QED
      BY <2>2, <3>4, <3>5 DEF judge_steps
  <2>3. ASSUME steps = <<>>
        PROVE  judge_steps(steps, turns, artifacts) # {}
    BY <2>3 DEF judge_steps
  <2>4. ASSUME CutOff
        PROVE  judge_steps(steps, turns, artifacts) # {}
    <3>1. PICK i \in DOMAIN steps : steps[i].turn = turn
      BY <2>4 DEF CutOff
    <3>2. ~(steps[i].turn < turn)
      BY <2>1, <3>1
    <3>3. problems # {}
      BY <2>1, <3>2, OrphanIsRefused
    <3> HIDE DEF problems
    <3>4. QED
      BY <3>3 DEF judge_steps, problems
  <2>5. QED
    BY <2>2, <2>3, <2>4
<1>2. QED
  BY <1>1, GameRecordsInvariant, LedgerInvariant, PTL

(***************************************************************************)
(* Redaction, for replies of any length.  Both it and the extractor go     *)
(* through a reply's blocks and keep some: what the one keeps of a prefix  *)
(* the other finds again.                                                  *)
(***************************************************************************)
IsUse(b)   == b.type = "tool_use" /\ b.name = TOOL_NAME
KeptBlocks == {b \in ContentBlocks : b.type = "tool_use" /\ b.siblings = {}}

\* H[n] is what redact keeps of the first n blocks.
Keeps(H, blocks) ==
  /\ H \in [0..Len(blocks) -> Seq(KeptBlocks)] /\ H[0] = <<>>
  /\ \A n \in 1..Len(blocks) :
       H[n] = IF blocks[n].type = "tool_use"
              THEN Append(H[n - 1], project_tool_use(blocks[n])) ELSE H[n - 1]

\* H[n] are the uses of the game's tool among the first n blocks.
Finds(H, blocks) ==
  /\ H \in [0..Len(blocks) -> Seq(ContentBlocks)] /\ H[0] = <<>>
  /\ \A n \in 1..Len(blocks) :
       H[n] = IF IsUse(blocks[n]) THEN Append(H[n - 1], blocks[n]) ELSE H[n - 1]

LEMMA ProjectedBlock ==
  ASSUME NEW b \in ContentBlocks
  PROVE  LET q == project_tool_use(b) IN
         /\ q \in ContentBlocks /\ q.siblings = {}
         /\ q.type = b.type /\ q.name = b.name /\ q.input = b.input
BY DEF ContentBlocks, project_tool_use

LEMMA RedactKeeps ==
  ASSUME NEW body \in Bodies
  PROVE  /\ redact(body).list = body.list
         /\ \E H : Keeps(H, body.content) /\ redact(body).content = H[Len(body.content)]
<1> DEFINE A == body.content
           S == ContentBlocks
           V == Seq(KeptBlocks)
           keep(kept, b) == IF b.type = "tool_use" THEN Append(kept, project_tool_use(b)) ELSE kept
           h == [p \in V \X S |-> keep(p[1], p[2])]
           D == SUBSET DOMAIN A
           Shape(g) == g = [s \in D |-> IF s = {} THEN <<>> ELSE keep(g[s \ {Max(s)}], A[Max(s)])]
           F == CHOOSE g : Shape(g)
<1>1. h \in [V \X S -> V]
  <2> SUFFICES ASSUME NEW kept \in V, NEW b \in S
               PROVE  keep(kept, b) \in V
    OBVIOUS
  <2>1. b.type = "tool_use" => project_tool_use(b) \in KeptBlocks
    BY ProjectedBlock DEF KeptBlocks
  <2>2. QED
    BY <2>1
<1>2. \A a \in V, b \in S : h[<<a, b>>] = keep(a, b)
  OBVIOUS
<1>3. A \in Seq(S) /\ <<>> \in V
  BY DEF Bodies
<1>4. \A i \in DOMAIN A : A[i] \in S
  BY <1>3
<1>5. redact(body).list = body.list /\ redact(body).content = FoldLeft(keep, <<>>, A)
  BY DEF redact, Bodies
<1> HIDE DEF h, V, S, A, keep
<1>6. PICK g \in [D -> V] : SeqFolds(g, A, <<>>, h)
  BY <1>1, <1>3, SequenceFold
<1>7. Shape(g)
  <2>1. \A s \in D : g[s] = IF s = {} THEN <<>> ELSE keep(g[s \ {Max(s)}], A[Max(s)])
    BY <1>2, <1>4, <1>6 DEF SeqFolds
  <2>2. QED
    BY <2>1
<1>8. Shape(F)
  <2> HIDE DEF Shape
  <2>1. QED
    BY <1>7
<1>9. redact(body).content = F[DOMAIN A]
  BY <1>5 DEF FoldLeft, MapThenFoldSet
<1> HIDE DEF F
<1>10. FoldsIn(V, F, A, <<>>, h)
  <2>1. \A s \in D : s # {} => Max(s) \in DOMAIN A
    BY <1>6 DEF SeqFolds
  <2>2. \A s \in D : F[s] = IF s = {} THEN <<>> ELSE keep(F[s \ {Max(s)}], A[Max(s)])
    BY <1>8
  <2>3. QED
    BY <1>2, <1>4, <2>1, <2>2 DEF FoldsIn
<1>11. PrefixesIn(V, F, A) /\ Steps(F, A, <<>>, h)
  <2> HIDE DEF D, Shape
  <2>1. QED
    BY <1>1, <1>3, <1>10, FoldedPrefixes
<1>12. PICK H : H = [n \in 0..Len(A) |-> F[1..n]]
  OBVIOUS
<1>13. H \in [0..Len(A) -> V] /\ H[0] = <<>> /\ H[Len(A)] = F[DOMAIN A]
  BY <1>3, <1>11, <1>12 DEF PrefixesIn, Steps
<1>14. ASSUME NEW n \in 1..Len(A)
       PROVE  H[n] = keep(H[n - 1], A[n])
  <2>1. n - 1 \in 0..Len(A) /\ n \in 0..Len(A) /\ n \in DOMAIN A
    BY <1>3
  <2>2. F[1..(n - 1)] \in V /\ A[n] \in S
    BY <1>4, <1>11, <2>1 DEF PrefixesIn
  <2>3. F[1..n] = keep(F[1..(n - 1)], A[n])
    BY <1>2, <1>11, <2>2 DEF Steps
  <2>4. QED
    BY <1>12, <2>1, <2>3
<1>15. Keeps(H, A)
  BY <1>13, <1>14 DEF Keeps, keep, V
<1>16. QED
  BY <1>5, <1>9, <1>13, <1>15 DEF A

LEMMA ToolUsesFinds ==
  ASSUME NEW body, body.content \in Seq(ContentBlocks)
  PROVE  \E H : Finds(H, body.content) /\ ToolUses(body) = H[Len(body.content)]
<1> DEFINE A == body.content
           S == ContentBlocks
           V == Seq(S)
           match(found, b) == IF b.type = "tool_use" /\ b.name = TOOL_NAME
                              THEN Append(found, b) ELSE found
           h == [p \in V \X S |-> match(p[1], p[2])]
           D == SUBSET DOMAIN A
           Shape(g) == g = [s \in D |-> IF s = {} THEN <<>> ELSE match(g[s \ {Max(s)}], A[Max(s)])]
           F == CHOOSE g : Shape(g)
<1>1. h \in [V \X S -> V]
  <2> HIDE DEF S
  <2>1. QED
    OBVIOUS
<1>2. \A a \in V, b \in S : h[<<a, b>>] = match(a, b)
  OBVIOUS
<1>3. A \in Seq(S) /\ <<>> \in V
  OBVIOUS
<1>4. \A i \in DOMAIN A : A[i] \in S
  BY <1>3
<1>5. ToolUses(body) = FoldLeft(match, <<>>, A)
  BY DEF ToolUses
<1> HIDE DEF h, V, S, A, match
<1>6. PICK g \in [D -> V] : SeqFolds(g, A, <<>>, h)
  BY <1>1, <1>3, SequenceFold
<1>7. Shape(g)
  <2>1. \A s \in D : g[s] = IF s = {} THEN <<>> ELSE match(g[s \ {Max(s)}], A[Max(s)])
    BY <1>2, <1>4, <1>6 DEF SeqFolds
  <2>2. QED
    BY <2>1
<1>8. Shape(F)
  <2> HIDE DEF Shape
  <2>1. QED
    BY <1>7
<1>9. ToolUses(body) = F[DOMAIN A]
  BY <1>5 DEF FoldLeft, MapThenFoldSet
<1> HIDE DEF F
<1>10. FoldsIn(V, F, A, <<>>, h)
  <2>1. \A s \in D : s # {} => Max(s) \in DOMAIN A
    BY <1>6 DEF SeqFolds
  <2>2. \A s \in D : F[s] = IF s = {} THEN <<>> ELSE match(F[s \ {Max(s)}], A[Max(s)])
    BY <1>8
  <2>3. QED
    BY <1>2, <1>4, <2>1, <2>2 DEF FoldsIn
<1>11. PrefixesIn(V, F, A) /\ Steps(F, A, <<>>, h)
  <2> HIDE DEF D, Shape
  <2>1. QED
    BY <1>1, <1>3, <1>10, FoldedPrefixes
<1>12. PICK H : H = [n \in 0..Len(A) |-> F[1..n]]
  OBVIOUS
<1>13. H \in [0..Len(A) -> V] /\ H[0] = <<>> /\ H[Len(A)] = F[DOMAIN A]
  BY <1>3, <1>11, <1>12 DEF PrefixesIn, Steps
<1>14. ASSUME NEW n \in 1..Len(A)
       PROVE  H[n] = match(H[n - 1], A[n])
  <2>1. n - 1 \in 0..Len(A) /\ n \in 0..Len(A) /\ n \in DOMAIN A
    BY <1>3
  <2>2. F[1..(n - 1)] \in V /\ A[n] \in S
    BY <1>4, <1>11, <2>1 DEF PrefixesIn
  <2>3. F[1..n] = match(F[1..(n - 1)], A[n])
    BY <1>2, <1>11, <2>2 DEF Steps
  <2>4. QED
    BY <1>12, <2>1, <2>3
<1>15. Finds(H, A)
  BY <1>13, <1>14 DEF Finds, match, V, S, IsUse
<1>16. QED
  BY <1>9, <1>13, <1>15 DEF A

\* What is kept of a prefix stays where it is.
IsStart(s, t) == Len(s) <= Len(t) /\ \A i \in 1..Len(s) : s[i] = t[i]

LEMMA KeptGrows ==
  ASSUME NEW blocks, Len(blocks) \in Nat, NEW H, Keeps(H, blocks), NEW m \in 0..Len(blocks)
  PROVE  \A n \in m..Len(blocks) : IsStart(H[m], H[n])
<1> DEFINE K == {k \in Nat : m + k <= Len(blocks) => IsStart(H[m], H[m + k])}
<1>1. \A n \in 0..Len(blocks) : H[n] \in Seq(KeptBlocks)
  BY DEF Keeps
<1>2. 0 \in K
  BY <1>1 DEF IsStart
<1>3. ASSUME NEW k \in Nat, k \in K
      PROVE  k + 1 \in K
  <2> SUFFICES ASSUME m + (k + 1) <= Len(blocks)
               PROVE  IsStart(H[m], H[m + (k + 1)])
    OBVIOUS
  <2>1. PICK n : n = m + (k + 1)
    OBVIOUS
  <2>2. n \in 1..Len(blocks) /\ n - 1 = m + k /\ n - 1 \in 0..Len(blocks)
    BY <2>1
  <2>3. IsStart(H[m], H[n - 1])
    BY <1>3, <2>2
  <2>4. H[n] = H[n - 1] \/ \E b : H[n] = Append(H[n - 1], b)
    BY <2>2 DEF Keeps
  <2>5. H[m] \in Seq(KeptBlocks) /\ H[n - 1] \in Seq(KeptBlocks)
    BY <1>1, <2>2
  <2>6. IsStart(H[m], H[n])
    <3>1. PICK s, t : s = H[m] /\ t = H[n - 1]
      OBVIOUS
    <3>2. /\ Len(s) \in Nat /\ Len(t) \in Nat /\ Len(s) <= Len(t)
          /\ \A i \in 1..Len(s) : i \in 1..Len(t) /\ s[i] = t[i]
      <4>1. Len(s) \in Nat /\ Len(t) \in Nat
        BY <2>5, <3>1
      <4>2. IsStart(s, t)
        BY <2>3, <3>1
      <4>3. QED
        BY <4>1, <4>2 DEF IsStart
    <3>3. ASSUME NEW b
          PROVE  IsStart(s, Append(t, b))
      <4>1. t \in Seq(KeptBlocks \cup {b})
        BY <2>5, <3>1
      <4>2. Len(Append(t, b)) = Len(t) + 1 /\ \A i \in 1..Len(t) : Append(t, b)[i] = t[i]
        BY <4>1
      <4>3. QED
        BY <3>2, <4>2 DEF IsStart
    <3>4. QED
      BY <2>3, <2>4, <3>1, <3>3
  <2>7. QED
    BY <2>1, <2>6
<1>4. Nat \subseteq K
  <2> HIDE DEF K
  <2>1. QED
    BY <1>2, <1>3, NatSetInduction
<1>5. ASSUME NEW n \in m..Len(blocks)
      PROVE  IsStart(H[m], H[n])
  <2>1. PICK k : k = n - m
    OBVIOUS
  <2>2. k \in Nat /\ m + k = n
    BY <2>1
  <2>3. QED
    BY <1>4, <2>2
<1>6. QED
  BY <1>5

\* The uses in the kept blocks are those of the reply, projected.
SameUses(s, t) ==
  Len(s) = Len(t) /\ \A i \in 1..Len(s) : s[i].input = t[i].input

LEMMA UsesSurvive ==
  ASSUME NEW blocks \in Seq(ContentBlocks), NEW H, Keeps(H, blocks), NEW U, Finds(U, blocks),
         NEW W, Finds(W, H[Len(blocks)])
  PROVE  SameUses(U[Len(blocks)], W[Len(H[Len(blocks)])])
<1> DEFINE N == Len(blocks)
           kept == H[N]
           K == {n \in Nat : n <= N => SameUses(U[n], W[Len(H[n])])}
<1>1. /\ N \in Nat /\ \A n \in 0..N : H[n] \in Seq(KeptBlocks) /\ U[n] \in Seq(ContentBlocks)
      /\ kept \in Seq(KeptBlocks) /\ Len(kept) \in Nat
      /\ \A n \in 0..Len(kept) : W[n] \in Seq(ContentBlocks)
  <2>1. N \in Nat /\ \A n \in 0..N : H[n] \in Seq(KeptBlocks)
    BY DEF Keeps
  <2>2. \A n \in 0..N : U[n] \in Seq(ContentBlocks)
    BY DEF Finds
  <2>3. kept \in Seq(KeptBlocks) /\ Len(kept) \in Nat
    BY <2>1
  <2> HIDE DEF kept
  <2>4. Finds(W, kept)
    BY DEF kept
  <2>5. QED
    BY <2>1, <2>2, <2>3, <2>4 DEF Finds
<1>2. \A n \in 0..N : IsStart(H[n], kept)
  BY <1>1, KeptGrows
<1>3. 0 \in K
  <2> HIDE DEF N, kept, K
  <2>1. H[0] = <<>>
    BY DEF Keeps
  <2>2. U[0] = <<>> /\ W[0] = <<>>
    BY DEF Finds
  <2>3. SameUses(<<>>, <<>>) /\ Len(<<>>) = 0
    BY DEF SameUses
  <2>4. QED
    BY <2>1, <2>2, <2>3 DEF K
<1>4. ASSUME NEW n \in Nat, n \in K
      PROVE  n + 1 \in K
  <2> SUFFICES ASSUME n + 1 <= N
               PROVE  SameUses(U[n + 1], W[Len(H[n + 1])])
    OBVIOUS
  <2>1. PICK b : b = blocks[n + 1]
    OBVIOUS
  <2>2. b \in ContentBlocks /\ n + 1 \in 1..N /\ n \in 0..N /\ n + 1 \in 0..N /\ (n + 1) - 1 = n
    BY <2>1
  <2>3. SameUses(U[n], W[Len(H[n])])
    BY <1>4
  <2>4. U[n + 1] = IF IsUse(b) THEN Append(U[n], b) ELSE U[n]
    BY <2>1, <2>2 DEF Finds
  <2>5. CASE b.type # "tool_use"
    <3>1. H[n + 1] = H[n]
      BY <2>1, <2>2, <2>5 DEF Keeps
    <3>2. U[n + 1] = U[n]
      BY <2>4, <2>5 DEF IsUse
    <3>3. QED
      BY <2>3, <3>1, <3>2
  <2>6. CASE b.type = "tool_use"
    <3>1. PICK q : q = project_tool_use(b)
      OBVIOUS
    <3>2. q.type = b.type /\ q.name = b.name /\ q.input = b.input
      BY <2>2, <3>1, ProjectedBlock
    <3>3. H[n + 1] = Append(H[n], q)
      BY <2>1, <2>2, <2>6, <3>1 DEF Keeps
    <3>4. PICK k : k = Len(H[n]) + 1
      OBVIOUS
    <3>5. k \in Nat /\ k - 1 = Len(H[n]) /\ Len(H[n + 1]) = k /\ H[n + 1][k] = q
      BY <1>1, <2>2, <3>3, <3>4
    <3>6. IsStart(H[n + 1], kept)
      BY <1>2, <2>2
    <3>7. k \in 1..Len(kept) /\ kept[k] = q /\ k - 1 \in 0..Len(kept)
      <4>1. k \in 1..Len(H[n + 1]) /\ k <= Len(kept)
        BY <3>4, <3>5, <3>6, <1>1, <2>2 DEF IsStart
      <4>2. H[n + 1][k] = kept[k]
        BY <3>6, <4>1 DEF IsStart
      <4>3. k - 1 \in Nat
        BY <1>1, <2>2, <3>5
      <4>4. QED
        BY <1>1, <3>5, <4>1, <4>2, <4>3
    <3>8. W[k] = IF IsUse(q) THEN Append(W[k - 1], q) ELSE W[k - 1]
      BY <3>7 DEF Finds
    <3>9. U[n] \in Seq(ContentBlocks) /\ W[k - 1] \in Seq(ContentBlocks) /\ SameUses(U[n], W[k - 1])
      BY <1>1, <2>2, <2>3, <3>5, <3>7
    <3>10. SameUses(U[n + 1], W[k])
      <4>1. IsUse(q) <=> IsUse(b)
        BY <3>2 DEF IsUse
      <4>2. ASSUME NEW s \in Seq(ContentBlocks), NEW t \in Seq(ContentBlocks), SameUses(s, t)
            PROVE  SameUses(Append(s, b), Append(t, q))
        BY <3>2, <4>2 DEF SameUses
      <4>3. CASE IsUse(b)
        BY <2>4, <3>8, <3>9, <4>1, <4>2, <4>3
      <4>4. CASE ~IsUse(b)
        BY <2>4, <3>8, <3>9, <4>1, <4>4
      <4>5. QED
        BY <4>3, <4>4
    <3>11. QED
      BY <3>5, <3>10
  <2>7. QED
    BY <2>5, <2>6
<1>5. Nat \subseteq K
  <2> HIDE DEF K
  <2>1. QED
    BY <1>3, <1>4, NatSetInduction
<1>6. QED
  BY <1>1, <1>5

(***************************************************************************)
(* What the extractor makes of a reply depends on its uses and their       *)
(* inputs alone.                                                           *)
(***************************************************************************)
LEMMA ReadsByUses ==
  ASSUME NEW b1, NEW b2, b1.list = b2.list, SameUses(ToolUses(b1), ToolUses(b2)),
         NEW T, ToolUses(b1) \in Seq(T), ToolUses(b2) \in Seq(T)
  PROVE  Reads(b1) = Reads(b2)
<1> DEFINE u == ToolUses(b1)
           v == ToolUses(b2)
<1>1. Len(u) \in Nat /\ Len(v) = Len(u) /\ (u = <<>> <=> Len(u) = 0) /\ (v = <<>> <=> Len(v) = 0)
  BY DEF SameUses
<1>2. Len(u) # 0 => u[1].input = v[1].input
  BY <1>1 DEF SameUses
<1>3. CASE u = <<>>
  <2>1. v = u
    BY <1>1, <1>3
  <2>2. QED
    BY <2>1 DEF Reads, extract_command, reject_code
<1>4. CASE u # <<>>
  <2>1. u[1].input = v[1].input /\ v # <<>>
    BY <1>1, <1>2, <1>4
  <2>2. reject_code(b1) = reject_code(b2)
    BY <1>1, <1>4, <2>1 DEF reject_code
  <2> HIDE DEF u, v
  <2>3. QED
    BY <2>1, <2>2 DEF Reads, extract_command, u, v
<1>5. QED
  BY <1>3, <1>4

\* A block with a command in it holds no text.
LEMMA CommandIsNoProse ==
  ASSUME NEW b, IsUse(b), b.siblings = {}, input_code(b.input) = None,
         None \notin REJECT_CODES
  PROVE  block_prose(b) = {}
<1> DEFINE i == b.input
<1>1. i.siblings = {} /\ i.action.kind = "str"
  BY CodeAssumption DEF input_code
<1>2. Known(i.action) /\ \A k \in DOMAIN i.params : Conforms(k, i.params[k])
  BY <1>1, CodeAssumption DEF input_code
<1>3. DOMAIN i.params = PARAM_SCHEMA[i.action.str]
  BY <1>1, <1>2, CodeAssumption DEF input_code
<1>4. Texts({}) = {}
  BY DEF Texts
<1>5. {k \in DOMAIN i.params :
         ~(k \in PARAM_SCHEMA[i.action.str] /\ Conforms(k, i.params[k]))} = {}
  BY <1>2, <1>3
<1>6. input_prose(i) = {}
  <2> DEFINE bad == {k \in DOMAIN i.params :
                       ~(k \in PARAM_SCHEMA[i.action.str] /\ Conforms(k, i.params[k]))}
  <2>1. input_prose(i) = Texts(i.siblings) \cup Texts({i.params[k] : k \in bad})
    BY <1>2 DEF input_prose
  <2>2. {i.params[k] : k \in bad} = {}
    BY <1>5
  <2>3. QED
    BY <1>1, <1>4, <2>1, <2>2
<1>7. QED
  BY <1>4, <1>6 DEF block_prose, IsUse

\* A kept block in which the scan finds no text holds known names only.
LEMMA ScannedBlock ==
  ASSUME NEW b \in KeptBlocks, block_prose(b) = {}
  PROVE  Texts({b.input.action} \cup ParamValues(b.input) \cup b.input.siblings \cup b.siblings)
           \subseteq Names
<1> DEFINE i == b.input
<1>1. b.siblings = {} /\ input_prose(i) = {}
  BY DEF KeptBlocks, block_prose
<1>2. \A A, B : Texts(A \cup B) = Texts(A) \cup Texts(B)
  BY DEF Texts
<1>3. Texts({}) = {}
  BY DEF Texts
<1>4. Texts(i.siblings) = {}
  BY <1>1 DEF input_prose
<1>5. Texts({i.action}) \cup Texts(ParamValues(i)) \subseteq Names
  <2>1. CASE ~Known(i.action)
    BY <1>1, <1>2, <2>1 DEF input_prose
  <2>2. CASE Known(i.action)
    <3>1. Texts({i.action}) \subseteq Names
      BY <2>2 DEF Texts, Known, Names
    <3>2. ASSUME NEW k \in DOMAIN i.params, i.params[k].kind = "str"
          PROVE  i.params[k].str \in Names
      <4> DEFINE bad == {x \in DOMAIN i.params :
                           ~(x \in PARAM_SCHEMA[i.action.str] /\ Conforms(x, i.params[x]))}
      <4>1. Texts({i.params[x] : x \in bad}) = {}
        BY <1>1, <2>2 DEF input_prose
      <4>2. k \notin bad
        BY <3>2, <4>1 DEF Texts
      <4>3. Conforms(k, i.params[k])
        BY <4>2
      <4>4. QED
        BY <3>2, <4>3 DEF Conforms, Names
    <3>3. Texts(ParamValues(i)) \subseteq Names
      BY <3>2 DEF Texts, ParamValues
    <3>4. QED
      BY <3>1, <3>3
  <2>3. QED
    BY <2>1, <2>2
<1>6. Texts({i.action} \cup ParamValues(i) \cup i.siblings \cup b.siblings) =
        Texts({i.action}) \cup Texts(ParamValues(i)) \cup Texts(i.siblings) \cup Texts(b.siblings)
  BY DEF Texts
<1>7. QED
  BY <1>1, <1>3, <1>4, <1>5, <1>6

LEMMA RedactIsFaithful ==
  ASSUME NEW body \in Bodies, None \notin REJECT_CODES
  PROVE  Faithful(body, redact(body))
<1> DEFINE kept == redact(body)
           A == body.content
           k == kept.content
<1>1. A \in Seq(ContentBlocks) /\ Len(A) \in Nat
  BY DEF Bodies
<1>2. PICK H : kept.list = body.list /\ Keeps(H, A) /\ k = H[Len(A)]
  BY RedactKeeps
<1>3. k \in Seq(KeptBlocks) /\ k \in Seq(ContentBlocks) /\ Len(k) \in Nat
  <2>1. k \in Seq(KeptBlocks)
    BY <1>1, <1>2 DEF Keeps
  <2>2. KeptBlocks \subseteq ContentBlocks
    BY DEF KeptBlocks
  <2> HIDE DEF k
  <2>3. QED
    BY <2>1, <2>2
<1>4. PICK U : Finds(U, A) /\ ToolUses(body) = U[Len(A)]
  BY <1>1, ToolUsesFinds
<1>5. PICK W : Finds(W, k) /\ ToolUses(kept) = W[Len(k)]
  BY <1>3, ToolUsesFinds
<1>6. ToolUses(body) \in Seq(ContentBlocks) /\ ToolUses(kept) \in Seq(ContentBlocks)
  <2>1. ToolUses(body) \in Seq(ContentBlocks)
    BY <1>1, <1>4 DEF Finds
  <2>2. ToolUses(kept) \in Seq(ContentBlocks)
    <3> HIDE DEF kept, k
    <3>1. QED
      BY <1>3, <1>5 DEF Finds
  <2>3. QED
    BY <2>1, <2>2
<1> HIDE DEF kept, A, k
<1>7. Reads(kept) = Reads(body)
  <2>1. SameUses(ToolUses(body), ToolUses(kept))
    BY <1>1, <1>2, <1>4, <1>5, UsesSurvive
  <2>2. QED
    BY <1>2, <1>6, <2>1, ReadsByUses
<1>8. ASSUME reject_code(kept) = None, Len(k) = 1
      PROVE  contains_prose(kept) = {}
  <2>1. ToolUses(kept) # <<>> /\ input_code(ToolUses(kept)[1].input) = None
    BY <1>8, CodeAssumption DEF reject_code
  <2>2. W[1] = IF IsUse(k[1]) THEN Append(<<>>, k[1]) ELSE <<>>
    <3>1. 1 \in 1..Len(k) /\ 1 - 1 = 0
      BY <1>8
    <3>2. QED
      BY <1>5, <3>1 DEF Finds
  <2>3. IsUse(k[1]) /\ ToolUses(kept)[1] = k[1]
    BY <1>5, <1>8, <2>1, <2>2
  <2>4. k[1] \in KeptBlocks
    BY <1>3, <1>8
  <2>5. block_prose(k[1]) = {}
    BY <2>1, <2>3, <2>4, CommandIsNoProse DEF KeptBlocks
  <2>6. \A i \in DOMAIN k : i = 1
    BY <1>3, <1>8
  <2>7. UNION {block_prose(k[i]) : i \in DOMAIN k} = {}
    BY <2>5, <2>6
  <2>8. QED
    BY <2>7 DEF contains_prose, k
<1>9. ASSUME kept.list, contains_prose(kept) = {}, NEW i \in DOMAIN k
      PROVE  LET b == k[i] IN
             Texts({b.input.action} \cup ParamValues(b.input) \cup b.input.siblings \cup b.siblings)
               \subseteq Names
  <2>1. UNION {block_prose(k[j]) : j \in DOMAIN k} = {}
    BY <1>9 DEF contains_prose, k
  <2>2. block_prose(k[i]) = {} /\ k[i] \in KeptBlocks
    BY <1>3, <1>9, <2>1
  <2>3. QED
    BY <2>2, ScannedBlock
<1>10. QED
  BY <1>7, <1>8, <1>9 DEF Faithful, kept, k

(***************************************************************************)
(* What the game commits of any reply - of any number of blocks, with any  *)
(* inputs - extracts to what was played of it, and holds no string but the *)
(* names the game knows once the scan has passed it.                       *)
(***************************************************************************)
THEOREM RepliesAreRedacted == Spec => []CommitKeepsCommands
<1>1. None \notin REJECT_CODES
  BY NoneAssumption DEF CORRECTION_CODES
<1>2. EveryReply
  BY <1>1, ReplyAssumption, RedactIsFaithful DEF EveryReply
<1>3. QED
  BY <1>2, PTL DEF CommitKeepsCommands
=============================================================================
