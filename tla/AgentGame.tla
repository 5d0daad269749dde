------------------------------ MODULE AgentGame ------------------------------
(***************************************************************************)
(* The live game, scripts/agent_live_campaign.run_game: each turn every    *)
(* slot is asked for an order (live_drive_slot), a rejected order is asked *)
(* again with its reject code (run_slot_attempts), the legal orders are    *)
(* assembled into a turn record and its result is the next head.           *)
(*                                                                         *)
(* The provider is the environment: counting tokens may fail, a call may   *)
(* raise, be served by another model, lack a request id, or answer with    *)
(* any response.  What a call is charged for is its usage block, which may *)
(* name more input tokens than were counted before the call.               *)
(***************************************************************************)
EXTENDS Redaction

CONSTANTS
  Slots,       \* the players, in the order they are asked: BLUE, then RED
  Turns,       \* --turns
  MaxRetries,  \* --max-retries
  Cap,         \* --max-spend-usd, in micro-dollars
  Responses,   \* what the model may answer
  Inputs,      \* input tokens a request may count
  Usages,      \* what its usage block may then say: <<input, output>> tokens
  Undercount,  \* how many input tokens a count may miss
  MaxTokens,   \* max_tokens: the output budget of a call
  PriceIn, PriceOut,   \* PRICE_MICRO_USD_PER_TOKEN
  Origins, Secrets, Rolls   \* starting supplies, thresholds, d100 values

ASSUME SlotsAssumption ==
  /\ Slots \in Seq(Actors)
  /\ \A i, j \in DOMAIN Slots : Slots[i] = Slots[j] => i = j
ASSUME BudgetAssumption ==
  /\ Turns \in Nat /\ MaxRetries \in Nat /\ Cap \in Nat
  /\ Inputs \subseteq Nat /\ Undercount \in Nat /\ MaxTokens \in Nat
  /\ PriceIn \in Nat /\ PriceOut \in Nat
\* max_tokens bounds the output; the input is whatever the provider says.
ASSUME UsageAssumption ==
  \A in \in Inputs : \A use \in Usages[in] :
    /\ use \in Nat \X Nat
    /\ use[1] <= in + Undercount /\ use[2] <= MaxTokens
ASSUME ResponseAssumption ==
  \A r \in Responses : r \in Response /\ (r.reject = None => r.action \in Actions)
ASSUME StartAssumption ==
  Origins \subseteq Nat /\ Secrets \subseteq Secret /\ Rolls \subseteq D100
ASSUME NoneAssumption == None \notin Actions \cup CORRECTION_CODES

VARIABLES
  roll,       \* the oracle of master seed 0: never changes
  head,       \* the state the turn starts from
  at,         \* the slot being asked: an index of Slots
  made,       \* the attempts of this slot
  cmds,       \* the commands of this turn
  records, steps, artifacts, excluded,   \* the game so far
  spend,      \* what the spend guard has counted, in micro-dollars
  billed,     \* what the provider has charged
  calls,      \* how many calls were made
  pc          \* "fetch", "decide", "assemble", or how the game ended

game == <<records, steps, artifacts, excluded>>
vars == <<roll, head, at, made, cmds, game, spend, billed, calls, pc>>

turn == Len(records)
slot == Slots[at]
oracle == [s \in {ReplaySeed} |-> roll]

StartState(origin, secret) ==
  [ origin |-> origin, in_transit |-> 0, delivered |-> 0, loss_sink |-> 0,
    as_of_turn |-> 0, secret |-> secret ]

\* The loop's control: `turn` is asked from its first slot, or is the horizon.
StartOfTurn(t) == IF t = Turns THEN "horizon" ELSE IF Slots = <<>> THEN "assemble" ELSE "fetch"

Init ==
  /\ roll \in [(0..Turns-1) \X Routes -> Rolls]
  /\ \E o \in Origins, x \in Secrets : head = StartState(o, x)
  /\ at = 1 /\ made = <<>> /\ cmds = <<>>
  /\ records = <<>> /\ steps = <<>> /\ artifacts = {} /\ excluded = <<>>
  /\ spend = 0 /\ billed = 0 /\ calls = 0
  /\ pc = StartOfTurn(0)

-----------------------------------------------------------------------------
(***************************************************************************)
(* fetch: one attempt of the slot.                                         *)
(***************************************************************************)
micro_usd(in, out)  == in * PriceIn + out * PriceOut

\* Mutant of spend_ok: the cap is tested against what is already spent.
SpendOkReactive(in) == spend <= Cap

spend_ok(in) == spend + micro_usd(in, MaxTokens) <= Cap

\* What a call whose input was counted as `in` can cost.
Charges(in) == {micro_usd(use[1], use[2]) : use \in Usages[in]}

correction == IF made = <<>> THEN None ELSE made[Len(made)].reject

\* count_tokens fails: SystemExit, nothing of the game is committed.
CountFails ==
  /\ pc = "fetch"
  /\ pc' = "aborted"
  /\ UNCHANGED <<roll, head, at, made, cmds, game, spend, billed, calls>>

\* Mutant of CapRefuses: a retry the cap refuses is asked for again.
CapRefusesAgain(in) ==
  /\ pc = "fetch"
  /\ ~spend_ok(in)
  /\ pc' = IF made = <<>> THEN "spend-cap" ELSE "fetch"
  /\ UNCHANGED <<roll, head, at, made, cmds, game, spend, billed, calls>>

\* The cap would be passed.  Before any attempt of the slot the game stops;
\* later the slot ends with the attempts it has.
CapRefuses(in) ==
  /\ pc = "fetch"
  /\ ~spend_ok(in)
  /\ pc' = IF made = <<>> THEN "spend-cap" ELSE "decide"
  /\ UNCHANGED <<roll, head, at, made, cmds, game, spend, billed, calls>>

\* A call that went through: on_spent adds what its usage block says.
Called(in, cost) ==
  /\ pc = "fetch"
  /\ spend_ok(in)
  /\ calls' = calls + 1
  /\ spend' = spend + cost
  /\ billed' = billed + cost
  /\ UNCHANGED <<roll, head, at, cmds, records, steps, artifacts>>

\* The call raises: nothing catches it, whether or not it was charged.
CallRaises(in, cost) ==
  /\ pc = "fetch"
  /\ spend_ok(in)
  /\ pc' = "aborted"
  /\ calls' = calls + 1
  /\ billed' \in {billed, billed + cost}
  /\ UNCHANGED <<roll, head, at, made, cmds, game, spend>>

\* Mutant of CallExcluded: on_spent comes after the checks of the result.
CallExcludedUncounted(in, cost) ==
  /\ pc = "fetch"
  /\ spend_ok(in)
  /\ calls' = calls + 1
  /\ billed' = billed + cost
  /\ \E reason \in {"served-model-drift", "missing-request-id"} :
       excluded' = Append(excluded, [turn |-> turn, slot |-> slot, reason |-> reason])
  /\ pc' = "decide"
  /\ UNCHANGED <<roll, head, at, made, cmds, records, steps, artifacts, spend>>

\* Another model served it, or it has no request id: EXCLUDED.
CallExcluded(in, cost) ==
  /\ Called(in, cost)
  /\ \E reason \in {"served-model-drift", "missing-request-id"} :
       excluded' = Append(excluded, [turn |-> turn, slot |-> slot, reason |-> reason])
  /\ pc' = "decide"
  /\ UNCHANGED made

\* Mutant of CallAnswers: one retry too many.
CallAnswersOnceMore(in, cost, response) ==
  LET request == render_request_envelope(slot, turn, head, correction)
      a       == classify_attempt(slot, head, response, request, correction)
  IN  /\ Called(in, cost)
      /\ ~response.prose
      /\ made' = Append(made, a)
      /\ pc' = IF a.kind = "COMMAND" \/ Len(made) > MaxRetries THEN "decide" ELSE "fetch"
      /\ UNCHANGED excluded

\* An answer is classified against the head; a reject is asked again.
CallAnswers(in, cost, response) ==
  LET request == render_request_envelope(slot, turn, head, correction)
      a       == classify_attempt(slot, head, response, request, correction)
  IN  /\ Called(in, cost)
      /\ ~response.prose
      /\ made' = Append(made, a)
      /\ pc' = IF a.kind = "COMMAND" \/ Len(made) = MaxRetries THEN "decide" ELSE "fetch"
      /\ UNCHANGED excluded

\* The redacted answer still has free text: an assertion nothing catches.
CallAsserts(in, cost, response) ==
  /\ Called(in, cost)
  /\ response.prose
  /\ pc' = "crashed"
  /\ UNCHANGED <<made, excluded>>

-----------------------------------------------------------------------------
\* The slot is done: its step, its bytes and its command join the game.
SlotEnds ==
  /\ pc = "decide"
  /\ IF made = <<>> THEN UNCHANGED <<steps, artifacts, cmds>>
     ELSE LET d == made[decisive(made)] IN
          /\ steps' = Append(steps, live_step(slot, turn, made))
          /\ artifacts' = artifacts \cup UNION {{made[i].response, made[i].request} :
                                                  i \in 1..decisive(made)}
          /\ cmds' = IF d.kind = "COMMAND" THEN Append(cmds, Bound(slot, d.response)) ELSE cmds
  /\ made' = <<>>
  /\ pc' = IF at = Len(Slots) THEN "assemble" ELSE "fetch"
  /\ at' = IF at = Len(Slots) THEN 1 ELSE at + 1
  /\ UNCHANGED <<roll, head, records, excluded, spend, billed, calls>>

\* Mutant of Assemble: the next turn starts from this turn's head.
AssembleWithoutHandoff ==
  LET result == transition(head, cmds, turn, roll) IN
  /\ pc = "assemble"
  /\ IF result.status = "resolved"
     THEN /\ records' = Append(records, TurnRecord(head, cmds, turn, ReplaySeed, result))
          /\ pc' = StartOfTurn(turn + 1)
     ELSE /\ pc' = result.status
          /\ UNCHANGED records
  /\ cmds' = <<>>
  /\ UNCHANGED <<roll, head, at, made, steps, artifacts, excluded, spend, billed, calls>>

\* assemble: the turn's record and the next head; anything but a resolved
\* turn ends the program.
Assemble ==
  LET result == transition(head, cmds, turn, roll) IN
  /\ pc = "assemble"
  /\ IF result.status = "resolved"
     THEN /\ records' = Append(records, TurnRecord(head, cmds, turn, ReplaySeed, result))
          /\ head' = result.state
          /\ pc' = StartOfTurn(turn + 1)
     ELSE /\ pc' = result.status
          /\ UNCHANGED <<records, head>>
  /\ cmds' = <<>>
  /\ UNCHANGED <<roll, at, made, steps, artifacts, excluded, spend, billed, calls>>

Fail == CountFails \/ \E in \in Inputs : \E cost \in Charges(in) : CallRaises(in, cost)

Progress ==
  \/ \E in \in Inputs : CapRefuses(in)
  \/ \E in \in Inputs : \E cost \in Charges(in) :
       \/ CallExcluded(in, cost)
       \/ \E response \in Responses :
            CallAnswers(in, cost, response) \/ CallAsserts(in, cost, response)
  \/ SlotEnds
  \/ Assemble

Next == Fail \/ Progress

Spec == Init /\ [][Next]_vars

\* One process that waits on nothing but its calls, which have a timeout; no
\* call needs to fail.
FairSpec == Spec /\ WF_vars(Progress)

-----------------------------------------------------------------------------
(***************************************************************************)
(* The game is a Campaign whose batches are the legal orders of a turn.    *)
(***************************************************************************)
Orders(s) == {<<>>} \cup {<<Bound(s, r)>> : r \in {r \in Responses : r.reject = None}}

\* One order or none of each of the first n slots, in the order they are asked.
BatchesUpTo[n \in 0..Len(Slots)] ==
  IF n = 0 THEN {<<>>} ELSE {b \o o : b \in BatchesUpTo[n - 1], o \in Orders(Slots[n])}

OrderBatches == BatchesUpTo[Len(Slots)]

Played == INSTANCE Campaign WITH
  Seeds <- {ReplaySeed}, Batches <- OrderBatches, Horizon <- Turns,
  oracle <- oracle, seed <- ReplaySeed,
  status <- IF pc \in {"rejected", "raised"} THEN pc
            ELSE IF records = <<>> THEN "none" ELSE "resolved"

PlaysCampaign == Played!Spec

\* run/turns as the game leaves it.
turns == [t \in 0..turn-1 |-> records[t + 1]]

Bundled == pc \in {"horizon", "spend-cap"}

\* An illegal move never crashes the game: commands screened one by one
\* against the head are never refused, nor raise, as a batch.
NeverRefused == pc \notin {"rejected", "raised"}

\* The cap hit between two slots: a slot was answered in a turn not played.
CutOff == pc = "spend-cap" /\ \E i \in DOMAIN steps : steps[i].turn = turn

\* What a game commits passes the provenance gate, whatever was answered,
\* excluded and asked again - except, and then never, the empty list of a
\* game of excluded calls and the step of a turn the cap cut off.
GameBinds ==
  Bundled =>
    (judge_steps(steps, turns, artifacts) = {} <=> steps # <<>> /\ ~CutOff)

\* However a game stops, its records are a chain the replay gate accepts.
PrefixReplays ==
  Bundled => /\ \A i \in DOMAIN records : check_record(records[i], oracle) = {}
             /\ check_chain(records) = {}

\* Redaction is faithful to every reply of the provider.  (It reads nothing of
\* the game: evaluated at its start.)
CommitKeepsCommands == calls = 0 => EveryReply

\* The bill passes the cap by no more than the input that one call's count
\* missed, whatever the number of calls: the guard adds up usage, not counts,
\* of excluded calls too, and a call that raised uncounted is the last.
OverrunIsOneCall == billed <= Cap + Undercount * PriceIn

\* A slot costs one call and its retries at most.
CallBudget ==
  LET asked == IF pc = "assemble" THEN Len(Slots) ELSE at
  IN  calls <= (turn * Len(Slots) + asked) * (MaxRetries + 1)

\* Every game ends, whatever the provider answers.
GameEnds == <>(pc \in {"horizon", "spend-cap", "aborted", "crashed"})

\* docs/ENGINE_CONTRACT.md:166: an answer the extractor rejects is recorded as
\* a forfeit (and asked again); no answer of the model ends the game.
NoAnswerCrashes == pc # "crashed"
=============================================================================
