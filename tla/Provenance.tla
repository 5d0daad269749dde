------------------------------ MODULE Provenance ------------------------------
(***************************************************************************)
(* Agent provenance: how a model response becomes a command and an         *)
(* llm_step (extract_command, classify_attempt, _live_step) and the gate   *)
(* that re-derives every step from the committed bytes and turn records,   *)
(* scripts/validate_agent_provenance.py.                                   *)
(*                                                                         *)
(* Committed bytes are content addressed: a response or a request stands   *)
(* for its own sha256, and `llm`, the files of run/llm, is a set of them.  *)
(* `turns` is run/turns: a function from the committed turns to their      *)
(* records.  A response is what extract_command makes of it: reject code   *)
(* None and a command, or the code alone; and whether contains_prose finds *)
(* free text left in it after redaction (module Redaction).                *)
(***************************************************************************)
EXTENDS TurnReplay, Projection

CONSTANTS
  None,           \* null: no code, no correction
  REJECT_CODES,   \* the extractor's codes: bytes that are not one command
  NoSteps         \* a ledger with llm_steps: null

LEGALITY_REJECT_CODES == {LegalityCodes[i] : i \in DOMAIN LegalityCodes} \cup {"too-many-commands"}
CORRECTION_CODES      == REJECT_CODES \cup LEGALITY_REJECT_CODES

Response == [ reject : REJECT_CODES \cup {None}, action : Actions \cup {None},
              route : Routes \cup {NoRoute}, quantity : Int, prose : BOOLEAN ]

extract_ok(response)       == response.reject = None
project_semantic(response) == [ action |-> response.action, route |-> response.route,
                                quantity |-> response.quantity ]
NoDigest == [action |-> None, route |-> NoRoute, quantity |-> 0]

\* The extracted command with the identity the harness binds to it.
Bound(slot, response) == [ actor |-> slot, action |-> response.action,
                           route |-> response.route, quantity |-> response.quantity ]

\* render_request_envelope: the slot's fog of the head, and on a retry the
\* reject code of the attempt before.
render_request_envelope(slot, turn, head, correction) ==
  [ view |-> project_turn_record(slot, turn, head, <<>>), correction |-> correction ]

-----------------------------------------------------------------------------
(***************************************************************************)
(* One attempt and the step its slot ends with.                            *)
(***************************************************************************)
\* Mutant of legality_of: a well-formed order is not put to the engine.
legality_unscreened(slot, response, start) == None

legality_of(slot, response, start) ==
  LET code == command_legality(Bound(slot, response), start)
  IN  IF code = Legal THEN None ELSE code

KindOf(digest, reject) ==
  IF digest = NoDigest THEN "FORFEIT"
  ELSE IF reject = None THEN "COMMAND" ELSE "ILLEGAL_FORFEIT"

classify_attempt(slot, start, response, request, correction) ==
  LET ok     == extract_ok(response)
      digest == IF ok THEN project_semantic(response) ELSE NoDigest
      reject == IF ok THEN legality_of(slot, response, start) ELSE response.reject
  IN  [ kind |-> KindOf(digest, reject), digest |-> digest, reject |-> reject,
        response |-> response, request |-> request, correction |-> correction ]

\* The decisive attempt and the rejected ones before it.
decisive(made) ==
  LET commands == {i \in DOMAIN made : made[i].kind = "COMMAND"}
  IN  IF commands = {} THEN Len(made)
      ELSE CHOOSE i \in commands : \A j \in commands : i <= j

prior_attempt(a) ==
  [ kind |-> a.kind, reject |-> a.reject, response |-> a.response,
    request |-> a.request, correction |-> a.correction ]

\* Mutant of live_step: the priors run up to the decisive attempt itself.
live_step_overlapping(slot, turn, made) ==
  LET d == decisive(made) IN
  [ turn |-> turn, slot |-> slot, prompt_version |-> "a1b",
    kind |-> KindOf(made[d].digest, made[d].reject),
    digest |-> made[d].digest, reject |-> made[d].reject,
    response |-> made[d].response, request |-> made[d].request,
    correction |-> made[d].correction,
    priors |-> [i \in 1..d |-> prior_attempt(made[i])] ]

live_step(slot, turn, made) ==
  LET d == decisive(made) IN
  [ turn |-> turn, slot |-> slot, prompt_version |-> "a1b",
    kind |-> KindOf(made[d].digest, made[d].reject),
    digest |-> made[d].digest, reject |-> made[d].reject,
    response |-> made[d].response, request |-> made[d].request,
    correction |-> made[d].correction,
    priors |-> [i \in 1..d-1 |-> prior_attempt(made[i])] ]

-----------------------------------------------------------------------------
(***************************************************************************)
(* The gate.  Each check is a set of problem codes; an early return of the *)
(* code ends the checks of that step.                                      *)
(***************************************************************************)
Codes(found) == {code \in DOMAIN found : found[code]}

structural_problems(step) ==
  Codes([
    digest_presence |->
      \/ step.kind = "COMMAND" /\ (step.digest = NoDigest \/ step.reject # None)
      \/ step.kind = "FORFEIT" /\ step.digest # NoDigest
      \/ step.kind = "ILLEGAL_FORFEIT" /\ step.digest = NoDigest,
    invalid_reject |->
      \/ step.kind = "FORFEIT" /\ step.reject \notin REJECT_CODES
      \/ step.kind = "ILLEGAL_FORFEIT" /\ step.reject \notin LEGALITY_REJECT_CODES,
    invalid_correction |-> step.correction \notin CORRECTION_CODES \cup {None},
    invalid_prior |-> \E i \in DOMAIN step.priors : LET p == step.priors[i] IN
      \/ p.correction \notin CORRECTION_CODES \cup {None}
      \/ p.kind \notin {"FORFEIT", "ILLEGAL_FORFEIT"}
      \/ p.kind = "FORFEIT" /\ p.reject \notin REJECT_CODES
      \/ p.kind = "ILLEGAL_FORFEIT" /\ p.reject \notin LEGALITY_REJECT_CODES ])

\* The offline drive's requests are not rendered from a template.
INTEGRITY_ONLY_PROMPT_VERSIONS == {"v1"}

\* Tier 3: the request of an attempt is what this build renders for the
\* committed head.
bind_request_envelope(step, correction, request, turns) ==
  LET rendered == render_request_envelope(step.slot, step.turn,
                                          turns[step.turn].start_state, correction)
  IN  IF step.prompt_version \in INTEGRITY_ONLY_PROMPT_VERSIONS THEN {}
      ELSE IF step.turn \notin DOMAIN turns THEN {"turn_record_missing"}
      ELSE IF rendered # request THEN {"request_envelope_mismatch"} ELSE {}

FromSlot(rec, slot) == {c \in rec.command_batch : c.actor = slot}

TurnMismatch(step, rec) ==
  rec.turn # step.turn \/ rec.start_state.as_of_turn # step.turn

ForfeitProblems(step) ==
  Codes([ spurious_forfeit      |-> extract_ok(step.response),
          forfeit_code_mismatch |-> /\ ~extract_ok(step.response)
                                    /\ step.response.reject # step.reject ])

IllegalForfeitProblems(step, rec) ==
  LET legality == legality_of(step.slot, step.response, rec.start_state) IN
  Codes([ spurious_illegal_forfeit    |-> legality = None,
          illegal_code_mismatch       |-> legality # None /\ legality # step.reject,
          illegal_forfeit_has_command |-> FromSlot(rec, step.slot) # {},
          turn_mismatch               |-> TurnMismatch(step, rec) ])

CommandProblems(step, rec) ==
  LET mine == FromSlot(rec, step.slot) IN
  IF Cardinality(mine) # 1 THEN {"slot_command_count"}
  ELSE Codes([ semantic_digest_mismatch |-> mine # {Bound(step.slot, step.response)},
               turn_mismatch            |-> TurnMismatch(step, rec) ])

binding_problems(step, turns, llm) ==
  LET envelope == bind_request_envelope(step, step.correction, step.request, turns)
      recorded == IF project_semantic(step.response) = step.digest THEN {}
                  ELSE {"recorded_digest_mismatch"}
  IN  IF {step.response, step.request} \ llm # {} THEN {"artifact_missing"}
      ELSE IF step.kind = "FORFEIT" THEN ForfeitProblems(step) \cup envelope
      ELSE IF ~extract_ok(step.response) THEN {"does_not_extract"}
      ELSE recorded \cup
           IF step.turn \notin DOMAIN turns THEN {"turn_record_missing"}
           ELSE envelope \cup
                IF step.kind = "COMMAND" THEN CommandProblems(step, turns[step.turn])
                ELSE IllegalForfeitProblems(step, turns[step.turn])

\* The decisive attempt's correction is the code of the last prior, and each
\* prior's that of the one before; the first attempt carries none.
ChainBroken(step) ==
  LET corrections == Append([i \in DOMAIN step.priors |-> step.priors[i].correction],
                            step.correction)
  IN  \E i \in DOMAIN corrections :
        corrections[i] # IF i = 1 THEN None ELSE step.priors[i - 1].reject

prior_problems(step, p, start) ==
  LET ok       == extract_ok(p.response)
      legality == legality_of(step.slot, p.response, start)
  IN  Codes([ prior_not_rejected  |-> ok = (p.kind = "FORFEIT"),
              prior_code_mismatch |->
                \/ p.kind = "FORFEIT" /\ ~ok /\ p.response.reject # p.reject
                \/ /\ p.kind = "ILLEGAL_FORFEIT" /\ ok
                   /\ legality # None /\ legality # p.reject,
              prior_legal         |-> p.kind = "ILLEGAL_FORFEIT" /\ ok /\ legality = None ])

\* A missing record leaves the priors to be judged without a supply limit.
Unlimited == [origin |-> MaxQty]

retry_problems(step, turns, llm) ==
  LET start == IF step.turn \in DOMAIN turns THEN turns[step.turn].start_state ELSE Unlimited
      Prior(p) ==
        IF p.response \notin llm THEN {"prior_artifact_missing"}
        ELSE (IF p.request \in llm THEN {} ELSE {"prior_artifact_missing"})
               \cup prior_problems(step, p, start)
               \cup bind_request_envelope(step, p.correction, p.request, turns)
  IN  (IF ChainBroken(step) THEN {"retry_correction_chain"} ELSE {})
        \cup UNION {Prior(step.priors[i]) : i \in DOMAIN step.priors}

step_problems(step, turns, llm) ==
  LET structure == structural_problems(step)
  IN  IF structure # {} THEN structure
      ELSE binding_problems(step, turns, llm) \cup retry_problems(step, turns, llm)

\* Mutant of ledger_problems: steps are bound to commands, not the converse.
ledger_problems_one_way(steps, turns) ==
  Codes([ duplicate_step |-> \E i, j \in DOMAIN steps :
            i # j /\ steps[i].turn = steps[j].turn /\ steps[i].slot = steps[j].slot ])

\* At most one step for a turn and slot; every committed command has one.
ledger_problems(steps, turns) ==
  Codes([ duplicate_step |-> \E i, j \in DOMAIN steps :
            i # j /\ steps[i].turn = steps[j].turn /\ steps[i].slot = steps[j].slot,
          uncovered_command |-> \E t \in DOMAIN turns : \E c \in turns[t].command_batch :
            ~\E i \in DOMAIN steps : /\ steps[i].kind = "COMMAND"
                                     /\ steps[i].turn = turns[t].turn
                                     /\ steps[i].slot = c.actor ])

\* The steps of a ledger that has them, each by itself and then together.
judge_steps(steps, turns, llm) ==
  LET problems == UNION {step_problems(steps[i], turns, llm) : i \in DOMAIN steps}
  IN  IF steps = <<>> THEN {"malformed_llm_steps"}
      ELSE IF problems # {} THEN problems ELSE ledger_problems(steps, turns)

judge_scenario(steps, turns, llm) ==
  IF steps = NoSteps THEN {} ELSE judge_steps(steps, turns, llm)
=============================================================================
