------------------------------ MODULE OfflineRun ------------------------------
(***************************************************************************)
(* The drive of a turn, and of a chain of turns, whose answers are given:  *)
(* drive_turn of scripts/agent_offline_run.py and run_campaign of          *)
(* scripts/agent_offline_campaign.py.  `answers` maps each slot that plays *)
(* the turn to its attempts, in order.  With the version of a live prompt  *)
(* the same operators give what the live game makes of these answers.      *)
(***************************************************************************)
EXTENDS Provenance, SequencesExt

\* A fixture's request names the slot, the turn and the correction only.
request_of(version, slot, turn, start, correction) ==
  IF version \in INTEGRITY_ONLY_PROMPT_VERSIONS
  THEN [prompt_version |-> version, slot |-> slot, turn |-> turn, correction |-> correction]
  ELSE render_request_envelope(slot, turn, start, correction)

\* A rejected answer is followed by the next one, until an order is legal.
run_slot_attempts(version, slot, turn, start, answers) ==
  LET Attempt(made, response) ==
        LET correction == IF made = <<>> THEN None ELSE Last(made).reject
            request    == request_of(version, slot, turn, start, correction)
        IN  IF made # <<>> /\ Last(made).kind = "COMMAND" THEN made
            ELSE Append(made, classify_attempt(slot, start, response, request, correction))
  IN  FoldLeft(Attempt, <<>>, answers)

llm_step(version, slot, turn, made) ==
  [live_step(slot, turn, made) EXCEPT !.prompt_version = version]

BytesOf(made) == UNION {{made[i].response, made[i].request} : i \in 1..decisive(made)}

\* The turn's record, the steps of its slots and their bytes.
drive_turn(version, start, answers, turn, roll) ==
  LET asked    == SelectSeq(<<"BLUE", "RED">>, LAMBDA s : s \in DOMAIN answers /\ answers[s] # <<>>)
      Made(s)  == run_slot_attempts(version, s, turn, start, answers[s])
      legal    == SelectSeq(asked, LAMBDA s : Made(s)[decisive(Made(s))].kind = "COMMAND")
      commands == [i \in DOMAIN legal |->
                     Bound(legal[i], Made(legal[i])[decisive(Made(legal[i]))].response)]
  IN  [ turn_record |-> TurnRecord(start, commands, turn, ReplaySeed,
                                   transition(start, commands, turn, roll)),
        llm_steps   |-> [i \in DOMAIN asked |-> llm_step(version, asked[i], turn, Made(asked[i]))],
        artifacts   |-> UNION {BytesOf(Made(asked[i])) : i \in DOMAIN asked} ]

\* One turn after the other, each on the head the one before resulted in.
run_campaign(version, start, per_turn_answers, roll) ==
  LET Drive(driven, answers) ==
        LET head == IF driven = <<>> THEN start ELSE Last(driven).turn_record.resulting_state
        IN  Append(driven, drive_turn(version, head, answers, Len(driven), roll))
  IN  FoldLeft(Drive, <<>>, per_turn_answers)
=============================================================================
