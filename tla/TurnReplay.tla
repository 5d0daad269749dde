------------------------------ MODULE TurnReplay ------------------------------
(***************************************************************************)
(* The turn-replay gate, scripts/validate_turn_replay.py: check_record on  *)
(* every committed record and check_chain on a scenario's chain of them.   *)
(*                                                                         *)
(* Each check is a set of problem codes, empty when the gate passes.  The  *)
(* digest and serialisation checks of check_record hold of any record that *)
(* is exactly a TurnRecord and are not repeated.                           *)
(***************************************************************************)
EXTENDS Logistics

CONSTANT ReplaySeed   \* the seed a record without an rng block is replayed with (0)
ASSUME ReplaySeedAssumption == ReplaySeed # NoSeed

\* A batch of the committed commands, in some order: at most one per actor.
BatchOf(cmds) ==
  CHOOSE b \in UNION {[1..n -> cmds] : n \in {Cardinality(cmds)}} : Commands(b) = cmds

\* Mutant of ReplaySeedOf: records are always replayed with the default seed.
AlwaysDefaultSeed(rec) == ReplaySeed

ReplaySeedOf(rec) == IF rec.rng = NoSeed THEN ReplaySeed ELSE rec.rng

check_record(rec, oracle) ==
  LET redone == transition(rec.start_state, BatchOf(rec.command_batch), rec.turn,
                           oracle[ReplaySeedOf(rec)])
      drawn  == {i \in DOMAIN rec.event_batch :
                   rec.event_batch[i].type \in Terminals /\ rec.event_batch[i].drawn}
      found  == [ rng_missing     |-> rec.draw_records # {} /\ rec.rng = NoSeed,
                  decorative_seed |-> rec.draw_records = {} /\ rec.rng # NoSeed,
                  reduce_failed   |-> ~WellFormed(rec.event_batch),
                  replay_mismatch |-> reduce(rec.start_state, rec.event_batch)
                                        # rec.resulting_state,
                  recompute_failed   |-> redone.status = "raised",
                  recompute_mismatch |-> \/ redone.events # rec.event_batch
                                         \/ redone.state # rec.resulting_state,
                  draw_event_count   |-> Cardinality(drawn) # Cardinality(rec.draw_records) ]
  IN  {code \in DOMAIN found : found[code]}

\* files[i + 1] is the record committed as run/turns/i.json.
check_chain(files) ==
  LET n     == Len(files)
      found ==
        [ turn_nonmonotone |->
            \/ \E i \in 1..n : files[i].turn # i - 1
            \/ \E i \in 2..n :
                 \/ files[i].start_state.as_of_turn # i - 1
                 \/ files[i].resulting_state.as_of_turn # i,
          head_mismatch |->
            \E i \in 2..n : files[i].start_state # files[i - 1].resulting_state,
          successor_mismatch |-> \E i \in 1..n-1 : files[i].successor_slot # i ]
  IN  IF n < 2 THEN {} ELSE {code \in DOMAIN found : found[code]}
=============================================================================
