------------------------------ MODULE GameCommit ------------------------------
(***************************************************************************)
(* How a finished game reaches the scenario directory: the turn records    *)
(* (run/turns, commit_new_slot), the content-addressed bytes (run/llm,     *)
(* write_bytes) and the ledger (run_ledger.yaml, written twice: --write    *)
(* pins the inputs and keeps the llm_steps it finds, then the new steps    *)
(* replace them).  The drive scripts run one after another on the same     *)
(* directory, any of them may die at any write, and be run again.          *)
(*                                                                         *)
(* A slot is the register SlotCommit implements, or Torn when its writer   *)
(* died inside commit_new_slot.                                            *)
(***************************************************************************)
EXTENDS OfflineRun

CONSTANTS
  Live,       \* what run_game returns of finished games, turn by turn
  Offline,    \* what run_campaign returns of them
  Oracle,     \* the d100 values the games were played with
  Torn,       \* a file whose writer died: not its writer's bytes
  NoLedger,   \* no readable run_ledger.yaml
  NoGame      \* no script is running

\* A game's writes before the ledger, in order: of a live game all records and
\* then all bytes; of an offline campaign turn by turn.
Write(kind, turn, content) == [kind |-> kind, turn |-> turn, content |-> content]

ByteWrites(bytes) ==
  LET order == SetToSeq(bytes) IN [i \in DOMAIN order |-> Write("bytes", 0, order[i])]

commit_turn(driven) ==
  <<Write("record", driven.turn_record.turn, driven.turn_record)>> \o ByteWrites(driven.artifacts)

LiveGame(drivens) ==
  [ records |-> [i \in DOMAIN drivens |-> drivens[i].turn_record],
    steps   |-> FlattenSeq([i \in DOMAIN drivens |-> drivens[i].llm_steps]),
    writes  |-> [i \in DOMAIN drivens |-> Write("record", i - 1, drivens[i].turn_record)]
                  \o ByteWrites(UNION {drivens[i].artifacts : i \in DOMAIN drivens}) ]

OfflineCampaign(drivens) ==
  [LiveGame(drivens) EXCEPT !.writes =
     FlattenSeq([i \in DOMAIN drivens |-> commit_turn(drivens[i])])]

Games == {LiveGame(d) : d \in Live} \cup {OfflineCampaign(d) : d \in Offline}

\* The turn-replay and the agent-provenance gate pass on these turn records,
\* bytes and steps.
GatesAccept(slots, bytes, steps) ==
  /\ \A t \in DOMAIN slots : slots[t] # Torn /\ check_record(slots[t], Oracle) = {}
  /\ check_chain([i \in 1..Cardinality(DOMAIN slots) |-> slots[i - 1]]) = {}
  /\ steps # NoLedger
  /\ judge_scenario(steps, slots, bytes) = {}

\* The games of at least one turn and one step that pass the gates by
\* themselves: of a live game, one the cap did not cut off within a turn
\* (AgentGame's GameBinds).
IsSeq(s) == s \in Seq(ToSet(s))

DrivenTurn(driven, turn) ==
  /\ driven.turn_record.turn = turn
  /\ IsSeq(driven.llm_steps)
  /\ \A j \in DOMAIN driven.llm_steps : driven.llm_steps[j].turn = turn
  /\ IsFiniteSet(driven.artifacts)

ASSUME GameAssumption ==
  \A d \in Live \cup Offline :
    /\ IsSeq(d) /\ d # <<>>
    /\ \A i \in DOMAIN d : DrivenTurn(d[i], i - 1)
    /\ LiveGame(d).steps # NoSteps
    /\ GatesAccept([t \in 0..Len(d)-1 |-> d[t + 1].turn_record],
                   UNION {d[i].artifacts : i \in DOMAIN d}, LiveGame(d).steps)

VARIABLES
  turns,     \* run/turns: the slots that exist, each a record or Torn
  llm,       \* run/llm: the bytes that are whole
  cut,       \* run/llm: files whose writer died
  ledger,    \* llm_steps of run_ledger.yaml, or NoLedger
  pc,        \* what the running script does next; "idle", "done"
  game,      \* the game it commits, or NoGame
  next       \* index of its next write

disk == <<turns, llm, cut, ledger>>
vars == <<disk, pc, game, next>>

Init ==
  /\ turns = <<>> /\ llm = {} /\ cut = {} /\ ledger = NoLedger
  /\ pc = "idle" /\ game = NoGame /\ next = 1

Begin(g) ==
  /\ pc \in {"idle", "done"}
  /\ pc' = "writes" /\ game' = g /\ next' = 1
  /\ UNCHANGED disk

w == game.writes[next]
Advance ==
  /\ next' = next + 1
  /\ pc' = IF next = Len(game.writes) THEN "pin" ELSE "writes"
  /\ UNCHANGED game

\* The script is over before its end, by an exception or a kill.
Leave == pc' = "idle" /\ game' = NoGame /\ next' = 1

Writes(kind) == pc = "writes" /\ w.kind = kind

\* The slot is empty, or already holds these very bytes.
CommitRecord ==
  /\ Writes("record")
  /\ w.turn \in DOMAIN turns => turns[w.turn] = w.content
  /\ turns' = [t \in DOMAIN turns \cup {w.turn} |-> IF t = w.turn THEN w.content ELSE turns[t]]
  /\ Advance
  /\ UNCHANGED <<llm, cut, ledger>>

\* SlotConflict leaves the script.
RecordConflicts ==
  /\ Writes("record")
  /\ w.turn \in DOMAIN turns /\ turns[w.turn] # w.content
  /\ Leave
  /\ UNCHANGED disk

\* Mutant of WriteBytes: bytes whose file exists are not written again.
WriteNewBytes ==
  /\ Writes("bytes")
  /\ llm' = IF w.content \in cut THEN llm ELSE llm \cup {w.content}
  /\ Advance
  /\ UNCHANGED <<turns, cut, ledger>>

WriteBytes ==
  /\ Writes("bytes")
  /\ llm' = llm \cup {w.content}
  /\ cut' = cut \ {w.content}
  /\ Advance
  /\ UNCHANGED <<turns, ledger>>

\* --write keeps the steps of the ledger it finds, if it can read one.
PinInputs ==
  /\ pc = "pin"
  /\ ledger' = IF ledger = NoLedger THEN NoSteps ELSE ledger
  /\ pc' = "inject"
  /\ UNCHANGED <<turns, llm, cut, game, next>>

\* Without git, or without a declared input, nothing is written.
PinRefuses ==
  /\ pc = "pin"
  /\ Leave
  /\ UNCHANGED disk

InjectSteps ==
  /\ pc = "inject"
  /\ ledger' = game.steps
  /\ pc' = "done"
  /\ UNCHANGED <<turns, llm, cut, game, next>>

\* What a writer of `steps` may leave of the ledger: nothing readable, or a
\* document cut between two of them.
CutLedgers(steps) ==
  {NoLedger, NoSteps} \cup
  (IF steps \in {NoLedger, NoSteps} THEN {} ELSE {SubSeq(steps, 1, n) : n \in 1..Len(steps)})

\* The script dies, before or inside the write it is at.
Die ==
  /\ pc \notin {"idle", "done"}
  /\ \/ UNCHANGED disk
     \/ /\ Writes("record") /\ w.turn \notin DOMAIN turns
        /\ turns' = [t \in DOMAIN turns \cup {w.turn} |-> IF t = w.turn THEN Torn ELSE turns[t]]
        /\ UNCHANGED <<llm, cut, ledger>>
     \/ /\ Writes("bytes")
        /\ llm' = llm \ {w.content}
        /\ cut' = cut \cup {w.content}
        /\ UNCHANGED <<turns, ledger>>
     \/ /\ pc \in {"pin", "inject"}
        /\ ledger' \in CutLedgers(IF pc = "pin" THEN ledger ELSE game.steps)
        /\ UNCHANGED <<turns, llm, cut>>
  /\ Leave

Step ==
  \/ CommitRecord \/ RecordConflicts \/ WriteBytes
  \/ PinInputs \/ PinRefuses \/ InjectSteps

Next == (\E g \in Games : Begin(g)) \/ Step \/ Die

Spec == Init /\ [][Next]_vars

-----------------------------------------------------------------------------
GatesPass == GatesAccept(turns, llm, ledger)

\* A directory the gates pass, whose ledger has steps, is the audit of one
\* run: every command on disk is that run's, and so are the steps - whatever
\* runs died or were refused before, and in which order.
OneRunAudited ==
  GatesPass /\ ledger # NoSteps =>
    \E g \in Games :
      /\ IsPrefix(ledger, g.steps)
      /\ \A t \in DOMAIN turns : turns[t].command_batch # {} =>
           t < Len(g.records) /\ turns[t] = g.records[t + 1]

\* A run that reaches its end leaves its own complete audit, whatever it found;
\* and the gates pass unless a longer run's records lie beyond its own.
DoneIsClean ==
  pc = "done" =>
    /\ ledger = game.steps
    /\ DOMAIN turns = 0..Len(game.records)-1 => GatesPass
=============================================================================
