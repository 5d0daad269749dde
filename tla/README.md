# Verification of centaur-harness

TLA+ models of the parts of this repository whose correctness depends on order, failure, repetition
or arithmetic; TLC configurations that check them on small instances; and theorems, checked by TLAPS,
that hold for every value of the constants.

The repository is a harness for AI wargame exercises: a deterministic engine adjudicates turns, language
models play the two sides from fogged views, every turn and every model answer is committed to disk, and
a set of gates re-derives what was committed. What makes it trustworthy is that (1) a committed turn is
never lost or replaced, (2) the engine cannot be driven into an unsound state by any move, (3) what the
gates accept is what happened, and (4) a paid run stays within its budget and ends. The models follow
these four.

    tlc -workers 2 -config SlotRace.cfg MCSlotCommit       # a run: see the table of runs
    tlapm SlotCommitProofs.tla                             # the proofs of a module

## 1. Inventory

### Durable slot commit - `core/atomic.py`, `core/turn_record.commit`
*State:* one file `run/turns/NNNN.json` per turn, in a page cache and on disk. *Operations:*
`commit_new_slot` (O_EXCL open, write, file fsync, directory fsync; or compare with what is there),
`atomic_write` (temporary file and rename). *Interacts with* every drive script, all of which commit
through it, and the replay gate, which reads the files. *Hard:* racing processes, a process that dies
between two system calls, short writes, power loss, retries. *Correct when* a committed record is whole,
durable and unique, and no answer is untrue.

### Contested-logistics engine - `core/resolver.py`, `core/agent_logistics.py`, `core/rng.py`, `assemble`
*State:* none; pure functions from a state (supply pools, turn, hidden block thresholds), a batch of
commands and a seed. *Operations:* validate, resolve, reduce, transition, assemble a turn record.
*Correct when* supply is conserved and never negative, an accepted batch always resolves, draws are
addressed and recorded exactly when they decide something.

### Campaign loops - `scripts/agent_offline_campaign.py`, `scripts/campaign_run.py`, `run_game`
*State:* the head and the records so far. Each turn's resulting state is the next start state. *Hard:*
long sequences of legal moves, rejected turns, records without draws. *Correct when* the invariants hold
over any sequence and the chain replays.

### Live game - `scripts/agent_live_campaign.py`, `agent_live_capture.py`, `core/live_client.py`, `core/spend_guard.py`
*State:* turn, slot, attempts of the slot, commands of the turn, records, ledger steps, response bytes,
money counted, money charged. *Operations:* count tokens, refuse by cap, call, redact, classify, retry
with a correction, forfeit, exclude, assemble. *Interacts with* the provider (external), the redaction and
the extractor, the renderer, the engine. *Hard:* every mix of refusals, retries, exclusions and exceptions;
budget; ending; three readers of one reply (redact, the prose scan, the extractor) that must agree.

### Committing a game - `_commit_game`, `commit_turn`, `write_ledger_with_steps`, `validate_run_ledger.py --write`
*State:* `run/turns`, `run/llm`, `run_ledger.yaml`. Records, then bytes, then the ledger, which is written
twice. *Hard:* a crash between or inside the writes, a rerun of the same or another game on what is left.

### Release - `scripts/verify.py`, `validate_run_ledger.py`, `validate_review_signoff.py`, `validate_calibration*.py`
*State:* the work tree and its commits, and per scenario a run-ledger (pinned inputs and a code_version),
a review, a sign-off, a calibration record and a feasibility record. People write, edit, commit, replace
and delete them in any order; the release only reads. *Operations:* the gates, the worst exit code, the
banner. *Hard:* documents that outlive what they were given on; gates that do not finish; two scenarios of
different posture. *Correct when* a clean release means that what was signed is what is pinned.

### Fog of war - `core/engine_projection.py`, `core/context_compiler.py`, `scripts/validate_agent_fog.py`
Stateless: the view of a turn a player gets, the contexts compiled from a state directory, and the gate
that resolves a turn again with other hidden thresholds. *Correct when* a player learns of hidden things
only what their effect shows.

### Other gates - `validate_turn_replay.py`, `validate_agent_provenance.py` ...
Stateless readers of what was committed. *Correct when* they accept what the drivers really produce and
accept nothing that mixes runs.

### Salvo engines - `core/salvo_resolver_het.py`, `core/salvo_resolver.py`
*State:* strike inventories, interceptor magazines, cumulative counts, below-floor streaks. *Hard:* integer
floors, shared magazines, streaks that span turns, indicators that must not look healthy under starvation.

### Others
Canonical encoding, and some fifteen field-by-field validators of YAML documents and text scans.
`PROJECT.json` lists every component with its status.

### How they interact
The drive scripts call the renderer, the provider and the extractor for each slot, the engine for each
turn (`assemble` -> `transition`), then `commit_new_slot` for each record, and the ledger writer. The gates
share no memory with the drivers: they meet only in files. Within a script everything is sequential; two
scripts on one directory interleave at system calls.

## 2. Modules

| module | models | state and actions |
|---|---|---|
| `SuccessorSlot` | what a slot promises: a write-once register | `chosen`, `acked`; choose, acknowledge, forget while nobody was told |
| `SlotCommit` | `commit_new_slot` | one action per system call, for each process; `Die`, `PowerLoss` |
| `Logistics` | the logistics engine and `assemble` | operators only |
| `TurnReplay` | the replay gate | `check_record`, `check_chain` as sets of problem codes |
| `Campaign` | `run_campaign` with the moves left open | `Resolved(batch)`, `Refused(batch)` |
| `Projection` | the players' views | operators only |
| `AgentFog` | the differential fog gate over a campaign | operators; extends `Campaign` |
| `Contexts` | the context compiler | operators only |
| `Provenance` | extraction results, classification, ledger steps, the provenance gate | operators only |
| `AgentGame` | `run_game` with `live_drive_slot` | `CountFails`, `CapRefuses`, `CallRaises`, `CallExcluded`, `CallAnswers`, `CallAsserts`, `SlotEnds`, `Assemble` |
| `Redaction` | `redact`, the prose scan and `extract_command` on a provider's reply | operators only |
| `OfflineRun` | `drive_turn` and `run_campaign` on given answers | operators only |
| `GameCommit` | the writes of a finished game | `CommitRecord`, `RecordConflicts`, `WriteBytes`, `PinInputs`, `PinRefuses`, `InjectSteps`, `Die`; `Begin` starts a script |
| `SalvoHet` | the heterogeneous salvo week | operators only |
| `SalvoHom` | the homogeneous salvo week | operators only |
| `SalvoCampaign` | the weekly chain of `campaign_run.py` | `Week`, `Fails` |
| `Attestation` | the three attestation gates | typed documents to sets of problem codes |
| `Release` | `verify.py --mode release` over a repository people change | `Edit`, `GitCommit`, `WriteLedger`, `Attest`, `Sign`, `Record`, `Score`, `Delete` |
| `MC*` | TLC instances of these | definitions for the configurations |
| `SlotCommitProofs`, `GameCommitProofs`, `ReleaseProofs`, `SalvoProofs` | theorems about the specification each is named for (section 5) | |
| `CampaignProofs` | theorems about `Campaign`, `AgentFog` and `Contexts` | |
| `AgentGameProofs` | theorems about `AgentGame`, the gates on what it commits, and `Redaction` | |
| `EngineProofs` | lemmas about the logistics engine, and about records it made | |
| `FoldProofs` | lemmas about folds, flattened sequences and sets in order, from induction over sets of naturals | |

`TurnReplay` and `Projection` extend `Logistics`; `Campaign` extends `TurnReplay`; `Provenance` extends
`Projection` and `TurnReplay`; `OfflineRun` and `Redaction` extend `Provenance`; `AgentGame` extends
`Redaction`, whose replies are what the model answers; `GameCommit` extends `OfflineRun`; `AgentFog` extends
`Campaign`, `Projection` and `Contexts`; `SalvoCampaign` extends `SalvoHet` and instantiates `SalvoHom`;
`Release` extends `Attestation`.

Two refinements are stated and checked. `SlotCommit` implements `SuccessorSlot` for the records that are
written in full (`RegisterSpec`; a torn file reads as no record chosen) - also a theorem. `AgentGame`
implements `Campaign` (`PlaysCampaign`: the batches are the orders that were screened legal) - so what is
proved of campaigns holds of games. A third relation of the kind is `LaneIsHomogeneous`: the heterogeneous
salvo engine, seen on one threat with magazines of its own, is the homogeneous one.
`GameCommit` uses the slot as the register `SlotCommit` was shown to be, plus `Torn`.

Choices of abstraction, where a reader may want to know:

- *Canonical bytes.* A record is compared as a value. Canonical JSON objects are prefix-free, so a partly
  written record (`Torn`) equals no record; two records of the same content are the same bytes. `run_id`
  is a default that does not differ between runs, so it is left out.
- *Digests.* A digest of a part equals another iff the parts are equal.
- *The random source.* A d100 for every seed, turn and route, chosen arbitrarily at the start.
- *A model answer* is what the extractor makes of the redacted reply: an order or a reject code, and
  whether the scan still finds text in it. A reply is a list of blocks; a block a type, a name, an input and
  other keys; any string the game does not know stands for text. Nested bodies, arrays in place of objects
  and duplicate keys are left out. A request is what it
  renders: the view and the correction of the reject before. Prompt version `a1b` renders the view, `v1`
  does not, as in the gate's own table.
- *Money* is in micro-dollars, like `spend_guard`. The input tokens that are counted before a call and
  those its usage block names are two numbers: the guard tests the first (`agent_live_capture.py:110-113`),
  the charge is the second (`:118`), and `spend_guard.py:14` calls the second authoritative. `Usages` says
  what usage blocks a count may be followed by. Output is bounded by `max_tokens`; that a count misses at
  most `Undercount` tokens is an assumption about the provider (`UsageAssumption`), which the code does not
  make. `spend` is what the guard adds up; `billed`, a ghost, is what the provider charges, also for a call
  that then raises.
- *A commit* is the tree it holds, and its sha its position in the history: two commits are never taken
  for each other. A code_version is a sha and whether it is dirty.
- *Gates a release only composes* (all of the draft's, replay, provenance ...) are one gate, "rest", which
  may find anything.
- *A feasibility record's prose* is a sequence of the words the over-claim scan tells apart: claim, negator,
  other word.
- *A YAML ledger whose writer died* is unreadable, or readable and cut between two steps.
- *Type checks* of the validators are left out: the models' values have the right types.
- *Percentages* in the salvo are floored where the code floors. The network entity's reporting-only
  fields (weeks remaining, percentages by class) are left out.

## 3. Runs

| run | question | bounds |
|---|---|---|
| `slot` | Is what was acknowledged whole, durable and unique, through races, deaths, power loss and short writes of some records; does the slot implement the register? | 3 processes, 3 records, 2 of them ever written short; processes restart without limit |
| `campaign` | Is supply conserved, is no accepted batch ever raised, does every chain replay, do draws decide exactly what the rules say; do the fog gate's and the players' views hide what they must; do contexts stay private? | 2 routes, quantities 1-2, supply 3, two turns, two seeds, d100 below and at the threshold, thresholds 0, 50 and 99 for the gate, pairings of moves and odd batches; state directories of up to four files over three item ids |
| `game` | Do orders screened one by one resolve together; does a finished game pass the provenance gate, and every prefix the replay gate; how far can the bill pass the cap; are calls bounded; does every game end; is a game a campaign; do redaction and extraction agree? | 2 slots, 2 turns, 1 retry, 4 answers, calls of 1 or 3 under a ceiling of 2, cap 6; replies of up to two blocks |
| `game_commit` | Is a directory the gates pass the audit of one run; does a run that finishes repair what it found? | 5 games of one and two turns, any number of runs and deaths |
| `salvo` | Is nothing lost, is culmination exactly k weeks of collapse, do the indicators warn, do the two engines agree? | 3 threats, 3 interceptors, 6 rulesets (3 rejected), some 1700 starts, 5 weeks |
| `release` | What does a clean release mean? | 2 scenarios, 2 files of 2 contents (symmetric), 2 commits, 6 operations |
| `slot_torn` | violation, finding 1 | 1 process |
| `game_crash` | violation, finding 2 | as `game` |
| `salvo_crash` | violation, finding 3 | a ruleset of two threats |
| `release_killed` | violation, finding 4 | as `release`, gates may be killed |
| `release_stale` | violation, finding 5 | as `release`, a tracked input may be deleted |
| `release_claim` | violation, finding 6 | as `release`, 2 operations, one more feasibility record |

Why the bounds are enough. Two processes give every race of a slot, since the third can only find it
existing; three are cheap enough. Two turns give every handoff (the first turn has
no predecessor, the second starts from a result), including a batch that was legal before and is not
after. Quantities 1-2 on a supply of 3 (in the game, orders of 1 on a supply of 1) give exhausted, exact
and insufficient supply. One retry gives a correction, a rejected correction and a forfeit. Cap 6 with
calls of 1 (cheap) or 3 (undercounted by one token, full output) is reached or passed in every position:
before the first attempt of either slot, before a retry, never. Two blocks in a reply give none, one and too many tool uses, in both orders with words. Five weeks
hold streaks of 2 and 3, broken ones, and magazines that empty and refill; `Pulsed` starts alternate below
and above a floor. Six operations let an input change, be committed and pinned again while a review, a
sign-off and a record follow or lag; two scenarios show the difference between the default one and another.

`ContextsStayPrivate` and `CommitKeepsCommands` are about pure functions over every input of a set of
them; they read nothing of the machine they are checked with.

`CHECK_DEADLOCK FALSE` is set where the system stops: a campaign at its horizon, a game that ended, a
release history at its bound. Slots and directories can always be tried again, and there deadlock is
checked.

**Fairness.** Only `AgentGame` has liveness. `FairSpec` assumes that the script keeps running
(`WF_vars(Progress)`): it is one process, it waits only on its calls, and `live_client` gives each a
timeout. `Progress` leaves out the failures (`Fail`), so nothing assumes that a call ever fails, or that an
answer is ever legal.

### What the properties are about

- `CommittedDurable`, `RegisterSpec`, `NeverOverwritten`, `SuccessesHold`: the order O_EXCL, write, file
  fsync, directory fsync is what makes them true; dropping a step breaks them. `SuccessesHold` covers
  "idempotent" too, and says that only a power failure can make an answer untrue.
- `AckedNeverReplaced`: `os.write`'s count is ignored, so a short write is acknowledged although the
  record is truncated; still, nobody else's record takes the slot. `Short` is the set of records that may
  be cut: of those nothing more is promised, while the others keep every promise beside them.
- `HeadInv`, `NeverRaises`, `DrawDecides`, `GatePasses`: see `Campaign`.
- `NeverRefused`: the loop screens an order against the head and assembles it later with the other
  slot's; the batch check can refuse what the single checks accepted, and a refusal ends the program.
- `GameBinds`: driver and gate were written separately; every history of answers, exclusions, refusals
  and forfeits must bind. It is an equivalence: the gate refuses a finished game exactly when every call
  was excluded, so that its list of steps is empty, or when the cap stopped it between the two slots of a
  turn (`CutOff`), so that a step is kept of a turn that has no record.
- `OverrunIsOneCall`: how much the bill may pass the cap must not depend on the number of calls. It does
  not, because the guard adds up usage and not counts, adds it before it looks at what was served, and a
  call that raises uncounted ends the game. Counting an excluded call late breaks it.
- `CommitKeepsCommands`: redaction, the scan and the extractor each have their own notion of a valid
  command. The committed bytes must extract to what the provider's bytes extract to, a command must never
  be taken for text, and what the scan passes must hold no unknown string.
- `FogGatePasses`, `MovesStayHidden`: a view is made once, with the thresholds and moves of the turn; it
  must be the same for every threshold and every move of the other side with the same visible effect. The
  second is not checked by any gate of the repository.
- `ContextsStayPrivate`: holds because an item id may occur once in the whole directory, not only once
  among the public items and each private file.
- `SignedIsReleased`, `BannerIsWorst`, `RecordIsSigned`, `CalibratedIsBacked`: relate what authors saw
  when they wrote a document (history variables) to what a later clean release reports, over every
  interleaving of edits, commits, regenerated ledgers and documents of two scenarios. `SignedIsReleased` is
  about a clean code_version: two uncommitted states of one commit share the name "<commit>-dirty".
- `LaneIsHomogeneous`: the docstring's "generalizes the homogeneous salvo", in every week of a campaign.
- `OneRunAudited`: reruns and crashes can leave records of one run beside steps of another; the gates'
  two-way coverage of records and steps must catch every such mixture that has a command.
- `DoneIsClean`: a run that gets to its end leaves a directory that passes, whatever it found, unless
  a longer run's records lie beyond its own.
- `Conserved`, `CulminatesAtCollapse`, `BandBrackets`, `StarvedIsFlagged`, `StarvedReadsDepleting`: over
  all weeks and not one; `CulminatesAtCollapse` compares state-carried streaks with the history they
  summarise; `BandBrackets` quantifies over every leak rate of the range where the code only looks at
  its ends.

Each property is paired in `PROJECT.json` with a mutated definition of the code (the operators commented
"Mutant of") under which TLC finds it violated.

## 4. Findings

1. `slot_torn`: a process that dies between creating the slot and filling it makes every retry of the
   same record raise `SlotConflict`, against ENGINE_CONTRACT's "Same candidate + byte-identical ->
   idempotent success".
2. `game_crash`: a model answer whose command holds a string the extractor rejects (an unknown action, a
   route outside the enum, an extra parameter) survives redaction, is found by the prose scan, and trips the
   assertion at `agent_live_capture.py:129`. The program ends and nothing of the game is committed, where
   the documents say forfeit and ask again.
3. `salvo_crash`: a ruleset without ballistic missiles passes the validator and crashes `resolve`.
4. `release_killed`: a gate killed by a signal has a negative return code, which the maximum over the
   codes hides: the release prints FAIL for the gate and exits 0.
5. `release_stale`: after a tracked input is deleted from the work tree, `--write` pins the smaller
   snapshot under the unchanged clean commit, so the review and the sign-off of the larger one stay valid.
6. `release_claim`: `_overclaim_hit` promises the first *affirmative* over-claim word, and the gate that none
   is affirmed anywhere in the record. It judges the first such word of a clause only: "not calibrated on
   public counts and independently validated" has no hit, and the record is released.

Observed while modelling, without a run:

- *Slots.* "idempotent" is answered for bytes nobody fsynced, and a power failure loses them
  (`SuccessesHold` excepts exactly this). The entry of a directory that `mkdir` created is not fsynced (the
  fault `new_directory`).
- *Games.* When the cap refuses the second slot's first attempt, the step of the first slot is committed for
  a turn that has no record, and a game of excluded calls commits `llm_steps: []`: the gate refuses both, as
  `GameBinds` says, although the game ended as it should. `spend_guard.py:4` says that a call is refused
  "BEFORE a call that could breach the cap, not after": with a usage block that names more input than was
  counted, one call can breach it, by what its count missed (`OverrunIsOneCall`). A transport error is not recorded EXCLUDED: the
  program ends and the finished turns are not committed. A rerun that dies can spoil
  bytes or a ledger an earlier run had committed until a run finishes.
- *Redaction.* A reply whose `content` is a string is kept as it is, and not seen by the scan.
- *Salvo.* The homogeneous engine bounds nothing of its ruleset, although `validate_ruleset.py:13-14` says
  that resolvers do: a price of 0 divides by zero, a rate of 120 percent resolves with a negative leak.
- *Release.* The ledger gate runs on the default scenario only (`verify.py:86-88`). A `git status` that
  fails counts as clean. `calibration_disposition: CALIBRATED` under status UNCALIBRATED needs no record.
  For a nested scenario, `validate_run_ledger.py` takes a wrong repository root (`scenario_dir.parent.parent`).
  A release is not atomic: a file may change between two of its gates; the model takes them at one instant.
- *Fog.* `check_fog_invariants` is dead: no caller passes agent ids. `load_partition` raises KeyError, not
  FogError, on a file without a schema version.

## 5. Proofs

All proofs are for arbitrary constants under the named assumptions.

- **`SlotInv`** (`SlotCommitProofs`, theorem `SlotInvariant`): assumes only that the slot's directory
  exists. `CommittedDurable` is not inductive: it says nothing of a writer that has not finished. The
  strengthening is `WriterInv`: a process past O_EXCL is alone, nobody has been acknowledged yet, and the
  file holds what this process has written so far, flushed once it says so. From it: `CommitIsDurable`
  and `SuccessIsTruthful` (of records outside `Short`), `SingleSuccessor` and `RecordNeverOverwritten` (of
  all), and `ImplementsRegister`, where every step maps to a step of the register or a stutter.
- **`HeadInv`** (`CampaignProofs`, theorem `SupplyIsConserved`, `LegalBatchNeverRaises`): the step is the
  lemma `TransitionAnswers` (`EngineProofs`): from a state with nothing in transit, a batch that
  `validate_all` accepts has one dispatch at most, of no more than the origin holds, so its events are
  well formed and `reduce` moves exactly its quantity from origin to delivered or lost. No bound on
  routes, supplies, seeds or turns. Nothing in transit between turns is part of the invariant because
  without it a terminal event would not balance its dispatch.
- **`NeverRefused`** (`AgentGameProofs`, theorem `ScreenedOrdersResolve`): the invariant says that each
  command of the turn is bound to a slot already asked, legal against the *current* head, and that no two
  are of one slot, so that the batch check adds nothing; the head does not change within a turn.
- **`OverrunIsOneCall`** (theorem `OverrunIsBounded`): what is billed equals what the guard has added up
  until a call raises, after which nothing more is called. The guard tests that sum and the ceiling of the
  next call, and the call costs no more than its ceiling and the price of the tokens its count missed
  (`CostWithinCeiling`); so the sum is within cap and that price after the call, whatever it was before it.
  For every cap, prices and `Undercount`; with `Undercount = 0` it says that the cap holds.
- **Release** (`ReleaseProofs`, theorems `CleanReleaseIsSigned`, `BannerNeverOutclaims`,
  `ReleasedRecordIsSigned`, `CodeVersionsAreTruthful`): what the banner and the feasibility record say
  follows from the gates' codes in one state; that what was signed is what is pinned needs history. `ReleaseInv` says that the documents have
  their shape (`Shape`), that a tracked file is missing only after a commit without it (`NothingLost`), and
  that a clean code_version names a commit whose contents are the pinned inputs (`Truthful`), for the ledger
  as for what each author saw. Two truthful code_versions that are equal then pin equal inputs. Assumed:
  `Faults \subseteq {"timeout"}` - with a removed tracked file or a failing `git status` it is false, which
  is finding 5.

- **`CalibratedIsBacked`** (`ReleaseProofs`, `CalibrationIsBacked`): the same invariant says of a
  calibration record that its code_version is truthful about the inputs its author scored, and that its form
  is one of those the scenario can have.
- **`GatePasses`, `DrawDecides`** (`CampaignProofs`, `EveryRecordReplays`, `DrawsDecideLosses`): neither is
  inductive, because a problem code says nothing of the head the next record starts from. `RecordsInv` says
  that the records are a chain the engine made from the first state to the head with the master seed
  (`Chained`, in `EngineProofs`); that such a record and such a chain have no problem is a lemma about data
  (`MadeReplays`, `ChainPasses`). The gate replays a record without draws with another seed: the step is the
  lemma that a turn without draws does not look at its oracle (`NoDrawNoSeed`).
- **`PrefixReplays`** (`AgentGameProofs`, `GamesReplay`): the same chain, for the records of a game that stops
  anywhere.
- **`GameBinds`** (`GamesPassTheGate`): driver and gate meet only in the ledger, so the invariant
  `LedgerInv` relates the two: each committed step is the step of some non-empty history of attempts on the
  state its turn starts from, with every rejected attempt before the last and each corrected by the reject
  before it (`Tries`); no two steps are of one slot and turn; and the orders of every turn are those of its
  COMMAND steps, in both directions. One lemma per check of the gate then shows that such a step has no
  problem (`StructureHolds`, `EnvelopeHolds`, `BindingHolds`, `ChainHolds`, `PriorHolds`, `RetriesHold`). The
  other direction is `OrphanIsRefused`: a step of a turn without a record is a problem whatever it says.
- **`CallBudget`** (`AgentGameProofs`, `CallsAreBounded`): `BudgetInv` counts the calls of the slots that are
  done and the attempts of the one being asked.
- **`PlaysCampaign`** (`GameIsACampaign`): the refinement of `Campaign`, step by step. `Assemble` maps to
  `Resolved(cmds)`, every other action to a stutter. It needs `BatchInv`: the orders gathered so far are one
  of the batches of the slots asked so far, so that the campaign could have chosen them.
- **`FogGatePasses`, `MovesStayHidden`** (`CampaignProofs`, `EveryRecordIsFoggy`, `MovesAreHidden`): from
  `RecordsInv`, since both are about turns the engine made. The first compares a turn with its twin under
  another threshold, case by case of what the turn did (`TwinFates`); the second a turn with the same turn
  without RED's moves, or with BLUE's on another open route. Both rest on what a view holds of a turn of few
  events (`ViewOfFew`).
- **`ContextsStayPrivate`** (`CampaignProofs`, `ContextsArePrivate`): the item ids of a directory are one
  flattened sequence, and a directory that loads has it without repetition; so no two files share an item
  (`LoadedIsApart`), and what one agent's context holds of another's file is empty. For every set of
  partitions, agents and item ids.
- **`CommitKeepsCommands`** (`AgentGameProofs`, `RepliesAreRedacted`), for replies of any length and any inputs
  a tool use may carry: `redact` and the extractor each keep some blocks of a reply, in order; by induction
  over the prefixes of the reply, what the extractor finds among the kept blocks is what it finds in the reply,
  with the same inputs (`UsesSurvive`), and its verdict reads no more than that (`ReadsByUses`).
- **`OneRunAudited`, `DoneIsClean`** (`GameCommitProofs`, `AuditsOneRun`, `RunsEndClean`): from the invariant
  `CommitInv`. A slot never changes once it is filled, and holds the record some game has for that turn, or
  a cut file (`SlotsInv`). A ledger with steps holds the first steps of a game *all of whose records are
  committed* (`AuditInv`): the ledger is written last, and slots do not change afterwards, so this survives
  any later run. A running script finds on disk everything that lies behind it (`RunInv`). The gate's
  coverage then ties every committed command to a step of that game, hence to its record; and a finished
  run's records and bytes are a game that passes alone, to which further bytes change nothing
  (`MoreBytesJudge`). `GamesAreSound` derives from the operators `LiveGame` and `OfflineCampaign` what the
  writes of a game are, whatever order its bytes have.

- **Salvo** (`SalvoProofs`: `CampaignConserves`, `CulminationIsCollapse`, `BandIsABracket`,
  `StarvationIsFlagged`, `StarvationDepletes`, `LanesAreHomogeneous`): each for every ruleset of the checked
  shape, every start state and any number of weeks. The invariant `Chained` says that the records are one
  chain: every week is `WeekOf` a state of the scenario, starts from the result of the week before, the
  first without a streak, and only the last one may culminate. On top of it:
  - the week's sums and folds are taken apart: a fold over a set is a function that satisfies the step
    equation on every subset (`FoldExists`), a fold over a sequence one that satisfies it on every prefix
    (`SequenceFold`, `FoldedPrefixes`), and sums may be swapped (`SumOfSums`);
  - `Balanced` is the ledger of a campaign against its start: of each threat, what is left and what was
    launched are the starting stock and the production of the weeks, and what was launched leaked or was
    intercepted. `BalancedStep` adds one week to it;
  - `StreaksCount`: the streak in the state is the number of weeks below the floor that the records end
    with; `CulminatesAtCollapse` compares its two readings;
  - the floors: a price is met with at most the engaged rounds, and the leak of every rate of the range lies
    between the leaks of the two ends (`BandBrackets`);
  - the allocation, one threat and one interceptor at a time: a lane's magazines are untouched until its
    turn comes, and a demand that could be met by the best type is met (`Held`, `Met`, `OnLane`). This is what
    makes a starved threat flagged and depleting, and what makes a lane of its own (`LaneStep`, `HomWeek`) the
    homogeneous engine.

  That a playable ruleset never raises (`PlayableResolves`) is proved on the way.

Induction over data. The library's induction theorems take an operator and cannot be used, but induction
over a *set* of naturals can be stated and proved (`NatSetInduction`, from the well-foundedness of the
naturals), and from it induction over the subsets of a finite set (`SubsetInduction`), both in `FoldProofs`.
With them the recursive functions the theorems reach - `project_events`, `BatchesUpTo`, and the folds of the
salvo week, of redaction and of flattening - are shown to exist (`ViewsExist`, `BatchesExist`, `FoldExists`,
`FlattenExists`) and so to satisfy their defining equations.

Assumed, all in the modules that declare the constants and evaluated by the runs: `ContentAssumption`,
`ShortAssumption`, `FaultAssumption` (slots); the typing of the constants; `ReplaySeedAssumption` (a seed is never the null
that a record without draws carries) and `ScoreAssumption` (a complete calibration record has an integer
outcome_count, as its validator requires); `NameAssumption` (that the actors' and actions' names are
strings, which no installed prover derives); `RulesetAssumption` and `StartAssumption` (salvo: a ruleset
has the types its validator leaves, and a start state of a playable one has its entities, natural numbers
and no streak). `IsRuleset` also says that `threat_order` names every threat once, as the default order
does; the validator does not check an order that a ruleset gives itself. `PartitionAssumption` says that
files have sequences of items and `ReplyAssumption` that replies have sequences of blocks. `GameAssumption` says
of the games a script may commit that each has its turns numbered from 0, at least one step, and passes the
gates alone: of live games `GamesReplay` and `GamesPassTheGate` prove the last; a game without any step (every call
excluded) and one that the cap cut off within a turn are left out, since the gate refuses them by
themselves, as `GamesPassTheGate` says. `UsageAssumption` bounds what a usage block may say: its output by
`max_tokens`, its input by the count and `Undercount`.

Checked by TLC only:

- `GameEnds`: liveness under fairness and ENABLED are outside the proof system's reach. Every other property
  of a passing run is the statement of a theorem.
- That the games of `game_commit` satisfy `GameAssumption`: TLC evaluates it for the five it is run with. It
  follows for live games from the theorems above and for offline ones from nothing proved, because `drive_turn`
  selects slots with `SelectSeq`, a definition the provers cannot expand (those of the folds they can).

## 6. Not modelled, and why

Field-by-field validators and text scans keep no state and interact with nothing; `validate_engine_state.py`
is structural and leaves the engine's preconditions (nothing in transit, no negative supply) to the resolver.
Canonical encoding is a serialisation whose injectivity is assumed. The network is the nondeterministic answer
of the provider. `atomic_write` has no caller outside the tests; its temporary name is shared by concurrent
writers of one path. The single-turn capture (`agent_live_capture.main`) drives the same `live_drive_slot` as
the game, with a cap on calls and tokens in place of dollars. Draft mode of `verify.py` is a conjunction of
exit codes. The salvo sensitivity script reruns the campaign with scaled resupply and keeps nothing. The sweep
over committed files of the no-prose gate is a loop over `contains_prose`.

## 7. Plan

Order of work, most important behaviour first:

1. `SlotCommit` with `SuccessorSlot` and proofs - done.
2. `Logistics`, `TurnReplay`, `Campaign` with proofs - done.
3. `Provenance`, `AgentGame` with proofs - done.
4. `OfflineRun`, `GameCommit` with proofs - done.
5. `SalvoHet`, `SalvoHom`, `SalvoCampaign` with proofs - done.
6. *Fog*: `AgentFog`, `Contexts` with proofs - done.
7. *Release*: `Attestation`, `Release` with proofs - done.
8. *Redaction* and the reply a game reads, with proofs - done.
9. Proofs of the gates, draws, views, refinement, call budget and calibration - done.
10. Proofs of the salvo campaign, its folds by induction over sets - done.
11. Proofs of what scripts leave in a directory, of contexts and of redaction - done.
12. That every campaign of `OfflineRun` satisfies `GameAssumption`, as a theorem.
