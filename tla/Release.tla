------------------------------- MODULE Release -------------------------------
(***************************************************************************)
(* The release gate over a repository that people keep changing.  Files    *)
(* are edited and committed, run-ledgers regenerated, reviews, sign-offs   *)
(* and calibration documents written, replaced and deleted, in any order;  *)
(* verify.py --mode release writes nothing, so its verdict is a function   *)
(* of the state, and the properties below say what a clean one means       *)
(* whenever it is run.                                                     *)
(***************************************************************************)
EXTENDS Attestation, FiniteSetsExt

CONSTANTS
  Scenarios, Default,   \* scenario directories, and the one the gates default to
  Files, Declared,      \* files, and those each scenario declares as inputs
  Contents, Absent,     \* what a file can hold; no file
  Listed,               \* attestation_reviewers.yaml
  Reviews, Signs, Records, Scores,          \* what authors may fill in, per scenario
  FirstReview, FirstSign, FirstRecord,      \* the forms a scenario starts with
  Faults,               \* subset of {"timeout", "killed", "removal", "status"}
  MaxCommits, MaxOps    \* bounds: commits of the history, and operations

ASSUME ReleaseAssumption ==
  /\ Default \in Scenarios
  /\ Declared \in [Scenarios -> SUBSET Files]
  /\ Absent \notin Contents
  /\ Faults \subseteq {"timeout", "killed", "removal", "status"}
  /\ MaxCommits \in Nat /\ MaxOps \in Nat

\* A count that is no integer makes the record incomplete (required_int).
ASSUME ScoreAssumption ==
  \A s \in Scenarios : \A form \in Scores[s] : form.complete => form.outcome_count \in Int

VARIABLES
  tree,      \* the work tree
  commits,   \* the history; a commit's sha is its position
  ledger, review, signoff, feas, cal,   \* the documents of each scenario
  reviewed, signed, scored,   \* history: the pinned inputs their authors saw
  left       \* operations left before the bound

docs  == <<ledger, review, signoff, feas, cal>>
saw   == <<reviewed, signed, scored>>
vars  == <<tree, commits, docs, saw, left>>

HEAD == commits[Len(commits)]

\* declared_inputs: only files that exist; the pins are their contents.
declared_inputs(t, s) == {f \in Declared[s] : t[f] # Absent}
Pins(t, s) == [f \in declared_inputs(t, s) |-> t[f]]

-----------------------------------------------------------------------------
(* The gates and the driver. *)

validate_run_ledger(s) ==
  IF ledger[s] = NoDoc \/ declared_inputs(tree, s) = {} THEN 2
  ELSE IF ledger[s].inputs = Pins(tree, s) THEN 0 ELSE 1

attested_scenario_dirs == {s \in Scenarios : review[s] # NoDoc \/ signoff[s] # NoDoc}

sweep_dirs == attested_scenario_dirs \cup {s \in Scenarios : feas[s] # NoDoc}

sweep ==
  LET judged == {judge_feasibility(ledger[s], signoff[s], feas[s]) : s \in sweep_dirs}
  IN  IF 2 \in judged THEN 2 ELSE IF 1 \in judged THEN 1 ELSE 0

\* The gates a release runs: those of the draft and the repository-wide ones
\* together ("rest"), the ledger gate on its default scenario only, and the
\* attestation gates on every attested scenario.
PerScenario == IF attested_scenario_dirs = {} THEN {Default} ELSE attested_scenario_dirs

Gates ==
  ({"rest", "ledger", "feasibility"} \X {Default}) \cup ({"attestation", "calibration"} \X PerScenario)

gate_rc ==
  [gate \in Gates |->
    LET s == gate[2]
    IN  CASE gate[1] = "rest"        -> 0
          [] gate[1] = "ledger"      -> validate_run_ledger(s)
          [] gate[1] = "feasibility" -> sweep
          [] gate[1] = "attestation" -> validate_review_signoff(ledger[s], review[s], signoff[s], Listed)
          [] gate[1] = "calibration" -> validate_calibration(ledger[s], signoff[s], cal[s])]

\* How a release can end: the gates of "rest" find anything, and one gate
\* may not finish.
Unfinished == When("timeout" \in Faults, 2)
                \cup When("killed" \in Faults, -9)   \* returncode after SIGKILL

Ends ==
  LET found == LET rc == gate_rc IN {[rc EXCEPT ![<<"rest", Default>>] = n] : n \in 0..2}
  IN  found \cup {[rcs EXCEPT ![gate] = n] : rcs \in found, gate \in Gates, n \in Unfinished}

\* The scaffold check runs in-process, its code is 0 or 1.
worst(rcs) == Max({rcs[gate] : gate \in DOMAIN rcs} \cup {0})

release_attestation ==
  LET kinds == {review[s].form.kind : s \in {z \in Scenarios : review[z] # NoDoc}}
                 \cup {signoff[s].form.kind : s \in {z \in Scenarios : signoff[z] # NoDoc}}
  IN  IF kinds = {} THEN "unknown"
      ELSE IF "SYNTHETIC_SELF_CHECK" \in kinds THEN "SYNTHETIC_SELF_CHECK" ELSE "INDEPENDENT"

-----------------------------------------------------------------------------
(* What people and tools do between two releases. *)

Init ==
  /\ tree \in [Files -> Contents]
  /\ commits = <<tree>>
  /\ ledger = [s \in Scenarios |->
                [code_version |-> [sha |-> 1, dirty |-> FALSE], inputs |-> Pins(tree, s)]]
  /\ feas = [s \in Scenarios |->
              IF FirstRecord[s] = NoDoc THEN NoDoc
              ELSE [code_version |-> ledger[s].code_version, form |-> FirstRecord[s]]]
  /\ review = [s \in Scenarios |->
                [code_version |-> ledger[s].code_version, form |-> FirstReview[s]]]
  /\ signoff = [s \in Scenarios |->
                 [code_version |-> ledger[s].code_version, form |-> FirstSign[s], binds |-> feas[s]]]
  /\ cal = [s \in Scenarios |-> NoDoc]
  /\ reviewed = [s \in Scenarios |-> ledger[s].inputs]
  /\ signed = reviewed /\ scored = reviewed
  /\ left = MaxOps

Op == left > 0 /\ left' = left - 1

\* A file is edited, created or, if git does not track it, deleted.
Edit(f, c) ==
  /\ Op
  /\ c # tree[f]
  /\ c = Absent => HEAD[f] = Absent \/ "removal" \in Faults
  /\ tree' = [tree EXCEPT ![f] = c]
  /\ UNCHANGED <<commits, docs, saw>>

\* git commit of some files, after git rm of others.
GitCommit(staged, removed) ==
  /\ Op
  /\ Len(commits) < MaxCommits
  /\ LET taken == [f \in Files |-> IF f \in removed THEN Absent
                                  ELSE IF f \in staged THEN tree[f] ELSE HEAD[f]]
     IN  /\ taken # HEAD
         /\ commits' = Append(commits, taken)
         /\ tree' = [f \in Files |-> IF f \in removed THEN Absent ELSE tree[f]]
  /\ UNCHANGED <<docs, saw>>

\* _git_sha asks git about the inputs that exist; a git status that fails
\* counts as clean.
git_sha(s, status) ==
  [sha   |-> Len(commits),
   dirty |-> status = "ok" /\ \E f \in declared_inputs(tree, s) : tree[f] # HEAD[f]]

WriteLedger(s, status) ==
  /\ Op
  /\ declared_inputs(tree, s) # {}
  /\ ledger' = [ledger EXCEPT ![s] = [code_version |-> git_sha(s, status), inputs |-> Pins(tree, s)]]
  /\ UNCHANGED <<tree, commits, review, signoff, feas, cal, saw>>

\* Authors pin the code_version of the ledger whose inputs they saw.
Attest(s, form) ==
  /\ Op
  /\ ledger[s] # NoDoc
  /\ review' = [review EXCEPT ![s] = [code_version |-> ledger[s].code_version, form |-> form]]
  /\ reviewed' = [reviewed EXCEPT ![s] = ledger[s].inputs]
  /\ UNCHANGED <<tree, commits, ledger, signoff, feas, cal, signed, scored>>

Sign(s, form) ==
  /\ Op
  /\ ledger[s] # NoDoc
  /\ signoff' = [signoff EXCEPT ![s] =
       [code_version |-> ledger[s].code_version, form |-> form,
        binds |-> IF form.disposition \in FeasibilityDispositions THEN feas[s] ELSE NoDoc]]
  /\ signed' = [signed EXCEPT ![s] = ledger[s].inputs]
  /\ UNCHANGED <<tree, commits, ledger, review, feas, cal, reviewed, scored>>

Record(s, form) ==
  /\ Op
  /\ ledger[s] # NoDoc
  /\ feas' = [feas EXCEPT ![s] = [code_version |-> ledger[s].code_version, form |-> form]]
  /\ UNCHANGED <<tree, commits, ledger, review, signoff, cal, saw>>

Score(s, form) ==
  /\ Op
  /\ ledger[s] # NoDoc
  /\ cal' = [cal EXCEPT ![s] = [code_version |-> ledger[s].code_version, form |-> form]]
  /\ scored' = [scored EXCEPT ![s] = ledger[s].inputs]
  /\ UNCHANGED <<tree, commits, ledger, review, signoff, feas, reviewed, signed>>

\* One document of a scenario is deleted.
Delete(s) ==
  /\ Op
  /\ \/ /\ ledger' = [ledger EXCEPT ![s] = NoDoc]
        /\ UNCHANGED <<review, signoff, feas, cal>>
     \/ /\ review' = [review EXCEPT ![s] = NoDoc]
        /\ UNCHANGED <<ledger, signoff, feas, cal>>
     \/ /\ signoff' = [signoff EXCEPT ![s] = NoDoc]
        /\ UNCHANGED <<ledger, review, feas, cal>>
     \/ /\ feas' = [feas EXCEPT ![s] = NoDoc]
        /\ UNCHANGED <<ledger, review, signoff, cal>>
     \/ /\ cal' = [cal EXCEPT ![s] = NoDoc]
        /\ UNCHANGED <<ledger, review, signoff, feas>>
  /\ docs' # docs
  /\ UNCHANGED <<tree, commits, saw>>

Next ==
  \/ \E f \in Files, c \in Contents \cup {Absent} : Edit(f, c)
  \/ \E staged, removed \in SUBSET Files : GitCommit(staged, removed)
  \/ \E s \in Scenarios :
       \/ \E status \in {"ok"} \cup (Faults \cap {"status"}) : WriteLedger(s, status)
       \/ \E form \in Reviews[s] : Attest(s, form)
       \/ \E form \in Signs[s] : Sign(s, form)
       \/ \E form \in Records[s] : Record(s, form)
       \/ \E form \in Scores[s] : Score(s, form)
       \/ Delete(s)

Spec == Init /\ [][Next]_vars

-----------------------------------------------------------------------------
(* Properties. *)

\* Some release that could be run now is clean.
Releasable == \E rcs \in Ends : worst(rcs) = 0

\* What the authors of an attestation saw is what the ledger pins, and for
\* the scenario whose ledger the release checks also what is on disk.
Bound(s) ==
  /\ reviewed[s] = ledger[s].inputs
  /\ signed[s] = ledger[s].inputs
  /\ s = Default => ledger[s].inputs = Pins(tree, s)

\* A clean release means that every attested scenario was reviewed and
\* signed on the very inputs its ledger pins, however edits, commits,
\* ledgers and signatures interleaved - as long as the ledger's code_version
\* is a commit and not "<commit>-dirty".
SignedIsReleased ==
  Releasable =>
    \A s \in attested_scenario_dirs : ~ledger[s].code_version.dirty => Bound(s)

\* validate_review_signoff.py:3-5: both attestations are bound to the
\* reproducible snapshot the run-ledger pins, dirty or not.
AttestationBindsSnapshot ==
  Releasable => \A s \in attested_scenario_dirs : Bound(s)

\* A clean release announces INDEPENDENT only if every attested scenario is
\* whole, accepted and approved, by listed reviewers alone.
BannerIsWorst ==
  Releasable /\ release_attestation = "INDEPENDENT" =>
    \A s \in attested_scenario_dirs :
      /\ NoDoc \notin {review[s], signoff[s]}
      /\ {review[s].form.by, signoff[s].form.by} \subseteq Listed
      /\ review[s].form.verdict = "ACCEPT" /\ signoff[s].form.decision = "APPROVED"

\* After a clean release the feasibility record of a scenario is the one its
\* sign-off was given on, unedited; there is none that nobody signed, and
\* none deleted under a verdict that rests on it.
RecordIsSigned ==
  Releasable =>
    \A s \in sweep_dirs :
      feas[s] = IF signoff[s].form.disposition \in FeasibilityDispositions
                THEN signoff[s].binds ELSE NoDoc

\* A clean release that reports CALIBRATED has, for each such scenario, a
\* record scored on the inputs its ledger pins and no feasibility record.
CalibratedIsBacked ==
  Releasable =>
    \A s \in attested_scenario_dirs :
      signoff[s].form.status = "CALIBRATED" =>
        /\ cal[s] # NoDoc /\ cal[s].form.outcome_count > 0
        /\ feas[s] = NoDoc
        /\ ~ledger[s].code_version.dirty => scored[s] = ledger[s].inputs

\* verify.py:17-18, 313-314: the worst code of the gates is propagated, so a
\* release never falsely passes: it is clean only if every gate ran clean.
NeverFalselyPasses ==
  \A rcs \in Ends : worst(rcs) = 0 => \A gate \in Gates : rcs[gate] = 0

\* validate_calibration_feasibility.py:313-314: no claim is affirmed anywhere
\* in a record that passes, so none is in a record that is released.
ReleasedAffirmsNothing ==
  Releasable =>
    \A s \in Scenarios : feas[s] # NoDoc =>
      LET text == feas[s].form.text IN
      \A k \in DOMAIN text : \A i \in DOMAIN text[k] : ~Affirmed(text[k], i)
=============================================================================
