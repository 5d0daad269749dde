---------------------------- MODULE ReleaseProofs ----------------------------
(***************************************************************************)
(* What a clean release means, for every repository and every posture of   *)
(* the authors, as long as no gate is killed by a signal, no tracked input *)
(* is deleted without a commit and git status answers.                     *)
(***************************************************************************)
EXTENDS Release, SequenceTheorems, WellFoundedInduction, TLAPS

Trees == [Files -> Contents \cup {Absent}]

\* The documents are functions over the scenarios, every code_version of the
\* history is a commit of it.
Shape ==
  /\ tree \in Trees
  /\ commits \in Seq(Trees) /\ Len(commits) > 0
  /\ DOMAIN ledger = Scenarios /\ ledger = [s \in Scenarios |-> ledger[s]]
  /\ DOMAIN review = Scenarios /\ review = [s \in Scenarios |-> review[s]]
  /\ DOMAIN signoff = Scenarios /\ signoff = [s \in Scenarios |-> signoff[s]]
  /\ DOMAIN cal = Scenarios /\ cal = [s \in Scenarios |-> cal[s]]
  /\ DOMAIN reviewed = Scenarios /\ reviewed = [s \in Scenarios |-> reviewed[s]]
  /\ DOMAIN signed = Scenarios /\ signed = [s \in Scenarios |-> signed[s]]
  /\ DOMAIN scored = Scenarios /\ scored = [s \in Scenarios |-> scored[s]]

\* A tracked file is missing from the work tree only after a commit without it.
NothingLost == \A f \in Files : tree[f] = Absent => HEAD[f] = Absent

\* A clean code_version names the commit that holds the inputs.
Truthful(code_version, inputs, s) ==
  /\ code_version.sha \in 1..Len(commits)
  /\ ~code_version.dirty => inputs = Pins(commits[code_version.sha], s)

ReleaseInv ==
  /\ Shape
  /\ NothingLost
  /\ \A s \in Scenarios :
       /\ ledger[s] # NoDoc => Truthful(ledger[s].code_version, ledger[s].inputs, s)
       /\ review[s] # NoDoc => Truthful(review[s].code_version, reviewed[s], s)
       /\ signoff[s] # NoDoc => Truthful(signoff[s].code_version, signed[s], s)
       /\ cal[s] # NoDoc => /\ Truthful(cal[s].code_version, scored[s], s)
                            /\ cal[s].form \in Scores[s]

-----------------------------------------------------------------------------
\* The gates answer 0, 1 or 2.
LEMMA ExitCodes ==
  ASSUME NEW rc, NEW gate \in Gates
  PROVE  gate_rc[gate] \in {0, 1, 2}
<1>1. \A problems : exit_code(problems) \in {0, 1, 2}
  BY DEF exit_code
<1>2. sweep \in {0, 1, 2}
  BY DEF sweep
<1>3. \A s : /\ validate_run_ledger(s) \in {0, 1, 2}
             /\ validate_review_signoff(ledger[s], review[s], signoff[s], Listed) \in {0, 1, 2}
             /\ validate_calibration(ledger[s], signoff[s], cal[s]) \in {0, 1, 2}
  BY <1>1 DEF validate_run_ledger, validate_review_signoff, validate_calibration
<1>4. gate[1] \in {"rest", "ledger", "feasibility", "attestation", "calibration"}
  BY DEF Gates
<1> QED
  BY <1>2, <1>3, <1>4 DEF gate_rc

\* If some release is clean, every gate but the unmodelled ones is clean.
LEMMA CleanGates ==
  ASSUME ReleaseAssumption, Faults \subseteq {"timeout"}, Releasable,
         NEW gate \in Gates, gate # <<"rest", Default>>
  PROVE  gate_rc[gate] = 0
<1>1. PICK rcs \in Ends : worst(rcs) = 0
  BY DEF Releasable
<1> DEFINE found == {[gate_rc EXCEPT ![<<"rest", Default>>] = n] : n \in 0..2}
<1>2. Unfinished \subseteq {2}
  BY DEF Unfinished, When
<1>0. DOMAIN gate_rc = Gates /\ \A g \in Gates : gate_rc[g] \in {0, 1, 2}
  BY ExitCodes DEF gate_rc
<1> HIDE DEF found
<1>3. \A r \in found : /\ DOMAIN r = Gates
                       /\ \A g \in Gates : r[g] \in {0, 1, 2}
                       /\ \A g \in Gates \ {<<"rest", Default>>} : r[g] = gate_rc[g]
  <2> SUFFICES ASSUME NEW n \in 0..2, NEW r, r = [gate_rc EXCEPT ![<<"rest", Default>>] = n]
               PROVE  /\ DOMAIN r = Gates
                      /\ \A g \in Gates : r[g] \in {0, 1, 2}
                      /\ \A g \in Gates \ {<<"rest", Default>>} : r[g] = gate_rc[g]
    BY DEF found
  <2> HIDE DEF gate_rc
  <2>1. n \in {0, 1, 2}
    OBVIOUS
  <2> QED
    BY <1>0, <2>1
<1>4. rcs \in found \cup {[r EXCEPT ![g] = n] : r \in found, g \in Gates, n \in {2}}
  BY <1>1, <1>2 DEF Ends, found
<1>5. DOMAIN rcs = Gates /\ \A g \in Gates : rcs[g] \in {0, 1, 2}
  BY <1>3, <1>4
<1>6. \A g \in Gates : rcs[g] = 0
  <2> DEFINE S == {rcs[g] : g \in DOMAIN rcs} \cup {0}
  <2>1. S \subseteq {0, 1, 2} /\ 0 \in S
    BY <1>5
  <2>2. \E x \in S : \A y \in S : x >= y
    <3>1. CASE 2 \in S BY <3>1, <2>1
    <3>2. CASE 2 \notin S /\ 1 \in S BY <3>2, <2>1
    <3>3. CASE 2 \notin S /\ 1 \notin S BY <3>3, <2>1
    <3> QED BY <3>1, <3>2, <3>3
  <2>3. \A y \in S : Max(S) >= y
    BY <2>2 DEF Max
  <2>4. Max(S) = 0
    BY <1>1 DEF worst
  <2>5. \A g \in Gates : rcs[g] \in S
    BY <1>5
  <2> HIDE DEF S
  <2>6. \A y \in S : y \in {0, 1, 2} /\ 0 >= y
    BY <2>1, <2>3, <2>4
  <2>7. \A y \in S : y = 0
    BY <2>6
  <2> QED
    BY <2>5, <2>7
<1>7. rcs \in found
  <2> SUFFICES ASSUME rcs \notin found PROVE FALSE
    OBVIOUS
  <2>1. PICK r \in found, g \in Gates : rcs = [r EXCEPT ![g] = 2]
    BY <1>4
  <2>2. rcs[g] = 2
    BY <2>1, <1>3
  <2> QED
    BY <2>2, <1>6
<1>8. rcs[gate] = gate_rc[gate]
  BY <1>3, <1>7
<1> QED
  BY <1>6, <1>8

-----------------------------------------------------------------------------
\* The ledger a --write leaves behind is truthful.
LEMMA HeadIsTree ==
  ASSUME Shape
  PROVE  HEAD \in Trees /\ tree \in Trees /\ Len(commits) \in Nat \ {0}
<1>1. commits \in Seq(Trees) /\ Len(commits) \in Nat /\ Len(commits) > 0 /\ tree \in Trees
  BY DEF Shape
<1>2. Len(commits) \in DOMAIN commits
  BY <1>1
<1> QED
  BY <1>1, <1>2 DEF HEAD

LEMMA WrittenLedgerIsTruthful ==
  ASSUME ReleaseAssumption, Shape, NothingLost, NEW s \in Scenarios
  PROVE  Truthful(git_sha(s, "ok"), Pins(tree, s), s)
<1>1. Len(commits) \in 1..Len(commits)
  BY HeadIsTree
<1>2. Declared[s] \subseteq Files
  BY DEF ReleaseAssumption
<1>3. ASSUME \A f \in declared_inputs(tree, s) : tree[f] = HEAD[f]
      PROVE  Pins(tree, s) = Pins(HEAD, s)
  <2>1. declared_inputs(tree, s) = declared_inputs(HEAD, s)
    BY <1>2, <1>3 DEF declared_inputs, NothingLost
  <2> QED
    BY <2>1, <1>3 DEF Pins
<1>4. Pins(HEAD, s) = Pins(commits[Len(commits)], s)
  BY DEF HEAD
<1> QED
  BY <1>1, <1>3, <1>4 DEF Truthful, git_sha

-----------------------------------------------------------------------------
LEMMA InitHolds ==
  ASSUME ReleaseAssumption, Init
  PROVE  ReleaseInv
<1>1. tree \in Trees /\ commits = <<tree>> /\ Len(commits) = 1 /\ commits[1] = tree
  BY DEF Init, Trees
<1>2. \A f \in Files : tree[f] # Absent
  BY DEF Init, ReleaseAssumption
<1>3. Shape
  BY <1>1 DEF Init, Shape
<1>4. \A s \in Scenarios :
        /\ ledger[s].code_version = [sha |-> 1, dirty |-> FALSE]
        /\ review[s].code_version = [sha |-> 1, dirty |-> FALSE]
        /\ signoff[s].code_version = [sha |-> 1, dirty |-> FALSE]
        /\ ledger[s].inputs = Pins(tree, s)
        /\ reviewed[s] = Pins(tree, s) /\ signed[s] = Pins(tree, s)
        /\ cal[s] = NoDoc
  BY DEF Init
<1>5. \A s \in Scenarios : Truthful([sha |-> 1, dirty |-> FALSE], Pins(tree, s), s)
  BY <1>1 DEF Truthful
<1>6. NothingLost
  BY <1>2 DEF NothingLost
<1> QED
  BY <1>3, <1>4, <1>5, <1>6 DEF ReleaseInv

LEMMA StepKeepsReleaseInv ==
  ASSUME ReleaseAssumption, Faults \subseteq {"timeout"}, ReleaseInv, [Next]_vars
  PROVE  ReleaseInv'
<1> USE DEF ReleaseInv
<1>1. ASSUME NEW f \in Files, NEW c \in Contents \cup {Absent}, Edit(f, c)
      PROVE  ReleaseInv'
  <2>1. /\ tree' = [tree EXCEPT ![f] = c]
        /\ c = Absent => HEAD[f] = Absent
        /\ UNCHANGED <<commits, docs, saw>>
    BY <1>1 DEF Edit
  <2>0. HEAD \in Trees /\ tree \in Trees /\ c \in Contents \cup {Absent}
    BY <1>1, HeadIsTree
  <2>2. Shape'
    <3>1. tree' \in Trees
      BY <2>0, <2>1 DEF Trees
    <3> QED
      BY <2>1, <3>1 DEF Shape, docs, saw
  <2>3. NothingLost'
    BY <2>0, <2>1 DEF NothingLost, HEAD, Trees
  <2>4. ASSUME NEW s \in Scenarios
        PROVE  /\ ledger'[s] # NoDoc => Truthful(ledger[s].code_version, ledger[s].inputs, s)'
               /\ review'[s] # NoDoc => Truthful(review[s].code_version, reviewed[s], s)'
               /\ signoff'[s] # NoDoc => Truthful(signoff[s].code_version, signed[s], s)'
               /\ cal'[s] # NoDoc => /\ Truthful(cal[s].code_version, scored[s], s)'
                                    /\ cal'[s].form \in Scores[s]
    <3>1. /\ commits' = commits
          /\ ledger' = ledger /\ review' = review /\ signoff' = signoff /\ cal' = cal
          /\ reviewed' = reviewed /\ signed' = signed /\ scored' = scored
      BY <2>1 DEF docs, saw
    <3>2. QED
      BY <3>1 DEF Truthful
  <2> QED
    BY <2>2, <2>3, <2>4
<1>2. ASSUME NEW staged \in SUBSET Files, NEW removed \in SUBSET Files, GitCommit(staged, removed)
      PROVE  ReleaseInv'
  <2> DEFINE taken == [f \in Files |-> IF f \in removed THEN Absent
                                       ELSE IF f \in staged THEN tree[f] ELSE HEAD[f]]
  <2>1. /\ commits' = Append(commits, taken)
        /\ tree' = [f \in Files |-> IF f \in removed THEN Absent ELSE tree[f]]
        /\ UNCHANGED <<docs, saw>>
    BY <1>2 DEF GitCommit
  <2>2. taken \in Trees /\ tree' \in Trees
    <3>1. HEAD \in Trees /\ tree \in Trees
      BY HeadIsTree
    <3> QED
      BY <2>1, <3>1 DEF Trees
  <2>3. \A f \in Files : tree'[f] = Absent => taken[f] = Absent
    BY <2>1 DEF NothingLost
  <2> HIDE DEF taken
  <2>4. commits' \in Seq(Trees) /\ Len(commits') = Len(commits) + 1 /\ commits'[Len(commits')] = taken
    BY <2>1, <2>2, AppendProperties DEF Shape
  <2>5. Len(commits') > 0
    BY <2>4 DEF Shape
  <2>6. Shape'
    BY <2>1, <2>2, <2>4, <2>5 DEF Shape, docs, saw
  <2>7. NothingLost'
    BY <2>3, <2>4 DEF NothingLost, HEAD
  <2>8. \A s \in Scenarios :
          /\ ledger[s] # NoDoc => Truthful(ledger[s].code_version, ledger[s].inputs, s)'
          /\ review[s] # NoDoc => Truthful(review[s].code_version, reviewed[s], s)'
          /\ signoff[s] # NoDoc => Truthful(signoff[s].code_version, signed[s], s)'
          /\ cal[s] # NoDoc => Truthful(cal[s].code_version, scored[s], s)'
    <3> SUFFICES ASSUME NEW s \in Scenarios
                 PROVE  /\ ledger[s] # NoDoc => Truthful(ledger[s].code_version, ledger[s].inputs, s)'
                        /\ review[s] # NoDoc => Truthful(review[s].code_version, reviewed[s], s)'
                        /\ signoff[s] # NoDoc => Truthful(signoff[s].code_version, signed[s], s)'
                        /\ cal[s] # NoDoc => Truthful(cal[s].code_version, scored[s], s)'
      OBVIOUS
    <3>1. ASSUME NEW cv, NEW inputs, Truthful(cv, inputs, s)
          PROVE  /\ cv.sha \in 1..Len(commits')
                 /\ ~cv.dirty => inputs = Pins(commits'[cv.sha], s)
      <4>1. cv.sha \in 1..Len(commits) /\ (~cv.dirty => inputs = Pins(commits[cv.sha], s))
        BY <3>1 DEF Truthful
      <4>2. commits'[cv.sha] = commits[cv.sha]
        BY <2>1, <2>2, <4>1, AppendProperties DEF Shape
      <4> QED
        BY <2>4, <4>1, <4>2, HeadIsTree
    <3> QED
      BY <2>1, <3>1 DEF Truthful, docs, saw
  <2> QED
    BY <2>1, <2>6, <2>7, <2>8 DEF docs, saw
<1>3. ASSUME NEW s \in Scenarios, WriteLedger(s, "ok")
      PROVE  ReleaseInv'
  <2>1. /\ ledger' = [ledger EXCEPT ![s] = [code_version |-> git_sha(s, "ok"), inputs |-> Pins(tree, s)]]
        /\ UNCHANGED <<tree, commits, review, signoff, cal, saw>>
    BY <1>3 DEF WriteLedger
  <2>2. Truthful(git_sha(s, "ok"), Pins(tree, s), s)
    BY WrittenLedgerIsTruthful
  <2>3. Shape' /\ NothingLost'
    BY <2>1 DEF Shape, NothingLost, HEAD, saw
  <2>4. \A z \in Scenarios :
          ledger'[z] # NoDoc => Truthful(ledger'[z].code_version, ledger'[z].inputs, z)
    BY <2>1, <2>2 DEF Shape
  <2> QED
    BY <2>1, <2>3, <2>4 DEF Truthful, saw
<1>4. ASSUME NEW s \in Scenarios, NEW form, Attest(s, form)
      PROVE  ReleaseInv'
  <2>1. /\ ledger[s] # NoDoc
        /\ review' = [review EXCEPT ![s] = [code_version |-> ledger[s].code_version, form |-> form]]
        /\ reviewed' = [reviewed EXCEPT ![s] = ledger[s].inputs]
        /\ UNCHANGED <<tree, commits, ledger, signoff, cal, signed, scored>>
    BY <1>4 DEF Attest
  <2>2. Shape' /\ NothingLost'
    BY <2>1 DEF Shape, NothingLost, HEAD
  <2>3. \A z \in Scenarios :
          review'[z] # NoDoc => Truthful(review'[z].code_version, reviewed'[z], z)
    BY <2>1 DEF Shape
  <2> QED
    BY <2>1, <2>2, <2>3 DEF Truthful
<1>5. ASSUME NEW s \in Scenarios, NEW form, Sign(s, form)
      PROVE  ReleaseInv'
  <2> DEFINE binds == IF form.disposition \in FeasibilityDispositions THEN feas[s] ELSE NoDoc
  <2>1. /\ ledger[s] # NoDoc
        /\ signoff' = [signoff EXCEPT ![s] =
                         [code_version |-> ledger[s].code_version, form |-> form, binds |-> binds]]
        /\ signed' = [signed EXCEPT ![s] = ledger[s].inputs]
        /\ UNCHANGED <<tree, commits, ledger, review, cal, reviewed, scored>>
    BY <1>5 DEF Sign
  <2> HIDE DEF binds
  <2>2. Shape' /\ NothingLost'
    BY <2>1 DEF Shape, NothingLost, HEAD
  <2>3. \A z \in Scenarios :
          signoff'[z] # NoDoc => Truthful(signoff'[z].code_version, signed'[z], z)
    BY <2>1 DEF Shape
  <2> QED
    BY <2>1, <2>2, <2>3 DEF Truthful
<1>6. ASSUME UNCHANGED <<tree, commits, ledger, review, signoff, cal, saw>>
      PROVE  ReleaseInv'
  BY <1>6 DEF Shape, NothingLost, HEAD, Truthful, saw
<1>7. ASSUME NEW s \in Scenarios, NEW form, Record(s, form)
      PROVE  ReleaseInv'
  BY <1>6, <1>7 DEF Record, saw
<1>8. ASSUME NEW s \in Scenarios, NEW form \in Scores[s], Score(s, form)
      PROVE  ReleaseInv'
  <2>1. /\ ledger[s] # NoDoc
        /\ cal' = [cal EXCEPT ![s] = [code_version |-> ledger[s].code_version, form |-> form]]
        /\ scored' = [scored EXCEPT ![s] = ledger[s].inputs]
        /\ UNCHANGED <<tree, commits, ledger, review, signoff, reviewed, signed>>
    BY <1>8 DEF Score
  <2>2. Shape' /\ NothingLost'
    BY <2>1 DEF Shape, NothingLost, HEAD
  <2>3. \A z \in Scenarios :
          cal'[z] # NoDoc => /\ Truthful(cal'[z].code_version, scored'[z], z)
                             /\ cal'[z].form \in Scores[z]
    BY <2>1 DEF Shape
  <2> QED
    BY <2>1, <2>2, <2>3 DEF Truthful
<1>9. ASSUME NEW s \in Scenarios, Delete(s)
      PROVE  ReleaseInv'
  <2>1. /\ ledger' = ledger \/ ledger' = [ledger EXCEPT ![s] = NoDoc]
        /\ review' = review \/ review' = [review EXCEPT ![s] = NoDoc]
        /\ signoff' = signoff \/ signoff' = [signoff EXCEPT ![s] = NoDoc]
        /\ cal' = cal \/ cal' = [cal EXCEPT ![s] = NoDoc]
        /\ UNCHANGED <<tree, commits, saw>>
    BY <1>9 DEF Delete
  <2>2. Shape' /\ NothingLost'
    BY <2>1 DEF Shape, NothingLost, HEAD, saw
  <2>3. \A z \in Scenarios :
          /\ ledger'[z] # NoDoc => ledger'[z] = ledger[z]
          /\ review'[z] # NoDoc => review'[z] = review[z]
          /\ signoff'[z] # NoDoc => signoff'[z] = signoff[z]
          /\ cal'[z] # NoDoc => cal'[z] = cal[z]
    BY <2>1 DEF Shape
  <2>4. ASSUME NEW z \in Scenarios
        PROVE  /\ ledger'[z] # NoDoc => Truthful(ledger[z].code_version, ledger[z].inputs, z)'
               /\ review'[z] # NoDoc => Truthful(review[z].code_version, reviewed[z], z)'
               /\ signoff'[z] # NoDoc => Truthful(signoff[z].code_version, signed[z], z)'
               /\ cal'[z] # NoDoc => /\ Truthful(cal[z].code_version, scored[z], z)'
                                    /\ cal'[z].form \in Scores[z]
    <3>1. commits' = commits /\ reviewed' = reviewed /\ signed' = signed /\ scored' = scored
      BY <2>1 DEF saw
    <3>2. QED
      BY <2>3, <3>1 DEF Truthful
  <2> QED
    BY <2>2, <2>3, <2>4
<1>10. CASE UNCHANGED vars
  BY <1>6, <1>10 DEF vars, docs, saw
<1>11. CASE Next
  <2>1. \A status \in {"ok"} \cup (Faults \cap {"status"}) : status = "ok"
    OBVIOUS
  <2> QED
    BY <1>1, <1>2, <1>3, <1>4, <1>5, <1>7, <1>9, <1>11, <1>8, <2>1 DEF Next
<1> QED
  BY <1>10, <1>11

-----------------------------------------------------------------------------
\* What the gates of a clean release have compared, scenario by scenario.
LEMMA CleanAttestation ==
  ASSUME ReleaseAssumption, Faults \subseteq {"timeout"}, Releasable, NEW s \in attested_scenario_dirs
  PROVE  /\ NoDoc \notin {ledger[s], review[s], signoff[s]}
         /\ attestation_structural_problems(review[s], signoff[s]) = {}
         /\ attestation_resolution_problems(review[s], signoff[s], ledger[s].code_version, Listed) = {}
<1>1. <<"attestation", s>> \in Gates /\ <<"attestation", s>> # <<"rest", Default>>
  BY DEF Gates, PerScenario
<1>2. gate_rc[<<"attestation", s>>] = 0
  BY <1>1, CleanGates
<1>3. validate_review_signoff(ledger[s], review[s], signoff[s], Listed) = 0
  BY <1>1, <1>2 DEF gate_rc
<1> QED
  BY <1>3 DEF validate_review_signoff, exit_code

LEMMA CleanFeasibility ==
  ASSUME ReleaseAssumption, Faults \subseteq {"timeout"}, Releasable, NEW s \in sweep_dirs
  PROVE  NoDoc # signoff[s] /\ binding_problems(signoff[s], feas[s]) = {}
<1>1. <<"feasibility", Default>> \in Gates /\ <<"feasibility", Default>> # <<"rest", Default>>
  BY DEF Gates
<1>2. gate_rc[<<"feasibility", Default>>] = 0
  BY <1>1, CleanGates
<1>3. sweep = 0
  BY <1>1, <1>2 DEF gate_rc
<1>4. judge_feasibility(ledger[s], signoff[s], feas[s]) \in {0, 1, 2}
  BY DEF judge_feasibility, exit_code
<1>5. judge_feasibility(ledger[s], signoff[s], feas[s]) = 0
  BY <1>3, <1>4 DEF sweep
<1> QED
  BY <1>5 DEF judge_feasibility, exit_code

LEMMA InvGivesBound ==
  ASSUME ReleaseAssumption, Faults \subseteq {"timeout"}, ReleaseInv
  PROVE  SignedIsReleased
<1> SUFFICES ASSUME Releasable, NEW s \in attested_scenario_dirs, ~ledger[s].code_version.dirty
             PROVE  Bound(s)
  BY DEF SignedIsReleased
<1>1. s \in Scenarios
  BY DEF attested_scenario_dirs
<1>2. /\ ledger[s] # NoDoc /\ review[s] # NoDoc /\ signoff[s] # NoDoc
      /\ review[s].code_version = ledger[s].code_version
      /\ signoff[s].code_version = ledger[s].code_version
  BY CleanAttestation DEF attestation_resolution_problems, When
<1>3. reviewed[s] = ledger[s].inputs /\ signed[s] = ledger[s].inputs
  BY <1>1, <1>2 DEF ReleaseInv, Truthful
<1>4. ASSUME s = Default PROVE ledger[s].inputs = Pins(tree, s)
  <2>1. <<"ledger", Default>> \in Gates /\ <<"ledger", Default>> # <<"rest", Default>>
    BY DEF Gates
  <2>2. gate_rc[<<"ledger", Default>>] = 0
    BY <2>1, CleanGates
  <2>3. validate_run_ledger(Default) = 0
    BY <2>1, <2>2 DEF gate_rc
  <2> QED
    BY <1>4, <2>3 DEF validate_run_ledger
<1> QED
  BY <1>3, <1>4 DEF Bound

-----------------------------------------------------------------------------
\* The invariant that relates code_versions, commits and what was signed.
THEOREM CodeVersionsAreTruthful ==
  ASSUME Faults \subseteq {"timeout"}
  PROVE  Spec => []ReleaseInv
<1>1. Init => ReleaseInv
  BY ReleaseAssumption, InitHolds
<1>2. ReleaseInv /\ [Next]_vars => ReleaseInv'
  BY ReleaseAssumption, StepKeepsReleaseInv
<1> QED
  BY <1>1, <1>2, PTL DEF Spec

\* A clean release over a committed ledger releases what was reviewed and
\* signed.
THEOREM CleanReleaseIsSigned ==
  ASSUME Faults \subseteq {"timeout"}
  PROVE  Spec => []SignedIsReleased
<1>1. ReleaseInv => SignedIsReleased
  BY ReleaseAssumption, InvGivesBound
<1> QED
  BY <1>1, CodeVersionsAreTruthful, PTL

\* The banner never claims more independence than every attestation has.
THEOREM BannerNeverOutclaims ==
  ASSUME Faults \subseteq {"timeout"}
  PROVE  Spec => []BannerIsWorst
<1>1. BannerIsWorst
  <2> SUFFICES ASSUME Releasable, release_attestation = "INDEPENDENT", NEW s \in attested_scenario_dirs
               PROVE  /\ NoDoc \notin {review[s], signoff[s]}
                      /\ {review[s].form.by, signoff[s].form.by} \subseteq Listed
                      /\ review[s].form.verdict = "ACCEPT" /\ signoff[s].form.decision = "APPROVED"
    BY DEF BannerIsWorst
  <2> DEFINE r == review[s].form
             x == signoff[s].form
  <2>1. /\ NoDoc \notin {review[s], signoff[s]}
        /\ attestation_structural_problems(review[s], signoff[s]) = {}
        /\ attestation_resolution_problems(review[s], signoff[s], ledger[s].code_version, Listed) = {}
    BY ReleaseAssumption, CleanAttestation
  <2>2. r.kind \in Kinds /\ x.kind \in Kinds /\ r.kind = x.kind
    BY <2>1 DEF attestation_structural_problems, attestation_resolution_problems, When
  <2>3. s \in {z \in Scenarios : review[z] # NoDoc}
    BY <2>1 DEF attested_scenario_dirs
  <2>4. r.kind # "SYNTHETIC_SELF_CHECK"
    BY <2>3 DEF release_attestation
  <2>5. r.kind = "INDEPENDENT" /\ x.kind = "INDEPENDENT"
    BY <2>2, <2>4 DEF Kinds
  <2>6. /\ r.verdict \in LegalVerdict("INDEPENDENT") /\ x.decision \in LegalDecision("INDEPENDENT")
        /\ r.by \in Listed /\ x.by \in Listed
        /\ r.verdict \notin Blocking /\ x.decision \notin Blocking
    BY <2>1, <2>5 DEF attestation_resolution_problems, When
  <2> QED
    BY <2>1, <2>6 DEF LegalVerdict, LegalDecision, Blocking
<1> QED
  BY <1>1, PTL

\* The feasibility record on disk after a clean release is the signed one.
THEOREM ReleasedRecordIsSigned ==
  ASSUME Faults \subseteq {"timeout"}
  PROVE  Spec => []RecordIsSigned
<1>1. RecordIsSigned
  <2> SUFFICES ASSUME Releasable, NEW s \in sweep_dirs
               PROVE  feas[s] = IF signoff[s].form.disposition \in FeasibilityDispositions
                                THEN signoff[s].binds ELSE NoDoc
    BY DEF RecordIsSigned
  <2>1. NoDoc # signoff[s] /\ binding_problems(signoff[s], feas[s]) = {}
    BY ReleaseAssumption, CleanFeasibility
  <2>2. s \in attested_scenario_dirs
    BY <2>1 DEF sweep_dirs, attested_scenario_dirs
  <2>3. signoff[s].form.disposition \in Dispositions
    BY <2>2, ReleaseAssumption, CleanAttestation DEF attestation_structural_problems, When
  <2>4. CASE signoff[s].form.disposition \in FeasibilityDispositions
    BY <2>1, <2>4 DEF binding_problems, When
  <2>5. CASE signoff[s].form.disposition \notin FeasibilityDispositions
    BY <2>1, <2>3, <2>5 DEF binding_problems, When
  <2> QED
    BY <2>4, <2>5
<1> QED
  BY <1>1, PTL

\* A channel reported as calibrated has a calibration gate that judged it and
\* no feasibility record: the sweep finds a record contradictory to that label.
LEMMA CleanCalibration ==
  ASSUME ReleaseAssumption, Faults \subseteq {"timeout"}, Releasable,
         NEW s \in attested_scenario_dirs, signoff[s].form.status = "CALIBRATED"
  PROVE  /\ cal[s] # NoDoc
         /\ calibration_structural_problems(cal[s]) = {}
         /\ calibration_resolution_problems(cal[s], ledger[s].code_version) = {}
         /\ feas[s] = NoDoc
<1>1. <<"calibration", s>> \in Gates /\ <<"calibration", s>> # <<"rest", Default>>
  BY DEF Gates, PerScenario
<1>2. gate_rc[<<"calibration", s>>] = 0
  BY <1>1, CleanGates
<1>3. validate_calibration(ledger[s], signoff[s], cal[s]) = 0
  BY <1>1, <1>2 DEF gate_rc
<1>4. "CALIBRATED" \notin NoRecordStatuses
  BY DEF NoRecordStatuses
<1>5. /\ cal[s] # NoDoc /\ calibration_structural_problems(cal[s]) = {}
      /\ calibration_resolution_problems(cal[s], ledger[s].code_version) = {}
  BY <1>3, <1>4 DEF validate_calibration, exit_code
<1>6. judge_feasibility(ledger[s], signoff[s], feas[s]) = 0
  <2>1. <<"feasibility", Default>> \in Gates /\ <<"feasibility", Default>> # <<"rest", Default>>
    BY DEF Gates
  <2>2. sweep = 0
    BY <2>1, CleanGates DEF gate_rc
  <2>3. judge_feasibility(ledger[s], signoff[s], feas[s]) \in {0, 1, 2}
    BY DEF judge_feasibility, exit_code
  <2>4. s \in sweep_dirs
    BY DEF sweep_dirs
  <2> QED
    BY <2>2, <2>3, <2>4 DEF sweep
<1>7. consistency_problems(signoff[s].form.status) # {}
  BY <1>4 DEF consistency_problems, When
<1>8. feas[s] = NoDoc
  BY <1>6, <1>7 DEF judge_feasibility, exit_code
<1> QED
  BY <1>5, <1>8

\* A clean release reports a channel as CALIBRATED only with a record of at
\* least one outcome, scored on the inputs its ledger pins.
THEOREM CalibrationIsBacked ==
  ASSUME Faults \subseteq {"timeout"}
  PROVE  Spec => []CalibratedIsBacked
<1>1. ReleaseInv => CalibratedIsBacked
  <2> SUFFICES ASSUME ReleaseInv, Releasable, NEW s \in attested_scenario_dirs,
                      signoff[s].form.status = "CALIBRATED"
               PROVE  /\ cal[s] # NoDoc /\ cal[s].form.outcome_count > 0
                      /\ feas[s] = NoDoc
                      /\ ~ledger[s].code_version.dirty => scored[s] = ledger[s].inputs
    BY DEF CalibratedIsBacked
  <2>1. /\ cal[s] # NoDoc /\ feas[s] = NoDoc
        /\ calibration_structural_problems(cal[s]) = {}
        /\ calibration_resolution_problems(cal[s], ledger[s].code_version) = {}
    BY ReleaseAssumption, CleanCalibration
  <2>2. s \in Scenarios /\ ledger[s] # NoDoc
    BY ReleaseAssumption, CleanAttestation DEF attested_scenario_dirs
  <2>3. cal[s].form.complete /\ ~(cal[s].form.outcome_count <= 0)
    BY <2>1 DEF calibration_structural_problems, When
  <2>4. cal[s].form.outcome_count \in Int
    BY <2>1, <2>2, <2>3, ScoreAssumption DEF ReleaseInv
  <2>5. cal[s].code_version = ledger[s].code_version
    BY <2>1 DEF calibration_resolution_problems, When
  <2>6. ~ledger[s].code_version.dirty => scored[s] = ledger[s].inputs
    BY <2>1, <2>2, <2>5 DEF ReleaseInv, Truthful
  <2> QED
    BY <2>1, <2>3, <2>4, <2>6
<1> QED
  BY <1>1, CodeVersionsAreTruthful, PTL

=============================================================================
