----------------------------- MODULE MCRelease -----------------------------
(* Instances of Release: two scenarios, one of them the default, a file of  *)
(* each kind, and the postures an author may take.                          *)
EXTENDS Release, TLC

CONSTANTS uk, het, private, shared, human, loop

MCDeclared == (uk :> {private, shared}) @@ (het :> {shared})

Review(kind, verdict, by) == [kind |-> kind, verdict |-> verdict, by |-> by, complete |-> TRUE]
SignOff(kind, decision, by, status, disposition) ==
  [kind |-> kind, decision |-> decision, by |-> by, status |-> status,
   disposition |-> disposition, complete |-> TRUE]

Accept    == Review("INDEPENDENT", "ACCEPT", human)
SelfMade  == Review("INDEPENDENT", "ACCEPT", loop)
Revise    == Review("INDEPENDENT", "REVISE", human)
SelfCheck == Review("SYNTHETIC_SELF_CHECK", "SELF_CHECK_PASSED", loop)

NotFeasible  == SignOff("INDEPENDENT", "APPROVED", human, "UNCALIBRATED", "NOT_FEASIBLE")
SelfApproved == SignOff("INDEPENDENT", "APPROVED", loop, "UNCALIBRATED", "NOT_FEASIBLE")
Backed       == SignOff("SYNTHETIC_SELF_CHECK", "EXTERNAL_REVIEW_PENDING", loop, "CALIBRATED", "CALIBRATED")
Pending      == SignOff("SYNTHETIC_SELF_CHECK", "EXTERNAL_REVIEW_PENDING", loop, "ILLUSTRATIVE", "NONE")

Context == [comparison_role |-> "CONTEXT_ONLY", calibration_effect |-> "NONE",
            comparability |-> "INDIRECT", labels |-> {"COMPOSITE_BUCKET"}, low |-> 73, high |-> 90,
            weeks_computed |-> 8, weeks_in_window |-> 8]
Honest(verdict) ==
  [verdict |-> verdict, complete |-> TRUE, smuggled |-> FALSE, context |-> Context,
   hashes |-> {[status |-> "PINNED", present |-> TRUE]},
   text |-> << <<"word", "negator", "claim">> >>]
Boasting == [Honest("NOT_FEASIBLE") EXCEPT !.text = << <<"word", "claim">> >>]
\* "Not calibrated on public counts and independently validated".
Evasive ==
  [Honest("NOT_FEASIBLE") EXCEPT
    !.text = << <<"negator", "claim", "word", "word", "word", "word", "word", "claim">> >>]

Scored(value) == [metric |-> "BRIER_SCORE", value |-> value, outcome_count |-> 30, complete |-> TRUE]

MCReviews == (uk :> {SelfCheck}) @@ (het :> {Accept, SelfMade, Revise})
MCSigns   == (uk :> {Pending, Backed}) @@ (het :> {NotFeasible, SelfApproved})
MCRecords == (uk :> {Honest("NOT_FEASIBLE")}) @@ (het :> {Honest("NOT_FEASIBLE"), Boasting})
MCProse   == [MCRecords EXCEPT ![het] = @ \cup {Evasive}]
MCScores  == (uk :> {Scored(12)}) @@ (het :> {})

MCFirstReview == (uk :> SelfCheck) @@ (het :> Accept)
MCFirstSign   == (uk :> Pending) @@ (het :> NotFeasible)
MCFirstRecord == (uk :> NoDoc) @@ (het :> Honest("NOT_FEASIBLE"))

ContentSymmetry == Permutations(Contents)
=============================================================================
