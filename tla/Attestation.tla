----------------------------- MODULE Attestation -----------------------------
(***************************************************************************)
(* The gates over the attestation documents of one scenario directory:     *)
(* validate_review_signoff, validate_calibration and                       *)
(* validate_calibration_feasibility.  A document is what was filled in     *)
(* (its form) and the code_version it pins; names, references and dates    *)
(* that are well formed are left out.  A gate answers with its exit code:  *)
(* 0 clean, 1 findings, 2 refusing to judge.                               *)
(***************************************************************************)
EXTENDS Integers, Sequences, FiniteSets

CONSTANT NoDoc   \* the file is absent

Kinds == {"INDEPENDENT", "SYNTHETIC_SELF_CHECK"}

LegalVerdict(kind) ==
  IF kind = "INDEPENDENT" THEN {"ACCEPT", "REVISE"}
  ELSE {"SELF_CHECK_PASSED", "SELF_CHECK_REVISE"}

LegalDecision(kind) ==
  IF kind = "INDEPENDENT" THEN {"APPROVED", "REJECTED"}
  ELSE {"EXTERNAL_REVIEW_PENDING", "SELF_CHECK_FAILED"}

Verdicts  == UNION {LegalVerdict(k) : k \in Kinds}
Decisions == UNION {LegalDecision(k) : k \in Kinds}
Blocking  == {"REVISE", "SELF_CHECK_REVISE", "REJECTED", "SELF_CHECK_FAILED"}

NoRecordStatuses         == {"UNCALIBRATED", "ILLUSTRATIVE"}
Statuses                 == NoRecordStatuses \cup {"CALIBRATED"}
FeasibilityDispositions  == {"NOT_FEASIBLE", "INSUFFICIENT_DATA"}
Dispositions             == FeasibilityDispositions \cup {"NONE", "CALIBRATED"}

\* What a document says once it is well formed, as a set of problem codes.
When(condition, code) == IF condition THEN {code} ELSE {}

exit_code(problems) == IF problems = {} THEN 0 ELSE 1

-----------------------------------------------------------------------------
(***************************************************************************)
(* Review and sign-off.  `complete` stands for the required strings, the   *)
(* findings and the date; `binds` is the feasibility record whose id and   *)
(* digest the sign-off carries.                                            *)
(***************************************************************************)
attestation_structural_problems(r, x) ==
     When(~r.form.complete \/ ~x.form.complete, "missing-field")
  \cup When(r.form.kind \notin Kinds \/ x.form.kind \notin Kinds, "invalid-enum")
  \cup When(r.form.verdict \notin Verdicts \/ x.form.decision \notin Decisions, "invalid-enum")
  \cup When(x.form.status \notin Statuses \/ x.form.disposition \notin Dispositions, "invalid-enum")

\* Mutant: only the review is held against the ledger.
resolution_of_review_only(r, x, code_version, listed) ==
     When(r.code_version # code_version, "stale-attestation")
  \cup When(r.form.kind # x.form.kind, "kind-mismatch")
  \cup When(r.form.verdict \in Blocking \/ x.form.decision \in Blocking, "blocked")

\* Mutant: who signs is not looked up in the allow-list.
resolution_of_declared_kind(r, x, code_version, listed) ==
     When(r.code_version # code_version \/ x.code_version # code_version, "stale-attestation")
  \cup When(r.form.kind # x.form.kind, "kind-mismatch")
  \cup When(r.form.verdict \in Blocking \/ x.form.decision \in Blocking, "blocked")

attestation_resolution_problems(r, x, code_version, listed) ==
     When(r.code_version # code_version \/ x.code_version # code_version, "stale-attestation")
  \cup When(r.form.kind # x.form.kind, "kind-mismatch")
  \cup When(r.form.kind = x.form.kind /\ r.form.verdict \notin LegalVerdict(r.form.kind),
            "kind-verdict-mismatch")
  \cup When(r.form.kind = x.form.kind /\ x.form.decision \notin LegalDecision(x.form.kind),
            "kind-decision-mismatch")
  \cup When(r.form.kind = "INDEPENDENT" /\ r.form.by \notin listed, "unlisted-independent-reviewer")
  \cup When(x.form.kind = "INDEPENDENT" /\ x.form.by \notin listed, "unlisted-independent-reviewer")
  \cup When(x.form.disposition \in FeasibilityDispositions /\ x.binds = NoDoc, "missing-field")
  \cup When(r.form.verdict \in Blocking \/ x.form.decision \in Blocking, "blocked")

validate_review_signoff(ledger, r, x, listed) ==
  IF NoDoc \in {ledger, r, x} THEN 2
  ELSE IF attestation_structural_problems(r, x) # {} THEN 1
  ELSE exit_code(attestation_resolution_problems(r, x, ledger.code_version, listed))

-----------------------------------------------------------------------------
(***************************************************************************)
(* Calibration: evidence or label.  Values of bounded metrics are in       *)
(* hundredths; NotFinite stands for NaN, an infinity or no number at all;  *)
(* `complete` for the required strings and dates and for a count that is   *)
(* an integer.                                                             *)
(***************************************************************************)
Metrics   == {"BRIER_SCORE", "HIT_RATE", "LOG_LOSS"}
NotFinite == -1000

InRange(metric, value) == 0 <= value /\ (metric = "LOG_LOSS" \/ value <= 100)

calibration_structural_problems(c) ==
     When(~c.form.complete, "missing-field")
  \cup When(c.form.metric \notin Metrics, "invalid-enum")
  \cup When(c.form.value = NotFinite, "wrong-type")
  \cup When(c.form.value # NotFinite /\ c.form.metric \in Metrics
              /\ ~InRange(c.form.metric, c.form.value), "invalid-range")
  \cup When(c.form.outcome_count <= 0, "invalid-range")

\* Mutant: a calibration record is never stale.
never_stale(c, code_version) == {}

calibration_resolution_problems(c, code_version) ==
  When(c.code_version # code_version, "stale-calibration")

validate_calibration(ledger, x, c) ==
  IF NoDoc \in {ledger, x} \/ x.form.status \notin Statuses THEN 2
  ELSE IF x.form.status \in NoRecordStatuses THEN exit_code(When(c # NoDoc, "consistency-note"))
  ELSE IF c = NoDoc \/ calibration_structural_problems(c) # {} THEN 1
  ELSE exit_code(calibration_resolution_problems(c, ledger.code_version))

-----------------------------------------------------------------------------
(***************************************************************************)
(* The over-claim scan.  A text is a sequence of clauses, a clause a       *)
(* sequence of words: a claim (calibrated, validated, ...), a negator      *)
(* (not, never, ...) or another word.                                      *)
(***************************************************************************)
Negators(clause, i) == {j \in DOMAIN clause : i - 4 <= j /\ j < i /\ clause[j] = "negator"}

FirstClaim(clause) ==
  LET claims == {i \in DOMAIN clause : clause[i] = "claim"}
  IN  {i \in claims : \A j \in claims : i <= j}

\* re.search finds the first claim of the clause, and only that one.
overclaim_in(clause) == \E i \in FirstClaim(clause) : Negators(clause, i) = {}

overclaim_hit(text) == \E k \in DOMAIN text : overclaim_in(text[k])

\* A claim that no negator governs, by the rule of the scan's docstring: none
\* is among the few words immediately preceding it.
Affirmed(clause, i) == clause[i] = "claim" /\ Negators(clause, i) = {}

-----------------------------------------------------------------------------
(***************************************************************************)
(* Feasibility records: "this channel was tried and cannot be calibrated". *)
(* `complete` stands for the required strings, the reasons, the date, the  *)
(* denominators and the enums of the context that are not named below;     *)
(* `smuggled` says that some object holds a key that is not allowed, or a  *)
(* container under a key that must hold a scalar; `hashes` are the         *)
(* provenance and dossier digests, each with its declared status.          *)
(***************************************************************************)
HonestyLabels ==
  {"SINGLE_SOURCE", "COMPOSITE_BUCKET", "NOT_CORROBORATED", "SELF_REPORTED", "ILLUSTRATIVE"}

context_problems(c) ==
     When(c.comparison_role # "CONTEXT_ONLY" \/ c.calibration_effect # "NONE"
            \/ c.comparability \notin {"NONE", "INDIRECT"}, "invalid-enum")
  \cup When(c.labels \cap HonestyLabels = {}, "unlabeled-band")
  \cup When(~(0 <= c.low /\ c.low <= c.high /\ c.high <= 100), "out-of-range")
  \cup When(~(1 <= c.weeks_computed /\ c.weeks_computed <= c.weeks_in_window), "out-of-range")

hash_problems(h) ==
     When(h.status = "PINNED" /\ ~h.present, "invalid-format")
  \cup When(h.status # "PINNED" /\ h.present, "provenance-contradiction")

feasibility_structural_problems(form) ==
     When(~form.complete \/ form.verdict \notin FeasibilityDispositions, "missing-field")
  \cup When(form.smuggled, "unknown-key")
  \cup (IF form.context = NoDoc THEN {} ELSE context_problems(form.context))
  \cup UNION {hash_problems(h) : h \in form.hashes}
  \cup When(overclaim_hit(form.text), "over-claim-language")

feasibility_resolution_problems(f, code_version) ==
  When(f.code_version # code_version, "stale-feasibility")

consistency_problems(status) == When(status \notin NoRecordStatuses, "contradictory-status")

\* Mutant: the digest the sign-off carries is not compared with the record.
binding_by_presence(x, f) ==
  IF x.form.disposition \in FeasibilityDispositions
  THEN IF f = NoDoc THEN {"missing-feasibility-record"}
       ELSE When(f.form.verdict # x.form.disposition, "disposition-mismatch")
  ELSE When(f # NoDoc, "disposition-mismatch")

\* The sign-off's disposition against the record: present or absent as
\* declared, with the verdict, the id and the bytes that were signed.
binding_problems(x, f) ==
  IF x.form.disposition \in FeasibilityDispositions
  THEN IF f = NoDoc THEN {"missing-feasibility-record"}
       ELSE When(f.form.verdict # x.form.disposition, "disposition-mismatch")
              \cup When(x.binds # f, "stale-feasibility-binding")
  ELSE When(f # NoDoc /\ x.form.disposition \in Dispositions, "disposition-mismatch")

\* _judge_one: structure, then the ledger, then the status, then the binding.
judge_feasibility(ledger, x, f) ==
  IF NoDoc \in {ledger, x} THEN 2
  ELSE LET own ==
             IF f = NoDoc THEN {}
             ELSE IF feasibility_structural_problems(f.form) # {}
                  THEN feasibility_structural_problems(f.form)
             ELSE IF feasibility_resolution_problems(f, ledger.code_version) # {}
                  THEN feasibility_resolution_problems(f, ledger.code_version)
             ELSE consistency_problems(x.form.status)
       IN  exit_code(IF own # {} THEN own ELSE binding_problems(x, f))
=============================================================================
