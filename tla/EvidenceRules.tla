---------------------------- MODULE EvidenceRules ----------------------------
(***************************************************************************)
(* What the recorded runs justify: the verdict-to-status rules of the      *)
(* campaign knowledge ledger (v1 and v2) and of model knowledge.           *)
(*                                                                         *)
(* A record is a completed run: [id, at, kind, segment, verdict, reuse,    *)
(* independence], at being its place in the order of execution. An entry   *)
(* is a record with its role, class and whether it is current.             *)
(***************************************************************************)
EXTENDS Integers, FiniteSets, FiniteSetsExt

Nothing == [verdict |-> "none", independent |-> FALSE]
Directional == {"positive_evidence", "negative_evidence"}
SignOf(verdict) == IF verdict = "positive_evidence" THEN 1 ELSE 0 - 1
Expected(sign) == CASE sign = "positive" -> 1 [] sign = "negative" -> 0 - 1
                    [] OTHER -> 0
Independent == {"prospective_validation", "protected_holdout"}

KnowledgeNames ==
    {"untested", "conflicting_evidence", "independently_supported",
     "independently_contradicted", "independently_observed_difference",
     "preliminary_support", "preliminary_contradiction", "preliminary_difference",
     "insufficient_evidence", "inconclusive"}
ValidationNames ==
    {"not_validated", "independently_validated", "validation_not_independent",
     "prospectively_validated", "prospective_evidence_not_independent"}

ValidationStatus(val) ==
    IF val = Nothing THEN "not_validated"
    ELSE IF val.independent THEN "independently_validated"
    ELSE "validation_not_independent"

Against(sign, observed, agree, disagree, unsigned) ==
    IF Expected(sign) = 0 THEN unsigned
    ELSE IF observed = Expected(sign) THEN agree ELSE disagree

\* Rules v1: from the current development and validation verdicts.
Classify(sign, dev, val) ==
    LET basis == IF dev # Nothing THEN dev.verdict ELSE val.verdict
    IN  IF basis = "none" THEN "untested"
        ELSE IF /\ val.independent
                /\ {dev.verdict, val.verdict} \subseteq Directional
        THEN IF dev.verdict # val.verdict THEN "conflicting_evidence"
             ELSE Against(sign, SignOf(val.verdict), "independently_supported",
                          "independently_contradicted",
                          "independently_observed_difference")
        ELSE IF basis \in Directional
        THEN Against(sign, SignOf(basis), "preliminary_support",
                     "preliminary_contradiction", "preliminary_difference")
        ELSE IF basis = "insufficient_data" THEN "insufficient_evidence"
        ELSE "inconclusive"

EvidenceClass(r) ==
    IF r.kind = "prospective"
    THEN CASE r.independence = "independent_prospective" ->
                 IF r.segment = "holdout" THEN "protected_holdout"
                 ELSE "prospective_validation"
           [] r.independence \in {"repeat_exposure", "claim_previously_exposed"}
                 -> "reused"
           [] OTHER -> "independence_undetermined"
    ELSE IF r.segment = "validation"
    THEN IF r.reuse THEN "reused" ELSE "retrospective_validation"
    ELSE "development"

\* The latest run of each id and segment is current; prospective runs are
\* cited from rules v2 on.
CollectEvidence(records, primary, own, rules) ==
    LET Role(r) ==
            IF r.id \in primary \/ (rules >= 2 /\ r.kind = "prospective")
            THEN "primary" ELSE IF r.id = own THEN "context" ELSE "none"
    IN  {[run |-> r, role |-> Role(r), class |-> EvidenceClass(r),
          current |-> \A o \in records :
              o.id = r.id /\ o.segment = r.segment => o.at <= r.at] :
         r \in {x \in records : Role(x) # "none"}}

\* The entry of the latest run.
Newest(entries) == CHOOSE e \in entries : \A o \in entries : o.run.at <= e.run.at

\* The retrospective primary evidence of a segment; the weakest decides.
Current(evidence, segment) ==
    LET now == {e \in evidence : e.role = "primary" /\ e.current
                    /\ e.run.segment = segment /\ e.run.kind # "prospective"}
        verdicts == {e.run.verdict : e \in now}
    IN  IF now = {} THEN Nothing
        ELSE [verdict |->
                  IF Cardinality(verdicts) = 1 THEN CHOOSE v \in verdicts : TRUE
                  ELSE IF "insufficient_data" \in verdicts
                  THEN "insufficient_data" ELSE "inconclusive",
              independent |->
                  IF Cardinality(verdicts) = 1
                  THEN ~ Newest(now).run.reuse
                  ELSE \A e \in now : ~ e.run.reuse]

Prospective(evidence) ==
    {e \in evidence : e.role = "primary" /\ e.current /\ e.run.kind = "prospective"}
IndependentOf(evidence) ==
    {e \in Prospective(evidence) : e.class \in Independent}

ValidationStatusV2(evidence) ==
    IF Prospective(evidence) = {}
    THEN ValidationStatus(Current(evidence, "validation"))
    ELSE IF IndependentOf(evidence) # {} THEN "prospectively_validated"
    ELSE "prospective_evidence_not_independent"

\* Rules v2: independent prospective evidence decides; everything else falls
\* back to the v1 rules.
ClassifyV2(sign, evidence) ==
    LET dev == Current(evidence, "development")
        signs == {SignOf(e.run.verdict) : e \in
                     {x \in IndependentOf(evidence) : x.run.verdict \in Directional}}
    IN  IF signs = {} THEN Classify(sign, dev, Current(evidence, "validation"))
        ELSE IF \/ Cardinality(signs) > 1
                \/ dev.verdict \in Directional /\ SignOf(dev.verdict) \notin signs
        THEN "conflicting_evidence"
        ELSE Against(sign, CHOOSE x \in signs : TRUE, "independently_supported",
                     "independently_contradicted",
                     "independently_observed_difference")

\* What a revision says of one hypothesis.
KnowledgeStatus(sign, evidence, rules) ==
    IF rules >= 2
    THEN [knowledge |-> ClassifyV2(sign, evidence),
          validation |-> ValidationStatusV2(evidence)]
    ELSE [knowledge |-> Classify(sign, Current(evidence, "development"),
                                 Current(evidence, "validation")),
          validation |-> ValidationStatus(Current(evidence, "validation"))]

\* Repeated runs of one id and segment have to agree with the current one.
RepeatConflicts(evidence) ==
    {e \in evidence : \E c \in evidence :
        /\ ~e.current /\ c.current
        /\ c.run.id = e.run.id /\ c.run.segment = e.run.segment
        /\ c.run.verdict # e.run.verdict}

-----------------------------------------------------------------------------
(* Model knowledge: what the evaluations of a specification justify.       *)

ModelNames ==
    {"experimental", "registered_for_prospective_evaluation",
     "supported_by_prospective_evidence", "contradicted_by_prospective_evidence",
     "insufficient_prospective_evidence", "inconclusive_prospective_evidence",
     "conflicting_prospective_evidence"}

DecisionStatus(decision) ==
    CASE decision = "consistent_with_improvement" ->
             "supported_by_prospective_evidence"
      [] decision = "inconsistent_with_improvement" ->
             "contradicted_by_prospective_evidence"
      [] decision = "insufficient_evidence" -> "insufficient_prospective_evidence"
      [] OTHER -> "inconclusive_prospective_evidence"

\* evidence: [class, decision, via] of a policy or a ranking model
DeriveStatus(kind, evidence) ==
    LET statuses == IF kind # "qualification_policy" THEN {}
                    ELSE {DecisionStatus(e.decision) : e \in
                             {x \in evidence : ~x.via /\ x.class \in Independent}}
    IN  IF statuses = {}
        THEN IF \E e \in evidence : e.class = "prospective_registration"
             THEN "registered_for_prospective_evaluation" ELSE "experimental"
        ELSE IF {"supported_by_prospective_evidence",
                 "contradicted_by_prospective_evidence"} \subseteq statuses
        THEN "conflicting_prospective_evidence"
        ELSE IF Cardinality(statuses) = 1 THEN CHOOSE s \in statuses : TRUE
        ELSE IF "insufficient_prospective_evidence" \in statuses
        THEN "insufficient_prospective_evidence"
        ELSE "inconclusive_prospective_evidence"

\* The decision of one claim: the Evaluator's verdict has to survive the
\* multiplicity adjustment (an interval [low, high], or none at all).
Decide(verdict, adjusted) ==
    IF verdict = "insufficient_data" THEN "insufficient_evidence"
    ELSE IF adjusted = <<>> THEN "inconclusive"
    ELSE IF verdict = "positive_evidence" /\ adjusted[1] > 0
    THEN "consistent_with_improvement"
    ELSE IF verdict = "negative_evidence" /\ adjusted[2] < 0
    THEN "inconsistent_with_improvement"
    ELSE "inconclusive"
=============================================================================
