------------------------------- MODULE Triage -------------------------------
(***************************************************************************)
(* regulatory_change_agent/triage.py: which internal controls share key    *)
(* terms with a requirement, and whether they seem to cover it.  A text is *)
(* the set of its words of three letters or more; Stem says what each is   *)
(* reduced to.  A control's place in the register stands for its id.       *)
(***************************************************************************)
EXTENDS Naturals, Sequences, FiniteSets

CONSTANTS Stem, Stopwords

(* TriagePolicy                                                            *)
TriagePolicy(overlap, strong, surfaced, extra) ==
    [min_keyword_overlap |-> overlap, strong_overlap |-> strong,
     max_controls_surfaced |-> surfaced, extra_stopwords |-> extra]

(* key_terms() and _stem()                                                 *)
key_terms(words, extra_stopwords) ==
    LET stops == Stopwords \cup extra_stopwords
    IN  {Stem[w] : w \in words \ stops} \ stops

(* ControlRelevance                                                        *)
ControlRelevance(req_terms, control, i, policy) ==
    LET desc_terms == key_terms(control.description, policy.extra_stopwords)
        cat_terms == key_terms(control.category, policy.extra_stopwords)
        matched == req_terms \cap (desc_terms \cup cat_terms)
    IN  [control_id |-> i, score |-> Cardinality(matched), matched_terms |-> matched,
         category_match |-> req_terms \cap cat_terms # {},
         relevant |-> Cardinality(matched) >= policy.min_keyword_overlap]

(* Slip: the controls are ranked by id alone.                              *)
M_Before(r, s) == r.control_id < s.control_id

(* relevances.sort(): the best score first, then by id.                    *)
Before(r, s) == \/ r.score > s.score
                \/ r.score = s.score /\ r.control_id < s.control_id

(* assess_impact(); TriageResult                                           *)
assess_impact(requirement, controls, policy) ==
    LET req_terms == key_terms(requirement, policy.extra_stopwords)
        relevances == {ControlRelevance(req_terms, controls[i], i, policy) :
                          i \in DOMAIN controls}
        relevant == {r \in relevances : r.relevant}
        Ahead(r) == {s \in relevant : Before(s, r)}
        top == CHOOSE r \in relevant : Ahead(r) = {}
        coverage_verdict ==
            IF relevant = {} THEN "likely_gap"
            ELSE IF top.score >= policy.strong_overlap THEN "apparent_coverage"
            ELSE "weak_coverage"
        kept == IF policy.max_controls_surfaced >= 0 THEN policy.max_controls_surfaced
                ELSE Cardinality(relevant) + policy.max_controls_surfaced
        surfaced == {r \in relevant : Cardinality(Ahead(r)) < kept}
    IN  [relevances |-> relevances, relevant_controls |-> surfaced,
         coverage_verdict |-> coverage_verdict,
         gap_flagged |-> coverage_verdict # "apparent_coverage"]

(* TriageReport.summary()                                                  *)
summary(result) ==
    [control_count          |-> Cardinality(result.relevances),
     relevant_control_count |-> Cardinality(result.relevant_controls),
     coverage_verdict       |-> result.coverage_verdict,
     gap_flagged            |-> result.gap_flagged]
=============================================================================
