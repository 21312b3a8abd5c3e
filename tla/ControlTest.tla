----------------------------- MODULE ControlTest -----------------------------
(***************************************************************************)
(* controls_sox_agent/sod.py: the segregation-of-duties test of journal    *)
(* entries.  A name as it is written is [who, spelling]: spellings differ  *)
(* in case and surrounding blanks; a blank or absent name is None.         *)
(***************************************************************************)
EXTENDS Decimals, FiniteSets

CONSTANT None

(* ControlPolicy                                                           *)
ControlPolicy(threshold, distinct) ==
    [dual_approval_threshold |-> threshold, require_distinct_approvers |-> distinct]

(* Slip: names are compared as they are written.                           *)
M_normalize(name) == name

(* _normalize(): strip() and casefold().                                   *)
normalize(name) == IF name = None THEN None ELSE name.who

(* VIOLATION_CODES                                                         *)
VIOLATION_CODES ==
    {"no_approver", "preparer_is_approver", "duplicate_approvers", "missing_second_approver"}

(* Slip: an entry exactly at the threshold gets by with one approver.      *)
M_dual_required(entry, policy) == Abs(entry.amount) > policy.dual_approval_threshold

dual_required(entry, policy) == Abs(entry.amount) >= policy.dual_approval_threshold

(* _evaluate_entry(): the slots that name somebody, and what is wrong.     *)
violations(entry, policy) ==
    LET n1 == normalize(entry.approver_1)
        n2 == normalize(entry.approver_2)
        preparer_n == normalize(entry.preparer)
        named == {slot \in {1, 2} : (IF slot = 1 THEN n1 ELSE n2) # None}
        self_slots == {slot \in named : (IF slot = 1 THEN n1 ELSE n2) = preparer_n}
        Raised(code) ==
            \/ code = "no_approver" /\ named = {}
            \/ code = "preparer_is_approver" /\ self_slots # {}
            \/ /\ code = "duplicate_approvers"
               /\ policy.require_distinct_approvers
               /\ named = {1, 2}
               /\ n1 = n2
            \/ /\ code = "missing_second_approver"
               /\ dual_required(entry, policy)
               /\ Cardinality(named) = 1
    IN  {code \in VIOLATION_CODES : Raised(code)}

(* ControlTestResult                                                       *)
ControlTestResult(entry, policy) ==
    [amount |-> entry.amount,
     dual_approval_required |-> dual_required(entry, policy),
     passed |-> violations(entry, policy) = {},
     violations |-> violations(entry, policy)]

check_segregation_of_duties(entries, policy) ==
    [i \in DOMAIN entries |-> ControlTestResult(entries[i], policy)]

(* ControlTestReport.summary()                                             *)
summary(results) ==
    LET All == {found \in (DOMAIN results) \X VIOLATION_CODES :
                    found[2] \in results[found[1]].violations}
    IN  [entries_tested |-> Len(results),
         entries_with_violations |->
             Cardinality({i \in DOMAIN results : ~results[i].passed}),
         violation_count |-> Cardinality(All),
         violations_by_code |->
             [code \in {v[2] : v \in All} |-> Cardinality({v \in All : v[2] = code})],
         dual_approval_required_count |->
             Cardinality({i \in DOMAIN results : results[i].dual_approval_required}),
         total_amount_tested |-> 
             SumFunction([i \in DOMAIN results |-> Abs(results[i].amount)])]
=============================================================================
