------------------------------ MODULE MCAppPages ------------------------------
(* A TLC instance of AppPages: a tab.  (Tabs share nothing: each run has    *)
(* stores of its own.)                                                     *)
EXTENDS AppPages

CONSTANTS t1, s0, s1, i1

(* One source in which nothing is flagged, one in which one item is.       *)
MCSources == {s0, s1}
MCItems == {i1}
MCFindings == [s \in MCSources |-> IF s = s0 THEN {} ELSE {i1}]
(* Two invoices that differ in their line items only.                      *)
MCHeadings == [s \in MCSources |-> "heading"]

(* The pages left out differ from that of the close agent in nothing but   *)
(* what they ask for and catch.                                            *)
MCTabs == {t1}
MCAgentsOf == [t \in MCTabs |->
    {"reconciliation", "vat_treatment", "ap", "close", "expense", "technical_accounting",
     "audit_readiness"}]
=============================================================================
