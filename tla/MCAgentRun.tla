------------------------------ MODULE MCAgentRun ------------------------------
EXTENDS AgentRun

CONSTANTS r1, r2, s0, s1, i1, i2

(* One source in which nothing is flagged, one in which one item is.       *)
MCSources == {s0, s1}
MCItems == {i1, i2}
(* One process calls agents of every kind, the other, beside it, a short   *)
(* one, which the first may be running too.  The agents left out take only *)
(* steps that one of these takes.                                          *)
MCRunners == {r1, r2}
MCAgents == {"ap", "expense", "close", "regulatory_change", "reconciliation",
             "audit_readiness", "vat_treatment"}
MCAgentsOf == [r \in MCRunners |-> IF r = r1 THEN MCAgents ELSE {"vat_treatment"}]

MCFindings == [s \in MCSources |-> IF s = s0 THEN {} ELSE {i1}]
(* Two invoices that differ in their line items only.                      *)
MCHeadings == [s \in MCSources |-> "heading"]
=============================================================================
