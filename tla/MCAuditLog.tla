----------------------------- MODULE MCAuditLog -----------------------------
(* TLC instances of AuditLog: one connection, and damage to the file; two  *)
(* connections.                                                            *)
EXTENDS AuditLog, TLC

CONSTANTS c1, c2, e1, e2

OneConn == {c1}
TwoConns == {c1, c2}
TwoEvents == {e1, e2}

(* Connections are interchangeable, and so are events; no property names   *)
(* one of them.                                                            *)
Symmetry == Permutations(Conns) \cup Permutations(Events)
=============================================================================
