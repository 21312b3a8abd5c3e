--------------------------- MODULE MCScopedStores ---------------------------
(* A TLC instance of InfraDemo and the stores under it: two processes, two *)
(* tenants.                                                                *)
EXTENDS InfraDemo, TLC

CONSTANTS p1, p2, acme, globex, ref1

TwoProcs == {p1, p2}
TwoTenants == {acme, globex}
OneRef == {ref1}

(* Every kind of step of the seed; one note.                               *)
MCSeed == <<[kind |-> "tenant", tenant |-> acme], [kind |-> "tenant", tenant |-> globex],
            [kind |-> "user", tenant |-> acme], [kind |-> "member", tenant |-> acme],
            [kind |-> "user", tenant |-> globex], [kind |-> "member", tenant |-> globex],
            [kind |-> "note", tenant |-> acme]>>

(* No property names a process.                                            *)
Symmetry == Permutations(Procs)
=============================================================================
