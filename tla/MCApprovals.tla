----------------------------- MODULE MCApprovals -----------------------------
(* TLC instances of Approvals.                                             *)
EXTENDS Approvals, TLC

CONSTANTS q1, q2, ann, bob, carol, p1, p2

OneClient == {q1}
TwoClients == {q1, q2}
ThreeActors == {ann, bob, carol}
OnePayload == {p1}
TwoPayloads == {p1, p2}

(* _DEFAULT_ROUTING of queue.py.                                           *)
DefaultRouting == <<"reviewer", "approver">>

(* No property names a client, an actor or a payload.                      *)
Symmetry == Permutations(Clients) \cup Permutations(Actors) \cup Permutations(Payloads)
=============================================================================
