----------------------------- MODULE MCSessions -----------------------------
(* TLC instances of Sessions: one connection, or two of them.              *)
EXTENDS Sessions, TLC

CONSTANTS c1, c2, ada, ben

OneClient == {c1}
TwoClients == {c1, c2}
OneUser == {ada}
TwoUsers == {ada, ben}

(* No property names a user.                                               *)
Symmetry == Permutations(Users)
=============================================================================
