-------------------------- MODULE MCEvidenceTieOut --------------------------
(* TLC instances of EvidenceTieOut: windows over days 1..3 of one source,  *)
(* a full and an open-ended one, and the same day range of another source. *)
EXTENDS EvidenceTieOut

CONSTANTS gl, bank2

OpenDate == 0

MCWindows ==
    {[start |-> 1, end |-> 1, source |-> gl],
     [start |-> 1, end |-> 3, source |-> gl],
     [start |-> OpenDate, end |-> 3, source |-> bank2]}

MCItems ==
    {[start |-> 1, end |-> 1, source |-> NoSource],
     [start |-> 2, end |-> 3, source |-> NoSource],
     [start |-> 1, end |-> 1, source |-> bank2]}
=============================================================================
