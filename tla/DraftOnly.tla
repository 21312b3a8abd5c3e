------------------------------ MODULE DraftOnly ------------------------------
(***************************************************************************)
(* What "autonomy: draft_only" promises of the runs of all agents: a run   *)
(* ends in one of three ways -- its draft is put before a human, once; it  *)
(* is withheld, because the model gave it nothing to draft from; it dies.  *)
(* A run that was withheld or died never delivers, and none delivers twice.*)
(***************************************************************************)
EXTENDS Naturals, Sequences

CONSTANT MaxRuns    \* bound on the runs the exploration starts

VARIABLES
    outcome,    \* of each run, in the order they were started
    delivered   \* the runs whose drafts wait for a human, in order

Outcomes == {"working", "submitted", "withheld", "dead"}

Init ==
    /\ outcome = << >>
    /\ delivered = << >>

Begin ==
    /\ Len(outcome) < MaxRuns
    /\ outcome' = Append(outcome, "working")
    /\ UNCHANGED delivered

Deliver(run) ==
    /\ outcome[run] = "working"
    /\ outcome' = [outcome EXCEPT ![run] = "submitted"]
    /\ delivered' = Append(delivered, run)

Stop(run, how) ==
    /\ outcome[run] = "working"
    /\ outcome' = [outcome EXCEPT ![run] = how]
    /\ UNCHANGED delivered

Next ==
    \/ Begin
    \/ \E run \in DOMAIN outcome :
          \/ Deliver(run)
          \/ \E how \in {"withheld", "dead"} : Stop(run, how)

Spec == Init /\ [][Next]_<<outcome, delivered>>
=============================================================================
