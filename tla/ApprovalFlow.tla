---------------------------- MODULE ApprovalFlow ----------------------------
(***************************************************************************)
(* What the approval queue promises, without tables, stages or an audit    *)
(* log: a request is signed off by Stages different people, none of them   *)
(* the one who prepared it, or it is turned down by one of them; either    *)
(* outcome is final.                                                       *)
(***************************************************************************)
EXTENDS Naturals, Sequences

CONSTANTS
    Actors,     \* the people (and agents) who prepare and decide
    Stages      \* how many sign-offs approve a request

VARIABLE cases  \* [preparer, signers, verdict] per request, oldest first

SeqRange(s) == {s[i] : i \in DOMAIN s}

Init == cases = << >>

Submit(preparer) ==
    cases' = Append(cases, [preparer |-> preparer,
                            signers  |-> << >>,
                            verdict  |-> "pending"])

(* actor is new to the case, which is still open.                          *)
MayAct(id, actor) ==
    /\ cases[id].verdict = "pending"
    /\ actor # cases[id].preparer
    /\ actor \notin SeqRange(cases[id].signers)

SignOff(id, actor) ==
    /\ MayAct(id, actor)
    /\ cases' = [cases EXCEPT
          ![id].signers = Append(@, actor),
          ![id].verdict = IF Len(cases[id].signers) + 1 = Stages
                            THEN "approved" ELSE "pending"]

TurnDown(id, actor) ==
    /\ MayAct(id, actor)
    /\ cases' = [cases EXCEPT ![id].signers = Append(@, actor),
                              ![id].verdict = "rejected"]

Next ==
    \E actor \in Actors :
        \/ Submit(actor)
        \/ \E id \in DOMAIN cases : SignOff(id, actor) \/ TurnDown(id, actor)

Spec == Init /\ [][Next]_cases
=============================================================================
