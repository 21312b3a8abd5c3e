------------------------------ MODULE Matching ------------------------------
(***************************************************************************)
(* reconciliation_agent/matching.py: bank lines are matched with ledger    *)
(* lines, exactly and then within a few days, and the report's totals.     *)
(* A transaction is an amount, a date (a day number) and a reference, None *)
(* where it has none; it is named by its place in the file it comes from.  *)
(***************************************************************************)
EXTENDS Decimals

CONSTANT None

MatchedPair(b, l, type, delta) ==
    [bank |-> b, ledger |-> l, match_type |-> type, date_delta_days |-> delta]

Unmatched(n, matched, side) == (1 .. n) \ {pair[side] : pair \in matched}

(* Slip: consumed is forgotten, so a ledger line may be taken twice.       *)
M_ReuseLedgerLine(bank, ledger, matched, b) ==
    LET candidates ==
            {l \in DOMAIN ledger : bank[b].reference # None /\ ledger[l] = bank[b]}
    IN  IF candidates = {} THEN matched
        ELSE matched \cup {MatchedPair(b, Min(candidates), "exact", 0)}

(* One bank line of _match_exact(): it takes the first of the ledger lines *)
(* no earlier one has taken that has its amount, date and reference.       *)
take_exact(bank, ledger, matched, b) ==
    LET candidates == {l \in Unmatched(Len(ledger), matched, "ledger") :
                          bank[b].reference # None /\ ledger[l] = bank[b]}
    IN  IF candidates = {} THEN matched
        ELSE matched \cup {MatchedPair(b, Min(candidates), "exact", 0)}

(* _match_exact(): the bank lines in their order.                          *)
match_exact(bank, ledger) ==
    LET after[n \in 0 .. Len(bank)] ==
            IF n = 0 THEN {} ELSE take_exact(bank, ledger, after[n - 1], n)
    IN  after[Len(bank)]

(* Slip: the days are compared with their sign.                            *)
M_SignedTolerance(bank, ledger, tolerance_days, matched, b) ==
    LET Delta(l) == bank[b].date - ledger[l].date
        candidates == {l \in Unmatched(Len(ledger), matched, "ledger") :
                          ledger[l].amount = bank[b].amount /\ Delta(l) <= tolerance_days}
    IN  IF b \notin Unmatched(Len(bank), matched, "bank") \/ candidates = {} THEN matched
        ELSE matched \cup {MatchedPair(b, Min(candidates), "tolerance", Abs(Delta(Min(candidates))))}

(* One bank line of _match_tolerance(): same amount, a few days apart; the *)
(* nearest line, the earlier of two as near, then the first in the file.   *)
take_nearest(bank, ledger, tolerance_days, matched, b) ==
    LET Delta(l) == Abs(bank[b].date - ledger[l].date)
        candidates == {l \in Unmatched(Len(ledger), matched, "ledger") :
                          ledger[l].amount = bank[b].amount /\ Delta(l) <= tolerance_days}
        nearest == {l \in candidates : \A m \in candidates : Delta(l) <= Delta(m)}
        earliest == {l \in nearest : \A m \in nearest : ledger[l].date <= ledger[m].date}
    IN  IF b \notin Unmatched(Len(bank), matched, "bank") \/ candidates = {} THEN matched
        ELSE matched \cup {MatchedPair(b, Min(earliest), "tolerance", Delta(Min(earliest)))}

(* _match_tolerance(): the bank lines the exact pass left, in their order. *)
match_tolerance(bank, ledger, exact, tolerance_days) ==
    LET after[n \in 0 .. Len(bank)] ==
            IF n = 0 THEN exact
            ELSE take_nearest(bank, ledger, tolerance_days, after[n - 1], n)
    IN  after[Len(bank)]

(* match_transactions(): what neither pass has matched is an exception.    *)
match_transactions(bank, ledger, tolerance_days) ==
    LET matched == match_tolerance(bank, ledger, match_exact(bank, ledger), tolerance_days)
    IN  [matched    |-> matched,
         exceptions |-> [bank   |-> Unmatched(Len(bank), matched, "bank"),
                         ledger |-> Unmatched(Len(ledger), matched, "ledger")]]

(* ReconciliationReport: bank_total, ledger_total, difference, counts.     *)
SideTotal(rows, matched, exceptions, side) ==
    SumFunction([pair \in matched |-> rows[pair[side]].amount])
      + SumFunction([i \in exceptions[side] |-> rows[i].amount])

ReconciliationReport(bank, ledger, tolerance_days) ==
    LET result == match_transactions(bank, ledger, tolerance_days)
        bank_total == SideTotal(bank, result.matched, result.exceptions, "bank")
        ledger_total == SideTotal(ledger, result.matched, result.exceptions, "ledger")
    IN  [matched    |-> result.matched,
         exceptions |-> result.exceptions,
         matched_exact_count |->
             Cardinality({pair \in result.matched : pair.match_type = "exact"}),
         bank_total   |-> bank_total,
         ledger_total |-> ledger_total,
         difference   |-> bank_total - ledger_total]
=============================================================================
