---------------------------- MODULE VatProvision ----------------------------
(***************************************************************************)
(* tax_compliance_agent/provision.py: VAT per transaction, the totals by   *)
(* treatment and side, the net position and the anomalies.  A type or a    *)
(* treatment is the label as it is written; the tables below say which     *)
(* spellings the code accepts.  Rates are percentages.                     *)
(***************************************************************************)
EXTENDS Decimals, FiniteSets

CONSTANT None

VAT_TREATMENTS == {"standard-rated", "zero-rated", "exempt", "out-of-scope"}
Sides == {"sale", "purchase"}

(* ProvisionPolicy                                                         *)
ProvisionPolicy(refundable, rate) ==
    [flag_refundable |-> refundable, expected_standard_rate |-> rate]

(* _canon_treatment(): strip(), casefold() and the alias.                  *)
canon_treatment(raw) ==
    IF raw \in {"zero-rated export", "zero-rated exports"} THEN "zero-rated"
    ELSE IF raw \in VAT_TREATMENTS THEN raw
    ELSE "unrecognized"

canon_type(raw) ==
    IF raw \in {"sale", "sales"} THEN "sale"
    ELSE IF raw \in {"purchase", "purchases"} THEN "purchase"
    ELSE "unrecognized"

Direction(ttype) ==
    IF ttype = "sale" THEN "output" ELSE IF ttype = "purchase" THEN "input" ELSE "none"

(* ComputedTransaction                                                     *)
ComputedTransaction(txn) ==
    LET ttype == canon_type(txn.transaction_type)
        treatment == canon_treatment(txn.vat_treatment)
        recognized == ttype # "unrecognized" /\ treatment # "unrecognized"
        rate == IF txn.vat_rate = None THEN 0 ELSE txn.vat_rate
    IN  [transaction_type |-> ttype, vat_treatment |-> treatment,
         vat_direction |-> Direction(ttype), amount |-> txn.amount,
         vat_rate |-> txn.vat_rate, included_in_totals |-> recognized,
         computed_vat |-> IF recognized /\ treatment = "standard-rated"
                            THEN RoundHalfUp(txn.amount * rate, RateScale) ELSE 0]

(* The anomalies of one transaction.                                       *)
anomalies(ct, policy) ==
    LET Raised(code) ==
            \/ /\ code = "unrecognized_transaction_type"
               /\ ct.transaction_type = "unrecognized"
            \/ /\ code = "unrecognized_treatment"
               /\ ct.vat_treatment = "unrecognized"
            \/ /\ code = "treatment_rate_mismatch"
               /\ ct.vat_treatment # "unrecognized"
               /\ (ct.vat_treatment = "standard-rated") = (ct.vat_rate \in {None, 0})
            \/ /\ code = "unexpected_standard_rate"
               /\ ct.vat_treatment = "standard-rated"
               /\ policy.expected_standard_rate # None
               /\ ct.vat_rate \notin {None, policy.expected_standard_rate}
    IN  {code \in {"unrecognized_transaction_type", "unrecognized_treatment",
                   "treatment_rate_mismatch", "unexpected_standard_rate"} : Raised(code)}

(* Slip: each cell of a treatment is filled from its sales.                *)
M_breakdown(computed) ==
    [cell \in VAT_TREATMENTS \X Sides |->
        LET In == {i \in DOMAIN computed : /\ computed[i].included_in_totals
                                           /\ computed[i].vat_treatment = cell[1]
                                           /\ computed[i].transaction_type = "sale"}
        IN  [count  |-> Cardinality(In),
             amount |-> SumFunction([i \in In |-> computed[i].amount]),
             vat    |-> SumFunction([i \in In |-> computed[i].computed_vat])]]

(* by_treatment: _empty_breakdown() and the lines counted in its cells.    *)
breakdown(computed) ==
    [cell \in VAT_TREATMENTS \X Sides |->
        LET In == {i \in DOMAIN computed : /\ computed[i].included_in_totals
                                           /\ computed[i].vat_treatment = cell[1]
                                           /\ computed[i].transaction_type = cell[2]}
        IN  [count  |-> Cardinality(In),
             amount |-> SumFunction([i \in In |-> computed[i].amount]),
             vat    |-> SumFunction([i \in In |-> computed[i].computed_vat])]]

VatTotal(computed, direction) ==
    LET Towards == {i \in DOMAIN computed : /\ computed[i].included_in_totals
                                            /\ computed[i].vat_direction = direction}
    IN  SumFunction([i \in Towards |-> computed[i].computed_vat])

(* compute_provision() and VatProvisionReport.summary(); the anomaly of    *)
(* the whole period has no transaction.                                    *)
compute_provision(transactions, policy) ==
    LET computed == [i \in DOMAIN transactions |-> ComputedTransaction(transactions[i])]
        output_vat_total == VatTotal(computed, "output")
        input_vat_total == VatTotal(computed, "input")
        net_vat == output_vat_total - input_vat_total
    IN  [computed_transactions |-> computed,
         output_vat_total |-> output_vat_total,
         input_vat_total  |-> input_vat_total,
         net_vat          |-> net_vat,
         position         |-> IF net_vat > 0 THEN "payable"
                              ELSE IF net_vat < 0 THEN "refundable" ELSE "nil",
         by_treatment     |-> breakdown(computed),
         anomalies        |->
             (UNION {{i} \X anomalies(computed[i], policy) : i \in DOMAIN computed})
             \cup {a \in {<<None, "net_refundable_position">>} :
                     policy.flag_refundable /\ net_vat < 0},
         excluded |-> {i \in DOMAIN computed : ~computed[i].included_in_totals}]
=============================================================================
