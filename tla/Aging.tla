-------------------------------- MODULE Aging --------------------------------
(***************************************************************************)
(* ar_collections_agent/aging.py: how overdue each open invoice is, which  *)
(* of them are chased and in which tone, and the report's summary.  Dates  *)
(* are day numbers.  The last payment and the order of the report's lines  *)
(* are left out: nothing is computed from them.                            *)
(***************************************************************************)
EXTENDS Decimals, FiniteSets

CONSTANT None

(* DunningPolicy                                                           *)
DunningPolicy(days, repeat, at_least, min_amount) ==
    [min_days_overdue |-> days, flag_repeat_customers |-> repeat,
     repeat_customer_min_overdue_invoices |-> at_least, min_amount |-> min_amount]

Buckets == <<"current", "1-30", "31-60", "61-90", "90+">>

bucket(days_overdue) ==
    IF days_overdue <= 0 THEN "current"
    ELSE IF days_overdue <= 30 THEN "1-30"
    ELSE IF days_overdue <= 60 THEN "31-60"
    ELSE IF days_overdue <= 90 THEN "61-90"
    ELSE "90+"

tone_tier(days_overdue) ==
    IF days_overdue <= 60 THEN "reminder"
    ELSE IF days_overdue <= 90 THEN "firm"
    ELSE "formal"

(* Slip: only as many overdue invoices as the threshold says count.        *)
M_flag_reasons(inv, days_overdue, customer_overdue_count, policy) ==
    IF policy.min_amount # None /\ Abs(inv.amount) < policy.min_amount THEN {}
    ELSE {reason \in {"age", "repeat"} :
            \/ /\ reason = "age"
               /\ days_overdue >= policy.min_days_overdue
            \/ /\ reason = "repeat"
               /\ policy.flag_repeat_customers
               /\ days_overdue >= 1
               /\ customer_overdue_count = policy.repeat_customer_min_overdue_invoices}

(* _flag_reasons(): the wording of a reason is left out.                   *)
flag_reasons(inv, days_overdue, customer_overdue_count, policy) ==
    IF policy.min_amount # None /\ Abs(inv.amount) < policy.min_amount THEN {}
    ELSE {reason \in {"age", "repeat"} :
            \/ /\ reason = "age"
               /\ days_overdue >= policy.min_days_overdue
            \/ /\ reason = "repeat"
               /\ policy.flag_repeat_customers
               /\ days_overdue >= 1
               /\ customer_overdue_count >= policy.repeat_customer_min_overdue_invoices}

(* InvoiceAging                                                            *)
InvoiceAging(inv, days_overdue, reasons) ==
    [customer |-> inv.customer, amount |-> inv.amount, days_overdue |-> days_overdue,
     bucket |-> bucket(days_overdue), flagged |-> reasons # {}, flag_reasons |-> reasons,
     tone_tier |-> IF reasons # {} THEN tone_tier(days_overdue) ELSE None]

(* compute_aging(): a first pass counts each customer's overdue invoices.  *)
compute_aging(invoices, as_of_date, policy) ==
    LET days_overdue(i) == as_of_date - invoices[i].due_date
        overdue_by_customer(c) ==
            Cardinality({i \in DOMAIN invoices :
                            invoices[i].customer = c /\ days_overdue(i) >= 1})
    IN  [i \in DOMAIN invoices |->
            InvoiceAging(invoices[i], days_overdue(i),
                flag_reasons(invoices[i], days_overdue(i),
                             overdue_by_customer(invoices[i].customer), policy))]

(* CollectionsReport.summary()                                             *)
summary(agings) ==
    LET Flagged == {i \in DOMAIN agings : agings[i].flagged}
        Overdue == {i \in DOMAIN agings : agings[i].days_overdue >= 1}
        In(b) == {i \in DOMAIN agings : agings[i].bucket = b}
        amounts == [i \in DOMAIN agings |-> agings[i].amount]
    IN  [invoice_count |-> Len(agings),
         flagged_count |-> Cardinality(Flagged),
         total_open    |-> SumFunction(amounts),
         overdue_count |-> Cardinality(Overdue),
         total_overdue |-> SumFunctionOnSet(amounts, Overdue),
         bucket_breakdown |-> [k \in DOMAIN Buckets |->
             [count  |-> Cardinality(In(Buckets[k])),
              amount |-> SumFunctionOnSet(amounts, In(Buckets[k]))]],
         tone_breakdown |-> [tone \in {agings[i].tone_tier : i \in Flagged} |->
             Cardinality({i \in Flagged : agings[i].tone_tier = tone})],
         customers_flagged |-> {agings[i].customer : i \in Flagged}]
=============================================================================
