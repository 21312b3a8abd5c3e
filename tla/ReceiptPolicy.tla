---------------------------- MODULE ReceiptPolicy ----------------------------
(***************************************************************************)
(* expense_agent/compliance.py: a transcribed receipt against the policy.  *)
(* Text fields are blank or not; a date is blank, not in any of the        *)
(* configured formats, or a day; a category is written in some spelling of *)
(* a label.                                                                *)
(***************************************************************************)
EXTENDS Decimals, FiniteSets

CONSTANTS None, Blank, Unreadable

(* ExpensePolicy                                                           *)
ExpensePolicy(limits, default_limit, max_age, required) ==
    [category_limits |-> limits, default_limit |-> default_limit,
     max_receipt_age_days |-> max_age, required_fields |-> required]

(* ExtractedReceipt; vendor and currency say whether they were legible.    *)
ExtractedReceipt(vendor, day, amount, currency, category) ==
    [vendor |-> vendor, date |-> day, amount |-> amount, currency |-> currency,
     expense_category |-> category]

(* Slip: an amount that could not be read (zero) counts as present.        *)
M_missing_required_fields(receipt, required) ==
    {f \in required : receipt[f] = Blank}

(* _missing_required_fields()                                              *)
missing_required_fields(receipt, required) ==
    {f \in required : IF f = "amount" THEN receipt.amount <= 0 ELSE receipt[f] = Blank}

(* _parse_receipt_date(): a day, or None.                                  *)
parse_receipt_date(date) == IF date \in {Blank, Unreadable} THEN None ELSE date

(* _limit_for_category(): the label is matched whatever its spelling.      *)
limit_for_category(receipt, policy) ==
    IF receipt.expense_category = Blank THEN None
    ELSE IF receipt.expense_category.label \in DOMAIN policy.category_limits
      THEN policy.category_limits[receipt.expense_category.label]
    ELSE policy.default_limit

(* ComplianceCheckResult: each violation is a code and the field it is of. *)
violations(receipt, policy, as_of_date) ==
    LET parsed_date == parse_receipt_date(receipt.date)
        applied_limit == limit_for_category(receipt, policy)
    IN  ({"missing_required_field"}
            \X missing_required_fields(receipt, policy.required_fields))
        \cup {v \in {<<"date_unparseable", "date">>} :
                receipt.date # Blank /\ parsed_date = None}
        \cup {v \in {<<"receipt_too_old", "date">>} :
                /\ parsed_date # None
                /\ policy.max_receipt_age_days # None
                /\ as_of_date - parsed_date > policy.max_receipt_age_days}
        \cup {v \in {<<"category_over_limit", "amount">>} :
                applied_limit # None /\ receipt.amount > applied_limit}

(* Slip: a date that cannot be read is let pass, as one that is absent.    *)
M_check_compliance(receipt, policy, as_of_date) ==
    LET found == {v \in violations(receipt, policy, as_of_date) :
                    v[1] # "date_unparseable"}
    IN  [passed |-> found = {}, violations |-> found,
         parsed_date |-> parse_receipt_date(receipt.date),
         applied_limit |-> limit_for_category(receipt, policy)]

check_compliance(receipt, policy, as_of_date) ==
    [passed        |-> violations(receipt, policy, as_of_date) = {},
     violations    |-> violations(receipt, policy, as_of_date),
     parsed_date   |-> parse_receipt_date(receipt.date),
     applied_limit |-> limit_for_category(receipt, policy)]
=============================================================================
