------------------------------ MODULE Variance ------------------------------
(***************************************************************************)
(* close_agent/variance.py: budget and actuals are joined by account and   *)
(* line item, subtracted, and flagged against the thresholds.  A line is   *)
(* a key and an amount; the category it copies and the wording are left    *)
(* out.                                                                    *)
(***************************************************************************)
EXTENDS Decimals, FiniteSets

CONSTANT None

(* FlagThresholds; pct in parts of PctScale.                              *)
FlagThresholds(pct, amount, combine) ==
    [pct |-> pct, amount |-> amount, combine |-> combine,
     flag_unbudgeted |-> TRUE, flag_missing_actual |-> TRUE]

(* Two rows of one side with the same key: the later one stays.            *)
RowOf(rows, key) == Max({i \in DOMAIN rows : rows[i].key = key})

Keys(rows) == {rows[i].key : i \in DOMAIN rows}

Presence(budget, actuals, key) ==
    IF key \notin Keys(actuals) THEN "budget_only"
    ELSE IF key \notin Keys(budget) THEN "actual_only"
    ELSE "both"

AmountOf(rows, key) == IF key \in Keys(rows) THEN rows[RowOf(rows, key)].amount ELSE 0

(* Slip: the thresholds are compared with the variance, not its size.      *)
M_flag_reasons_signed(actual, variance, pct_variance, presence, thresholds) ==
    LET pct == thresholds.pct # None /\ pct_variance # None
               /\ pct_variance >= thresholds.pct
        amount == thresholds.amount # None /\ variance >= thresholds.amount
    IN  {reason \in {"pct", "amount"} : IF reason = "pct" THEN pct ELSE amount}

(* Slip: "all" is taken to mean that no rule may be left unbreached.       *)
M_flag_reasons_all(actual, variance, pct_variance, presence, thresholds) ==
    LET pct == thresholds.pct # None /\ pct_variance # None
               /\ Abs(pct_variance) >= thresholds.pct
        amount == thresholds.amount # None /\ Abs(variance) >= thresholds.amount
    IN  {reason \in {"pct", "amount"} :
            IF thresholds.combine = "all" THEN pct = amount ELSE pct \/ amount}

(* _flag_reasons()                                                         *)
flag_reasons(actual, variance, pct_variance, presence, thresholds) ==
    LET pct == /\ thresholds.pct # None
               /\ pct_variance # None
               /\ Abs(pct_variance) >= thresholds.pct
        amount == thresholds.amount # None /\ Abs(variance) >= thresholds.amount
        Numeric == (IF pct THEN {"pct"} ELSE {}) \cup (IF amount THEN {"amount"} ELSE {})
        Breached == thresholds.combine = "all" => Numeric = {"pct", "amount"}
    IN  {reason \in Numeric : Breached}
        \cup {reason \in {"unbudgeted"} : /\ thresholds.flag_unbudgeted
                                          /\ presence = "actual_only"
                                          /\ actual # 0}
        \cup {reason \in {"missing_actual"} : /\ thresholds.flag_missing_actual
                                              /\ presence = "budget_only"}

(* LineVariance                                                            *)
LineVariance(budget, actuals, key, thresholds) ==
    LET budget_amount == AmountOf(budget, key)
        actual_amount == AmountOf(actuals, key)
        variance == actual_amount - budget_amount
        pct_variance == IF budget_amount = 0 THEN None
                        ELSE RoundHalfUp(variance * PctScale, budget_amount)
        presence == Presence(budget, actuals, key)
        reasons == flag_reasons(actual_amount, variance, pct_variance, presence, thresholds)
    IN  [key |-> key, budget_amount |-> budget_amount, actual_amount |-> actual_amount,
         variance |-> variance, pct_variance |-> pct_variance, presence |-> presence,
         direction |-> IF variance > 0 THEN "over_budget"
                       ELSE IF variance < 0 THEN "under_budget" ELSE "on_budget",
         flagged |-> reasons # {}, flag_reasons |-> reasons]

compute_variances(budget, actuals, thresholds) ==
    {LineVariance(budget, actuals, key, thresholds) : key \in Keys(budget) \cup Keys(actuals)}

(* VarianceReport.summary(); of lines that are equally far off it names    *)
(* the first, here their common variance.                                  *)
summary(lines) ==
    LET total_budget == SumFunction([lv \in lines |-> lv.budget_amount])
        total_actual == SumFunction([lv \in lines |-> lv.actual_amount])
        Over == {lv.variance : lv \in {l \in lines : l.variance > 0}}
        Under == {lv.variance : lv \in {l \in lines : l.variance < 0}}
    IN  [line_count     |-> Cardinality(lines),
         flagged_count  |-> Cardinality({lv \in lines : lv.flagged}),
         total_budget   |-> total_budget,
         total_actual   |-> total_actual,
         total_variance |-> total_actual - total_budget,
         largest_over_budget  |-> IF Over = {} THEN None ELSE Max(Over),
         largest_under_budget |-> IF Under = {} THEN None ELSE Min(Under)]
=============================================================================
