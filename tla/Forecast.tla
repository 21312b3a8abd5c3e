------------------------------- MODULE Forecast -------------------------------
(***************************************************************************)
(* fpa_agent/projection.py: every line of the actuals is carried forward   *)
(* from its newest figure at an assumed rate, compounded over the horizon. *)
(* A period is the number of its month, Unreadable if it is no YYYY-MM; a  *)
(* category is None where the row leaves it blank.                         *)
(***************************************************************************)
EXTENDS Decimals, FiniteSets

CONSTANTS None, Unreadable, ValueError

(* ForecastAssumptions                                                     *)
ForecastAssumptions(default, by_category, max_change, horizon) ==
    [default_growth |-> default, category_growth |-> by_category,
     max_pop_change_pct |-> max_change, flag_negative |-> TRUE, horizon |-> horizon]

Keys(actuals) == {actuals[i].key : i \in DOMAIN actuals}
Periods(actuals) == {actuals[i].period : i \in DOMAIN actuals}

(* by_key[key][period]: of two such rows the later one stays.              *)
Rows(actuals, key) ==
    {i \in DOMAIN actuals :
        /\ actuals[i].key = key
        /\ \A j \in DOMAIN actuals :
              j > i => actuals[j].key # key \/ actuals[j].period # actuals[i].period}

(* Slip: the newest row is taken for the last one in the file.             *)
M_BaseRow(actuals, key) == Max(Rows(actuals, key))

(* The row of the newest period the line appears in.                       *)
BaseRow(actuals, key) ==
    CHOOSE i \in Rows(actuals, key) :
        \A j \in Rows(actuals, key) : actuals[j].period <= actuals[i].period

(* Where rows.values() has a row: where its period first came up, also if  *)
(* a later row of that period has taken its place.                         *)
Place(actuals, i) ==
    Min({j \in DOMAIN actuals : /\ actuals[j].key = actuals[i].key
                                /\ actuals[j].period = actuals[i].period})

(* base_line.category, or the first that another row of the line gives.    *)
Category(actuals, key) ==
    LET base == actuals[BaseRow(actuals, key)]
        Given == {i \in Rows(actuals, key) : actuals[i].category # None}
        first == CHOOSE i \in Given :
                    \A j \in Given : Place(actuals, i) <= Place(actuals, j)
    IN  IF base.category # None \/ Given = {} THEN base.category
        ELSE actuals[first].category

Rate(category, assumptions) ==
    IF category \in DOMAIN assumptions.category_growth
      THEN assumptions.category_growth[category] ELSE assumptions.default_growth

(* Slip: only the line's present sign is looked at, and no stale base.     *)
M_flag_reasons(rate, projected, stale, assumptions) ==
    {reason \in {"high_sensitivity", "projection_turns_negative"} :
        \/ /\ reason = "high_sensitivity"
           /\ rate >= assumptions.max_pop_change_pct
        \/ reason = "projection_turns_negative" /\ projected < 0}

(* FLAG_CODES                                                              *)
flag_reasons(rate, projected, stale, assumptions) ==
    {reason \in {"high_sensitivity", "projection_turns_negative", "stale_base"} :
        \/ /\ reason = "high_sensitivity"
           /\ Abs(rate) >= assumptions.max_pop_change_pct
        \/ /\ reason = "projection_turns_negative"
           /\ assumptions.flag_negative
           /\ projected < 0
        \/ reason = "stale_base" /\ stale}

(* ProjectedLine: each period is computed from the base, not from the      *)
(* rounded figure of the period before.                                    *)
ProjectedLine(actuals, key, k, base_period, assumptions) ==
    LET base == actuals[BaseRow(actuals, key)]
        category == Category(actuals, key)
        rate == Rate(category, assumptions)
        projected == RoundHalfUp(base.amount * Power(RateScale + rate, k), Power(RateScale, k))
        stale == base.period # base_period
        reasons == flag_reasons(rate, projected, stale, assumptions)
    IN  [key |-> key, category |-> category, base_period |-> base.period,
         base_amount |-> base.amount, period |-> base_period + k, period_index |-> k,
         growth_rate |-> rate, projected_amount |-> projected,
         change_vs_base |-> projected - base.amount,
         pct_change_vs_base |->
             IF base.amount = 0 THEN None
             ELSE RoundHalfUp((projected - base.amount) * PctScale, base.amount),
         flagged |-> reasons # {}, flag_reasons |-> reasons]

(* What project_forecast() and _parse_period() raise ValueError for.       *)
Refused(actuals, assumptions) ==
    \/ assumptions.horizon < 1
    \/ actuals = << >>
    \/ Unreadable \in Periods(actuals)

(* project_forecast()                                                      *)
project_forecast(actuals, assumptions) ==
    IF Refused(actuals, assumptions) THEN ValueError
    ELSE {ProjectedLine(actuals, key, k, Max(Periods(actuals)), assumptions) :
            key \in Keys(actuals), k \in 1 .. assumptions.horizon}

(* ForecastReport.summary()                                                *)
summary(lines, horizon) ==
    LET Final == {pl \in lines : pl.period_index = horizon}
        Of(category) == {pl \in Final : pl.category = category}
        Base(some) == SumFunction([pl \in some |-> pl.base_amount])
        Projected(some) == SumFunction([pl \in some |-> pl.projected_amount])
        Pct(base, final) == IF base = 0 THEN None
                            ELSE RoundHalfEven((final - base) * PctScale, base)
    IN  [line_count    |-> Cardinality({pl.key : pl \in lines}),
         row_count     |-> Cardinality(lines),
         flagged_count |-> Cardinality({pl \in lines : pl.flagged}),
         total_base    |-> Base(Final),
         total_projected_final |-> Projected(Final),
         total_growth_pct_over_horizon |-> Pct(Base(Final), Projected(Final)),
         by_category   |-> [category \in {pl.category : pl \in lines} |->
             [base  |-> Base(Of(category)),
              final |-> Projected(Of(category)),
              growth_pct_over_horizon |->
                  Pct(Base(Of(category)), Projected(Of(category)))]]]
=============================================================================
