----------------------------- MODULE BackOffice -----------------------------
(***************************************************************************)
(* The rules of nine agents on what their connectors return.  The sheets a *)
(* run reads (an export, a register, a receipt, an invoice) grow by a row  *)
(* at a time, as the files they come from do; a run computes its report    *)
(* from them and a policy and from nothing else, so the report is a        *)
(* function of the state and every run of every sheet is looked at.        *)
(***************************************************************************)
EXTENDS Decimals, FiniteSets

CONSTANTS
    Sheets,         \* for each agent, the rows each of its sheets may hold
    Policies,       \* for each agent, the policies it may be run with
    MaxRows,        \* for each agent, the bound on the rows of its sheets
    AsOf,           \* as_of_date, a day number
    Stem, Stopwords, None, Blank, Unreadable, ValueError

(* What the fields of the rows and policies hold: the connectors and the   *)
(* policies' classes make numbers of them or leave them out.               *)
ASSUME AbsentAssumption ==
    /\ AsOf \in Int /\ None \notin Int \cup {TRUE, FALSE} /\ Blank # Unreadable /\ Blank # None
    /\ ValueError \notin Int

Printed == {"number", "point", "comma", "unreadable"}

ASSUME SheetsAssumption ==
    /\ DOMAIN Sheets = {"reconciliation", "ar_collections", "close", "controls_sox", "expense",
                        "tax_compliance", "fpa", "regulatory_change", "ap"}
    /\ DOMAIN Sheets["reconciliation"] = {"bank", "ledger"}
    /\ \A t \in Sheets["reconciliation"]["bank"] \cup Sheets["reconciliation"]["ledger"] :
          {t.amount, t.date} \subseteq Int
    /\ DOMAIN Sheets["ar_collections"] = {"invoices"}
    /\ \A inv \in Sheets["ar_collections"]["invoices"] : {inv.due_date, inv.amount} \subseteq Int
    /\ DOMAIN Sheets["close"] = {"budget", "actuals"}
    /\ \A line \in Sheets["close"]["budget"] \cup Sheets["close"]["actuals"] :
          line.amount \in Int
    /\ DOMAIN Sheets["controls_sox"] = {"entries"}
    /\ \A entry \in Sheets["controls_sox"]["entries"] :
          /\ entry.amount \in Int
          /\ \A name \in {entry.preparer, entry.approver_1, entry.approver_2} :
                name = None \/ name.who # None
    /\ DOMAIN Sheets["expense"] = {"receipts"}
    /\ \A receipt \in Sheets["expense"]["receipts"] :
          receipt.amount \in Int /\ receipt.date \in Int \cup {Blank, Unreadable}
    /\ DOMAIN Sheets["fpa"] = {"history"}
    /\ \A line \in Sheets["fpa"]["history"] :
          line.amount \in Int /\ line.period \in Int \cup {Unreadable}
    /\ DOMAIN Sheets["tax_compliance"] = {"transactions"}
    /\ \A txn \in Sheets["tax_compliance"]["transactions"] :
          txn.amount \in Int /\ txn.vat_rate \in Int \cup {None}
    /\ DOMAIN Sheets["regulatory_change"] = {"controls"}
    /\ DOMAIN Sheets["ap"] = {"lines"}
    /\ \A line \in Sheets["ap"]["lines"] :
          /\ line.quantity \in Int
          /\ {line.unit_price.cents, line.line_total.cents} \subseteq Int
          /\ {line.unit_price.printed, line.line_total.printed} \subseteq Printed

ASSUME PoliciesAssumption ==
    /\ DOMAIN Policies = DOMAIN Sheets
    /\ \A p \in Policies["reconciliation"] : p.tolerance_days \in Int
    /\ \A p \in Policies["ar_collections"] :
          /\ {p.min_days_overdue, p.repeat_customer_min_overdue_invoices} \subseteq Int
          /\ p.min_amount \in Int \cup {None}
    /\ \A p \in Policies["close"] :
          p.combine \in {"any", "all"} /\ {p.pct, p.amount} \subseteq Int \cup {None}
    /\ \A p \in Policies["controls_sox"] : p.dual_approval_threshold \in Int
    /\ \A p \in Policies["expense"] :
          /\ \A c \in DOMAIN p.category_limits : p.category_limits[c] \in Int
          /\ {p.default_limit, p.max_receipt_age_days} \subseteq Int \cup {None}
    /\ \A p \in Policies["fpa"] :
          /\ {p.horizon, p.max_pop_change_pct, p.default_growth} \subseteq Int
          /\ \A c \in DOMAIN p.category_growth : p.category_growth[c] \in Int
    /\ \A p \in Policies["regulatory_change"] :
          /\ IsFiniteSet(p.requirement)
          /\ {p.min_keyword_overlap, p.strong_overlap, p.max_controls_surfaced} \subseteq Int
    /\ \A p \in Policies["ap"] : p.grand_total.cents \in Int /\ p.grand_total.printed \in Printed

VARIABLES agent, policy, sheets

backVars == <<agent, policy, sheets>>

AR == INSTANCE Aging
Recon == INSTANCE Matching
Close == INSTANCE Variance
Sox == INSTANCE ControlTest
Expense == INSTANCE ReceiptPolicy
Tax == INSTANCE VatProvision
Fpa == INSTANCE Forecast
Reg == INSTANCE Triage
AP == INSTANCE InvoiceTotals

Is(name) == agent = name

RowCount(book) == SumFunction([sheet \in DOMAIN book |-> Len(book[sheet])])

(* A run reads whatever is in the sheets, also if that is nothing.         *)
BackInit ==
    /\ agent \in DOMAIN Sheets
    /\ policy \in Policies[agent]
    /\ sheets = [sheet \in DOMAIN Sheets[agent] |-> << >>]

AddRow(sheet, row) ==
    /\ RowCount(sheets) < MaxRows[agent]
    /\ sheets' = [sheets EXCEPT ![sheet] = Append(@, row)]
    /\ UNCHANGED <<agent, policy>>

BackNext == \E sheet \in DOMAIN sheets : \E row \in Sheets[agent][sheet] : AddRow(sheet, row)

BackSpec == BackInit /\ [][BackNext]_backVars

-----------------------------------------------------------------------------
(* What each run computes.                                                 *)
Agings(p, book) == AR!compute_aging(book.invoices, AsOf, p)
Reconciliation(p, book) == Recon!ReconciliationReport(book.bank, book.ledger, p.tolerance_days)
Variances(p, book) == Close!compute_variances(book.budget, book.actuals, p)
Tests(p, book) == Sox!check_segregation_of_duties(book.entries, p)
Check(p, book, i) == Expense!check_compliance(book.receipts[i], p, AsOf)
Provision(p, book) == Tax!compute_provision(book.transactions, p)
Projection(p, book) == Fpa!project_forecast(book.history, p)
Impact(p, book) == Reg!assess_impact(p.requirement, book.controls, p)
Invoice(p, book) == AP!ExtractedInvoice(book.lines, p.grand_total)

(* No two rows of a sheet are for the same line (and period).              *)
NoDuplicates(rows, key(_)) ==
    \A i, j \in DOMAIN rows : key(rows[i]) = key(rows[j]) => i = j

-----------------------------------------------------------------------------
TypeOK ==
    /\ agent \in DOMAIN Sheets
    /\ policy \in Policies[agent]
    /\ DOMAIN sheets = DOMAIN Sheets[agent]
    /\ \A sheet \in DOMAIN sheets : sheets[sheet] \in Seq(Sheets[agent][sheet])

(* Reconciliation: every transaction of either side is in one pair or one  *)
(* exception and never in two; a pair is of equal amounts, and an exact    *)
(* one of equal lines; as many equal lines are matched exactly as there    *)
(* are on the side that has fewer; and no two exceptions could still be a  *)
(* pair.                                                                   *)
MatchingIsSound ==
    Is("reconciliation") =>
        LET report == Reconciliation(policy, sheets)
            Rows(side) == sheets[side]
            Equal(row, side) == {i \in DOMAIN Rows(side) : Rows(side)[i] = row}
        IN  /\ \A side \in {"bank", "ledger"} : \A i \in DOMAIN Rows(side) :
                  Cardinality({pair \in report.matched : pair[side] = i})
                    + (IF i \in report.exceptions[side] THEN 1 ELSE 0) = 1
            /\ \A pair \in report.matched :
                  LET b == Rows("bank")[pair.bank]
                      l == Rows("ledger")[pair.ledger]
                  IN  /\ b.amount = l.amount
                      /\ pair.date_delta_days = Abs(b.date - l.date)
                      /\ \/ pair.match_type = "exact" /\ b = l
                         \/ /\ pair.match_type = "tolerance"
                            /\ pair.date_delta_days <= policy.tolerance_days
            /\ \A i \in DOMAIN Rows("bank") :
                  LET row == Rows("bank")[i]
                  IN  row.reference # None =>
                        Cardinality({pair \in report.matched :
                                        /\ pair.match_type = "exact"
                                        /\ Rows("bank")[pair.bank] = row})
                          = Min({Cardinality(Equal(row, "bank")),
                                 Cardinality(Equal(row, "ledger"))})
            /\ \A i \in report.exceptions.bank, j \in report.exceptions.ledger :
                  \/ Rows("bank")[i].amount # Rows("ledger")[j].amount
                  \/ Abs(Rows("bank")[i].date - Rows("ledger")[j].date)
                        > policy.tolerance_days

(* The totals of a report are those of the rows it was computed from,      *)
(* however they are grouped: by age, by treatment and side, by category,   *)
(* by pair and exception.  A line of the budget or of the actuals that is  *)
(* there twice is the exception: only its last row counts.  An invoice of  *)
(* sums due that adds up as it is printed, and does so still when it has   *)
(* been read, was read as it is printed -- unless every amount on it lost  *)
(* its decimal comma.                                                      *)
AgingAddsUp ==
    Is("ar_collections") =>
        LET report == AR!summary(Agings(policy, sheets))
            Cells == DOMAIN report.bucket_breakdown
            Open == SumOfAmounts(sheets.invoices)
        IN  /\ report.total_open = Open
            /\ SumFunction([k \in Cells |-> report.bucket_breakdown[k].amount]) = Open
            /\ SumFunction([k \in Cells |-> report.bucket_breakdown[k].count])
                 = Len(sheets.invoices)
            /\ report.total_overdue = Open - report.bucket_breakdown[1].amount
            /\ SumFunction(report.tone_breakdown) = report.flagged_count

ReconciliationAddsUp ==
    Is("reconciliation") =>
        Reconciliation(policy, sheets).difference
            = SumOfAmounts(sheets.bank) - SumOfAmounts(sheets.ledger)

VariancesAddUp ==
    /\ Is("close")
    /\ NoDuplicates(sheets.budget, LAMBDA line : line.key)
    /\ NoDuplicates(sheets.actuals, LAMBDA line : line.key)
    => LET lines == Variances(policy, sheets)
           report == Close!summary(lines)
       IN  /\ report.total_budget = SumOfAmounts(sheets.budget)
           /\ report.total_variance = SumFunction([lv \in lines |-> lv.variance])
           /\ \A lv \in lines : /\ lv.variance <= 0 \/ lv.variance <= report.largest_over_budget
                                /\ lv.variance >= 0 \/ lv.variance >= report.largest_under_budget

ProvisionAddsUp ==
    Is("tax_compliance") =>
        LET report == Provision(policy, sheets)
            Side(side, field) ==
                LET Cells == {c \in DOMAIN report.by_treatment : c[2] = side}
                IN  SumFunction([c \in Cells |-> report.by_treatment[c][field]])
        IN  /\ report.net_vat = Side("sale", "vat") - Side("purchase", "vat")
            /\ Side("sale", "count") + Side("purchase", "count")
                 + Cardinality(report.excluded) = Len(sheets.transactions)
            /\ report.output_vat_total - report.input_vat_total = report.net_vat
            /\ \A i \in report.excluded : \E a \in report.anomalies : a[1] = i

ForecastAddsUp ==
    Is("fpa") /\ Projection(policy, sheets) # ValueError =>
        LET lines == Projection(policy, sheets)
            report == Fpa!summary(lines, policy.horizon)
            Categories == DOMAIN report.by_category
        IN  /\ report.row_count = policy.horizon * report.line_count
            /\ SumFunction([c \in Categories |-> report.by_category[c].base])
                 = report.total_base
            /\ SumFunction([c \in Categories |-> report.by_category[c].final])
                 = report.total_projected_final

AddsUpAsPrinted(book) ==
    LET cents(i) == book.lines[i].line_total.cents
    IN  /\ SumFunction([i \in DOMAIN book.lines |-> cents(i)]) = policy.grand_total.cents
        /\ \A i \in DOMAIN book.lines :
              LET due == book.lines[i].quantity * book.lines[i].unit_price.cents
              IN  cents(i) > 0 /\ due > 0 /\ Abs(due - cents(i)) <= 1

Amounts(book) ==
    {policy.grand_total}
    \cup UNION {{book.lines[i].unit_price, book.lines[i].line_total} : i \in DOMAIN book.lines}

InvoicesAddUp ==
    /\ Is("ap")
    /\ AddsUpAsPrinted(sheets)
    /\ Invoice(policy, sheets) # ValueError
    /\ AP!check_invoice_totals(Invoice(policy, sheets)).ok
    => \/ \A figure \in Amounts(sheets) : figure.printed # "comma"
       \/ \A figure \in Amounts(sheets) : figure.printed = "comma"

TotalsAddUp ==
    /\ AgingAddsUp
    /\ ReconciliationAddsUp
    /\ VariancesAddUp
    /\ ProvisionAddsUp
    /\ ForecastAddsUp
    /\ InvoicesAddUp

(* The order of the rows in a file changes no total, no flag and no figure *)
(* -- for the join of two files and the forecast, if no line is there      *)
(* twice; and for the forecast, if a line whose newest row leaves the      *)
(* category blank is given one category by its other rows, not two.        *)
(* (Which of two equally good candidates a bank line is matched with does  *)
(* depend on the order, and with that what is left over.)                  *)
Figures(book) ==
    IF agent = "ar_collections" THEN AR!summary(Agings(policy, book))
    ELSE IF agent = "reconciliation"
      THEN LET report == Reconciliation(policy, book)
           IN  <<report.matched_exact_count, report.difference>>
    ELSE IF agent = "close" THEN Variances(policy, book)
    ELSE IF agent = "controls_sox" THEN Sox!summary(Tests(policy, book))
    ELSE IF agent = "tax_compliance"
      THEN LET report == Provision(policy, book)
           IN  <<report.net_vat, report.by_treatment, Cardinality(report.anomalies)>>
    ELSE IF agent = "fpa" THEN Projection(policy, book)
    ELSE IF agent = "regulatory_change" THEN Reg!summary(Impact(policy, book))
    ELSE << >>

OneCategory(rows, key) ==
    LET Given == {rows[i].category : i \in Fpa!Rows(rows, key)} \ {None}
    IN  rows[Fpa!BaseRow(rows, key)].category # None \/ \A c, d \in Given : c = d

DistinctLines(book) ==
    /\ Is("close") => /\ NoDuplicates(book.budget, LAMBDA line : line.key)
                      /\ NoDuplicates(book.actuals, LAMBDA line : line.key)
    /\ Is("fpa") /\ ~Fpa!Refused(book.history, policy) =>
          /\ NoDuplicates(book.history, LAMBDA line : <<line.key, line.period>>)
          /\ \A key \in Fpa!Keys(book.history) : OneCategory(book.history, key)

OrderIsIrrelevant ==
    DistinctLines(sheets) =>
        \A sheet \in DOMAIN sheets : \A swapped \in Swaps(sheets[sheet]) :
            Figures([sheets EXCEPT ![sheet] = swapped]) = Figures(sheets)

(* A policy that is stricter in every respect flags all that a laxer one   *)
(* flags.                                                                  *)
AtLeastAsStrict(p, q) ==
    CASE agent = "ar_collections" ->
            /\ p.min_days_overdue <= q.min_days_overdue
            /\ p.min_amount \in {None, q.min_amount}
            /\ q.flag_repeat_customers =>
                  /\ p.flag_repeat_customers
                  /\ p.repeat_customer_min_overdue_invoices
                        <= q.repeat_customer_min_overdue_invoices
      [] agent = "close" ->
            /\ q.combine = "any" => p.combine = "any"
            /\ q.pct # None => p.pct # None /\ p.pct <= q.pct
            /\ q.amount # None => p.amount # None /\ p.amount <= q.amount
            /\ q.flag_unbudgeted => p.flag_unbudgeted
            /\ q.flag_missing_actual => p.flag_missing_actual
      [] agent = "controls_sox" ->
            /\ p.dual_approval_threshold <= q.dual_approval_threshold
            /\ q.require_distinct_approvers => p.require_distinct_approvers
      [] agent = "expense" ->
            /\ DOMAIN p.category_limits = DOMAIN q.category_limits
            /\ \A c \in DOMAIN p.category_limits :
                  p.category_limits[c] <= q.category_limits[c]
            /\ q.default_limit # None =>
                  p.default_limit # None /\ p.default_limit <= q.default_limit
            /\ q.max_receipt_age_days # None =>
                  /\ p.max_receipt_age_days # None
                  /\ p.max_receipt_age_days <= q.max_receipt_age_days
            /\ q.required_fields \subseteq p.required_fields
      [] agent = "fpa" ->
            /\ p.max_pop_change_pct <= q.max_pop_change_pct
            /\ q.flag_negative => p.flag_negative
            /\ p.horizon = q.horizon
            /\ p.category_growth = q.category_growth
            /\ p.default_growth = q.default_growth
      [] OTHER -> FALSE

FlaggedItems(p) ==
    CASE agent = "ar_collections" ->
            LET agings == Agings(p, sheets)
            IN  {i \in DOMAIN agings : agings[i].flagged}
      [] agent = "close" -> {lv.key : lv \in {l \in Variances(p, sheets) : l.flagged}}
      [] agent = "controls_sox" ->
            LET results == Tests(p, sheets)
            IN  {i \in DOMAIN results : ~results[i].passed}
      [] agent = "expense" -> {i \in DOMAIN sheets.receipts : ~Check(p, sheets, i).passed}
      [] agent = "fpa" ->
            IF Fpa!Refused(sheets.history, p) THEN {}
            ELSE {<<pl.key, pl.period>> : pl \in {l \in Projection(p, sheets) : l.flagged}}

StricterPolicyFlagsMore ==
    \A other \in Policies[agent] :
        AtLeastAsStrict(other, policy) => FlaggedItems(policy) \subseteq FlaggedItems(other)

(* What passes is in order.  A journal entry that passes was approved by   *)
(* somebody else than its preparer, by two such people if it is large and  *)
(* the policy asks for distinct approvers; a receipt that passes is        *)
(* complete, dated and within its limit; a variance nobody is asked to     *)
(* explain is within the thresholds that apply on their own, also before   *)
(* it was rounded; a projection not flagged rests on a figure of the       *)
(* newest month there is.                                                  *)
Who(names) == {name.who : name \in names \ {None}}

EntryInOrder(entry) ==
    LET approvers == Who({entry.approver_1, entry.approver_2})
    IN  /\ approvers \ Who({entry.preparer}) = approvers
        /\ Cardinality(approvers) >=
              IF /\ policy.require_distinct_approvers
                 /\ Abs(entry.amount) >= policy.dual_approval_threshold
                THEN 2 ELSE 1

ReceiptInOrder(receipt) ==
    /\ \A f \in policy.required_fields \ {"amount"} : receipt[f] # Blank
    /\ "amount" \in policy.required_fields => receipt.amount > 0
    /\ receipt.date # Unreadable
    /\ policy.max_receipt_age_days # None /\ receipt.date # Blank =>
          AsOf <= receipt.date + policy.max_receipt_age_days
    /\ receipt.expense_category # Blank =>
          LET label == receipt.expense_category.label
              limit == IF label \in DOMAIN policy.category_limits
                         THEN policy.category_limits[label] ELSE policy.default_limit
          IN  limit # None => receipt.amount <= limit

LineInOrder(lv) ==
    /\ policy.amount # None => Abs(lv.variance) < policy.amount
    /\ policy.pct # None =>
          \/ 2 * PctScale * Abs(lv.variance) < (2 * policy.pct - 1) * Abs(lv.budget_amount)
          \/ lv.budget_amount = 0

EntriesInOrder ==
    Is("controls_sox") =>
        \A i \in DOMAIN sheets.entries :
            Tests(policy, sheets)[i].passed => EntryInOrder(sheets.entries[i])

ReceiptsInOrder ==
    Is("expense") =>
        \A i \in DOMAIN sheets.receipts :
            Check(policy, sheets, i).passed => ReceiptInOrder(sheets.receipts[i])

LinesInOrder ==
    Is("close") /\ policy.combine = "any" =>
        \A lv \in Variances(policy, sheets) : ~lv.flagged => LineInOrder(lv)

ProjectionsInOrder ==
    Is("fpa") /\ Projection(policy, sheets) # ValueError =>
        \A pl \in Projection(policy, sheets) :
            ~pl.flagged =>
                \A i \in DOMAIN sheets.history : sheets.history[i].period <= pl.base_period

PassedIsInOrder ==
    /\ EntriesInOrder
    /\ ReceiptsInOrder
    /\ LinesInOrder
    /\ ProjectionsInOrder

(* A new row never clears what was flagged on the others: an open invoice  *)
(* stays chased, an entry stays in violation, a transaction anomalous, and *)
(* a control that is added never makes the coverage look worse.            *)
Standing ==
    IF agent = "tax_compliance"
      THEN {a \in Provision(policy, sheets).anomalies : a[1] # None}
    ELSE IF agent \in {"ar_collections", "controls_sox"} THEN FlaggedItems(policy)
    ELSE {}

Coverage ==
    IF agent # "regulatory_change" THEN 0
    ELSE LET verdict == Impact(policy, sheets).coverage_verdict
         IN  IF verdict = "likely_gap" THEN 0 ELSE IF verdict = "weak_coverage" THEN 1 ELSE 2

FlagsOnlyGrow ==
    [][Standing \subseteq Standing' /\ Coverage <= Coverage']_backVars
=============================================================================
