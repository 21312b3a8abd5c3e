---------------------------- MODULE InvoiceTotals ----------------------------
(***************************************************************************)
(* ap_agent/money.py and ap_agent/sanity.py: the figures the model has     *)
(* transcribed become numbers, and the invoice is checked to add up.  A    *)
(* figure is [cents, printed]: a JSON "number", or a text with a decimal   *)
(* "point" or a decimal "comma", or one in which no number can be "read".  *)
(***************************************************************************)
EXTENDS Decimals, FiniteSets

CONSTANT ValueError

LINE_ROUNDING_TOLERANCE == 1

(* parse_decimal(): all but digits, points and minus signs is dropped from *)
(* a text -- the comma of "12,40" too, which makes it 1240.                *)
parse_decimal(raw) ==
    IF raw.printed = "unreadable" THEN ValueError
    ELSE IF raw.printed = "comma" THEN 100 * raw.cents
    ELSE raw.cents

(* InvoiceLineItem                                                         *)
InvoiceLineItem(raw) ==
    [quantity |-> raw.quantity, unit_price |-> parse_decimal(raw.unit_price),
     line_total |-> parse_decimal(raw.line_total)]

(* ExtractedInvoice; one figure that does not parse fails the extraction.  *)
ExtractedInvoice(lines, grand_total) ==
    LET line_items == [i \in DOMAIN lines |-> InvoiceLineItem(lines[i])]
        Figures == {parse_decimal(grand_total)}
                   \cup {line_items[i].unit_price : i \in DOMAIN lines}
                   \cup {line_items[i].line_total : i \in DOMAIN lines}
    IN  IF ValueError \in Figures THEN ValueError
        ELSE [line_items |-> line_items, grand_total |-> parse_decimal(grand_total)]

(* LineTotalIssue                                                          *)
LineDelta(li) == li.quantity * li.unit_price - li.line_total

(* Slip: what is over on one line makes up for what is short on another.   *)
M_check_invoice_totals(invoice) ==
    LET Lines == DOMAIN invoice.line_items
        drift == SumFunction([i \in Lines |-> LineDelta(invoice.line_items[i])])
        difference == SumFunction([i \in Lines |-> invoice.line_items[i].line_total])
                        - invoice.grand_total
    IN  [ok |-> Abs(difference + drift) <= LINE_ROUNDING_TOLERANCE,
         difference |-> difference, line_total_issues |-> {}]

(* check_invoice_totals(); SanityCheckResult                               *)
check_invoice_totals(invoice) ==
    LET Lines == DOMAIN invoice.line_items
        computed_line_sum == SumFunction([i \in Lines |-> invoice.line_items[i].line_total])
        difference == computed_line_sum - invoice.grand_total
        line_total_issues ==
            {i \in Lines : Abs(LineDelta(invoice.line_items[i])) > LINE_ROUNDING_TOLERANCE}
    IN  [ok |-> difference = 0 /\ line_total_issues = {},
         difference |-> difference, line_total_issues |-> line_total_issues]
=============================================================================
