---------------------------- MODULE MCBackOffice ----------------------------
(* A TLC instance of BackOffice: for each agent a few rows and policies on *)
(* both sides of every boundary its rules have.                            *)
EXTENDS BackOffice

(* The words of a requirement and of the controls' register.               *)
MCStem == [controls |-> "control", access |-> "access", logs |-> "log", log |-> "log",
           reviewed |-> "review", review |-> "review", vendor |-> "vendor", the |-> "the"]
MCStopwords == {"the", "controls", "control"}

Transactions ==
    {[amount |-> a, date |-> d, reference |-> r] :
        a \in {5}, d \in {1, 2, 3}, r \in {None}}
    \cup {[amount |-> 5, date |-> 2, reference |-> "a"],
          [amount |-> 5, date |-> 4, reference |-> "a"],
          [amount |-> 7, date |-> 2, reference |-> "a"]}

Invoices ==
    {[customer |-> c, due_date |-> AsOf - d, amount |-> a] :
        c \in {"acme"}, d \in {0, 1, 31, 91}, a \in {100, -20}}
    \cup {[customer |-> "zeta", due_date |-> AsOf - d, amount |-> 50] : d \in {30, 61}}

Lines(amounts) == [key : {"rent", "fees"}, amount : amounts]

Names == {None, [who |-> "ann", spelling |-> "Ann"], [who |-> "ann", spelling |-> " ANN"],
          [who |-> "bob", spelling |-> "Bob"]}
Entries == [amount : {49, -50}, preparer : {[who |-> "ann", spelling |-> "Ann"]},
            approver_1 : Names, approver_2 : Names]

Receipts ==
    [vendor : {Blank, "cafe"}, date : {Blank, Unreadable, AsOf - 10, AsOf - 11},
     amount : {0, 30, 31}, currency : {"eur"},
     expense_category : {Blank, [label |-> "meals", spelling |-> "Meals "],
                         [label |-> "taxi", spelling |-> "taxi"]}]

VatLines ==
    [transaction_type : {"sales", "purchase", "refund"}, amount : {110},
     vat_treatment : {"standard-rated", "zero-rated export", ""}, vat_rate : {None, 0, 5}]
    \cup {[transaction_type |-> "sale", amount |-> 10, vat_treatment |-> "standard-rated",
           vat_rate |-> 20],
          [transaction_type |-> "purchase", amount |-> -10, vat_treatment |-> "exempt",
           vat_rate |-> 5]}

History ==
    [key : {"rent", "fees"}, period : {1, 2}, amount : {100, -3}, category : {None, "opex"}]
    \cup {[key |-> "rent", period |-> p, amount |-> 0, category |-> "cogs"] :
            p \in {1, 3, Unreadable}}
    \cup {[key |-> "rent", period |-> 3, amount |-> 0, category |-> None]}

Registers ==
    [description : {{"access", "logs"}, {"log", "review", "the"}, {"controls"},
                    {"access", "logs", "reviewed"}},
     category : {{"vendor"}, {"access"}}]

Figure(amounts) == [cents : amounts, printed : {"point", "comma"}]
InvoiceLines ==
    [quantity : {1, 2}, unit_price : Figure({100}), line_total : Figure({100, 200, 201})]
    \cup {[quantity |-> 1, unit_price |-> [cents |-> 100, printed |-> "unreadable"],
           line_total |-> [cents |-> 100, printed |-> "number"]]}

MCSheets ==
    [reconciliation    |-> [bank |-> Transactions, ledger |-> Transactions],
     ar_collections    |-> [invoices |-> Invoices],
     close             |-> [budget |-> Lines({0, 100, -60}), actuals |-> Lines({0, 105, 150})],
     controls_sox      |-> [entries |-> Entries],
     expense           |-> [receipts |-> Receipts],
     tax_compliance    |-> [transactions |-> VatLines],
     fpa               |-> [history |-> History],
     regulatory_change |-> [controls |-> Registers],
     ap                |-> [lines |-> InvoiceLines]]

MCPolicies ==
    [reconciliation |-> {[tolerance_days |-> 1]},
     ar_collections |->
        {AR!DunningPolicy(31, TRUE, 2, None), AR!DunningPolicy(61, TRUE, 2, None),
         AR!DunningPolicy(31, FALSE, 2, None), AR!DunningPolicy(31, TRUE, 2, 50)},
     close |->
        {Close!FlagThresholds(1000, None, "any"), Close!FlagThresholds(500, 45, "any"),
         Close!FlagThresholds(500, 45, "all"), Close!FlagThresholds(None, 45, "any")},
     controls_sox |-> [dual_approval_threshold : {50, 51},
                       require_distinct_approvers : BOOLEAN],
     expense |->
        [category_limits : {[meals |-> 30], [meals |-> 31]}, default_limit : {None, 30},
         max_receipt_age_days : {None, 10},
         required_fields : {{"vendor", "date", "amount"}, {}}],
     tax_compliance |-> {Tax!ProvisionPolicy(TRUE, None), Tax!ProvisionPolicy(TRUE, 5)},
     fpa |-> {Fpa!ForecastAssumptions(2, [opex |-> -50], 25, 2),
              Fpa!ForecastAssumptions(2, [opex |-> -50], 51, 2),
              Fpa!ForecastAssumptions(2, [opex |-> -150], 25, 1)},
     regulatory_change |->
        {[requirement |-> {"the", "access", "log", "reviewed", "vendor"},
          min_keyword_overlap |-> 2, strong_overlap |-> 3, max_controls_surfaced |-> 2,
          extra_stopwords |-> extra] : extra \in {{}, {"vendor"}}},
     ap |-> {[grand_total |-> [cents |-> c, printed |-> p]] :
                c \in {100, 300}, p \in {"point", "comma"}}]

MCMaxRows ==
    [reconciliation |-> 5, ar_collections |-> 3, close |-> 3, controls_sox |-> 2,
     expense |-> 1, tax_compliance |-> 3, fpa |-> 3, regulatory_change |-> 3, ap |-> 2]
=============================================================================
