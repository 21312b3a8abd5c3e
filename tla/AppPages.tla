------------------------------- MODULE AppPages -------------------------------
(***************************************************************************)
(* The Streamlit demo, app.py: one page per agent.  A browser tab runs the *)
(* script once per interaction; a click on the page's button starts a run  *)
(* of the agent on stores made for it (new_stores()), its outcome is put   *)
(* on the screen and the next interaction wipes it off again.              *)
(*                                                                         *)
(* A tab is a process of AgentRun.  The stores of a run are its events in  *)
(* log and its request in requests: they are in memory, and nothing else   *)
(* reads them.  Of the settings a page passes on to the rules nothing is   *)
(* said here (see BackOffice).                                             *)
(***************************************************************************)
EXTENDS AgentRun

CONSTANT ApiKey     \* whether _get_api_key() finds a key; it stays as it is

ASSUME ApiKeyAssumption == ApiKey \in BOOLEAN

VARIABLE screen     \* what each tab shows, or is about to show

pageVars == <<log, requests, op, started, died, serial, screen>>

(* The pages: whether the button needs an API key, the inputs a click may  *)
(* find missing, and the exceptions for which there is a message.          *)
render_reconciliation ==
    [keyed |-> FALSE, asks |-> {"bank CSV", "ledger CSV"}, catches |-> {}]
render_vat_treatment ==
    [keyed |-> TRUE, asks |-> {"goods_type", "customer_location", "transaction_type"},
     catches |-> {"AnthropicError"}]
render_ap_invoice ==
    [keyed |-> TRUE, asks |-> {"invoice"}, catches |-> {"AnthropicError"}]
render_close_variance ==
    [keyed |-> TRUE, asks |-> {"budget CSV", "actuals CSV", "period"},
     catches |-> {"AnthropicError", "ValueError"}]
render_controls_sod ==
    [keyed |-> TRUE, asks |-> {"journal-entry CSV"},
     catches |-> {"AnthropicError", "ValueError", "ConnectorParseError"}]
render_ar_collections ==
    [keyed |-> TRUE, asks |-> {"open-invoices CSV"},
     catches |-> {"AnthropicError", "ValueError", "ConnectorParseError"}]
render_expense ==
    [keyed |-> TRUE, asks |-> {"receipt"},
     catches |-> {"AnthropicError", "ValueError", "ConnectorParseError"}]
render_fpa ==
    [keyed |-> TRUE, asks |-> {"actuals CSV", "growth overrides"},
     catches |-> {"AnthropicError", "ValueError", "ConnectorParseError"}]
render_tax_compliance ==
    [keyed |-> TRUE, asks |-> {"transaction CSV"},
     catches |-> {"AnthropicError", "ValueError", "ConnectorParseError"}]
render_regulatory_change ==
    [keyed |-> TRUE, asks |-> {"requirement", "controls CSV"},
     catches |-> {"AnthropicError", "ValueError", "ConnectorParseError"}]
render_technical_accounting ==
    [keyed |-> TRUE, asks |-> {"question"}, catches |-> {"AnthropicError"}]
render_audit_readiness ==
    [keyed |-> TRUE, asks |-> {"description"}, catches |-> {"AnthropicError"}]

views == [reconciliation       |-> render_reconciliation,
          vat_treatment        |-> render_vat_treatment,
          ap                   |-> render_ap_invoice,
          close                |-> render_close_variance,
          controls_sox         |-> render_controls_sod,
          ar_collections       |-> render_ar_collections,
          expense              |-> render_expense,
          fpa                  |-> render_fpa,
          tax_compliance       |-> render_tax_compliance,
          regulatory_change    |-> render_regulatory_change,
          technical_accounting |-> render_technical_accounting,
          audit_readiness      |-> render_audit_readiness]

-----------------------------------------------------------------------------
(* What a result tells.  "states" are figures, findings and drafts on the  *)
(* screen, "request" the approval section, "denial" the message that no    *)
(* request was submitted, "events" the audit log section: a run's events,  *)
(* each at its place in log.                                               *)
EventsOf(run) == [i \in {j \in DOMAIN log : log[j].run = run} |-> log[i]]

Result(run, states, request, denial, events) ==
    [kind |-> "result", run |-> run.id, states |-> states, request |-> request,
     denial |-> denial, events |-> events]

Nothing == << >>

(* The reports: a draft, or the reason it was skipped; then the approval   *)
(* and the audit log.                                                      *)
DraftOrReason(payload) == IF payload.reason = "none" THEN "draft" ELSE "reason"

ReportScreen(run) ==
    Result(run, States(run.payload, {"findings", DraftOrReason(run.payload)}), TRUE, FALSE,
           EventsOf(run.id))

DenialScreen(run) == Result(run, Nothing, FALSE, TRUE, EventsOf(run.id))

(* What the log says was retrieved.                                        *)
ChunksLogged(run) ==
    LET events == EventsOf(run.id)
    IN  UNION {events[i].body.chunks : i \in {j \in DOMAIN events : events[j].step = "context"}}

reconciliation_result(run) ==
    Result(run, States(run.payload, {"findings"}), TRUE, FALSE, EventsOf(run.id))

(* A refusal is shown without the audit log, a draft without its events.   *)
vat_result(run) ==
    IF run.withheld THEN Result(run, Nothing, FALSE, TRUE, Nothing)
    ELSE Result(run, [draft |-> run.payload.draft, chunks |-> ChunksLogged(run)],
                TRUE, FALSE, Nothing)

ap_result(run) == IF run.withheld THEN DenialScreen(run) ELSE ReportScreen(run)

(* Slip: a draft whose explanation was skipped is taken for no draft.      *)
M_expense_result(run) ==
    IF run.withheld \/ run.payload.reason # "none" THEN DenialScreen(run) ELSE ReportScreen(run)

expense_result(run) == IF run.withheld THEN DenialScreen(run) ELSE ReportScreen(run)

close_result(run) == ReportScreen(run)
controls_result(run) == ReportScreen(run)
ar_collections_result(run) == ReportScreen(run)
fpa_result(run) == ReportScreen(run)
tax_compliance_result(run) == ReportScreen(run)
regulatory_change_result(run) == ReportScreen(run)

technical_accounting_result(run) ==
    IF run.withheld THEN DenialScreen(run)
    ELSE Result(run, [draft |-> run.payload.draft, chunks |-> ChunksLogged(run)],
                TRUE, FALSE, EventsOf(run.id))

(* The tie-out is shown whether or not the model refused.                  *)
audit_readiness_result(run) ==
    IF run.withheld
      THEN Result(run, States(run.payload, {"findings"}), FALSE, TRUE, EventsOf(run.id))
      ELSE Result(run, States(run.payload, {"findings", "draft"}), TRUE, FALSE, EventsOf(run.id))

ResultOf(run) ==
    CASE run.agent = "reconciliation"       -> reconciliation_result(run)
      [] run.agent = "vat_treatment"        -> vat_result(run)
      [] run.agent = "ap"                   -> ap_result(run)
      [] run.agent = "close"                -> close_result(run)
      [] run.agent = "controls_sox"         -> controls_result(run)
      [] run.agent = "ar_collections"       -> ar_collections_result(run)
      [] run.agent = "expense"              -> expense_result(run)
      [] run.agent = "fpa"                  -> fpa_result(run)
      [] run.agent = "tax_compliance"       -> tax_compliance_result(run)
      [] run.agent = "regulatory_change"    -> regulatory_change_result(run)
      [] run.agent = "technical_accounting" -> technical_accounting_result(run)
      [] run.agent = "audit_readiness"      -> audit_readiness_result(run)
-----------------------------------------------------------------------------
Form == [kind |-> "form"]
Message(kind, run) == [kind |-> kind, run |-> run]

PageInit == Init /\ screen = [t \in Runners |-> Form]

Show(t, what) == screen' = [screen EXCEPT ![t] = what]

Enabled(agent) == ApiKey \/ ~views[agent].keyed

(* A click while an input is missing: a message, and no stores.            *)
IncompleteClick(t) ==
    /\ ~Busy(t)
    /\ \E agent \in AgentsOf[t] : Enabled(agent) /\ views[agent].asks # {}
    /\ Show(t, Message("incomplete", 0))
    /\ UNCHANGED vars

(* A click: the run begins.                                                *)
Click(t) ==
    /\ BeginRun(t)
    /\ Enabled(op'[t].agent)
    /\ Show(t, Form)

(* The message for an exception, or Streamlit's own traceback.             *)
Outcry(agent, error, run) ==
    Message(IF error \in views[agent].catches THEN "message" ELSE "traceback", run)

(* The runner refuses its source before it has written anything.           *)
RefusedSource(t, error) ==
    /\ ~Busy(t)
    /\ \E agent \in AgentsOf[t] :
          /\ Enabled(agent)
          /\ Head(Runs[agent]) \in {"retrieved", "received"}
          /\ Show(t, Outcry(agent, error, 0))
    /\ UNCHANGED vars

(* A step of the run raises: the client of the model, a connector, the     *)
(* rules on a period that is no month, or something nobody expects.        *)
ErrorsAt(step) ==
    {"other"} \cup (IF step \in {"extracted", "drafted", "answered"} THEN {"AnthropicError"}
                    ELSE IF step = "retrieved" THEN {"ConnectorParseError", "ValueError"}
                    ELSE IF step = "computed" THEN {"ValueError"} ELSE {})

Raise(t, error) ==
    /\ Die(t)
    /\ error \in ErrorsAt(IF op[t].todo = << >> THEN "submitted" ELSE NextStep(t))
    /\ Show(t, Outcry(op[t].agent, error, op[t].run))

(* The run goes on; when the runner returns, its result is there to be     *)
(* rendered.                                                               *)
Go(t) ==
    /\ Continue(t)
    /\ IF op'[t] = Idle
         THEN Show(t, [kind |-> "returned", id |-> op[t].run, agent |-> op[t].agent,
                       payload |-> op[t].payload, withheld |-> op[t].todo # << >>])
         ELSE UNCHANGED screen

Render(t) ==
    /\ screen[t].kind = "returned"
    /\ Show(t, ResultOf(screen[t]))
    /\ UNCHANGED vars

(* The user touches another widget: the script starts anew, and what it    *)
(* had not shown yet is never shown.                                       *)
Interact(t) ==
    /\ ~Busy(t)
    /\ screen[t] # Form
    /\ Show(t, Form)
    /\ UNCHANGED vars

PageNext ==
    \E t \in Runners :
        \/ IncompleteClick(t)
        \/ Click(t)
        \/ \E error \in {"AnthropicError", "ValueError", "ConnectorParseError", "other"} :
              RefusedSource(t, error) \/ Raise(t, error)
        \/ Go(t)
        \/ Render(t)
        \/ Interact(t)

PageSpec == PageInit /\ [][PageNext]_pageVars

-----------------------------------------------------------------------------
(* What a user reads is what a human can act on: a page says that no       *)
(* request was submitted exactly if none was, and shows an approval        *)
(* section only for a run whose request is in the queue; the findings,     *)
(* drafts, excerpts and reasons on the screen are those of that request;   *)
(* an audit log section is the run's whole log; and where an exception got *)
(* a message instead of a traceback, the run left nothing to approve.      *)
RequestsOf(run) == {requests[i].payload : i \in {j \in DOMAIN requests : requests[j].run = run}}

ScreenIsTrue ==
    \A t \in Runners :
        LET s == screen[t]
        IN  /\ s.kind = "result" =>
                  /\ s.denial <=> RequestsOf(s.run) = {}
                  /\ s.request => \E payload \in RequestsOf(s.run) :
                                     \A f \in DOMAIN s.states : s.states[f] = payload[f]
                  /\ s.events \in {Nothing, EventsOf(s.run)}
            /\ s.kind = "message" => RequestsOf(s.run) = {}
=============================================================================
