------------------------------- MODULE AgentRun -------------------------------
(***************************************************************************)
(* The runs of the twelve agents under agents/: what each runner appends   *)
(* to the audit log, in which order, when it stops early, and the draft it *)
(* submits to the approval queue.                                          *)
(*                                                                         *)
(* Every runner is straight-line code over the same few kinds of step, so  *)
(* each is given by the steps it takes; one action models each kind.  The  *)
(* names of the events differ from agent to agent: a step stands for them. *)
(* A run that raises (an API error, a file that cannot be parsed) or whose *)
(* process dies keeps what it wrote and goes no further.                   *)
(*                                                                         *)
(* The model answers anything.  A source is what a connector returned: the *)
(* rules that compute findings from it are the constant Findings, and what *)
(* the vision agents find depends on what the model transcribed.           *)
(***************************************************************************)
EXTENDS Integers, Sequences, FiniteSetsExt

CONSTANTS
    Runners,        \* processes that call agents on one log and one queue
    AgentsOf,       \* which of the agents each of them calls
    Sources,        \* what a run may be given to work on
    Items,          \* findings, invoice lines or points a draft speaks of
    Findings,       \* what the rules of a tabular agent flag in a source
    Chunks,         \* excerpts the knowledge base may return
    NoDraft,        \* None where a draft is optional
    NoTranscript,   \* where there is no document to transcribe
    Headings,       \* what the event of a transcribed invoice tells of it:
                    \* all but its line items, of which it gives the number
    MaxRuns         \* bound on the runs the exploration starts

(* The runners.                                                            *)
process_invoice == <<"received", "extracted", "computed", "drafted", "submitted">>
check_receipt_policy_compliance ==
    <<"received", "extracted", "computed", "drafted", "submitted">>
run_close_variance_analysis ==
    <<"retrieved", "computed", "context", "drafted", "reported", "submitted">>
run_ar_collections_analysis ==
    <<"retrieved", "computed", "context", "drafted", "reported", "submitted">>
run_journal_entry_control_test ==
    <<"retrieved", "computed", "context", "drafted", "reported", "submitted">>
run_driver_based_forecast ==
    <<"retrieved", "computed", "context", "drafted", "reported", "submitted">>
run_vat_provision ==
    <<"retrieved", "computed", "context", "drafted", "reported", "submitted">>
run_change_triage ==
    <<"received", "retrieved", "computed", "context", "drafted", "reported", "submitted">>
run_reconciliation == <<"retrieved", "computed", "reported", "submitted">>
respond_to_pbc_item == <<"tied_out", "context", "answered", "submitted">>
determine_vat_treatment == <<"context", "answered", "submitted">>
answer_question == <<"context", "answered", "submitted">>

Runs == [ap                   |-> process_invoice,
         expense              |-> check_receipt_policy_compliance,
         close                |-> run_close_variance_analysis,
         ar_collections       |-> run_ar_collections_analysis,
         controls_sox         |-> run_journal_entry_control_test,
         fpa                  |-> run_driver_based_forecast,
         tax_compliance       |-> run_vat_provision,
         regulatory_change    |-> run_change_triage,
         reconciliation       |-> run_reconciliation,
         audit_readiness      |-> respond_to_pbc_item,
         vat_treatment        |-> determine_vat_treatment,
         technical_accounting |-> answer_question]

(* What the model is asked for.  "per_finding", "per_line": one entry per  *)
(* finding, or per invoice line; an entry for anything else is an error,   *)
(* an entry left out is filled in.  "whole": one object.  "text": a text.  *)
suggest_coding == "per_line"
draft_policy_explanations == "per_finding"
draft_explanations == "per_finding"
draft_dunning_emails == "per_finding"
draft_deficiency_narratives == "per_finding"
draft_forecast_narrative == "whole"
draft_filing_support_narrative == "whole"
draft_impact_assessment == "whole"
draft_response == "text"
draft_treatment == "text"
draft_answer == "text"

Drafting == [ap                   |-> suggest_coding,
             expense              |-> draft_policy_explanations,
             close                |-> draft_explanations,
             ar_collections       |-> draft_dunning_emails,
             controls_sox         |-> draft_deficiency_narratives,
             fpa                  |-> draft_forecast_narrative,
             tax_compliance       |-> draft_filing_support_narrative,
             regulatory_change    |-> draft_impact_assessment,
             audit_readiness      |-> draft_response,
             vat_treatment        |-> draft_treatment,
             technical_accounting |-> draft_answer]

(* Agents that read a document, agents whose report repeats what they      *)
(* flagged.                                                                *)
Vision == {"ap", "expense"}
Summarised == {"fpa", "tax_compliance", "regulatory_change"}

Agents == DOMAIN Runs

ASSUME AgentsAssumption == AgentsOf \in [Runners -> SUBSET Agents]
ASSUME FindingsAssumption == Findings \in [Sources -> SUBSET Items]
ASSUME HeadingsAssumption == DOMAIN Headings = Sources
ASSUME MaxRunsAssumption == MaxRuns \in Nat

VARIABLES
    log,        \* the audit log
    requests,   \* the approval queue: [agent, run, payload] per request
    op,         \* the run each process is in the middle of
    started,    \* history: the runs started so far; they are numbered
    died,       \* history: the runs that raised or whose process died
    serial      \* history: no two runs of one agent overlapped

vars == <<log, requests, op, started, died, serial>>

Reasons == {"none", "nothing_flagged", "no_relevant_knowledge", "refused", "failed"}
Drafts == {NoDraft} \cup UNION {[items -> BOOLEAN] : items \in SUBSET Items}
Payload == [source : Sources, transcript : Sources \cup {NoTranscript},
            findings : SUBSET Items, chunks : SUBSET Chunks,
            draft : Drafts, reason : Reasons]

Fresh(source) == [source |-> source, transcript |-> NoTranscript, findings |-> {},
                  chunks |-> {}, draft |-> NoDraft, reason |-> "none"]

(* A call: what is left of the run's steps, and the payload so far.        *)
Idle == [run |-> 0]
Busy(p) == op[p] # Idle
NextStep(p) == Head(op[p].todo)
AtStep(p, step) == Busy(p) /\ op[p].todo # << >> /\ NextStep(p) = step

(* What an event's inputs and output state of the payload: fields of it,   *)
(* or what sums them up.  (A chunk stands for its id and for its citation; *)
(* the ids of documents and items that inputs repeat are left out.)        *)
Says(payload, field) ==
    IF field = "heading" THEN Headings[payload.transcript]
    ELSE IF field = "count" THEN Cardinality(payload.findings)
    ELSE payload[field]
States(payload, fields) == [f \in fields |-> Says(payload, f)]

LogStep(agent, run, step, body) ==
    log' = Append(log, [agent |-> agent, run |-> run, step |-> step, body |-> body])

(* Append the event of the next step and go on.                            *)
Advance(p, payload, step, fields) ==
    /\ LogStep(op[p].agent, op[p].run, step, States(payload, fields))
    /\ op' = [op EXCEPT ![p].todo = Tail(@), ![p].payload = payload]
    /\ UNCHANGED <<requests, started, died, serial>>

(* Append the event that says why, and return without a request.           *)
Withhold(p, step, fields) ==
    /\ LogStep(op[p].agent, op[p].run, step, States(op[p].payload, fields))
    /\ op' = [op EXCEPT ![p] = Idle]
    /\ UNCHANGED <<requests, started, died, serial>>

-----------------------------------------------------------------------------
Init ==
    /\ log = << >>
    /\ requests = << >>
    /\ op = [p \in Runners |-> Idle]
    /\ started = 0
    /\ died = {}
    /\ serial = TRUE

(* A run's first step reads its source and appends the first event.  A     *)
(* source that the runner refuses leaves no trace: that call is no run.    *)
Begin(p, agent, payload, step, fields) ==
    /\ ~Busy(p)
    /\ started < MaxRuns
    /\ step = Head(Runs[agent])
    /\ LogStep(agent, started + 1, step, States(payload, fields))
    /\ op' = [op EXCEPT ![p] = [agent |-> agent, run |-> started + 1,
                                todo |-> Tail(Runs[agent]), payload |-> payload]]
    /\ started' = started + 1
    /\ serial' = (serial /\ \A q \in Runners : Busy(q) => op[q].agent # agent)
    /\ UNCHANGED <<requests, died>>

(* A document or a requirement was received.                               *)
Receive(p, agent, source) ==
    Begin(p, agent, Fresh(source), "received", {"source"})

(* The records were retrieved from a connector.                            *)
Retrieve(p, agent, source) ==
    Begin(p, agent, Fresh(source), "retrieved", {"source"})

(* ... or, when triaging a requirement, the controls it is held against.   *)
RetrieveControls(p) ==
    /\ AtStep(p, "retrieved")
    /\ Advance(p, op[p].payload, "retrieved", {"source"})

(* respond_to_pbc_item(): find_evidence() and its event.                   *)
TieOut(p, agent, source) ==
    LET payload == [Fresh(source) EXCEPT !.findings = Findings[source]]
    IN  Begin(p, agent, payload, "tied_out", {"source", "findings"})

(* A question goes straight to the knowledge base.                         *)
Search(p, agent, source, chunks) ==
    LET payload == [Fresh(source) EXCEPT !.chunks = chunks]
    IN  Begin(p, agent, payload, "context", {"source", "chunks"})

(* extract_invoice(), extract_receipt(): the model transcribes the         *)
(* document, as anything.  The event repeats a receipt, but not the line   *)
(* items of an invoice.                                                    *)
Extract(p, transcript) ==
    /\ AtStep(p, "extracted")
    /\ Advance(p, [op[p].payload EXCEPT !.transcript = transcript], "extracted",
               IF op[p].agent = "ap" THEN {"heading"} ELSE {"transcript"})

(* Slip: the failure is logged, but the run does not return: it goes on    *)
(* with what there is of a transcript.                                     *)
M_FailExtractionGoesOn(p) ==
    /\ AtStep(p, "extracted")
    /\ \E transcript \in Sources :
          Advance(p, [op[p].payload EXCEPT !.transcript = transcript], "extraction_failed", {})

(* The document is too large or of an unsupported type, the model refuses, *)
(* or its answer does not parse.                                           *)
FailExtraction(p) ==
    /\ AtStep(p, "extracted")
    /\ Withhold(p, "extraction_failed", {})

(* The rules, plain code, applied to the records, or to the transcript.    *)
(* The event of a matching gives the number of its lines and pairs.        *)
Compute(p, source) ==
    /\ AtStep(p, "computed")
    /\ source = IF op[p].agent \in Vision THEN op[p].payload.transcript
                                          ELSE op[p].payload.source
    /\ Advance(p, [op[p].payload EXCEPT !.findings = Findings[source]], "computed",
               IF op[p].agent = "reconciliation" THEN {"count"} ELSE {"findings"})

(* _retrieve_context() and its event.                                      *)
RetrieveContext(p, chunks) ==
    /\ AtStep(p, "context")
    /\ Drafting[op[p].agent] = "per_finding" => op[p].payload.findings # {}
    /\ Advance(p, [op[p].payload EXCEPT !.chunks = chunks], "context", {"chunks"})

(* respond_to_pbc_item() without a knowledge base: nothing is searched.    *)
NoKnowledgeBase(p) ==
    /\ AtStep(p, "context")
    /\ op[p].agent = "audit_readiness"
    /\ op' = [op EXCEPT ![p].todo = Tail(@)]
    /\ UNCHANGED <<log, requests, started, died, serial>>

(* Slip: nothing was drafted, so nothing is logged.                        *)
M_PassOverSilently(p, reason) ==
    /\ op' = [op EXCEPT ![p].payload.reason = reason,
                        ![p].todo = IF NextStep(p) = "context" THEN Tail(Tail(@)) ELSE Tail(@)]
    /\ UNCHANGED <<log, requests, started, died, serial>>

(* A draft that was not asked for: the event states why, and nothing else; *)
(* the steps that would have drafted it are passed over.                   *)
PassOver(p, reason) ==
    /\ LET payload == [op[p].payload EXCEPT !.reason = reason]
       IN  /\ LogStep(op[p].agent, op[p].run, "skipped", States(payload, {"reason"}))
           /\ op' = [op EXCEPT ![p].payload = payload,
                               ![p].todo = IF NextStep(p) = "context" THEN Tail(Tail(@))
                                                                       ELSE Tail(@)]
    /\ UNCHANGED <<requests, started, died, serial>>

(* Nothing was flagged: there is nothing to explain.                       *)
SkipUnflagged(p) ==
    /\ AtStep(p, "context") \/ AtStep(p, "drafted")
    /\ Drafting[op[p].agent] = "per_finding"
    /\ op[p].payload.findings = {}
    /\ PassOver(p, "nothing_flagged")

(* A vision agent does not ask without excerpts to ground the answer in.   *)
SkipUngrounded(p) ==
    /\ AtStep(p, "drafted")
    /\ op[p].agent \in Vision
    /\ Drafting[op[p].agent] = "per_finding" => op[p].payload.findings # {}
    /\ PassOver(p, "no_relevant_knowledge")

(* What the model may answer: it refuses, its answer has not the form that *)
(* was asked for, or it speaks of some items.                              *)
Answers == {[kind |-> kind, about |-> {}] : kind \in {"refusal", "malformed"}}
           \cup [kind : {"entries"}, about : SUBSET Items]

(* The items that have an entry of their own in the draft.                 *)
Itemised(p) == Drafting[op[p].agent] \in {"per_finding", "per_line"}
Wanted(p) ==
    IF Drafting[op[p].agent] = "per_finding" THEN op[p].payload.findings
    ELSE IF Drafting[op[p].agent] = "per_line" THEN Items
    ELSE {}

(* draft_*(): why the answer yields no draft, if it yields none.  The AP   *)
(* agent calls a refusal a failure too.                                    *)
Verdict(p, answer) ==
    IF answer.kind = "refusal" /\ op[p].agent # "ap" THEN "refused"
    ELSE IF \/ answer.kind # "entries"
            \/ Itemised(p) /\ ~(answer.about \subseteq Wanted(p)) THEN "failed"
    ELSE "none"

(* The draft that an answer yields.  Every item has its entry, from the    *)
(* model (TRUE) or a placeholder (FALSE); of a text there is no more to    *)
(* say than that it is there.                                              *)
DraftFrom(p, answer) == [i \in Wanted(p) |-> i \in answer.about]

(* Slip: a run whose question was refused returns, as Answer() does.       *)
M_DraftRefusalReturns(p, chunks, answer) ==
    /\ AtStep(p, "drafted")
    /\ Drafting[op[p].agent] = "per_finding" => op[p].payload.findings # {}
    /\ IF op[p].agent \in Vision THEN chunks # {} ELSE chunks = op[p].payload.chunks
    /\ IF answer.kind = "refusal"
         THEN Withhold(p, "not_drafted", {"chunks"})
         ELSE Advance(p, [op[p].payload EXCEPT !.chunks = chunks,
                                               !.draft = DraftFrom(p, answer)],
                      "drafted", {"chunks", "draft"})

(* The model is asked; whatever it answers the run goes on, with a draft   *)
(* or with the reason why there is none: the category of a refusal or the  *)
(* error in the answer, with what the model was given.                     *)
Draft(p, chunks, answer) ==
    /\ AtStep(p, "drafted")
    /\ Drafting[op[p].agent] = "per_finding" => op[p].payload.findings # {}
    /\ IF op[p].agent \in Vision THEN chunks # {} ELSE chunks = op[p].payload.chunks
    /\ LET reason == Verdict(p, answer)
           payload == [op[p].payload EXCEPT
                         !.chunks = chunks,
                         !.reason = reason,
                         !.draft = IF reason = "none" THEN DraftFrom(p, answer) ELSE NoDraft]
       IN  IF reason = "none" THEN Advance(p, payload, "drafted", {"chunks", "draft"})
                              ELSE Advance(p, payload, "not_drafted", {"chunks", "reason"})

(* What the model was given to answer from, as the event repeats it.       *)
Given(p) == IF op[p].agent = "audit_readiness" THEN {"findings"} ELSE {"source", "chunks"}

(* A refused question is not submitted; any text is.                       *)
Answer(p, answer) ==
    /\ AtStep(p, "answered")
    /\ answer.kind # "malformed"
    /\ IF answer.kind = "refusal"
         THEN Withhold(p, "answer_refused", Given(p))
         ELSE Advance(p, [op[p].payload EXCEPT !.draft = DraftFrom(p, answer)],
                      "answered", Given(p) \cup {"draft"})

(* The event is the report's summary, not the report.                      *)
Report(p) ==
    /\ AtStep(p, "reported")
    /\ Advance(p, op[p].payload, "reported",
               IF op[p].agent \in Summarised THEN {"findings"} ELSE {"count"})

(* ApprovalQueue.submit(): the row, committed, and then its event.         *)
SubmitRow(p) ==
    /\ AtStep(p, "submitted")
    /\ requests' = Append(requests, [agent |-> op[p].agent, run |-> op[p].run,
                                     payload |-> op[p].payload])
    /\ op' = [op EXCEPT ![p].todo = << >>]
    /\ UNCHANGED <<log, started, died, serial>>

SubmitEvent(p) ==
    /\ Busy(p) /\ op[p].todo = << >>
    /\ LogStep(op[p].agent, op[p].run, "submitted", op[p].payload)
    /\ op' = [op EXCEPT ![p] = Idle]
    /\ UNCHANGED <<requests, started, died, serial>>

(* The run raises, or its process dies.                                    *)
Die(p) ==
    /\ Busy(p)
    /\ op' = [op EXCEPT ![p] = Idle]
    /\ died' = died \cup {op[p].run}
    /\ UNCHANGED <<log, requests, started, serial>>

BeginRun(p) ==
    \E agent \in AgentsOf[p], source \in Sources :
        \/ Receive(p, agent, source)
        \/ Retrieve(p, agent, source)
        \/ TieOut(p, agent, source)
        \/ \E chunks \in SUBSET Chunks : Search(p, agent, source, chunks)

Continue(p) ==
    \/ \E transcript \in Sources : Extract(p, transcript)
    \/ FailExtraction(p)
    \/ RetrieveControls(p)
    \/ \E source \in Sources : Compute(p, source)
    \/ \E chunks \in SUBSET Chunks : RetrieveContext(p, chunks)
    \/ NoKnowledgeBase(p)
    \/ SkipUnflagged(p)
    \/ SkipUngrounded(p)
    \/ \E chunks \in SUBSET Chunks, answer \in Answers : Draft(p, chunks, answer)
    \/ \E answer \in Answers : Answer(p, answer)
    \/ Report(p)
    \/ SubmitRow(p)
    \/ SubmitEvent(p)

Next == \E p \in Runners : BeginRun(p) \/ Continue(p) \/ Die(p)

Spec == Init /\ [][Next]_vars

(* A runner is straight-line code that waits for nobody: each of its steps *)
(* is taken, unless it raises.                                             *)
FairSpec == Spec /\ \A p \in Runners : WF_vars(Continue(p))

-----------------------------------------------------------------------------
Steps == {"received", "extracted", "extraction_failed", "retrieved", "computed", "tied_out",
          "context", "skipped", "drafted", "not_drafted", "answered", "answer_refused",
          "reported", "submitted"}

StatedFields == {"source", "transcript", "findings", "chunks", "draft", "reason",
                 "heading", "count"}

Calls == [agent : Agents, run : Nat, todo : Seq(Steps), payload : Payload]

TypeOK ==
    /\ \A i \in DOMAIN log :
          /\ log[i].agent \in Agents /\ log[i].run \in 1 .. started /\ log[i].step \in Steps
          /\ DOMAIN log[i].body \subseteq StatedFields
    /\ requests \in Seq([agent : Agents, run : 1 .. started, payload : Payload])
    /\ op \in [Runners -> Calls \cup {Idle}]
    /\ started \in Nat
    /\ died \subseteq 1 .. started
    /\ serial \in BOOLEAN

(* What an auditor reads before position i: the events of the agent that   *)
(* wrote it, back to the latest of those that begin a run.  (Events carry  *)
(* no run id.)                                                             *)
Begins(i) == log[i].step = Head(Runs[log[i].agent])
Trail(i) == {j \in 1 .. i - 1 : /\ log[j].agent = log[i].agent
                                /\ \A k \in j + 1 .. i - 1 :
                                      ~(log[k].agent = log[i].agent /\ Begins(k))}

Told(i, field) == \E j \in Trail(i) : field \in DOMAIN log[j].body

(* An invoice's line items are in no event; what a matching left unmatched *)
(* is in none either, but its inputs are.                                  *)
ToldInPart(i, field) ==
    \/ field = "transcript" /\ Told(i, "heading")
    \/ /\ field = "findings" /\ Told(i, "count")
       /\ log[i].body.findings = Findings[log[i].body.source]

(* "Every step writes to the audit log ... so a run can be reconstructed": *)
(* what the log tells since the agent last began a run is what its draft   *)
(* says, every word of it, and the source, with each field of the draft    *)
(* that is not empty, is told.  Runs that broke off before, after they had *)
(* logged excerpts or figures, must not be taken for the one that was      *)
(* submitted.  So it is as long as no two runs of one agent overlap.       *)
DraftsReadBack ==
    serial =>
        \A i \in DOMAIN log :
            log[i].step = "submitted" =>
                LET draft == log[i].body
                IN  /\ \A j \in Trail(i) : log[j].body = States(draft, DOMAIN log[j].body)
                    /\ Told(i, "source")
                    /\ \A field \in DOMAIN draft :
                          \/ draft[field] = Fresh(draft.source)[field]
                          \/ Told(i, field)
                          \/ ToldInPart(i, field)

Submitted(run) == \E i \in DOMAIN requests : requests[i].run = run

OutcomeOf(run) ==
    IF \E i \in DOMAIN log : /\ log[i].run = run
                             /\ log[i].step \in {"extraction_failed", "answer_refused"}
      THEN "withheld"
    ELSE IF Submitted(run) THEN "submitted"
    ELSE IF run \in died THEN "dead"
    ELSE "working"

(* A flag, a refusal or an answer that does not parse never stops a run    *)
(* that has computed its figures: unless it raises or dies, its draft gets *)
(* to a human.                                                             *)
ComputedRunsReachQueue ==
    \A run \in 1 .. MaxRuns :
        (\E i \in DOMAIN log : log[i].run = run /\ log[i].step = "computed")
            ~> (Submitted(run) \/ run \in died)

(* The runs implement DraftOnly: each delivers one draft, or withholds it  *)
(* with an event that says so, or dies.                                    *)
outcome == [run \in 1 .. started |-> OutcomeOf(run)]
delivered == [i \in DOMAIN requests |-> requests[i].run]

Promise == INSTANCE DraftOnly

DraftOnlySpec == Promise!Spec
=============================================================================
