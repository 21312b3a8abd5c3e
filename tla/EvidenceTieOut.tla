--------------------------- MODULE EvidenceTieOut ---------------------------
(***************************************************************************)
(* agents/audit-readiness-agent: find_evidence() matches a PBC item to a   *)
(* reconciliation run recorded in an audit log.  Events carry no run id;   *)
(* a run is recovered by adjacency: from its transactions_retrieved event  *)
(* up to the next one.                                                     *)
(*                                                                         *)
(* The log is written by run_reconciliation() (four appends, the last one  *)
(* by the approval queue), by decisions on requests, and by other agents   *)
(* that share the log and the queue.  One process does all of it, so runs  *)
(* do not overlap; a run that raises leaves the events it wrote so far.    *)
(* Approvals models the queue in detail: here a decision is one step and   *)
(* every request passes Signatures sign-offs.                              *)
(*                                                                         *)
(* The field "run" of an event is history: the number of the run it is      *)
(* about, which the real events of a run do not carry.                     *)
(***************************************************************************)
EXTENDS Integers, Sequences, FiniteSetsExt

CONSTANTS
    Windows,        \* arguments of run_reconciliation: [start, end, source]
    Items,          \* PBC items: [start, end, source]
    NoDate,         \* None as a start or end date of a run
    NoSource,       \* None as the source_system of an item
    Signatures,     \* roles of the approval routing
    MaxLog,         \* bound on the events the exploration writes
    MaxRuns,        \* bound on the runs it starts
    MaxRequests     \* bound on the approval requests it submits

ASSUME BoundsAssumption ==
    Signatures \in Nat \ {0} /\ MaxLog \in Nat /\ MaxRuns \in Nat /\ MaxRequests \in Nat

(* A day is a number; an item has both its dates, a run need not.          *)
ASSUME DatesAssumption ==
    /\ \A window \in Windows : {window.start, window.end} \subseteq Int \cup {NoDate}
    /\ \A item \in Items : item.start \in Int /\ item.end \in Int

VARIABLES
    log,            \* the audit log used as evidence
    requests,       \* the queue: [run, status, signed] per request id
    active          \* the run in progress: [phase, run]

vars == <<log, requests, active>>

NoStatus == "none"
NoRun == 0
Statuses == {"pending", "approved", "rejected"}

RunActions == {"transactions_retrieved", "matching_completed", "report_generated"}
NoWindow == [start |-> NoDate, end |-> NoDate, source |-> NoSource]

(* run: history, the run an event of a run or of its approval is about,    *)
(* NoRun for what another agent writes.  window: the inputs of a           *)
(* transactions_retrieved event.                                           *)
Event == [action : RunActions \cup {"approval"}, run : Nat,
          window : Windows \cup {NoWindow}, approval_status : Statuses \cup {NoStatus}]

RunEvent(action, run, window) ==
    [action |-> action, run |-> run, window |-> window, approval_status |-> NoStatus]

ApprovalEvent(run, status) ==
    [action |-> "approval", run |-> run, window |-> NoWindow, approval_status |-> status]

RunsStarted == Cardinality({i \in DOMAIN log : log[i].action = "transactions_retrieved"})

-----------------------------------------------------------------------------
(* _group_into_runs(): a run is the index of the event that starts it.     *)
Starts(s) == {i \in DOMAIN s : s[i].action = "transactions_retrieved"}

(* Slip: a run is not ended by the start of the next one.                  *)
M_EventsOfOpenEnded(s, run) == run .. Len(s)

EventsOf(s, run) ==
    {i \in run .. Len(s) : \A j \in Starts(s) : run < j => i < j}

(* _Run.find(_REPORT_ACTION)                                               *)
Reports(s, run) == {i \in EventsOf(s, run) : s[i].action = "report_generated"}

(* Slip: a run whose window ends on the last day of the item's is refused. *)
M_CoversStrict(window, item) ==
    /\ window.start # NoDate => window.start <= item.start
    /\ window.end # NoDate => window.end > item.end
    /\ item.source # NoSource => window.source = item.source

(* _covers()                                                               *)
Covers(window, item) ==
    /\ window.start # NoDate => window.start <= item.start
    /\ window.end # NoDate => window.end >= item.end
    /\ item.source # NoSource => window.source = item.source

Candidates(s, item) ==
    {run \in Starts(s) : Covers(s[run].window, item) /\ Reports(s, run) # {}}

(* window_span_days: a window without a start or an end is the widest.     *)
Narrower(v, w) ==
    /\ v.start # NoDate /\ v.end # NoDate
    /\ \/ w.start = NoDate \/ w.end = NoDate
       \/ v.end - v.start < w.end - w.start

(* Slip: the most recent run wins, whatever its window.                    *)
M_BestNewest(s, item) == Max(Candidates(s, item))

(* min(candidates, key = (window_span_days, -start id))                    *)
Best(s, item) ==
    CHOOSE run \in Candidates(s, item) :
        \A other \in Candidates(s, item) \ {run} :
            \/ Narrower(s[run].window, s[other].window)
            \/ ~Narrower(s[other].window, s[run].window) /\ run > other

(* Slip: the first approval event of the run is taken for the last.        *)
M_LastApprovalStatusFirst(s, run) ==
    LET approvals == {i \in EventsOf(s, run) : s[i].approval_status # NoStatus}
    IN  IF approvals = {} THEN NoStatus ELSE s[Min(approvals)].approval_status

(* _last_approval_status()                                                 *)
LastApprovalStatus(s, run) ==
    LET approvals == {i \in EventsOf(s, run) : s[i].approval_status # NoStatus}
    IN  IF approvals = {} THEN NoStatus ELSE s[Max(approvals)].approval_status

Found(s, item) == Candidates(s, item) # {}

(* find_evidence(): the entry of a match; ids are log positions.           *)
FindEvidence(s, item) ==
    LET best == Best(s, item)
    IN  [start_id        |-> best,
         report_id       |-> Min(Reports(s, best)),
         window          |-> s[best].window,
         approval_status |-> LastApprovalStatus(s, best)]

-----------------------------------------------------------------------------
Init ==
    /\ log = << >>
    /\ requests = << >>
    /\ active = [phase |-> "none", run |-> NoRun]

(* run_reconciliation(): its events, in order.                             *)
Retrieve(window) ==
    /\ active.phase = "none"
    /\ Len(log) < MaxLog
    /\ RunsStarted < MaxRuns
    /\ log' = Append(log, RunEvent("transactions_retrieved", RunsStarted + 1, window))
    /\ active' = [phase |-> "retrieved", run |-> RunsStarted + 1]
    /\ UNCHANGED requests

Match ==
    /\ active.phase = "retrieved"
    /\ Len(log) < MaxLog
    /\ log' = Append(log, RunEvent("matching_completed", active.run, NoWindow))
    /\ active' = [active EXCEPT !.phase = "matched"]
    /\ UNCHANGED requests

Report ==
    /\ active.phase = "matched"
    /\ Len(log) < MaxLog
    /\ log' = Append(log, RunEvent("report_generated", active.run, NoWindow))
    /\ active' = [active EXCEPT !.phase = "reported"]
    /\ UNCHANGED requests

(* ApprovalQueue.submit(), row and event.                                  *)
SubmitFor(run) ==
    /\ Len(log) < MaxLog
    /\ Len(requests) < MaxRequests
    /\ requests' = Append(requests, [run |-> run, status |-> "pending", signed |-> 0])
    /\ log' = Append(log, ApprovalEvent(run, "pending"))

SubmitReport ==
    /\ active.phase = "reported"
    /\ SubmitFor(active.run)
    /\ active' = [phase |-> "none", run |-> NoRun]

(* The run raises, or the process dies, between two appends.               *)
AbortRun ==
    /\ active.phase # "none"
    /\ active' = [phase |-> "none", run |-> NoRun]
    /\ UNCHANGED <<log, requests>>

(* Another agent on the same log and queue submits a draft of its own; the *)
(* events it writes before carry neither an approval status nor an action  *)
(* that tie_out looks for.                                                 *)
OtherAgentSubmit ==
    /\ active.phase = "none"
    /\ SubmitFor(NoRun)
    /\ UNCHANGED active

(* ApprovalQueue.decide(): the next sign-off, or a rejection.              *)
Decide(id, status) ==
    /\ active.phase = "none"
    /\ Len(log) < MaxLog
    /\ id \in DOMAIN requests
    /\ requests[id].status = "pending"
    /\ status # "rejected" =>
         status = IF requests[id].signed + 1 = Signatures THEN "approved" ELSE "pending"
    /\ requests' = [requests EXCEPT ![id].status = status, ![id].signed = @ + 1]
    /\ log' = Append(log, ApprovalEvent(requests[id].run, status))
    /\ UNCHANGED active

Next ==
    \/ \E window \in Windows : Retrieve(window)
    \/ Match
    \/ Report
    \/ SubmitReport
    \/ AbortRun
    \/ OtherAgentSubmit
    \/ \E id \in 1 .. MaxRequests, status \in Statuses : Decide(id, status)

Spec == Init /\ [][Next]_vars

-----------------------------------------------------------------------------
TypeOK ==
    /\ log \in Seq(Event)
    /\ requests \in Seq([run : Nat, status : Statuses, signed : 0 .. Signatures])
    /\ active \in [phase : {"none", "retrieved", "matched", "reported"}, run : Nat]

(* The two audit events an entry cites belong to one run, even when runs   *)
(* before or after it broke off: a report is never cited for a run that    *)
(* did not produce it.                                                     *)
CitesOneRun ==
    \A item \in Items :
        Found(log, item) =>
            LET e == FindEvidence(log, item)
            IN  /\ log[e.start_id].run = log[e.report_id].run
                /\ log[e.start_id].window = e.window

(* The run asked for the item's first and last day and every one between   *)
(* them, and for its source.                                               *)
Encloses(window, item) ==
    /\ \A day \in {item.start, item.end} \cup (item.start .. item.end) :
          /\ window.start = NoDate \/ window.start <= day
          /\ window.end = NoDate \/ day <= window.end
    /\ item.source \in {NoSource, window.source}

(* A gap is reported only when there is no evidence: once a run that       *)
(* retrieved every day of the item has been submitted for approval, the    *)
(* item is found for ever.                                                 *)
SubmittedRunsAreFound ==
    \A item \in Items, id \in DOMAIN requests :
        (\E i \in Starts(log) : log[i].run = requests[id].run /\ Encloses(log[i].window, item))
            => Found(log, item)

(* What is appended later never makes the evidence worse: an item that has *)
(* evidence keeps it, or gets a run with a window at most as wide.         *)
EvidenceNeverWorsens ==
    [][\A item \in Items :
          Found(log, item) =>
              /\ Found(log', item)
              /\ ~Narrower(FindEvidence(log, item).window, FindEvidence(log', item).window)]_vars

(* The approval status an entry cites is the current status of the cited   *)
(* run's own request.                                                      *)
StatusIsOfCitedRun ==
    \A item \in Items, id \in DOMAIN requests :
        Found(log, item) =>
            LET e == FindEvidence(log, item)
            IN  log[e.start_id].run = requests[id].run
                    => e.approval_status = requests[id].status

(* ... which is so on a log whose one request is that of the last run      *)
(* started: the evidence log app.py and the demos build, aborted runs      *)
(* before it included.                                                     *)
StatusRightWhenAlone ==
    Len(requests) = 1 /\ requests[1].run = RunsStarted => StatusIsOfCitedRun
=============================================================================
