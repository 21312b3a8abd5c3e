------------------------------ MODULE Approvals ------------------------------
(***************************************************************************)
(* platform/approvals: the queue that moves a drafted action through the   *)
(* roles of Routing before it may take effect.                             *)
(*                                                                         *)
(* Each client of Clients is an ApprovalQueue object with a connection of  *)
(* its own.  A SELECT runs outside any transaction; the UPDATE of the      *)
(* request and the INSERT of the decision commit together; the audit event *)
(* is written afterwards, to another database.  decide() is therefore four *)
(* steps -- read the request, read who acted, write, log -- and submit()   *)
(* two.  A client is one Python object used by one thread: it runs one     *)
(* call at a time.                                                         *)
(*                                                                         *)
(* decisions[id] holds the rows of approval_decisions of request id in id  *)
(* order, the only way the code reads them.  Comments and timestamps are   *)
(* left out.  AuditLog models how log is stored.                           *)
(***************************************************************************)
EXTENDS Naturals, Sequences, FiniteSets

CONSTANTS
    Clients,        \* ApprovalQueue objects open on the database
    Actors,         \* who submits and decides: people and agents
    Payloads,       \* contents of a draft
    Routing,        \* the roles a request passes, in order
    NoPayload,      \* None where a payload is optional
    MaxRequests     \* bound on the requests the exploration submits

Roles == {"preparer", "reviewer", "approver"}
Statuses == {"pending", "approved", "rejected"}
Decisions == {"approve", "edit", "reject"}

(* routing.index() finds the first position of a role: a role that stood   *)
(* twice in the routing would send a request back to it for ever.          *)
ASSUME RoutingAssumption ==
    /\ Routing \in Seq(Roles)
    /\ Len(Routing) > 0
    /\ \A i, j \in DOMAIN Routing : Routing[i] = Routing[j] => i = j

ASSUME PayloadAssumption == NoPayload \notin Payloads

VARIABLES
    requests,   \* approval_requests, in id order
    decisions,  \* approval_decisions of each request, in id order
    log,        \* the events written to the audit log
    op          \* the call each client is in the middle of

vars == <<requests, decisions, log, op>>

NoStage == "none"
Stages == Roles \cup {NoStage}

Request == [payload : Payloads, preparer : Actors,
            status : Statuses, current_stage : Stages]
DecisionRecord == [role : Roles, actor : Actors, decision : Decisions,
                   payload_after : Payloads \cup {NoPayload}]

SubmitEvent == [request_id : Nat, actor : Actors, decision : {"submit"},
                payload : Payloads, status : Statuses, current_stage : Stages]
DecideEvent == [request_id : Nat, actor : Actors, decision : Decisions,
                role : Roles, status : Statuses, current_stage : Stages]
Event == SubmitEvent \cup DecideEvent

Errors == {"none", "RequestNotFound", "WrongStageError",
           "SegregationOfDutyError", "ValueError"}

(* The arguments of decide().  edited_payload only matters to an EDIT.     *)
Call == [request_id : Nat, actor : Actors, role : Roles, decision : Decisions,
         edited_payload : Payloads \cup {NoPayload}]

Done(error) == [pc |-> "idle", raised |-> error]

Idle == [pc : {"idle"}, raised : Errors]
Reading == [pc : {"read", "checked"}, call : Call, request : Request]
Unlogged == [pc : {"unlogged"}, event : Event]

-----------------------------------------------------------------------------
(* Slip: only the preparer is remembered.                                  *)
M_PriorActorsPreparer(id) == {requests[id].preparer}

(* Slip: only those who decided are remembered.                            *)
M_PriorActorsDeciders(id) == {decisions[id][k].actor : k \in DOMAIN decisions[id]}

(* _prior_actors()                                                         *)
PriorActors(id) ==
    {requests[id].preparer} \cup {decisions[id][k].actor : k \in DOMAIN decisions[id]}

Index(role) == CHOOSE i \in DOMAIN Routing : Routing[i] = role

IsLast(role) == Index(role) = Len(Routing)

(* Slip: the edited_payload argument is stored whatever the decision is.   *)
M_DecidedAnyPayload(request, call) ==
    [request EXCEPT !.payload = call.edited_payload,
                    !.status = IF call.decision = "reject" THEN "rejected" ELSE "pending",
                    !.current_stage = NoStage]

(* What a decision makes of the request it was read from.                  *)
Decided(request, call) ==
    [payload       |-> IF call.decision = "edit" THEN call.edited_payload
                                                 ELSE request.payload,
     preparer      |-> request.preparer,
     status        |-> IF call.decision = "reject" THEN "rejected"
                       ELSE IF IsLast(call.role) THEN "approved" ELSE "pending",
     current_stage |-> IF call.decision = "reject" \/ IsLast(call.role)
                         THEN NoStage ELSE Routing[Index(call.role) + 1]]

DecisionRow(call) ==
    [role |-> call.role, actor |-> call.actor, decision |-> call.decision,
     payload_after |-> IF call.decision = "edit" THEN call.edited_payload ELSE NoPayload]

(* Slip: the event describes the request as it was read.                   *)
M_EventOfStale(call, request) ==
    [request_id |-> call.request_id, actor |-> call.actor,
     decision |-> call.decision, role |-> call.role,
     status |-> "pending", current_stage |-> call.role]

EventOf(call, request) ==
    [request_id |-> call.request_id, actor |-> call.actor,
     decision |-> call.decision, role |-> call.role,
     status |-> request.status, current_stage |-> request.current_stage]

-----------------------------------------------------------------------------
Init ==
    /\ requests = << >>
    /\ decisions = << >>
    /\ log = << >>
    /\ op = [c \in Clients |-> Done("none")]

(* submit(), up to the commit of the new row.                              *)
Submit(c, preparer, payload) ==
    /\ op[c].pc = "idle"
    /\ Len(requests) < MaxRequests
    /\ LET request == [payload |-> payload, preparer |-> preparer,
                       status |-> "pending", current_stage |-> Routing[1]]
       IN  /\ requests' = Append(requests, request)
           /\ op' = [op EXCEPT ![c] =
                [pc |-> "unlogged",
                 event |-> [request_id |-> Len(requests) + 1, actor |-> preparer,
                            decision |-> "submit", payload |-> payload,
                            status |-> request.status,
                            current_stage |-> request.current_stage]]]
    /\ decisions' = Append(decisions, << >>)
    /\ UNCHANGED log

(* Slip: the role is not compared with the stage.                          *)
M_ReadRefusalAnyStage(call) ==
    IF call.request_id \notin DOMAIN requests THEN "RequestNotFound"
    ELSE IF \/ requests[call.request_id].status # "pending"
            \/ \A i \in DOMAIN Routing : Routing[i] # call.role
           THEN "WrongStageError"
    ELSE "none"

(* decide(): get() and the two checks of the row it returned.              *)
ReadRefusal(call) ==
    IF call.request_id \notin DOMAIN requests THEN "RequestNotFound"
    ELSE IF \/ requests[call.request_id].status # "pending"
            \/ requests[call.request_id].current_stage # call.role
           THEN "WrongStageError"
    ELSE "none"

DecideRead(c, call) ==
    /\ op[c].pc = "idle"
    /\ op' = [op EXCEPT ![c] =
         IF ReadRefusal(call) = "none"
           THEN [pc |-> "read", call |-> call, request |-> requests[call.request_id]]
           ELSE Done(ReadRefusal(call))]
    /\ UNCHANGED <<requests, decisions, log>>

(* decide(): the segregation-of-duty check, then the check of an EDIT's    *)
(* payload.  The preparer is the one of the row read before.               *)
CheckRefusal(call) ==
    IF call.actor \in PriorActors(call.request_id) THEN "SegregationOfDutyError"
    ELSE IF call.decision = "edit" /\ call.edited_payload = NoPayload THEN "ValueError"
    ELSE "none"

(* Slip: the decision is logged before it is written.                      *)
M_DecideCheckLogs(c) ==
    /\ op[c].pc = "read"
    /\ op' = [op EXCEPT ![c] =
         IF CheckRefusal(op[c].call) = "none"
           THEN [op[c] EXCEPT !.pc = "checked"]
           ELSE Done(CheckRefusal(op[c].call))]
    /\ log' = IF CheckRefusal(op[c].call) = "none"
                 THEN Append(log, EventOf(op[c].call, Decided(op[c].request, op[c].call)))
                 ELSE log
    /\ UNCHANGED <<requests, decisions>>

DecideCheck(c) ==
    /\ op[c].pc = "read"
    /\ op' = [op EXCEPT ![c] =
         IF CheckRefusal(op[c].call) = "none"
           THEN [op[c] EXCEPT !.pc = "checked"]
           ELSE Done(CheckRefusal(op[c].call))]
    /\ UNCHANGED <<requests, decisions, log>>

(* decide(): UPDATE and INSERT, one transaction.                           *)
DecideWrite(c) ==
    /\ op[c].pc = "checked"
    /\ LET call == op[c].call
           request == Decided(op[c].request, call)
       IN  /\ requests' = [requests EXCEPT ![call.request_id] = request]
           /\ decisions' = [decisions EXCEPT
                              ![call.request_id] = Append(@, DecisionRow(call))]
           /\ op' = [op EXCEPT ![c] =
                [pc |-> "unlogged", event |-> EventOf(call, request)]]
    /\ UNCHANGED log

(* submit() and decide(): audit_log.append(), after the commit.            *)
LogAppend(c) ==
    /\ op[c].pc = "unlogged"
    /\ log' = Append(log, op[c].event)
    /\ op' = [op EXCEPT ![c] = Done("none")]
    /\ UNCHANGED <<requests, decisions>>

(* The process dies, or the next statement raises because the database     *)
(* stays locked.  What was committed stays; nothing re-runs the rest.      *)
Crash(c) ==
    /\ op[c].pc # "idle"
    /\ op' = [op EXCEPT ![c] = Done("none")]
    /\ UNCHANGED <<requests, decisions, log>>

(* What a caller can pass: an edited payload, or none, with an EDIT.       *)
Calls ==
    {call \in [request_id : 1 .. MaxRequests, actor : Actors, role : Roles,
               decision : Decisions, edited_payload : Payloads \cup {NoPayload}] :
        call.decision # "edit" => call.edited_payload = NoPayload}

Next ==
    \E c \in Clients :
        \/ \E preparer \in Actors, payload \in Payloads : Submit(c, preparer, payload)
        \/ \E call \in Calls : DecideRead(c, call)
        \/ DecideCheck(c)
        \/ DecideWrite(c)
        \/ LogAppend(c)

CrashNext == Next \/ \E c \in Clients : Crash(c)

Spec == Init /\ [][Next]_vars
CrashSpec == Init /\ [][CrashNext]_vars

-----------------------------------------------------------------------------
TypeOK ==
    /\ requests \in Seq(Request)
    /\ decisions \in Seq(Seq(DecisionRecord))
    /\ log \in Seq(Event)
    /\ op \in [Clients -> Idle \cup Reading \cup Unlogged]

(* The same person never acts twice on one request: its preparer and those *)
(* who decided on it are all different.                                    *)
SegregationOfDuties ==
    \A id \in DOMAIN requests :
        \A k \in DOMAIN decisions[id] :
            /\ decisions[id][k].actor # requests[id].preparer
            /\ \A j \in 1 .. k - 1 : decisions[id][k].actor # decisions[id][j].actor

(* The decisions on a request follow the routing: its k-th decision was    *)
(* taken in the k-th role, only the last can be a rejection, and status    *)
(* and stage say exactly how far the request got.  "approved" therefore    *)
(* means that every role of the routing signed.                            *)
DecisionsFollowRouting ==
    \A id \in DOMAIN requests :
        LET ds == decisions[id]
            n == Len(ds)
            rejected == n > 0 /\ ds[n].decision = "reject"
        IN  /\ n <= Len(Routing)
            /\ \A k \in 1 .. n : ds[k].role = Routing[k]
            /\ \A k \in 1 .. n - 1 : ds[k].decision # "reject"
            /\ requests[id].status = IF rejected THEN "rejected"
                                     ELSE IF n = Len(Routing) THEN "approved" ELSE "pending"
            /\ requests[id].current_stage =
                  IF rejected \/ n = Len(Routing) THEN NoStage ELSE Routing[n + 1]

(* The events of a request, and the how-manieth of them one is.            *)
EventsOf(id) == {i \in DOMAIN log : log[i].request_id = id}
Place(i) == Cardinality({j \in EventsOf(log[i].request_id) : j <= i})

(* The calls that are just about to append the event of a request.         *)
Waiting(id) == {c \in Clients : op[c].pc = "unlogged" /\ op[c].event.request_id = id}

(* Every state change is mirrored into the audit log: what the log says of *)
(* a request, plus the event a call is just about to append, is its        *)
(* submission and its decisions, one for one and in order, and the last    *)
(* event gives its status and stage.                                       *)
LogMirrorsTables ==
    \A id \in DOMAIN requests :
        /\ Cardinality(EventsOf(id)) + Cardinality(Waiting(id)) = 1 + Len(decisions[id])
        /\ \A i \in EventsOf(id) :
              IF Place(i) = 1
                THEN /\ log[i].decision = "submit"
                     /\ log[i].actor = requests[id].preparer
                ELSE LET d == decisions[id][Place(i) - 1]
                     IN  /\ log[i].decision = d.decision
                         /\ log[i].actor = d.actor
                         /\ log[i].role = d.role
        /\ Waiting(id) = {} =>
              \A i \in EventsOf(id) :
                  (\A j \in EventsOf(id) : j <= i) =>
                      /\ log[i].status = requests[id].status
                      /\ log[i].current_stage = requests[id].current_stage

(* An event or a row that tells of this decision.                          *)
Tells(e, d) == e.decision = d.decision /\ e.actor = d.actor /\ e.role = d.role

(* Whatever crashes and however many queues share the tables, the log      *)
(* never claims a decision that was not stored: it holds no more events of *)
(* an actor's decision on a request than there are such rows.              *)
LogNeverAhead ==
    \A i \in DOMAIN log :
        LET e == log[i]
        IN  /\ e.request_id \in DOMAIN requests
            /\ e.decision # "submit" =>
                 Cardinality({j \in EventsOf(e.request_id) : Tells(log[j], e)})
                   <= Cardinality({k \in DOMAIN decisions[e.request_id] :
                                      Tells(decisions[e.request_id][k], e)})

(* Whatever crashes and however many queues share the tables, nobody       *)
(* decides on what they prepared.                                          *)
PreparerNeverDecides ==
    \A id \in DOMAIN requests :
        \A k \in DOMAIN decisions[id] : decisions[id][k].actor # requests[id].preparer

(* The queue implements ApprovalFlow: a case is a request, its signers are *)
(* the actors of its decisions.                                            *)
SignersOf(id) == [k \in DOMAIN decisions[id] |-> decisions[id][k].actor]

Cases == [id \in DOMAIN requests |->
            [preparer |-> requests[id].preparer,
             signers  |-> SignersOf(id),
             verdict  |-> requests[id].status]]

Flow == INSTANCE ApprovalFlow WITH cases <- Cases, Stages <- Len(Routing)

FlowSpec == Flow!Spec
=============================================================================
