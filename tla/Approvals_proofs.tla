-------------------------- MODULE Approvals_proofs --------------------------
(***************************************************************************)
(* Proofs about Approvals, for every set of clients, actors and payloads   *)
(* and every routing without repeated roles.                               *)
(*                                                                         *)
(* Part 1 holds for any number of clients and any crashes: types, and that *)
(* nobody decides on what they prepared.  Parts 2 to 4 are about one       *)
(* client, for which nothing changes between the reads of decide() and its *)
(* write: duties are segregated, the routing is followed, and the queue    *)
(* implements ApprovalFlow.  Part 5 is again for any clients and crashes:  *)
(* the log is never ahead of the tables.  Part 6: one client that does not *)
(* crash keeps the log a mirror of the tables.                             *)
(***************************************************************************)
EXTENDS Approvals, FiniteSetTheorems, SequenceTheorems, TLAPS

Routed(role) == \E i \in DOMAIN Routing : Routing[i] = role

(* Requests and their decisions are rows of the same ids, and a request    *)
(* waits for a role of the routing or for nobody.                          *)
TablesAgree == Len(decisions) = Len(requests)

StagesRouted ==
    \A id \in DOMAIN requests :
        requests[id].current_stage = NoStage \/ Routed(requests[id].current_stage)

(* What a decide() knows between its read and its write, whatever other    *)
(* clients did meanwhile: the request exists, its preparer is the one      *)
(* read, the role is one of the routing; once checked, the actor is not    *)
(* the preparer and an edit has its payload.                               *)
CallsSound ==
    \A c \in Clients :
        op[c].pc \in {"read", "checked"} =>
            /\ op[c].call.request_id \in DOMAIN requests
            /\ op[c].request.preparer = requests[op[c].call.request_id].preparer
            /\ Routed(op[c].call.role)
            /\ op[c].pc = "checked" =>
                  /\ op[c].call.actor # requests[op[c].call.request_id].preparer
                  /\ op[c].call.decision = "edit" => op[c].call.edited_payload # NoPayload

TypeInv == TypeOK /\ TablesAgree /\ StagesRouted /\ CallsSound

-----------------------------------------------------------------------------
LEMMA RoutingDomain == DOMAIN Routing = 1 .. Len(Routing) /\ Len(Routing) \in Nat \ {0}
<1>1. Routing \in Seq(Roles) /\ Len(Routing) > 0
    BY RoutingAssumption
<1> QED BY <1>1, LenProperties

LEMMA IndexType ==
    ASSUME NEW role, Routed(role)
    PROVE  /\ Index(role) \in 1 .. Len(Routing)
           /\ Routing[Index(role)] = role
           /\ role \in Roles
<1>1. Index(role) \in DOMAIN Routing /\ Routing[Index(role)] = role
    BY DEF Routed, Index
<1>2. Routing[Index(role)] \in Roles
    BY <1>1, RoutingDomain, RoutingAssumption, ElementOfSeq
<1> QED BY <1>1, <1>2, RoutingDomain

LEMMA FirstStage == Routing[1] \in Stages /\ Routed(Routing[1])
<1>1. 1 \in DOMAIN Routing
    BY RoutingDomain
<1>2. Routed(Routing[1])
    BY <1>1 DEF Routed
<1> QED BY <1>2, IndexType DEF Stages

(* What a decision writes is a request again, with the same preparer and   *)
(* a stage of the routing.                                                 *)
LEMMA DecidedType ==
    ASSUME NEW request \in Request, NEW call \in Call, Routed(call.role),
           call.decision = "edit" => call.edited_payload # NoPayload
    PROVE  /\ Decided(request, call) \in Request
           /\ Decided(request, call).preparer = request.preparer
           /\ \/ Decided(request, call).current_stage = NoStage
              \/ Routed(Decided(request, call).current_stage)
           /\ DecisionRow(call) \in DecisionRecord
           /\ DecisionRow(call).actor = call.actor
<1> DEFINE d == Decided(request, call)
<1>1. Index(call.role) \in 1 .. Len(Routing)
    BY IndexType
<1>2. \/ d.current_stage = NoStage
      \/ Routed(d.current_stage) /\ d.current_stage \in Roles
    <2>1. CASE call.decision = "reject" \/ IsLast(call.role)
        BY <2>1 DEF Decided
    <2>2. CASE ~(call.decision = "reject" \/ IsLast(call.role))
        <3>1. Index(call.role) + 1 \in DOMAIN Routing
            BY <1>1, <2>2, RoutingDomain DEF IsLast
        <3>2. d.current_stage = Routing[Index(call.role) + 1]
            BY <2>2 DEF Decided
        <3>3. Routed(d.current_stage)
            BY <3>1, <3>2 DEF Routed
        <3> QED BY <3>3, IndexType
    <2> QED BY <2>1, <2>2
<1>3. d.current_stage \in Stages
    BY <1>2 DEF Stages
<1>4. d.payload \in Payloads
    BY DEF Decided, Request, Call
<1>5. d.status \in Statuses
    BY DEF Decided, Statuses
<1>6. d = [payload |-> d.payload, preparer |-> request.preparer,
           status |-> d.status, current_stage |-> d.current_stage]
    BY DEF Decided
<1>7. d \in Request /\ d.preparer = request.preparer
    BY <1>3, <1>4, <1>5, <1>6 DEF Request
<1>8. DecisionRow(call) \in DecisionRecord /\ DecisionRow(call).actor = call.actor
    BY DEF DecisionRow, DecisionRecord, Call
<1> QED BY <1>2, <1>7, <1>8

LEMMA CallsTyped == Calls \subseteq Call
<1>1. ASSUME NEW call \in Calls PROVE call \in Call
    <2>1. 1 .. MaxRequests \subseteq Nat
        OBVIOUS
    <2> QED BY <2>1 DEF Calls, Call
<1> QED BY <1>1

LEMMA ReadType ==
    ASSUME TypeInv, NEW call \in Calls, ReadRefusal(call) = "none"
    PROVE  /\ call.request_id \in DOMAIN requests
           /\ requests[call.request_id] \in Request
           /\ Routed(call.role)
<1>1. /\ call.request_id \in DOMAIN requests
      /\ requests[call.request_id].status = "pending"
      /\ requests[call.request_id].current_stage = call.role
    BY DEF ReadRefusal
<1>2. requests[call.request_id] \in Request
    BY <1>1, LenProperties, ElementOfSeq DEF TypeInv, TypeOK
<1>3. call.role # NoStage
    BY CallsTyped DEF Call, Roles, NoStage
<1> QED BY <1>1, <1>2, <1>3 DEF TypeInv, StagesRouted

LEMMA InitTypeInv == Init => TypeInv
<1> SUFFICES ASSUME Init PROVE TypeInv
    OBVIOUS
<1>1. /\ << >> \in Seq(Request) /\ << >> \in Seq(Seq(DecisionRecord))
      /\ << >> \in Seq(Event) /\ DOMAIN << >> = {}
    BY EmptySeq
<1>2. TypeOK
    BY <1>1 DEF Init, TypeOK, Idle, Errors, Done
<1> QED BY <1>1, <1>2 DEF Init, TypeInv, TablesAgree, StagesRouted, CallsSound, Done

LEMMA SubmitTypeInv ==
    ASSUME TypeInv, NEW c \in Clients, NEW preparer \in Actors, NEW payload \in Payloads,
           Submit(c, preparer, payload)
    PROVE  TypeInv'
<1> DEFINE request == [payload |-> payload, preparer |-> preparer,
                       status |-> "pending", current_stage |-> Routing[1]]
           event == [request_id |-> Len(requests) + 1, actor |-> preparer,
                     decision |-> "submit", payload |-> payload,
                     status |-> "pending", current_stage |-> Routing[1]]
<1> USE DEF TypeInv, TypeOK
<1>1. Routing[1] \in Stages /\ Routed(Routing[1])
    BY FirstStage
<1>2. request \in Request
    BY <1>1 DEF Request, Statuses
<1>3. Len(requests) \in Nat /\ DOMAIN requests = 1 .. Len(requests)
    BY LenProperties
<1>4. event \in Event
    BY <1>1, <1>3 DEF Event, SubmitEvent, Statuses
<1>5. /\ requests' = Append(requests, request)
      /\ decisions' = Append(decisions, << >>)
      /\ op' = [op EXCEPT ![c] = [pc |-> "unlogged", event |-> event]]
      /\ log' = log
    BY DEF Submit
<1> HIDE DEF request, event
<1>6. /\ requests' \in Seq(Request)
      /\ Len(requests') = Len(requests) + 1
      /\ \A id \in 1 .. Len(requests) : requests'[id] = requests[id]
      /\ requests'[Len(requests) + 1] = request
    BY <1>2, <1>5, AppendProperties
<1>7. decisions' \in Seq(Seq(DecisionRecord)) /\ Len(decisions') = Len(decisions) + 1
    BY <1>5, EmptySeq, AppendProperties
<1>8. DOMAIN requests' = 1 .. Len(requests) + 1
    BY <1>6, LenProperties
<1>9. TypeOK'
    BY <1>4, <1>5, <1>6, <1>7 DEF Unlogged
<1>10. TablesAgree'
    BY <1>6, <1>7 DEF TablesAgree
<1>11. StagesRouted'
    BY <1>1, <1>3, <1>6, <1>8 DEF StagesRouted, request
<1>12. CallsSound'
    <2>1. ASSUME NEW d \in Clients, op'[d].pc \in {"read", "checked"}
          PROVE  op'[d] = op[d]
        BY <1>5, <2>1
    <2>2. ASSUME NEW d \in Clients, op[d].pc \in {"read", "checked"}
          PROVE  /\ op[d].call.request_id \in DOMAIN requests'
                 /\ requests'[op[d].call.request_id] = requests[op[d].call.request_id]
        BY <1>3, <1>6, <1>8, <2>2 DEF CallsSound
    <2> HIDE DEF TypeInv, TypeOK
    <2> QED BY <2>1, <2>2, TypeInv DEF CallsSound, TypeInv
<1> QED BY <1>9, <1>10, <1>11, <1>12

LEMMA DecideReadTypeInv ==
    ASSUME TypeInv, NEW c \in Clients, NEW call \in Calls, DecideRead(c, call)
    PROVE  TypeInv'
<1> USE DEF TypeInv
<1>1. UNCHANGED <<requests, decisions, log>>
    BY DEF DecideRead
<1>2. CASE ReadRefusal(call) = "none"
    <2> DEFINE o == [pc |-> "read", call |-> call, request |-> requests[call.request_id]]
    <2>1. op' = [op EXCEPT ![c] = o]
        BY <1>2 DEF DecideRead
    <2>2. o \in Reading
        BY <1>2, ReadType, CallsTyped DEF Reading
    <2>3. TypeOK'
        BY <1>1, <2>1, <2>2 DEF TypeOK
    <2>4. CallsSound'
        BY <1>1, <1>2, <2>1, ReadType DEF CallsSound, TypeOK
    <2> QED BY <1>1, <2>3, <2>4 DEF TablesAgree, StagesRouted
<1>3. CASE ReadRefusal(call) # "none"
    <2>1. op' = [op EXCEPT ![c] = Done(ReadRefusal(call))]
        BY <1>3 DEF DecideRead
    <2>2. Done(ReadRefusal(call)) \in Idle /\ Done(ReadRefusal(call)).pc = "idle"
        BY DEF Done, ReadRefusal, Idle, Errors
    <2>3. TypeOK'
        BY <1>1, <2>1, <2>2 DEF TypeOK
    <2>4. CallsSound'
        BY <1>1, <2>1, <2>2 DEF CallsSound, TypeOK
    <2> QED BY <1>1, <2>3, <2>4 DEF TablesAgree, StagesRouted
<1> QED BY <1>2, <1>3

LEMMA DecideCheckTypeInv ==
    ASSUME TypeInv, NEW c \in Clients, DecideCheck(c)
    PROVE  TypeInv'
<1> USE DEF TypeInv
<1>1. UNCHANGED <<requests, decisions, log>> /\ op[c].pc = "read"
    BY DEF DecideCheck
<1>2. op[c] \in Reading
    BY <1>1 DEF TypeOK, Idle, Reading, Unlogged
<1>3. CASE CheckRefusal(op[c].call) = "none"
    <2> DEFINE o == [op[c] EXCEPT !.pc = "checked"]
    <2>1. op' = [op EXCEPT ![c] = o]
        BY <1>3 DEF DecideCheck
    <2>2. o \in Reading /\ o.call = op[c].call /\ o.request = op[c].request
        BY <1>2 DEF Reading
    <2>3. /\ op[c].call.actor # requests[op[c].call.request_id].preparer
          /\ op[c].call.decision = "edit" => op[c].call.edited_payload # NoPayload
        BY <1>3 DEF CheckRefusal, PriorActors
    <2> HIDE DEF o
    <2>4. TypeOK'
        BY <1>1, <2>1, <2>2 DEF TypeOK
    <2>5. CallsSound'
        BY <1>1, <2>1, <2>2, <2>3 DEF CallsSound, TypeOK
    <2> QED BY <1>1, <2>4, <2>5 DEF TablesAgree, StagesRouted
<1>4. CASE CheckRefusal(op[c].call) # "none"
    <2>1. op' = [op EXCEPT ![c] = Done(CheckRefusal(op[c].call))]
        BY <1>4 DEF DecideCheck
    <2>2. /\ Done(CheckRefusal(op[c].call)) \in Idle
          /\ Done(CheckRefusal(op[c].call)).pc = "idle"
        BY DEF Done, CheckRefusal, Idle, Errors
    <2>3. TypeOK'
        BY <1>1, <2>1, <2>2 DEF TypeOK
    <2>4. CallsSound'
        BY <1>1, <2>1, <2>2 DEF CallsSound, TypeOK
    <2> QED BY <1>1, <2>3, <2>4 DEF TablesAgree, StagesRouted
<1> QED BY <1>3, <1>4

LEMMA DecideWriteTypeInv ==
    ASSUME TypeInv, NEW c \in Clients, DecideWrite(c)
    PROVE  TypeInv'
<1> DEFINE call == op[c].call
           request == Decided(op[c].request, call)
           row == DecisionRow(call)
           id == call.request_id
<1>1. /\ requests' = [requests EXCEPT ![id] = request]
      /\ decisions' = [decisions EXCEPT ![id] = Append(@, row)]
      /\ op' = [op EXCEPT ![c] = [pc |-> "unlogged", event |-> EventOf(call, request)]]
      /\ log' = log
      /\ op[c].pc = "checked"
    BY DEF DecideWrite
<1>2. op[c] \in Reading
    BY <1>1 DEF TypeInv, TypeOK, Idle, Unlogged, Reading
<1>3. /\ id \in DOMAIN requests
      /\ op[c].request.preparer = requests[id].preparer
      /\ Routed(call.role)
      /\ call.actor # requests[id].preparer
      /\ call.decision = "edit" => call.edited_payload # NoPayload
    BY <1>1 DEF TypeInv, CallsSound
<1>4. call \in Call /\ op[c].request \in Request
    BY <1>2 DEF Reading
<1>5. /\ request \in Request
      /\ request.preparer = requests[id].preparer
      /\ request.current_stage = NoStage \/ Routed(request.current_stage)
      /\ row \in DecisionRecord
    BY <1>3, <1>4, DecidedType
<1>6. EventOf(call, request) \in Event
    BY <1>4, <1>5 DEF EventOf, Event, DecideEvent, Call, Request
<1> HIDE DEF call, request, row, id
<1>7. /\ requests \in Seq(Request) /\ decisions \in Seq(Seq(DecisionRecord))
      /\ Len(requests) = Len(decisions)
      /\ DOMAIN requests = 1 .. Len(requests) /\ DOMAIN decisions = 1 .. Len(decisions)
    BY LenProperties DEF TypeInv, TypeOK, TablesAgree
<1>8. decisions[id] \in Seq(DecisionRecord)
    BY <1>3, <1>7, ElementOfSeq
<1>9. Append(decisions[id], row) \in Seq(DecisionRecord)
    BY <1>5, <1>8, AppendProperties
<1>10. /\ requests' \in Seq(Request) /\ Len(requests') = Len(requests)
       /\ DOMAIN requests' = DOMAIN requests
       /\ requests'[id] = request
       /\ \A i \in DOMAIN requests : i # id => requests'[i] = requests[i]
    BY <1>1, <1>3, <1>5, <1>7, ExceptSeq, LenProperties
<1>11. decisions' \in Seq(Seq(DecisionRecord)) /\ Len(decisions') = Len(decisions)
    BY <1>1, <1>3, <1>7, <1>9, ExceptSeq
<1>12. TypeOK'
    <2>1. op' \in [Clients -> Idle \cup Reading \cup Unlogged]
        BY <1>1, <1>6 DEF TypeInv, TypeOK, Unlogged
    <2> QED BY <1>1, <1>10, <1>11, <2>1 DEF TypeInv, TypeOK
<1>13. TablesAgree'
    BY <1>7, <1>10, <1>11 DEF TablesAgree
<1>14. StagesRouted'
    BY <1>5, <1>10 DEF TypeInv, StagesRouted
<1>15. CallsSound'
    <2>1. \A i \in DOMAIN requests : requests'[i].preparer = requests[i].preparer
        BY <1>5, <1>10
    <2>2. ASSUME NEW d \in Clients, op'[d].pc \in {"read", "checked"}
          PROVE  op'[d] = op[d]
        BY <1>1, <2>2 DEF TypeInv, TypeOK
    <2> QED BY <1>10, <2>1, <2>2 DEF TypeInv, CallsSound
<1> QED BY <1>12, <1>13, <1>14, <1>15 DEF TypeInv

LEMMA LogAppendTypeInv ==
    ASSUME TypeInv, NEW c \in Clients, LogAppend(c) \/ Crash(c)
    PROVE  TypeInv'
<1>1. UNCHANGED <<requests, decisions>> /\ op' = [op EXCEPT ![c] = Done("none")]
    BY DEF LogAppend, Crash
<1>2. Done("none") \in Idle /\ Done("none").pc = "idle"
    BY DEF Done, Idle, Errors
<1>3. log' \in Seq(Event)
    <2>1. CASE LogAppend(c)
        <3>1. op[c].event \in Event /\ log' = Append(log, op[c].event)
            BY <2>1 DEF LogAppend, TypeInv, TypeOK, Idle, Reading, Unlogged
        <3> QED BY <3>1, AppendProperties DEF TypeInv, TypeOK
    <2>2. CASE Crash(c)
        BY <2>2 DEF Crash, TypeInv, TypeOK
    <2> QED BY <2>1, <2>2
<1>4. TypeOK'
    BY <1>1, <1>2, <1>3 DEF TypeInv, TypeOK
<1>5. CallsSound'
    BY <1>1, <1>2 DEF TypeInv, TypeOK, CallsSound
<1> QED BY <1>1, <1>4, <1>5 DEF TypeInv, TablesAgree, StagesRouted

LEMMA NextTypeInv == TypeInv /\ [CrashNext]_vars => TypeInv'
<1> SUFFICES ASSUME TypeInv, [CrashNext]_vars PROVE TypeInv'
    OBVIOUS
<1>1. ASSUME NEW c \in Clients, NEW preparer \in Actors, NEW payload \in Payloads,
             Submit(c, preparer, payload)
      PROVE  TypeInv'
    BY <1>1, SubmitTypeInv
<1>2. ASSUME NEW c \in Clients, NEW call \in Calls, DecideRead(c, call)
      PROVE  TypeInv'
    BY <1>2, DecideReadTypeInv
<1>3. ASSUME NEW c \in Clients, DecideCheck(c)
      PROVE  TypeInv'
    BY <1>3, DecideCheckTypeInv
<1>4. ASSUME NEW c \in Clients, DecideWrite(c)
      PROVE  TypeInv'
    BY <1>4, DecideWriteTypeInv
<1>5. ASSUME NEW c \in Clients, LogAppend(c) \/ Crash(c)
      PROVE  TypeInv'
    BY <1>5, LogAppendTypeInv
<1>6. CASE UNCHANGED vars
    BY <1>6 DEF vars, TypeInv, TypeOK, TablesAgree, StagesRouted, CallsSound
<1> QED BY <1>1, <1>2, <1>3, <1>4, <1>5, <1>6 DEF CrashNext, Next

(* Types hold whatever the clients do and wherever they die.               *)
THEOREM TypeCorrect == CrashSpec => []TypeOK
<1>1. TypeInv => TypeOK
    BY DEF TypeInv
<1> QED BY <1>1, InitTypeInv, NextTypeInv, PTL DEF CrashSpec

-----------------------------------------------------------------------------
LEMMA NextPreparer ==
    ASSUME TypeInv, PreparerNeverDecides, [CrashNext]_vars
    PROVE  PreparerNeverDecides'
<1>1. TypeInv'
    BY NextTypeInv
<1>2. ASSUME NEW c \in Clients, NEW preparer \in Actors, NEW payload \in Payloads,
             Submit(c, preparer, payload)
      PROVE  PreparerNeverDecides'
    <2> DEFINE request == [payload |-> payload, preparer |-> preparer,
                           status |-> "pending", current_stage |-> Routing[1]]
    <2>1. /\ requests' = Append(requests, request)
          /\ decisions' = Append(decisions, << >>)
        BY <1>2 DEF Submit
    <2>2. request \in Request
        BY FirstStage DEF Request, Statuses
    <2> HIDE DEF request
    <2>3. /\ requests \in Seq(Request) /\ decisions \in Seq(Seq(DecisionRecord))
          /\ Len(requests) = Len(decisions) /\ Len(requests) \in Nat
          /\ DOMAIN requests = 1 .. Len(requests)
        BY LenProperties DEF TypeInv, TypeOK, TablesAgree
    <2>4. /\ DOMAIN requests' = 1 .. Len(requests) + 1
          /\ \A i \in 1 .. Len(requests) : requests'[i] = requests[i]
        BY <2>1, <2>2, <2>3, AppendProperties, LenProperties
    <2>5. /\ \A i \in 1 .. Len(requests) : decisions'[i] = decisions[i]
          /\ decisions'[Len(requests) + 1] = << >>
        BY <2>1, <2>3, EmptySeq, AppendProperties
    <2> QED BY <2>3, <2>4, <2>5, EmptySeq DEF PreparerNeverDecides
<1>3. ASSUME NEW c \in Clients, DecideWrite(c)
      PROVE  PreparerNeverDecides'
    <2> DEFINE call == op[c].call
               id == call.request_id
               row == DecisionRow(call)
    <2>1. /\ requests' = [requests EXCEPT ![id] = Decided(op[c].request, call)]
          /\ decisions' = [decisions EXCEPT ![id] = Append(@, row)]
          /\ op[c].pc = "checked"
        BY <1>3 DEF DecideWrite
    <2>2. /\ id \in DOMAIN requests
          /\ op[c].request.preparer = requests[id].preparer
          /\ call.actor # requests[id].preparer
        BY <2>1 DEF TypeInv, CallsSound
    <2>3. op[c] \in Reading
        BY <2>1 DEF TypeInv, TypeOK, Idle, Unlogged, Reading
    <2>4. /\ row \in DecisionRecord /\ row.actor = call.actor
          /\ Decided(op[c].request, call).preparer = requests[id].preparer
        BY <2>2, <2>3 DEF Reading, Call, DecisionRow, DecisionRecord, Decided
    <2> HIDE DEF call, id, row
    <2>5. /\ requests \in Seq(Request) /\ decisions \in Seq(Seq(DecisionRecord))
          /\ DOMAIN requests = DOMAIN decisions
          /\ decisions[id] \in Seq(DecisionRecord)
        BY <2>2, LenProperties, ElementOfSeq DEF TypeInv, TypeOK, TablesAgree
    <2>6. \A i \in DOMAIN requests : requests'[i].preparer = requests[i].preparer
        BY <2>1, <2>4
    <2>7. /\ decisions'[id] = Append(decisions[id], row)
          /\ \A i \in DOMAIN decisions : i # id => decisions'[i] = decisions[i]
          /\ DOMAIN requests' = DOMAIN requests
        BY <2>1, <2>2, <2>5
    <2>8. \A k \in DOMAIN Append(decisions[id], row) :
             Append(decisions[id], row)[k].actor # requests[id].preparer
        <3>1. \A k \in DOMAIN decisions[id] : decisions[id][k].actor # requests[id].preparer
            BY <2>2 DEF PreparerNeverDecides
        <3> QED BY <2>2, <2>4, <2>5, <3>1, AppendProperties, LenProperties
    <2> QED BY <2>5, <2>6, <2>7, <2>8 DEF PreparerNeverDecides
<1>4. ASSUME UNCHANGED <<requests, decisions>>
      PROVE  PreparerNeverDecides'
    BY <1>4 DEF PreparerNeverDecides
<1>5. CASE UNCHANGED vars
    BY <1>4, <1>5 DEF vars
<1> QED BY <1>2, <1>3, <1>4, <1>5
        DEF CrashNext, Next, DecideRead, DecideCheck, LogAppend, Crash

(* Nobody ever decides on what they prepared, however many queues share    *)
(* the tables and wherever they die: the preparer is read in the same      *)
(* SELECT as the stage and never changes.                                  *)
THEOREM PreparersNeverDecide == CrashSpec => []PreparerNeverDecides
<1>1. Init => PreparerNeverDecides
    BY EmptySeq DEF Init, PreparerNeverDecides
<1>2. TypeInv /\ PreparerNeverDecides /\ [CrashNext]_vars
        => TypeInv' /\ PreparerNeverDecides'
    BY NextTypeInv, NextPreparer
<1> QED BY <1>1, <1>2, InitTypeInv, PTL DEF CrashSpec

-----------------------------------------------------------------------------
(* Part 2.  With one client a call runs alone: what it read is still the   *)
(* row of the request, and the actors it checked against are still all of  *)
(* them.                                                                   *)
OneClient == \A c, d \in Clients : c = d

ReadsAreCurrent ==
    \A c \in Clients :
        op[c].pc \in {"read", "checked"} =>
            LET id == op[c].call.request_id
            IN  /\ op[c].request = requests[id]
                /\ requests[id].status = "pending"
                /\ requests[id].current_stage = op[c].call.role
                /\ op[c].pc = "checked" => op[c].call.actor \notin PriorActors(id)

DutyInv == TypeInv /\ ReadsAreCurrent /\ SegregationOfDuties

LEMMA NextReadsAreCurrent ==
    ASSUME OneClient, TypeInv, ReadsAreCurrent, [CrashNext]_vars
    PROVE  ReadsAreCurrent'
<1>1. ASSUME NEW c \in Clients, NEW preparer \in Actors, NEW payload \in Payloads,
             Submit(c, preparer, payload)
      PROVE  ReadsAreCurrent'
    <2>1. \A d \in Clients : op'[d].pc = "unlogged"
        BY <1>1, OneClient DEF Submit, TypeInv, TypeOK, OneClient
    <2> QED BY <2>1 DEF ReadsAreCurrent
<1>2. ASSUME NEW c \in Clients, NEW call \in Calls, DecideRead(c, call)
      PROVE  ReadsAreCurrent'
    <2>1. requests' = requests /\ decisions' = decisions
        BY <1>2 DEF DecideRead
    <2>2. CASE ReadRefusal(call) = "none"
        <3>1. op'[c] = [pc |-> "read", call |-> call, request |-> requests[call.request_id]]
            BY <1>2, <2>2 DEF DecideRead, TypeInv, TypeOK
        <3>2. /\ requests[call.request_id].status = "pending"
              /\ requests[call.request_id].current_stage = call.role
            BY <2>2 DEF ReadRefusal
        <3>3. \A d \in Clients : op'[d] = op'[c]
            BY DEF OneClient
        <3> QED BY <2>1, <3>1, <3>2, <3>3 DEF ReadsAreCurrent
    <2>3. CASE ReadRefusal(call) # "none"
        <3>1. \A d \in Clients : op'[d].pc = "idle"
            BY <1>2, <2>3 DEF DecideRead, TypeInv, TypeOK, OneClient, Done
        <3> QED BY <3>1 DEF ReadsAreCurrent
    <2> QED BY <2>2, <2>3
<1>3. ASSUME NEW c \in Clients, DecideCheck(c)
      PROVE  ReadsAreCurrent'
    <2>1. requests' = requests /\ decisions' = decisions /\ op[c].pc = "read"
        BY <1>3 DEF DecideCheck
    <2>2. CASE CheckRefusal(op[c].call) = "none"
        <3>1. op[c] \in Reading
            BY <2>1 DEF TypeInv, TypeOK, Idle, Reading, Unlogged
        <3>2. op'[c] = [op[c] EXCEPT !.pc = "checked"]
            BY <1>3, <2>2 DEF DecideCheck, TypeInv, TypeOK
        <3>3. op'[c].call = op[c].call /\ op'[c].request = op[c].request
            BY <3>1, <3>2 DEF Reading
        <3>4. op[c].call.actor \notin PriorActors(op[c].call.request_id)
            BY <2>2 DEF CheckRefusal
        <3> DEFINE id == op[c].call.request_id
        <3>5. /\ op[c].request = requests[id]
              /\ requests[id].status = "pending"
              /\ requests[id].current_stage = op[c].call.role
            BY <2>1 DEF ReadsAreCurrent
        <3>6. op[c].call.actor \notin {requests'[id].preparer}
                 \cup {decisions'[id][k].actor : k \in DOMAIN decisions'[id]}
            BY <2>1, <3>4 DEF PriorActors
        <3> SUFFICES ASSUME NEW d \in Clients
                     PROVE  /\ op'[d].request = requests'[op'[d].call.request_id]
                            /\ requests'[op'[d].call.request_id].status = "pending"
                            /\ requests'[op'[d].call.request_id].current_stage
                                  = op'[d].call.role
                            /\ op'[d].call.actor \notin
                                  {requests'[op'[d].call.request_id].preparer}
                                  \cup {decisions'[op'[d].call.request_id][k].actor :
                                           k \in DOMAIN decisions'[op'[d].call.request_id]}
            BY DEF ReadsAreCurrent, PriorActors
        <3>7. d = c /\ op'[d].call.request_id = id
            BY <3>3 DEF OneClient
        <3>8. op'[d].call.actor \notin
                 {requests'[op'[d].call.request_id].preparer}
                 \cup {decisions'[op'[d].call.request_id][k].actor :
                          k \in DOMAIN decisions'[op'[d].call.request_id]}
            BY <3>3, <3>6, <3>7
        <3> QED BY <2>1, <3>3, <3>5, <3>7, <3>8
    <2>3. CASE CheckRefusal(op[c].call) # "none"
        <3>1. \A d \in Clients : op'[d].pc = "idle"
            BY <1>3, <2>3 DEF DecideCheck, TypeInv, TypeOK, OneClient, Done
        <3> QED BY <3>1 DEF ReadsAreCurrent
    <2> QED BY <2>2, <2>3
<1>4. ASSUME NEW c \in Clients, DecideWrite(c)
      PROVE  ReadsAreCurrent'
    <2>1. \A d \in Clients : op'[d].pc = "unlogged"
        BY <1>4 DEF DecideWrite, TypeInv, TypeOK, OneClient
    <2> QED BY <2>1 DEF ReadsAreCurrent
<1>5. ASSUME NEW c \in Clients, LogAppend(c) \/ Crash(c)
      PROVE  ReadsAreCurrent'
    <2>1. \A d \in Clients : op'[d].pc = "idle"
        BY <1>5 DEF LogAppend, Crash, TypeInv, TypeOK, OneClient, Done
    <2> QED BY <2>1 DEF ReadsAreCurrent
<1>6. CASE UNCHANGED vars
    <2>1. op' = op /\ requests' = requests /\ decisions' = decisions
        BY <1>6 DEF vars
    <2> SUFFICES ASSUME NEW d \in Clients, op'[d].pc \in {"read", "checked"}
                 PROVE  /\ op'[d].request = requests'[op'[d].call.request_id]
                        /\ requests'[op'[d].call.request_id].status = "pending"
                        /\ requests'[op'[d].call.request_id].current_stage
                              = op'[d].call.role
                        /\ op'[d].pc = "checked" =>
                              op'[d].call.actor \notin
                                  {requests'[op'[d].call.request_id].preparer}
                                  \cup {decisions'[op'[d].call.request_id][k].actor :
                                           k \in DOMAIN decisions'[op'[d].call.request_id]}
        BY DEF ReadsAreCurrent, PriorActors
    <2>2. PICK o : o = op[d]
        OBVIOUS
    <2>3. op'[d] = o /\ o.pc \in {"read", "checked"}
        BY <2>1, <2>2
    <2>4. /\ o.request = requests[o.call.request_id]
          /\ requests[o.call.request_id].status = "pending"
          /\ requests[o.call.request_id].current_stage = o.call.role
          /\ o.pc = "checked" => o.call.actor \notin PriorActors(o.call.request_id)
        BY <2>2, <2>3 DEF ReadsAreCurrent
    <2>5. o.pc = "checked" =>
              o.call.actor \notin
                  {requests'[o.call.request_id].preparer}
                  \cup {decisions'[o.call.request_id][k].actor :
                           k \in DOMAIN decisions'[o.call.request_id]}
        BY <2>1, <2>4 DEF PriorActors
    <2>6. /\ o.request = requests'[o.call.request_id]
          /\ requests'[o.call.request_id].status = "pending"
          /\ requests'[o.call.request_id].current_stage = o.call.role
        BY <2>1, <2>4
    <2> QED BY <2>3, <2>5, <2>6
<1> QED BY <1>1, <1>2, <1>3, <1>4, <1>5, <1>6 DEF CrashNext, Next

LEMMA NextDuties ==
    ASSUME TypeInv, ReadsAreCurrent, SegregationOfDuties, [CrashNext]_vars
    PROVE  SegregationOfDuties'
<1>1. ASSUME NEW c \in Clients, NEW preparer \in Actors, NEW payload \in Payloads,
             Submit(c, preparer, payload)
      PROVE  SegregationOfDuties'
    <2> DEFINE request == [payload |-> payload, preparer |-> preparer,
                           status |-> "pending", current_stage |-> Routing[1]]
    <2>1. /\ requests' = Append(requests, request)
          /\ decisions' = Append(decisions, << >>)
        BY <1>1 DEF Submit
    <2>2. request \in Request
        BY FirstStage DEF Request, Statuses
    <2> HIDE DEF request
    <2>3. /\ requests \in Seq(Request) /\ decisions \in Seq(Seq(DecisionRecord))
          /\ Len(requests) = Len(decisions) /\ Len(requests) \in Nat
          /\ DOMAIN requests = 1 .. Len(requests)
        BY LenProperties DEF TypeInv, TypeOK, TablesAgree
    <2>4. /\ DOMAIN requests' = 1 .. Len(requests) + 1
          /\ \A i \in 1 .. Len(requests) : requests'[i] = requests[i]
        BY <2>1, <2>2, <2>3, AppendProperties, LenProperties
    <2>5. /\ \A i \in 1 .. Len(requests) : decisions'[i] = decisions[i]
          /\ decisions'[Len(requests) + 1] = << >>
        BY <2>1, <2>3, EmptySeq, AppendProperties
    <2> QED BY <2>3, <2>4, <2>5, EmptySeq DEF SegregationOfDuties
<1>2. ASSUME NEW c \in Clients, DecideWrite(c)
      PROVE  SegregationOfDuties'
    <2> DEFINE call == op[c].call
               id == call.request_id
               row == DecisionRow(call)
               ds == Append(decisions[id], row)
    <2>1. /\ requests' = [requests EXCEPT ![id] = Decided(op[c].request, call)]
          /\ decisions' = [decisions EXCEPT ![id] = ds]
          /\ op[c].pc = "checked"
        BY <1>2 DEF DecideWrite
    <2>2. /\ id \in DOMAIN requests
          /\ op[c].request.preparer = requests[id].preparer
          /\ call.actor \notin PriorActors(id)
        BY <2>1 DEF TypeInv, CallsSound, ReadsAreCurrent
    <2>3. op[c] \in Reading
        BY <2>1 DEF TypeInv, TypeOK, Idle, Unlogged, Reading
    <2>4. /\ row \in DecisionRecord /\ row.actor = call.actor
          /\ Decided(op[c].request, call).preparer = requests[id].preparer
        BY <2>2, <2>3 DEF Reading, Call, DecisionRow, DecisionRecord, Decided
    <2> HIDE DEF call, id, row
    <2>5. /\ requests \in Seq(Request) /\ decisions \in Seq(Seq(DecisionRecord))
          /\ DOMAIN requests = DOMAIN decisions
          /\ decisions[id] \in Seq(DecisionRecord)
          /\ Len(decisions[id]) \in Nat /\ DOMAIN decisions[id] = 1 .. Len(decisions[id])
        BY <2>2, LenProperties, ElementOfSeq DEF TypeInv, TypeOK, TablesAgree
    <2>6. \A i \in DOMAIN requests : requests'[i].preparer = requests[i].preparer
        BY <2>1, <2>4
    <2>7. /\ DOMAIN ds = 1 .. Len(decisions[id]) + 1
          /\ \A k \in 1 .. Len(decisions[id]) : ds[k] = decisions[id][k]
          /\ ds[Len(decisions[id]) + 1] = row
        BY <2>4, <2>5, AppendProperties, LenProperties
    <2> HIDE DEF ds
    <2>8. /\ decisions'[id] = ds
          /\ \A i \in DOMAIN decisions : i # id => decisions'[i] = decisions[i]
          /\ DOMAIN requests' = DOMAIN requests
        BY <2>1, <2>2, <2>5
    <2>9. /\ row.actor # requests[id].preparer
          /\ \A k \in 1 .. Len(decisions[id]) : row.actor # decisions[id][k].actor
        BY <2>2, <2>4, <2>5 DEF PriorActors
    <2>10. ASSUME NEW k \in DOMAIN ds
           PROVE  /\ ds[k].actor # requests[id].preparer
                  /\ \A j \in 1 .. k - 1 : ds[k].actor # ds[j].actor
        <3> DEFINE n == Len(decisions[id])
        <3>1. k \in 1 .. n + 1 /\ n \in Nat
            BY <2>5, <2>7, <2>10
        <3> HIDE DEF n
        <3>2. CASE k = n + 1
            <4>1. ds[k] = row
                BY <2>7, <3>2 DEF n
            <4>2. ASSUME NEW j \in 1 .. k - 1
                  PROVE  ds[j] = decisions[id][j] /\ j \in 1 .. n
                BY <2>7, <3>1, <3>2, <4>2 DEF n
            <4> QED BY <2>9, <4>1, <4>2 DEF n
        <3>3. CASE k \in 1 .. n
            <4>1. ds[k] = decisions[id][k] /\ k \in DOMAIN decisions[id]
                BY <2>5, <2>7, <3>3 DEF n
            <4>2. ASSUME NEW j \in 1 .. k - 1
                  PROVE  ds[j] = decisions[id][j]
                <5>1. j \in 1 .. n
                    BY <3>1, <3>3
                <5> QED BY <2>7, <5>1 DEF n
            <4>3. /\ decisions[id][k].actor # requests[id].preparer
                  /\ \A j \in 1 .. k - 1 : decisions[id][k].actor # decisions[id][j].actor
                BY <2>2, <4>1 DEF SegregationOfDuties
            <4> QED BY <4>1, <4>2, <4>3
        <3> QED BY <3>1, <3>2, <3>3
    <2>11. ASSUME NEW i \in DOMAIN requests'
           PROVE  \A k \in DOMAIN decisions'[i] :
                     /\ decisions'[i][k].actor # requests'[i].preparer
                     /\ \A j \in 1 .. k - 1 : decisions'[i][k].actor # decisions'[i][j].actor
        <3>1. CASE i = id
            BY <2>2, <2>6, <2>8, <2>10, <3>1
        <3>2. CASE i # id
            BY <2>5, <2>6, <2>8, <3>2 DEF SegregationOfDuties
        <3> QED BY <3>1, <3>2
    <2> QED BY <2>11 DEF SegregationOfDuties
<1>3. ASSUME UNCHANGED <<requests, decisions>>
      PROVE  SegregationOfDuties'
    BY <1>3 DEF SegregationOfDuties
<1>4. CASE UNCHANGED vars
    BY <1>3, <1>4 DEF vars
<1> QED BY <1>1, <1>2, <1>3, <1>4
        DEF CrashNext, Next, DecideRead, DecideCheck, LogAppend, Crash

(* With one queue on the tables the same person never acts twice on one    *)
(* request, whatever is submitted, decided or refused and wherever the     *)
(* process dies.                                                           *)
THEOREM DutiesSegregated ==
    ASSUME OneClient
    PROVE  CrashSpec => []SegregationOfDuties
<1>1. Init => ReadsAreCurrent /\ SegregationOfDuties
    BY EmptySeq DEF Init, ReadsAreCurrent, SegregationOfDuties, Done
<1>2. DutyInv /\ [CrashNext]_vars => DutyInv'
    BY NextTypeInv, NextReadsAreCurrent, NextDuties DEF DutyInv
<1>3. Init => DutyInv
    BY <1>1, InitTypeInv DEF DutyInv
<1>4. DutyInv => SegregationOfDuties
    BY DEF DutyInv
<1> QED BY <1>2, <1>3, <1>4, PTL DEF CrashSpec

-----------------------------------------------------------------------------
(* Part 3.  With one client a decision is taken in the stage the request is *)
(* in, so that its history is a path through the routing.                  *)

(* What Submit() and DecideWrite() do to the tables, row by row.           *)
LEMMA SubmitRows ==
    ASSUME TypeInv, NEW c \in Clients, NEW preparer \in Actors, NEW payload \in Payloads,
           Submit(c, preparer, payload)
    PROVE  /\ DOMAIN requests = 1 .. Len(requests) /\ Len(requests) \in Nat
           /\ DOMAIN requests' = 1 .. Len(requests) + 1
           /\ \A i \in 1 .. Len(requests) :
                 requests'[i] = requests[i] /\ decisions'[i] = decisions[i]
           /\ requests'[Len(requests) + 1] =
                 [payload |-> payload, preparer |-> preparer,
                  status |-> "pending", current_stage |-> Routing[1]]
           /\ decisions'[Len(requests) + 1] = << >>
<1> DEFINE request == [payload |-> payload, preparer |-> preparer,
                       status |-> "pending", current_stage |-> Routing[1]]
<1>1. requests' = Append(requests, request) /\ decisions' = Append(decisions, << >>)
    BY DEF Submit
<1>2. request \in Request
    BY FirstStage DEF Request, Statuses
<1> HIDE DEF request
<1>3. /\ requests \in Seq(Request) /\ decisions \in Seq(Seq(DecisionRecord))
      /\ Len(requests) = Len(decisions) /\ Len(requests) \in Nat
      /\ DOMAIN requests = 1 .. Len(requests)
    BY LenProperties DEF TypeInv, TypeOK, TablesAgree
<1>4. /\ DOMAIN requests' = 1 .. Len(requests) + 1
      /\ \A i \in 1 .. Len(requests) : requests'[i] = requests[i]
      /\ requests'[Len(requests) + 1] = request
    BY <1>1, <1>2, <1>3, AppendProperties, LenProperties
<1>5. /\ \A i \in 1 .. Len(requests) : decisions'[i] = decisions[i]
      /\ decisions'[Len(requests) + 1] = << >>
    BY <1>1, <1>3, EmptySeq, AppendProperties
<1> QED BY <1>3, <1>4, <1>5 DEF request

LEMMA DecideWriteRows ==
    ASSUME TypeInv, ReadsAreCurrent, NEW c \in Clients, DecideWrite(c)
    PROVE  LET call == op[c].call
               id == call.request_id
               n == Len(decisions[id])
           IN  /\ id \in DOMAIN requests /\ call \in Call /\ requests[id] \in Request
               /\ requests[id].status = "pending"
               /\ requests[id].current_stage = call.role
               /\ Routed(call.role)
               /\ call.actor \notin PriorActors(id)
               /\ DOMAIN requests' = DOMAIN requests
               /\ requests'[id] = Decided(requests[id], call)
               /\ decisions[id] \in Seq(DecisionRecord) /\ n \in Nat
               /\ DOMAIN decisions[id] = 1 .. n
               /\ decisions'[id] \in Seq(DecisionRecord)
               /\ Len(decisions'[id]) = n + 1 /\ DOMAIN decisions'[id] = 1 .. n + 1
               /\ \A k \in 1 .. n : decisions'[id][k] = decisions[id][k]
               /\ decisions'[id][n + 1] = DecisionRow(call)
               /\ \A i \in DOMAIN requests : i # id =>
                     requests'[i] = requests[i] /\ decisions'[i] = decisions[i]
<1> DEFINE call == op[c].call
           id == call.request_id
           row == DecisionRow(call)
<1>1. /\ requests' = [requests EXCEPT ![id] = Decided(op[c].request, call)]
      /\ decisions' = [decisions EXCEPT ![id] = Append(@, row)]
      /\ op[c].pc = "checked"
    BY DEF DecideWrite
<1>2. op[c] \in Reading
    BY <1>1 DEF TypeInv, TypeOK, Idle, Unlogged, Reading
<1>3. /\ id \in DOMAIN requests /\ Routed(call.role)
      /\ call.decision = "edit" => call.edited_payload # NoPayload
    BY <1>1 DEF TypeInv, CallsSound
<1>4. /\ op[c].request = requests[id]
      /\ requests[id].status = "pending"
      /\ requests[id].current_stage = call.role
      /\ call.actor \notin PriorActors(id)
    BY <1>1 DEF ReadsAreCurrent
<1>5. call \in Call /\ op[c].request \in Request
    BY <1>2 DEF Reading
<1>6. row \in DecisionRecord
    BY <1>3, <1>5, DecidedType
<1> HIDE DEF call, id, row
<1>7. /\ requests \in Seq(Request) /\ decisions \in Seq(Seq(DecisionRecord))
      /\ DOMAIN requests = DOMAIN decisions
      /\ decisions[id] \in Seq(DecisionRecord)
      /\ Len(decisions[id]) \in Nat /\ DOMAIN decisions[id] = 1 .. Len(decisions[id])
    BY <1>3, LenProperties, ElementOfSeq DEF TypeInv, TypeOK, TablesAgree
<1> DEFINE ds == Append(decisions[id], row)
<1>8. /\ ds \in Seq(DecisionRecord) /\ Len(ds) = Len(decisions[id]) + 1
      /\ DOMAIN ds = 1 .. Len(decisions[id]) + 1
      /\ \A k \in 1 .. Len(decisions[id]) : ds[k] = decisions[id][k]
      /\ ds[Len(decisions[id]) + 1] = row
    BY <1>6, <1>7, AppendProperties, LenProperties
<1>9. decisions'[id] = ds /\ requests'[id] = Decided(requests[id], call)
    BY <1>1, <1>3, <1>4, <1>7
<1> HIDE DEF ds
<1>10. /\ DOMAIN requests' = DOMAIN requests
       /\ \A i \in DOMAIN requests : i # id =>
             requests'[i] = requests[i] /\ decisions'[i] = decisions[i]
    BY <1>1, <1>7
<1> QED BY <1>3, <1>4, <1>5, <1>7, <1>8, <1>9, <1>10 DEF call, id, row

LEMMA IndexOfStage ==
    ASSUME NEW k \in DOMAIN Routing
    PROVE  Index(Routing[k]) = k
<1>1. Routed(Routing[k])
    BY DEF Routed
<1> QED BY <1>1, IndexType, RoutingDomain, RoutingAssumption

LEMMA NextRouting ==
    ASSUME TypeInv, ReadsAreCurrent, DecisionsFollowRouting, [CrashNext]_vars
    PROVE  DecisionsFollowRouting'
<1>1. ASSUME NEW c \in Clients, NEW preparer \in Actors, NEW payload \in Payloads,
             Submit(c, preparer, payload)
      PROVE  DecisionsFollowRouting'
    <2>1. Len(<< >>) = 0 /\ Len(Routing) \in Nat \ {0}
        BY EmptySeq, RoutingDomain
    <2>2. ASSUME NEW id \in DOMAIN requests'
          PROVE  \/ id \in DOMAIN requests /\ requests'[id] = requests[id]
                    /\ decisions'[id] = decisions[id]
                 \/ /\ requests'[id].status = "pending"
                    /\ requests'[id].current_stage = Routing[1]
                    /\ decisions'[id] = << >>
        <3>1. DOMAIN requests = 1 .. Len(requests) /\ Len(requests) \in Nat
              /\ id \in 1 .. Len(requests) + 1
            BY <1>1, <2>2, SubmitRows
        <3>2. CASE id \in 1 .. Len(requests)
            BY <1>1, <3>1, <3>2, SubmitRows
        <3>3. CASE id = Len(requests) + 1
            <4>1. /\ requests'[id] = [payload |-> payload, preparer |-> preparer,
                                      status |-> "pending", current_stage |-> Routing[1]]
                  /\ decisions'[id] = << >>
                BY <1>1, <3>3, SubmitRows
            <4> QED BY <4>1
        <3> QED BY <3>1, <3>2, <3>3
    <2> QED BY <2>1, <2>2 DEF DecisionsFollowRouting
<1>2. ASSUME NEW c \in Clients, DecideWrite(c)
      PROVE  DecisionsFollowRouting'
    <2> DEFINE call == op[c].call
               id == call.request_id
               n == Len(decisions[id])
               ds == decisions'[id]
    <2>1. /\ id \in DOMAIN requests /\ n \in Nat
          /\ requests[id].status = "pending" /\ requests[id].current_stage = call.role
          /\ Routed(call.role)
          /\ DOMAIN requests' = DOMAIN requests
          /\ requests'[id] = Decided(requests[id], call)
          /\ Len(ds) = n + 1
          /\ \A k \in 1 .. n : ds[k] = decisions[id][k]
          /\ ds[n + 1] = DecisionRow(call)
          /\ \A i \in DOMAIN requests : i # id =>
                requests'[i] = requests[i] /\ decisions'[i] = decisions[i]
        BY <1>2, DecideWriteRows
    <2> HIDE DEF call, n, id, ds
    <2>2. call.role # NoStage
        BY <2>1, IndexType DEF Roles, NoStage
    <2>3. /\ n < Len(Routing)
          /\ n > 0 => decisions[id][n].decision # "reject"
          /\ call.role = Routing[n + 1]
          /\ \A k \in 1 .. n : decisions[id][k].role = Routing[k]
          /\ \A k \in 1 .. n - 1 : decisions[id][k].decision # "reject"
        <3>1. /\ n <= Len(Routing)
              /\ \A k \in 1 .. n : decisions[id][k].role = Routing[k]
              /\ \A k \in 1 .. n - 1 : decisions[id][k].decision # "reject"
            BY <2>1 DEF DecisionsFollowRouting, n
        <3>2. LET rejected == n > 0 /\ decisions[id][n].decision = "reject"
              IN  /\ requests[id].status =
                        IF rejected THEN "rejected"
                        ELSE IF n = Len(Routing) THEN "approved" ELSE "pending"
                  /\ requests[id].current_stage =
                        IF rejected \/ n = Len(Routing) THEN NoStage ELSE Routing[n + 1]
            BY <2>1 DEF DecisionsFollowRouting, n
        <3>3. ~(n > 0 /\ decisions[id][n].decision = "reject") /\ n # Len(Routing)
            BY <2>1, <3>2
        <3>4. call.role = Routing[n + 1]
            BY <2>1, <3>2, <3>3
        <3>5. n < Len(Routing)
            BY <2>1, <3>1, <3>3, RoutingDomain
        <3> QED BY <3>1, <3>3, <3>4, <3>5
    <2>4. Index(call.role) = n + 1
        <3>1. n + 1 \in DOMAIN Routing
            BY <2>1, <2>3, RoutingDomain
        <3> QED BY <2>3, <3>1, IndexOfStage
    <2>5. /\ ds[n + 1].role = call.role
          /\ ds[n + 1].decision = call.decision
          /\ requests'[id].status = IF call.decision = "reject" THEN "rejected"
                                    ELSE IF n + 1 = Len(Routing) THEN "approved" ELSE "pending"
          /\ requests'[id].current_stage =
                IF call.decision = "reject" \/ n + 1 = Len(Routing)
                  THEN NoStage ELSE Routing[n + 2]
        BY <2>1, <2>4 DEF DecisionRow, Decided, IsLast
    <2>6. /\ n + 1 <= Len(Routing)
          /\ \A k \in 1 .. n + 1 : ds[k].role = Routing[k]
          /\ \A k \in 1 .. n : ds[k].decision # "reject"
        <3>1. \A k \in 1 .. n : ds[k].role = Routing[k]
            BY <2>1, <2>3
        <3>2. ds[n + 1].role = Routing[n + 1]
            BY <2>3, <2>5
        <3>3. ASSUME NEW k \in 1 .. n PROVE ds[k].decision # "reject"
            <4>1. /\ n \in Nat /\ ds[k] = decisions[id][k]
                  /\ n > 0 => decisions[id][n].decision # "reject"
                  /\ \A j \in 1 .. n - 1 : decisions[id][j].decision # "reject"
                BY <2>1, <2>3
            <4>2. CASE k = n
                BY <4>1, <4>2
            <4>3. CASE k \in 1 .. n - 1
                BY <4>1, <4>3
            <4> QED BY <4>1, <4>2, <4>3
        <3>4. n \in Nat
            BY <2>1
        <3>5. n + 1 <= Len(Routing)
            BY <2>3, <3>4, RoutingDomain
        <3> QED BY <3>1, <3>2, <3>3, <3>4, <3>5
    <2>7. ASSUME NEW i \in DOMAIN requests'
          PROVE  LET es == decisions'[i]
                     m == Len(es)
                     rejected == m > 0 /\ es[m].decision = "reject"
                 IN  /\ m <= Len(Routing)
                     /\ \A k \in 1 .. m : es[k].role = Routing[k]
                     /\ \A k \in 1 .. m - 1 : es[k].decision # "reject"
                     /\ requests'[i].status =
                           IF rejected THEN "rejected"
                           ELSE IF m = Len(Routing) THEN "approved" ELSE "pending"
                     /\ requests'[i].current_stage =
                           IF rejected \/ m = Len(Routing) THEN NoStage ELSE Routing[m + 1]
        <3>1. CASE i # id
            <4>1. /\ i \in DOMAIN requests /\ requests'[i] = requests[i]
                  /\ decisions'[i] = decisions[i]
                BY <2>1, <3>1
            <4> QED BY <4>1 DEF DecisionsFollowRouting
        <3>2. CASE i = id
            <4>1. decisions'[i] = ds
                BY <3>2 DEF ds, id, call
            <4>2. (n + 1) - 1 = n /\ (n + 1) + 1 = n + 2 /\ n + 1 > 0 /\ Len(ds) = n + 1
                BY <2>1
            <4> QED BY <2>5, <2>6, <3>2, <4>1, <4>2
        <3> QED BY <3>1, <3>2
    <2> QED BY <2>7 DEF DecisionsFollowRouting
<1>3. ASSUME UNCHANGED <<requests, decisions>>
      PROVE  DecisionsFollowRouting'
    BY <1>3 DEF DecisionsFollowRouting
<1>4. CASE UNCHANGED vars
    BY <1>3, <1>4 DEF vars
<1> QED BY <1>1, <1>2, <1>3, <1>4
        DEF CrashNext, Next, DecideRead, DecideCheck, LogAppend, Crash

RoutingInv == DutyInv /\ DecisionsFollowRouting

LEMMA RoutingInvariant ==
    ASSUME OneClient
    PROVE  /\ Init => RoutingInv
           /\ RoutingInv /\ [CrashNext]_vars => RoutingInv'
<1>1. Init => DutyInv /\ DecisionsFollowRouting
    BY InitTypeInv, EmptySeq
       DEF Init, DutyInv, ReadsAreCurrent, SegregationOfDuties, Done, DecisionsFollowRouting
<1>2. DutyInv /\ [CrashNext]_vars => DutyInv'
    BY NextTypeInv, NextReadsAreCurrent, NextDuties DEF DutyInv
<1> QED BY <1>1, <1>2, NextRouting DEF RoutingInv, DutyInv

(* With one queue on the tables no sequence of edits, approvals and        *)
(* rejections gets a request past a role of the routing.                   *)
THEOREM RoutingFollowed ==
    ASSUME OneClient
    PROVE  CrashSpec => []DecisionsFollowRouting
<1>1. RoutingInv => DecisionsFollowRouting
    BY DEF RoutingInv
<1> QED BY <1>1, RoutingInvariant, PTL DEF CrashSpec

-----------------------------------------------------------------------------
(* Part 4.  The queue implements ApprovalFlow.                             *)

(* A request as ApprovalFlow sees it.                                      *)
CaseOf(id) == [preparer |-> requests[id].preparer,
               signers  |-> SignersOf(id),
               verdict  |-> requests[id].status]

LEMMA CasesAre ==
    /\ Cases = [id \in DOMAIN requests |-> CaseOf(id)]
    /\ DOMAIN Cases = DOMAIN requests
    /\ \A id \in DOMAIN requests : Cases[id] = CaseOf(id)
BY DEF Cases, CaseOf

LEMMA CasesSeq ==
    ASSUME TypeInv
    PROVE  /\ Cases \in Seq({CaseOf(id) : id \in DOMAIN requests})
           /\ Len(Cases) = Len(requests)
           /\ DOMAIN Cases = 1 .. Len(requests) /\ Len(requests) \in Nat
<1>1. DOMAIN requests = 1 .. Len(requests) /\ Len(requests) \in Nat
    BY LenProperties DEF TypeInv, TypeOK
<1>2. Cases \in [1 .. Len(requests) -> {CaseOf(id) : id \in DOMAIN requests}]
    BY <1>1, CasesAre
<1>3. Cases \in Seq({CaseOf(id) : id \in DOMAIN requests})
    BY <1>1, <1>2, SeqDef
<1> QED BY <1>1, <1>2, <1>3, LenProperties

(* The signers of a request that has one decision more.                    *)
LEMMA SignersSeq ==
    ASSUME NEW ds \in Seq(DecisionRecord), NEW n \in Nat, Len(ds) = n,
           NEW s, s = [k \in DOMAIN ds |-> ds[k].actor]
    PROVE  /\ s \in Seq(Actors) /\ Len(s) = n /\ DOMAIN s = 1 .. n
           /\ \A k \in 1 .. n : s[k] = ds[k].actor
<1>1. DOMAIN ds = 1 .. n /\ \A k \in 1 .. n : ds[k] \in DecisionRecord
    BY LenProperties, ElementOfSeq
<1>2. \A k \in 1 .. n : ds[k].actor \in Actors
    BY <1>1 DEF DecisionRecord
<1>3. s \in [1 .. n -> Actors]
    BY <1>1, <1>2
<1>4. s \in Seq(Actors)
    BY <1>3, SeqDef
<1> QED BY <1>1, <1>3, <1>4, LenProperties

LEMMA SubmitFlow ==
    ASSUME TypeInv, TypeInv', NEW c \in Clients, NEW preparer \in Actors,
           NEW payload \in Payloads, Submit(c, preparer, payload)
    PROVE  Flow!Submit(preparer)
<1>0. PICK n \in Nat : n = Len(requests)
    BY LenProperties DEF TypeInv, TypeOK
<1> DEFINE S == {CaseOf(id) : id \in DOMAIN requests}
           new == [preparer |-> preparer, signers |-> << >>, verdict |-> "pending"]
           T == S \cup {new}
<1>1. /\ DOMAIN requests = 1 .. n /\ n \in Nat /\ DOMAIN requests' = 1 .. n + 1
      /\ \A i \in 1 .. n : requests'[i] = requests[i] /\ decisions'[i] = decisions[i]
      /\ requests'[n + 1] = [payload |-> payload, preparer |-> preparer,
                             status |-> "pending", current_stage |-> Routing[1]]
      /\ decisions'[n + 1] = << >>
    BY <1>0, SubmitRows
<1>2. Cases \in Seq(T) /\ Len(Cases) = n /\ DOMAIN Cases = 1 .. n
    <2>1. Cases \in Seq(S) /\ Len(Cases) = n /\ DOMAIN Cases = 1 .. n
        BY <1>0, CasesSeq
    <2>2. S \subseteq T
        OBVIOUS
    <2> HIDE DEF S, T
    <2> QED BY <2>1, <2>2, SeqDef
<1>3. \A i \in 1 .. n : Cases[i] = CaseOf(i) /\ Cases[i] \in T
    BY <1>1, CasesAre
<1>4. ASSUME NEW i \in 1 .. n PROVE Cases'[i] = Cases[i]
    <2>1. /\ i \in DOMAIN requests /\ i \in DOMAIN requests'
          /\ requests'[i] = requests[i] /\ decisions'[i] = decisions[i]
        BY <1>1
    <2>2. SignersOf(i)' = SignersOf(i)
        BY <2>1 DEF SignersOf
    <2> QED BY <2>1, <2>2 DEF Cases
<1>5. Cases'[n + 1] = new
    <2>1. DOMAIN << >> = {}
        BY EmptySeq
    <2>2. SignersOf(n + 1)' = << >>
        <3>1. SignersOf(n + 1)' = [k \in DOMAIN decisions'[n + 1] |-> decisions'[n + 1][k].actor]
            BY DEF SignersOf
        <3> QED BY <1>1, <2>1, <3>1
    <2>3. n + 1 \in DOMAIN requests'
        BY <1>1
    <2>4. Cases'[n + 1] = [preparer |-> requests'[n + 1].preparer,
                           signers  |-> SignersOf(n + 1)',
                           verdict  |-> requests'[n + 1].status]
        BY <2>3 DEF Cases
    <2> QED BY <1>1, <2>2, <2>4
<1>6. Cases' \in [1 .. n + 1 -> T]
    <2>1. Cases' = [i \in 1 .. n + 1 |-> Cases'[i]]
        BY <1>1 DEF Cases
    <2>2. \A i \in 1 .. n + 1 : Cases'[i] \in T
        <3>1. \A i \in 1 .. n + 1 : i \in 1 .. n \/ i = n + 1
            BY <1>1
        <3>2. new \in T
            OBVIOUS
        <3> HIDE DEF T, new
        <3> QED BY <1>3, <1>4, <1>5, <3>1, <3>2
    <2> HIDE DEF T
    <2> QED BY <2>1, <2>2
<1> HIDE DEF T, new
<1>7. new \in T
    BY DEF T, new
<1>8. /\ Append(Cases, new) \in Seq(T) /\ Len(Append(Cases, new)) = n + 1
      /\ \A i \in 1 .. n : Append(Cases, new)[i] = Cases[i]
      /\ Append(Cases, new)[n + 1] = new
    BY <1>2, <1>7, AppendProperties
<1>9. DOMAIN Append(Cases, new) = 1 .. n + 1
    BY <1>8, LenProperties
<1>10. Cases' = Append(Cases, new)
    <2>1. Append(Cases, new) \in [1 .. n + 1 -> T]
        BY <1>8, LenProperties
    <2>2. \A i \in 1 .. n + 1 : Cases'[i] = Append(Cases, new)[i]
        <3>1. \A i \in 1 .. n + 1 : i \in 1 .. n \/ i = n + 1
            BY <1>1
        <3> QED BY <1>4, <1>5, <1>8, <3>1
    <2> QED BY <1>6, <2>1, <2>2
<1> QED BY <1>10 DEF Flow!Submit, new

LEMMA DecideFlow ==
    ASSUME RoutingInv, NEW c \in Clients, DecideWrite(c)
    PROVE  \E actor \in Actors, id \in DOMAIN Cases :
               Flow!SignOff(id, actor) \/ Flow!TurnDown(id, actor)
<1>1. PICK call, id, n :
          /\ call = op[c].call /\ id = call.request_id /\ n = Len(decisions[id])
    OBVIOUS
<1>2. /\ id \in DOMAIN requests /\ call \in Call
      /\ requests[id].status = "pending" /\ requests[id].current_stage = call.role
      /\ Routed(call.role) /\ call.actor \notin PriorActors(id)
      /\ DOMAIN requests' = DOMAIN requests
      /\ requests'[id] = Decided(requests[id], call)
      /\ decisions[id] \in Seq(DecisionRecord) /\ n \in Nat
      /\ DOMAIN decisions[id] = 1 .. n
      /\ decisions'[id] \in Seq(DecisionRecord) /\ Len(decisions'[id]) = n + 1
      /\ \A k \in 1 .. n : decisions'[id][k] = decisions[id][k]
      /\ decisions'[id][n + 1] = DecisionRow(call)
      /\ \A i \in DOMAIN requests : i # id =>
            requests'[i] = requests[i] /\ decisions'[i] = decisions[i]
    BY <1>1, DecideWriteRows DEF RoutingInv, DutyInv
<1>3. call.actor \in Actors /\ DecisionRow(call).actor = call.actor
    BY <1>2 DEF Call, DecisionRow
    \* The signers.
<1>4. PICK old, new : old = SignersOf(id) /\ new = SignersOf(id)'
    OBVIOUS
<1>5. /\ old \in Seq(Actors) /\ Len(old) = n /\ DOMAIN old = 1 .. n
      /\ \A k \in 1 .. n : old[k] = decisions[id][k].actor
    <2>1. old = [k \in DOMAIN decisions[id] |-> decisions[id][k].actor]
        BY <1>4 DEF SignersOf
    <2>2. decisions[id] \in Seq(DecisionRecord) /\ Len(decisions[id]) = n /\ n \in Nat
        BY <1>1, <1>2
    <2> QED BY <2>1, <2>2, SignersSeq
<1>6. /\ new \in Seq(Actors) /\ Len(new) = n + 1 /\ DOMAIN new = 1 .. n + 1
      /\ \A k \in 1 .. n + 1 : new[k] = decisions'[id][k].actor
    <2>1. new = [k \in DOMAIN decisions'[id] |-> decisions'[id][k].actor]
        BY <1>4 DEF SignersOf
    <2>2. decisions'[id] \in Seq(DecisionRecord) /\ Len(decisions'[id]) = n + 1
          /\ n + 1 \in Nat
        BY <1>2
    <2> QED BY <2>1, <2>2, SignersSeq
<1>7. new = Append(old, call.actor)
    <2>1. /\ Append(old, call.actor) \in Seq(Actors)
          /\ Len(Append(old, call.actor)) = n + 1
          /\ \A k \in 1 .. n : Append(old, call.actor)[k] = old[k]
          /\ Append(old, call.actor)[n + 1] = call.actor
        BY <1>3, <1>5, AppendProperties
    <2>2. ASSUME NEW k \in 1 .. n + 1
          PROVE  new[k] = Append(old, call.actor)[k]
        <3>1. CASE k = n + 1
            BY <1>2, <1>3, <1>6, <2>1, <3>1
        <3>2. CASE k \in 1 .. n
            <4>1. new[k] = decisions'[id][k].actor
                BY <1>6, <2>2
            <4>2. decisions'[id][k] = decisions[id][k]
                BY <1>2, <3>2
            <4>3. Append(old, call.actor)[k] = decisions[id][k].actor
                BY <1>5, <2>1, <3>2
            <4> QED BY <4>1, <4>2, <4>3
        <3>3. k = n + 1 \/ k \in 1 .. n
            <4>1. n \in Nat /\ k \in 1 .. n + 1
                BY <1>2, <2>2
            <4> QED BY <4>1
        <3> QED BY <3>1, <3>2, <3>3
    <2> QED BY <1>6, <2>1, <2>2, SeqEqual
    \* The verdict.
<1>8. /\ n < Len(Routing) /\ call.role = Routing[n + 1]
      /\ Index(call.role) = n + 1
    <2>1. LET rejected == n > 0 /\ decisions[id][n].decision = "reject"
          IN  /\ n <= Len(Routing)
              /\ requests[id].status =
                    IF rejected THEN "rejected"
                    ELSE IF n = Len(Routing) THEN "approved" ELSE "pending"
              /\ requests[id].current_stage =
                    IF rejected \/ n = Len(Routing) THEN NoStage ELSE Routing[n + 1]
        BY <1>1, <1>2 DEF RoutingInv, DecisionsFollowRouting
    <2>2. n # Len(Routing) /\ call.role = Routing[n + 1]
        BY <1>2, <2>1
    <2>3. n < Len(Routing) /\ n + 1 \in DOMAIN Routing
        <3>1. n \in Nat /\ n <= Len(Routing)
            BY <1>2, <2>1
        <3> QED BY <2>2, <3>1, RoutingDomain
    <2> QED BY <2>2, <2>3, IndexOfStage
<1>9. /\ requests'[id].preparer = requests[id].preparer
      /\ requests'[id].status = IF call.decision = "reject" THEN "rejected"
                                ELSE IF n + 1 = Len(Routing) THEN "approved" ELSE "pending"
    BY <1>2, <1>8 DEF Decided, IsLast
    \* The case.
<1>10. /\ Cases[id].preparer = requests[id].preparer /\ Cases[id].signers = old
       /\ Cases[id].verdict = "pending" /\ id \in DOMAIN Cases
       /\ DOMAIN Cases = DOMAIN requests
    BY <1>2, <1>4, CasesAre DEF CaseOf
<1>11. Flow!MayAct(id, call.actor)
    <2>1. call.actor # requests[id].preparer
          /\ \A k \in 1 .. n : call.actor # decisions[id][k].actor
        BY <1>2 DEF PriorActors
    <2> QED BY <1>5, <1>10, <2>1 DEF Flow!MayAct, Flow!SeqRange
<1>12. /\ DOMAIN Cases' = DOMAIN Cases
       /\ \A i \in DOMAIN Cases : i # id => Cases'[i] = Cases[i]
       /\ Cases'[id] = [preparer |-> requests[id].preparer,
                        signers  |-> Append(old, call.actor),
                        verdict  |-> requests'[id].status]
    <2>1. ASSUME NEW i \in DOMAIN Cases, i # id PROVE Cases'[i] = Cases[i]
        <3>1. /\ i \in DOMAIN requests /\ i \in DOMAIN requests'
              /\ requests'[i] = requests[i] /\ decisions'[i] = decisions[i]
            BY <1>2, <1>10, <2>1
        <3>2. SignersOf(i)' = SignersOf(i)
            BY <3>1 DEF SignersOf
        <3> QED BY <3>1, <3>2 DEF Cases
    <2>2. Cases'[id] = [preparer |-> requests'[id].preparer,
                        signers  |-> new,
                        verdict  |-> requests'[id].status]
        BY <1>2, <1>4 DEF Cases
    <2>3. DOMAIN Cases' = DOMAIN requests'
        BY DEF Cases
    <2> QED BY <1>2, <1>7, <1>9, <1>10, <2>1, <2>2, <2>3
<1>13. Cases \in [DOMAIN requests -> {CaseOf(i) : i \in DOMAIN requests}]
    BY CasesAre
<1>14. Cases' = [i \in DOMAIN Cases |-> Cases'[i]]
    BY <1>2, <1>10 DEF Cases
<1>15. Cases[id] = [preparer |-> requests[id].preparer, signers |-> old,
                    verdict |-> "pending"]
    BY <1>2, <1>4, CasesAre DEF CaseOf
<1>16. CASE call.decision = "reject"
    <2>1. Cases' = [Cases EXCEPT ![id].signers = Append(@, call.actor),
                                 ![id].verdict = "rejected"]
        BY <1>9, <1>10, <1>12, <1>13, <1>14, <1>15, <1>16
    <2> QED BY <1>3, <1>10, <1>11, <2>1 DEF Flow!TurnDown
<1>17. CASE call.decision # "reject"
    <2>1. Cases' = [Cases EXCEPT
              ![id].signers = Append(@, call.actor),
              ![id].verdict = IF Len(Cases[id].signers) + 1 = Len(Routing)
                                THEN "approved" ELSE "pending"]
        BY <1>5, <1>9, <1>10, <1>12, <1>13, <1>14, <1>15, <1>17
    <2> QED BY <1>3, <1>10, <1>11, <2>1 DEF Flow!SignOff
<1> QED BY <1>16, <1>17

LEMMA FlowStep ==
    ASSUME RoutingInv, TypeInv', [CrashNext]_vars
    PROVE  [Flow!Next]_Cases
<1>1. TypeInv
    BY DEF RoutingInv, DutyInv
<1>2. ASSUME NEW c \in Clients, NEW preparer \in Actors, NEW payload \in Payloads,
             Submit(c, preparer, payload)
      PROVE  Flow!Next
    BY <1>1, <1>2, SubmitFlow DEF Flow!Next
<1>3. ASSUME NEW c \in Clients, DecideWrite(c)
      PROVE  Flow!Next
    BY <1>3, DecideFlow DEF Flow!Next
<1>4. ASSUME UNCHANGED <<requests, decisions>>
      PROVE  UNCHANGED Cases
    BY <1>4 DEF Cases, SignersOf
<1> QED BY <1>2, <1>3, <1>4
        DEF CrashNext, Next, DecideRead, DecideCheck, LogAppend, Crash, vars

(* With one queue on the tables, and whatever crashes, the queue keeps the *)
(* promise of ApprovalFlow: a request is signed off by as many different   *)
(* people as the routing has roles or turned down by one of them, and      *)
(* either outcome is final.                                                *)
THEOREM ImplementsFlow ==
    ASSUME OneClient
    PROVE  CrashSpec => FlowSpec
<1>1. Init => Flow!Init
    <2> SUFFICES ASSUME Init PROVE Cases = << >>
        BY DEF Flow!Init
    <2>1. DOMAIN requests = {}
        BY EmptySeq DEF Init
    <2> QED BY <2>1 DEF Cases
<1>2. RoutingInv /\ RoutingInv' /\ [CrashNext]_vars => [Flow!Next]_Cases
    BY FlowStep DEF RoutingInv, DutyInv
<1> QED BY <1>1, <1>2, RoutingInvariant, PTL DEF CrashSpec, FlowSpec, Flow!Spec

-----------------------------------------------------------------------------
(* Part 5.  The log and the tables.                                        *)

(* How much the log, the calls under way and the tables tell of a decision *)
(* on a request.                                                           *)
Logged(id, d) == {j \in EventsOf(id) : Tells(log[j], d)}
ToLog(id, d) == {c \in Waiting(id) : Tells(op[c].event, d)}
Stored(id, d) == {k \in DOMAIN decisions[id] : Tells(decisions[id][k], d)}

LogCounts ==
    /\ \A i \in DOMAIN log : log[i].request_id \in DOMAIN requests
    /\ \A c \in Clients : op[c].pc = "unlogged" => op[c].event.request_id \in DOMAIN requests
    /\ \A id \in DOMAIN requests, d \in DecisionRecord :
          /\ IsFiniteSet(ToLog(id, d))
          /\ Cardinality(Logged(id, d)) + Cardinality(ToLog(id, d)) <= Cardinality(Stored(id, d))

CountInv == TypeInv /\ LogCounts

(* The sets that are counted are finite.                                   *)
LEMMA Finite ==
    ASSUME TypeInv, NEW id, NEW d
    PROVE  /\ IsFiniteSet(EventsOf(id)) /\ IsFiniteSet(Logged(id, d))
           /\ Cardinality(Logged(id, d)) \in Nat
           /\ id \in DOMAIN requests =>
                 IsFiniteSet(Stored(id, d)) /\ Cardinality(Stored(id, d)) \in Nat
<1>1. DOMAIN log = 1 .. Len(log) /\ Len(log) \in Nat
    BY LenProperties DEF TypeInv, TypeOK
<1>2. IsFiniteSet(1 .. Len(log))
    BY <1>1, FS_Interval
<1>3. IsFiniteSet(EventsOf(id)) /\ IsFiniteSet(Logged(id, d))
    <2>1. EventsOf(id) \in SUBSET (1 .. Len(log)) /\ Logged(id, d) \in SUBSET (1 .. Len(log))
        BY <1>1 DEF EventsOf, Logged
    <2> QED BY <1>2, <2>1, FS_Subset
<1>4. ASSUME id \in DOMAIN requests
      PROVE  IsFiniteSet(Stored(id, d))
    <2>1. decisions[id] \in Seq(DecisionRecord)
        BY <1>4, LenProperties, ElementOfSeq DEF TypeInv, TypeOK, TablesAgree
    <2>2. DOMAIN decisions[id] = 1 .. Len(decisions[id]) /\ Len(decisions[id]) \in Nat
        BY <2>1, LenProperties
    <2>3. IsFiniteSet(1 .. Len(decisions[id]))
        BY <2>2, FS_Interval
    <2>4. Stored(id, d) \in SUBSET (1 .. Len(decisions[id]))
        BY <2>2 DEF Stored
    <2> QED BY <2>3, <2>4, FS_Subset
<1> QED BY <1>3, <1>4, FS_CardinalityType

(* What DecideWrite() does to the tables, whatever it had read.            *)
LEMMA WriteRows ==
    ASSUME TypeInv, NEW c \in Clients, DecideWrite(c)
    PROVE  LET call == op[c].call
               id == call.request_id
               n == Len(decisions[id])
           IN  /\ id \in DOMAIN requests /\ call \in Call
               /\ DOMAIN requests' = DOMAIN requests
               /\ n \in Nat /\ DOMAIN decisions[id] = 1 .. n
               /\ DOMAIN decisions'[id] = 1 .. n + 1
               /\ \A k \in 1 .. n : decisions'[id][k] = decisions[id][k]
               /\ decisions'[id][n + 1] = DecisionRow(call)
               /\ \A i \in DOMAIN requests : i # id => decisions'[i] = decisions[i]
<1> DEFINE call == op[c].call
           id == call.request_id
           row == DecisionRow(call)
<1>1. /\ requests' = [requests EXCEPT ![id] = Decided(op[c].request, call)]
      /\ decisions' = [decisions EXCEPT ![id] = Append(@, row)]
      /\ op[c].pc = "checked"
    BY DEF DecideWrite
<1>2. op[c] \in Reading
    BY <1>1 DEF TypeInv, TypeOK, Idle, Unlogged, Reading
<1>3. /\ id \in DOMAIN requests /\ Routed(call.role)
      /\ call.decision = "edit" => call.edited_payload # NoPayload
    BY <1>1 DEF TypeInv, CallsSound
<1>4. call \in Call /\ op[c].request \in Request
    BY <1>2 DEF Reading
<1>5. row \in DecisionRecord
    BY <1>3, <1>4, DecidedType
<1> HIDE DEF call, id, row
<1>6. /\ requests \in Seq(Request) /\ decisions \in Seq(Seq(DecisionRecord))
      /\ DOMAIN requests = DOMAIN decisions
      /\ decisions[id] \in Seq(DecisionRecord)
      /\ Len(decisions[id]) \in Nat /\ DOMAIN decisions[id] = 1 .. Len(decisions[id])
    BY <1>3, LenProperties, ElementOfSeq DEF TypeInv, TypeOK, TablesAgree
<1> DEFINE ds == Append(decisions[id], row)
<1>7. /\ ds \in Seq(DecisionRecord) /\ Len(ds) = Len(decisions[id]) + 1
      /\ DOMAIN ds = 1 .. Len(decisions[id]) + 1
      /\ \A k \in 1 .. Len(decisions[id]) : ds[k] = decisions[id][k]
      /\ ds[Len(decisions[id]) + 1] = row
    BY <1>5, <1>6, AppendProperties, LenProperties
<1>8. decisions'[id] = ds
    BY <1>1, <1>3, <1>6
<1> HIDE DEF ds
<1>9. /\ DOMAIN requests' = DOMAIN requests
      /\ \A i \in DOMAIN requests : i # id => decisions'[i] = decisions[i]
    BY <1>1, <1>6
<1> QED BY <1>3, <1>4, <1>6, <1>7, <1>8, <1>9 DEF call, id, row

(* The log after LogAppend().                                              *)
LEMMA LogRows ==
    ASSUME TypeInv, NEW event \in Event, log' = Append(log, event)
    PROVE  /\ Len(log) \in Nat /\ DOMAIN log = 1 .. Len(log) /\ DOMAIN log' = 1 .. Len(log) + 1
           /\ log'[Len(log) + 1] = event /\ \A i \in 1 .. Len(log) : log'[i] = log[i]
<1>1. log \in Seq(Event)
    BY DEF TypeInv, TypeOK
<1>2. /\ Append(log, event) \in Seq(Event) /\ Len(Append(log, event)) = Len(log) + 1
      /\ \A i \in 1 .. Len(log) : Append(log, event)[i] = log[i]
      /\ Append(log, event)[Len(log) + 1] = event
    BY <1>1, AppendProperties
<1> QED BY <1>1, <1>2, LenProperties

(* A new request: nothing is told of it but its submission.                *)
LEMMA SubmitCounts ==
    ASSUME TypeInv, LogCounts, NEW c \in Clients, NEW preparer \in Actors, NEW payload \in Payloads,
           Submit(c, preparer, payload)
    PROVE  LogCounts'
<1> DEFINE new == op'[c]
<1>1. /\ op[c].pc = "idle" /\ log' = log
      /\ op' = [op EXCEPT ![c] = new] /\ new.pc = "unlogged"
      /\ new.event.request_id = Len(requests) + 1 /\ new.event.decision = "submit"
    BY DEF Submit, TypeInv, TypeOK
<1>2. /\ DOMAIN requests = 1 .. Len(requests) /\ Len(requests) \in Nat
      /\ DOMAIN requests' = 1 .. Len(requests) + 1
      /\ \A i \in 1 .. Len(requests) : decisions'[i] = decisions[i]
      /\ decisions'[Len(requests) + 1] = << >>
    BY SubmitRows
<1>3. \A b \in Clients : op'[b] = IF b = c THEN new ELSE op[b]
    BY <1>1 DEF TypeInv, TypeOK
<1> HIDE DEF new
<1>4. \A i \in DOMAIN log' : log'[i].request_id \in DOMAIN requests'
    BY <1>1, <1>2 DEF LogCounts
<1>5. \A b \in Clients : op'[b].pc = "unlogged" => op'[b].event.request_id \in DOMAIN requests'
    <2>1. ASSUME NEW b \in Clients, op'[b].pc = "unlogged"
          PROVE  op'[b].event.request_id \in DOMAIN requests'
        <3>1. CASE b = c
            BY <1>1, <1>2, <1>3, <3>1
        <3>2. CASE b # c
            BY <1>2, <1>3, <2>1, <3>2 DEF LogCounts
        <3> QED BY <3>1, <3>2
    <2> QED BY <2>1
<1>6. ASSUME NEW id \in DOMAIN requests', NEW d \in DecisionRecord
      PROVE  /\ IsFiniteSet(ToLog(id, d)')
             /\ Cardinality(Logged(id, d)') + Cardinality(ToLog(id, d)')
                   <= Cardinality(Stored(id, d)')
    <2>1. Logged(id, d)' = Logged(id, d)
        BY <1>1 DEF Logged, EventsOf
    <2>2. d.decision # "submit"
        BY DEF DecisionRecord, Decisions
    <2>3. ToLog(id, d)' = ToLog(id, d)
        BY <1>1, <1>3, <2>2 DEF ToLog, Waiting, Tells
    <2>4. CASE id \in 1 .. Len(requests)
        <3>1. Stored(id, d)' = Stored(id, d)
            BY <1>2, <2>4 DEF Stored
        <3> QED BY <1>2, <2>1, <2>3, <2>4, <3>1 DEF LogCounts
    <2>5. CASE id = Len(requests) + 1
        <3>1. id \notin DOMAIN requests
            BY <1>2, <2>5
        <3>2. Logged(id, d) = {} /\ ToLog(id, d) = {}
            BY <3>1 DEF Logged, EventsOf, ToLog, Waiting, LogCounts
        <3>3. Stored(id, d)' = {}
            BY <1>2, <2>5 DEF Stored
        <3> QED BY <2>1, <2>3, <3>2, <3>3, FS_EmptySet
    <2> QED BY <1>2, <2>4, <2>5
<1> QED BY <1>4, <1>5, <1>6 DEF LogCounts

(* A call that goes on, or ends, without logging: nobody waits but those   *)
(* who did.                                                                *)
LEMMA QuietCounts ==
    ASSUME TypeInv, LogCounts, UNCHANGED <<requests, decisions, log>>,
           NEW c \in Clients, \A b \in Clients : b # c => op'[b] = op[b],
           op'[c].pc # "unlogged"
    PROVE  LogCounts'
<1>1. ASSUME NEW id \in DOMAIN requests, NEW d \in DecisionRecord
      PROVE  /\ IsFiniteSet(ToLog(id, d)')
             /\ Cardinality(Logged(id, d)') + Cardinality(ToLog(id, d)')
                   <= Cardinality(Stored(id, d)')
    <2>1. Logged(id, d)' = Logged(id, d) /\ Stored(id, d)' = Stored(id, d)
        BY DEF Logged, EventsOf, Stored
    <2>2. ToLog(id, d)' \in SUBSET ToLog(id, d)
        BY DEF ToLog, Waiting
    <2>3. /\ IsFiniteSet(ToLog(id, d))
          /\ Cardinality(Logged(id, d)) + Cardinality(ToLog(id, d)) <= Cardinality(Stored(id, d))
        BY <1>1 DEF LogCounts
    <2>4. /\ IsFiniteSet(ToLog(id, d)') /\ Cardinality(ToLog(id, d)') <= Cardinality(ToLog(id, d))
          /\ Cardinality(ToLog(id, d)') \in Nat /\ Cardinality(ToLog(id, d)) \in Nat
        BY <2>2, <2>3, FS_Subset, FS_CardinalityType
    <2>5. Cardinality(Logged(id, d)) \in Nat /\ Cardinality(Stored(id, d)) \in Nat
        BY <1>1, Finite
    <2> QED BY <2>1, <2>3, <2>4, <2>5
<1>2. \A b \in Clients : op'[b].pc = "unlogged" => op'[b].event.request_id \in DOMAIN requests
    BY DEF LogCounts
<1>3. \A i \in DOMAIN log : log[i].request_id \in DOMAIN requests
    BY DEF LogCounts
<1> QED BY <1>1, <1>2, <1>3 DEF LogCounts

(* The write of decide(): one more row, and one more call that will log it. *)
LEMMA WriteCounts ==
    ASSUME TypeInv, LogCounts, NEW c \in Clients, DecideWrite(c)
    PROVE  LogCounts'
<1> DEFINE call == op[c].call
           at == call.request_id
           n == Len(decisions[at])
           new == op'[c]
<1>1. /\ op[c].pc = "checked" /\ log' = log
      /\ op' = [op EXCEPT ![c] = new] /\ new.pc = "unlogged"
      /\ new.event.request_id = at /\ new.event.decision = call.decision
      /\ new.event.actor = call.actor /\ new.event.role = call.role
    BY DEF DecideWrite, EventOf, TypeInv, TypeOK
<1>2. /\ at \in DOMAIN requests /\ DOMAIN requests' = DOMAIN requests
      /\ n \in Nat /\ DOMAIN decisions[at] = 1 .. n /\ DOMAIN decisions'[at] = 1 .. n + 1
      /\ \A k \in 1 .. n : decisions'[at][k] = decisions[at][k]
      /\ decisions'[at][n + 1] = DecisionRow(call)
      /\ \A i \in DOMAIN requests : i # at => decisions'[i] = decisions[i]
    BY WriteRows
<1>3. \A b \in Clients : op'[b] = IF b = c THEN new ELSE op[b]
    BY <1>1 DEF TypeInv, TypeOK
<1>4. \A d : Tells(new.event, d) <=> Tells(DecisionRow(call), d)
    BY <1>1 DEF Tells, DecisionRow
<1> HIDE DEF new, n, at, call
<1>5. \A i \in DOMAIN log' : log'[i].request_id \in DOMAIN requests'
    BY <1>1, <1>2 DEF LogCounts
<1>6. \A b \in Clients : op'[b].pc = "unlogged" => op'[b].event.request_id \in DOMAIN requests'
    BY <1>1, <1>2, <1>3 DEF LogCounts
<1>7. ASSUME NEW id \in DOMAIN requests, NEW d \in DecisionRecord
      PROVE  /\ IsFiniteSet(ToLog(id, d)')
             /\ Cardinality(Logged(id, d)') + Cardinality(ToLog(id, d)')
                   <= Cardinality(Stored(id, d)')
    <2>1. Logged(id, d)' = Logged(id, d)
        BY <1>1 DEF Logged, EventsOf
    <2>2. /\ IsFiniteSet(ToLog(id, d))
          /\ Cardinality(Logged(id, d)) + Cardinality(ToLog(id, d)) <= Cardinality(Stored(id, d))
        BY <1>7 DEF LogCounts
    <2>3. /\ IsFiniteSet(Stored(id, d)) /\ Cardinality(Stored(id, d)) \in Nat
          /\ Cardinality(Logged(id, d)) \in Nat /\ Cardinality(ToLog(id, d)) \in Nat
        BY <1>7, <2>2, Finite, FS_CardinalityType
    <2>4. c \notin ToLog(id, d)
        BY <1>1 DEF ToLog, Waiting
    <2>5. CASE id = at /\ Tells(DecisionRow(call), d)
        <3>1. ToLog(id, d)' = ToLog(id, d) \cup {c}
            BY <1>1, <1>3, <1>4, <2>5 DEF ToLog, Waiting
        <3>2. Stored(id, d)' = Stored(id, d) \cup {n + 1} /\ n + 1 \notin Stored(id, d)
            BY <1>2, <2>5 DEF Stored
        <3>3. /\ IsFiniteSet(ToLog(id, d)')
              /\ Cardinality(ToLog(id, d)') = Cardinality(ToLog(id, d)) + 1
            BY <2>2, <2>4, <3>1, FS_AddElement
        <3>4. Cardinality(Stored(id, d)') = Cardinality(Stored(id, d)) + 1
            BY <2>3, <3>2, FS_AddElement
        <3> QED BY <2>1, <2>2, <2>3, <3>3, <3>4
    <2>6. CASE ~ (id = at /\ Tells(DecisionRow(call), d))
        <3>1. ToLog(id, d)' = ToLog(id, d)
            BY <1>1, <1>3, <1>4, <2>4, <2>6 DEF ToLog, Waiting
        <3>2. Stored(id, d)' = Stored(id, d)
            <4>1. CASE id # at
                BY <1>2, <4>1 DEF Stored
            <4>2. CASE id = at /\ ~ Tells(DecisionRow(call), d)
                BY <1>2, <4>2 DEF Stored
            <4> QED BY <2>6, <4>1, <4>2
        <3> QED BY <2>1, <2>2, <3>1, <3>2
    <2> QED BY <2>5, <2>6
<1> QED BY <1>2, <1>5, <1>6, <1>7 DEF LogCounts

(* audit_log.append(): what waited to be told is told.                     *)
LEMMA AppendCounts ==
    ASSUME TypeInv, LogCounts, NEW c \in Clients, LogAppend(c)
    PROVE  LogCounts'
<1> DEFINE event == op[c].event
           n == Len(log)
<1>1. /\ op[c].pc = "unlogged" /\ log' = Append(log, event)
      /\ op' = [op EXCEPT ![c] = Done("none")] /\ UNCHANGED <<requests, decisions>>
    BY DEF LogAppend
<1>2. event \in Event /\ event.request_id \in DOMAIN requests
    BY <1>1 DEF TypeInv, TypeOK, Idle, Reading, Unlogged, LogCounts
<1>3. \A b \in Clients : op'[b] = IF b = c THEN Done("none") ELSE op[b]
    BY <1>1 DEF TypeInv, TypeOK
<1>4. Done("none").pc # "unlogged"
    BY DEF Done
<1> HIDE DEF event
<1>5. /\ n \in Nat /\ DOMAIN log = 1 .. n /\ DOMAIN log' = 1 .. n + 1
      /\ log'[n + 1] = event /\ \A i \in 1 .. n : log'[i] = log[i]
    BY <1>1, <1>2, LogRows
<1> HIDE DEF n
<1>6. \A i \in DOMAIN log' : log'[i].request_id \in DOMAIN requests'
    BY <1>1, <1>2, <1>5 DEF LogCounts
<1>7. \A b \in Clients : op'[b].pc = "unlogged" => op'[b].event.request_id \in DOMAIN requests'
    BY <1>1, <1>3, <1>4 DEF LogCounts
<1>8. ASSUME NEW id \in DOMAIN requests, NEW d \in DecisionRecord
      PROVE  /\ IsFiniteSet(ToLog(id, d)')
             /\ Cardinality(Logged(id, d)') + Cardinality(ToLog(id, d)')
                   <= Cardinality(Stored(id, d)')
    <2>1. Stored(id, d)' = Stored(id, d)
        BY <1>1 DEF Stored
    <2>2. /\ IsFiniteSet(ToLog(id, d))
          /\ Cardinality(Logged(id, d)) + Cardinality(ToLog(id, d)) <= Cardinality(Stored(id, d))
        BY <1>8 DEF LogCounts
    <2>3. /\ IsFiniteSet(Logged(id, d)) /\ Cardinality(Stored(id, d)) \in Nat
          /\ Cardinality(Logged(id, d)) \in Nat /\ Cardinality(ToLog(id, d)) \in Nat
        BY <1>8, <2>2, Finite, FS_CardinalityType
    <2>4. ToLog(id, d)' = ToLog(id, d) \ {c}
        BY <1>3, <1>4 DEF ToLog, Waiting
    <2>5. CASE event.request_id = id /\ Tells(event, d)
        <3>1. c \in ToLog(id, d)
            BY <1>1, <2>5 DEF ToLog, Waiting, event
        <3>2. /\ IsFiniteSet(ToLog(id, d)')
              /\ Cardinality(ToLog(id, d)') = Cardinality(ToLog(id, d)) - 1
            BY <2>2, <2>4, <3>1, FS_RemoveElement
        <3>3. Logged(id, d)' = Logged(id, d) \cup {n + 1} /\ n + 1 \notin Logged(id, d)
            BY <1>5, <2>5 DEF Logged, EventsOf
        <3>4. Cardinality(Logged(id, d)') = Cardinality(Logged(id, d)) + 1
            BY <2>3, <3>3, FS_AddElement
        <3> QED BY <2>1, <2>2, <2>3, <3>2, <3>4
    <2>6. CASE ~ (event.request_id = id /\ Tells(event, d))
        <3>1. Logged(id, d)' = Logged(id, d)
            BY <1>5, <2>6 DEF Logged, EventsOf
        <3>2. c \notin ToLog(id, d)
            BY <2>6 DEF ToLog, Waiting, event
        <3>3. ToLog(id, d)' = ToLog(id, d)
            BY <2>4, <3>2
        <3> QED BY <2>1, <2>2, <3>1, <3>3
    <2> QED BY <2>5, <2>6
<1> QED BY <1>1, <1>6, <1>7, <1>8 DEF LogCounts

LEMMA NextCounts == CountInv /\ [CrashNext]_vars => CountInv'
<1> SUFFICES ASSUME TypeInv, LogCounts, [CrashNext]_vars PROVE LogCounts'
    BY NextTypeInv DEF CountInv
<1>1. ASSUME NEW c \in Clients, NEW preparer \in Actors, NEW payload \in Payloads,
             Submit(c, preparer, payload)
      PROVE  LogCounts'
    BY <1>1, SubmitCounts
<1>2. ASSUME NEW c \in Clients,
             \/ \E call \in Calls : DecideRead(c, call)
             \/ DecideCheck(c)
             \/ Crash(c)
      PROVE  LogCounts'
    <2>1. /\ UNCHANGED <<requests, decisions, log>>
          /\ \A b \in Clients : b # c => op'[b] = op[b]
        BY <1>2 DEF DecideRead, DecideCheck, Crash, TypeInv, TypeOK
    <2>2. op'[c].pc # "unlogged"
        <3>1. op \in [Clients -> Idle \cup Reading \cup Unlogged]
            BY DEF TypeInv, TypeOK
        <3>2. ASSUME NEW call \in Calls, DecideRead(c, call)
              PROVE  op'[c].pc # "unlogged"
            BY <3>1, <3>2 DEF DecideRead, Done
        <3>3. ASSUME DecideCheck(c)
              PROVE  op'[c].pc # "unlogged"
            <4>1. op[c].pc = "read" /\ op[c] \in Reading
                BY <3>1, <3>3 DEF DecideCheck, Idle, Unlogged, Reading
            <4>2. [op[c] EXCEPT !.pc = "checked"].pc = "checked"
                BY <4>1 DEF Reading
            <4> QED BY <3>1, <3>3, <4>2 DEF DecideCheck, Done
        <3>4. ASSUME Crash(c)
              PROVE  op'[c].pc # "unlogged"
            BY <3>1, <3>4 DEF Crash, Done
        <3> QED BY <1>2, <3>2, <3>3, <3>4
    <2> QED BY <2>1, <2>2, QuietCounts
<1>3. ASSUME NEW c \in Clients, DecideWrite(c)
      PROVE  LogCounts'
    BY <1>3, WriteCounts
<1>4. ASSUME NEW c \in Clients, LogAppend(c)
      PROVE  LogCounts'
    BY <1>4, AppendCounts
<1>5. CASE UNCHANGED vars
    BY <1>5 DEF vars, LogCounts, Logged, ToLog, Stored, EventsOf, Waiting
<1> QED BY <1>1, <1>2, <1>3, <1>4, <1>5 DEF CrashNext, Next

LEMMA CountsSuffice == CountInv => LogNeverAhead
<1> SUFFICES ASSUME CountInv, NEW i \in DOMAIN log
             PROVE  /\ log[i].request_id \in DOMAIN requests
                    /\ log[i].decision # "submit" =>
                         Cardinality({j \in EventsOf(log[i].request_id) : Tells(log[j], log[i])})
                           <= Cardinality({k \in DOMAIN decisions[log[i].request_id] :
                                             Tells(decisions[log[i].request_id][k], log[i])})
    BY DEF LogNeverAhead
<1>1. log[i].request_id \in DOMAIN requests
    BY DEF CountInv, LogCounts
<1>2. ASSUME log[i].decision # "submit"
      PROVE  Cardinality({j \in EventsOf(log[i].request_id) : Tells(log[j], log[i])})
               <= Cardinality({k \in DOMAIN decisions[log[i].request_id] :
                                 Tells(decisions[log[i].request_id][k], log[i])})
    <2> DEFINE id == log[i].request_id
               d == [role |-> log[i].role, actor |-> log[i].actor,
                     decision |-> log[i].decision, payload_after |-> NoPayload]
    <2>1. log[i] \in Event
        BY LenProperties, ElementOfSeq DEF CountInv, TypeInv, TypeOK
    <2>2. log[i] \in DecideEvent
        BY <1>2, <2>1 DEF Event, SubmitEvent
    <2>3. d \in DecisionRecord
        BY <2>2 DEF DecideEvent, DecisionRecord
    <2>4. \A e : Tells(e, d) <=> Tells(e, log[i])
        BY DEF Tells
    <2> HIDE DEF d
    <2>5. /\ Logged(id, d) = {j \in EventsOf(id) : Tells(log[j], log[i])}
          /\ Stored(id, d) = {k \in DOMAIN decisions[id] : Tells(decisions[id][k], log[i])}
        BY <2>4 DEF Logged, Stored
    <2>6. /\ Cardinality(Logged(id, d)) + Cardinality(ToLog(id, d)) <= Cardinality(Stored(id, d))
          /\ Cardinality(Logged(id, d)) \in Nat /\ Cardinality(Stored(id, d)) \in Nat
          /\ Cardinality(ToLog(id, d)) \in Nat
        BY <1>1, <2>3, Finite, FS_CardinalityType DEF CountInv, LogCounts
    <2> QED BY <2>5, <2>6
<1> QED BY <1>1, <1>2

(* Whatever crashes and however many queues share the tables, the log      *)
(* holds no more events of a decision than there are rows of it.           *)
THEOREM LogNeverAheadOfTables == CrashSpec => []LogNeverAhead
<1>1. Init => CountInv
    <2> SUFFICES ASSUME Init PROVE CountInv
        OBVIOUS
    <2>1. DOMAIN log = {} /\ DOMAIN requests = {}
        BY EmptySeq DEF Init
    <2>2. \A c \in Clients : op[c].pc # "unlogged"
        BY DEF Init, Done
    <2> QED BY <2>1, <2>2, InitTypeInv DEF CountInv, LogCounts
<1> QED BY <1>1, NextCounts, CountsSuffice, PTL DEF CrashSpec

-----------------------------------------------------------------------------
(* Part 6.  With one client that never dies between its write and its      *)
(* event, the log mirrors the tables.                                      *)

(* LogMirrorsTables of one request: as many events as changes, each of     *)
(* them the change of its place, and the last one up to date.              *)
Counted(id) == Cardinality(EventsOf(id)) + Cardinality(Waiting(id)) = 1 + Len(decisions[id])

TellsChange(e, id, k) ==
    IF k = 1 THEN e.decision = "submit" /\ e.actor = requests[id].preparer
             ELSE Tells(e, decisions[id][k - 1])

TellsState(e, id) ==
    e.status = requests[id].status /\ e.current_stage = requests[id].current_stage

Mirrored(id) ==
    /\ Counted(id)
    /\ \A i \in EventsOf(id) : TellsChange(log[i], id, Place(i))
    /\ Waiting(id) = {} =>
          \A i \in EventsOf(id) :
             (\A j \in EventsOf(id) : j <= i) => TellsState(log[i], id)

(* An event that waits to be appended tells the last change of its request *)
(* and the state this left it in.                                          *)
WaitingTells ==
    \A c \in Clients :
        op[c].pc = "unlogged" =>
            LET e == op[c].event
                id == e.request_id
            IN  TellsChange(e, id, Len(decisions[id]) + 1) /\ TellsState(e, id)

MirrorInv ==
    /\ RoutingInv /\ LogCounts
    /\ \A id \in DOMAIN requests : Mirrored(id)
    /\ WaitingTells

(* The place of an event is one of the places of its request's events.     *)
LEMMA PlaceType ==
    ASSUME TypeInv, NEW id, NEW i \in EventsOf(id)
    PROVE  /\ Place(i) = Cardinality({j \in EventsOf(id) : j <= i})
           /\ Place(i) \in 1 .. Cardinality(EventsOf(id))
           /\ Cardinality(EventsOf(id)) \in Nat
<1> DEFINE upto == {j \in EventsOf(id) : j <= i}
<1>1. Place(i) = Cardinality(upto)
    BY DEF Place, EventsOf
<1>2. IsFiniteSet(EventsOf(id))
    BY Finite
<1>3. upto \in SUBSET EventsOf(id)
    OBVIOUS
<1>4. i \in upto
    <2>1. DOMAIN log = 1 .. Len(log) /\ Len(log) \in Nat
        BY LenProperties DEF TypeInv, TypeOK
    <2> QED BY <2>1 DEF EventsOf
<1> HIDE DEF upto
<1>5. /\ IsFiniteSet(upto) /\ Cardinality(upto) <= Cardinality(EventsOf(id))
      /\ Cardinality(upto) \in Nat /\ Cardinality(EventsOf(id)) \in Nat
    BY <1>2, <1>3, FS_Subset, FS_CardinalityType
<1>6. Cardinality(upto) # 0
    BY <1>4, <1>5, FS_EmptySet
<1> QED BY <1>1, <1>5, <1>6 DEF upto

(* A request whose rows, events and waiting calls stay keeps its mirror.   *)
LEMMA SameMirrored ==
    ASSUME TypeInv, NEW id, Mirrored(id), EventsOf(id)' = EventsOf(id),
           \A i \in EventsOf(id) : log'[i] = log[i],
           Waiting(id)' = Waiting(id),
           requests'[id] = requests[id], decisions'[id] = decisions[id]
    PROVE  Mirrored(id)'
<1>1. Counted(id)'
    BY DEF Mirrored, Counted
<1>2. ASSUME NEW i \in EventsOf(id) PROVE Place(i)' = Place(i)
    <2>1. Place(i)' = Cardinality({j \in EventsOf(id)' : j <= i})
        BY <1>2 DEF Place, EventsOf
    <2>2. Place(i) = Cardinality({j \in EventsOf(id) : j <= i})
        BY <1>2 DEF Place, EventsOf
    <2> QED BY <2>1, <2>2
<1>3. ASSUME NEW i \in EventsOf(id) PROVE TellsChange(log[i], id, Place(i))'
    <2>1. TellsChange(log[i], id, Place(i))
        BY <1>3 DEF Mirrored
    <2> QED BY <1>2, <1>3, <2>1 DEF TellsChange
<1>4. ASSUME NEW i \in EventsOf(id), TellsState(log[i], id) PROVE TellsState(log[i], id)'
    BY <1>4 DEF TellsState
<1> QED BY <1>1, <1>3, <1>4 DEF Mirrored

LEMMA InitMirror ==
    ASSUME OneClient
    PROVE  Init => MirrorInv
<1> SUFFICES ASSUME Init PROVE MirrorInv
    OBVIOUS
<1>1. DOMAIN log = {} /\ DOMAIN requests = {}
    BY EmptySeq DEF Init
<1>2. \A c \in Clients : op[c].pc # "unlogged"
    BY DEF Init, Done
<1> QED BY <1>1, <1>2, RoutingInvariant DEF MirrorInv, LogCounts, WaitingTells

LEMMA SubmitMirror ==
    ASSUME OneClient, MirrorInv,
           NEW c \in Clients, NEW preparer \in Actors, NEW payload \in Payloads,
           Submit(c, preparer, payload)
    PROVE  (\A id \in DOMAIN requests : Mirrored(id))' /\ WaitingTells'
<1>0. TypeInv
    BY DEF MirrorInv, RoutingInv, DutyInv
<1>n. PICK n : n = Len(requests)
    OBVIOUS
<1>w. PICK new : new = op'[c]
    OBVIOUS
<1>1. /\ op[c].pc = "idle" /\ log' = log
      /\ op' = [op EXCEPT ![c] = new] /\ new.pc = "unlogged"
      /\ new.event.request_id = n + 1 /\ new.event.decision = "submit"
      /\ new.event.actor = preparer
      /\ new.event.status = "pending" /\ new.event.current_stage = Routing[1]
    BY <1>0, <1>n, <1>w DEF Submit, TypeInv, TypeOK
<1>2. /\ DOMAIN requests = 1 .. n /\ n \in Nat /\ DOMAIN requests' = 1 .. n + 1
      /\ \A i \in 1 .. n : requests'[i] = requests[i] /\ decisions'[i] = decisions[i]
      /\ requests'[n + 1].preparer = preparer /\ requests'[n + 1].status = "pending"
      /\ requests'[n + 1].current_stage = Routing[1]
      /\ decisions'[n + 1] = << >> /\ Len(decisions'[n + 1]) = 0
    <2>1. /\ DOMAIN requests = 1 .. n /\ n \in Nat /\ DOMAIN requests' = 1 .. n + 1
          /\ \A i \in 1 .. n : requests'[i] = requests[i] /\ decisions'[i] = decisions[i]
          /\ requests'[n + 1] = [payload |-> payload, preparer |-> preparer,
                                 status |-> "pending", current_stage |-> Routing[1]]
          /\ decisions'[n + 1] = << >>
        BY <1>0, <1>n, SubmitRows
    <2>2. Len(decisions'[n + 1]) = 0
        BY <2>1, EmptySeq
    <2> QED BY <2>1, <2>2
<1>3. \A b \in Clients : b = c
    BY DEF OneClient
<1>4. WaitingTells'
    <2>1. TellsState(new.event, n + 1)' /\ TellsChange(new.event, n + 1, 1)'
        BY <1>1, <1>2 DEF TellsState, TellsChange
    <2>2. Len(decisions'[n + 1]) + 1 = 1
        BY <1>2
    <2> QED BY <1>1, <1>3, <1>w, <2>1, <2>2 DEF WaitingTells
<1>5. ASSUME NEW id \in 1 .. n PROVE Mirrored(id)'
    <2>1. EventsOf(id)' = EventsOf(id)
        BY <1>1 DEF EventsOf
    <2>2. Waiting(id)' = {} /\ Waiting(id) = {}
        BY <1>1, <1>2, <1>3, <1>5, <1>w DEF Waiting
    <2>3. Mirrored(id)
        BY <1>2, <1>5 DEF MirrorInv
    <2> QED BY <1>0, <1>1, <1>2, <1>5, <2>1, <2>2, <2>3, SameMirrored
<1>6. Mirrored(n + 1)'
    <2>1. EventsOf(n + 1)' = {}
        BY <1>1, <1>2 DEF EventsOf, MirrorInv, LogCounts
    <2>2. Waiting(n + 1)' = {c}
        BY <1>1, <1>3, <1>w DEF Waiting
    <2>3. Cardinality(EventsOf(n + 1)') = 0 /\ Cardinality(Waiting(n + 1)') = 1
        BY <2>1, <2>2, FS_EmptySet, FS_Singleton, Zenon
    <2>4. Waiting(n + 1)' # {}
        BY <2>2
    <2>5. Counted(n + 1)'
        BY <1>2, <2>3 DEF Counted
    <2> QED BY <2>1, <2>4, <2>5 DEF Mirrored
<1>7. \A id \in DOMAIN requests' : Mirrored(id)'
    BY <1>2, <1>5, <1>6
<1> QED BY <1>4, <1>7

(* A step of the call that changes no table and comes before its write.    *)
LEMMA QuietMirror ==
    ASSUME OneClient, MirrorInv, UNCHANGED <<requests, decisions, log>>,
           NEW c \in Clients, op[c].pc # "unlogged", op'[c].pc # "unlogged"
    PROVE  (\A id \in DOMAIN requests : Mirrored(id))' /\ WaitingTells'
<1>1. \A b \in Clients : b = c
    BY DEF OneClient
<1>2. WaitingTells'
    BY <1>1 DEF WaitingTells
<1>3. ASSUME NEW id \in DOMAIN requests PROVE Mirrored(id)'
    <2>1. Waiting(id)' = Waiting(id)
        BY <1>1 DEF Waiting
    <2>2. EventsOf(id)' = EventsOf(id)
        BY DEF EventsOf
    <2>3. Mirrored(id) /\ TypeInv
        BY <1>3 DEF MirrorInv, RoutingInv, DutyInv
    <2> QED BY <2>1, <2>2, <2>3, SameMirrored
<1> QED BY <1>2, <1>3

LEMMA WriteMirror ==
    ASSUME OneClient, MirrorInv, NEW c \in Clients, DecideWrite(c)
    PROVE  (\A id \in DOMAIN requests : Mirrored(id))' /\ WaitingTells'
<1>0. TypeInv /\ ReadsAreCurrent
    BY DEF MirrorInv, RoutingInv, DutyInv
<1>p. PICK call, at, n, new : /\ call = op[c].call /\ at = call.request_id
                              /\ n = Len(decisions[at]) /\ new = op'[c]
    OBVIOUS
<1>1. /\ at \in DOMAIN requests /\ DOMAIN requests' = DOMAIN requests
      /\ requests'[at] = Decided(requests[at], call)
      /\ n \in Nat /\ Len(decisions'[at]) = n + 1
      /\ \A k \in 1 .. n : decisions'[at][k] = decisions[at][k]
      /\ decisions'[at][n + 1] = DecisionRow(call)
      /\ \A i \in DOMAIN requests : i # at =>
            requests'[i] = requests[i] /\ decisions'[i] = decisions[i]
    BY <1>0, <1>p, DecideWriteRows
<1>2. requests'[at].preparer = requests[at].preparer
    BY <1>1 DEF Decided
<1>3. op[c].request = requests[at]
    BY <1>0, <1>p DEF ReadsAreCurrent, DecideWrite
<1>4. /\ op[c].pc = "checked" /\ log' = log /\ new.pc = "unlogged"
      /\ new.event = EventOf(call, Decided(op[c].request, call))
    BY <1>0, <1>p DEF DecideWrite, TypeInv, TypeOK
<1>5. /\ new.event.request_id = at /\ TellsState(new.event, at)'
      /\ Tells(new.event, decisions'[at][n + 1])
    <2>1. requests'[at] = Decided(op[c].request, call)
        BY <1>1, <1>3
    <2>2. /\ new.event.request_id = at /\ new.event.status = requests'[at].status
          /\ new.event.current_stage = requests'[at].current_stage
        BY <1>4, <1>p, <2>1 DEF EventOf
    <2>3. Tells(new.event, DecisionRow(call))
        BY <1>4 DEF EventOf, Tells, DecisionRow
    <2>4. Tells(new.event, decisions'[at][n + 1])
        BY <1>1, <2>3
    <2> QED BY <2>2, <2>4 DEF TellsState
<1>6. \A b \in Clients : b = c
    BY DEF OneClient
<1>7. WaitingTells'
    <2>1. n + 1 # 0 /\ n + 1 + 1 # 1 /\ (n + 1 + 1) - 1 = n + 1
        BY <1>1
    <2>2. TellsChange(new.event, at, n + 1 + 1)'
        <3>1. Tells(new.event, decisions'[at][(n + 1 + 1) - 1])
            BY <1>5, <2>1
        <3> QED BY <2>1, <3>1 DEF TellsChange
    <2>3. /\ Len(decisions'[at]) + 1 = n + 1 + 1 /\ op'[c] = new
          /\ new.event.request_id = at /\ TellsState(new.event, at)'
        BY <1>1, <1>5, <1>p
    <2> QED BY <1>6, <2>2, <2>3 DEF WaitingTells
<1>8. ASSUME NEW id \in DOMAIN requests, id # at PROVE Mirrored(id)'
    <2>1. Waiting(id)' = Waiting(id)
        BY <1>4, <1>5, <1>6, <1>8, <1>p DEF Waiting
    <2>2. EventsOf(id)' = EventsOf(id)
        BY <1>4 DEF EventsOf
    <2>3. Mirrored(id)
        BY <1>8 DEF MirrorInv
    <2> QED BY <1>0, <1>1, <1>4, <1>8, <2>1, <2>2, <2>3, SameMirrored
<1>9. Mirrored(at)'
    <2>1. Waiting(at)' = {c} /\ Waiting(at) = {}
        BY <1>4, <1>5, <1>6, <1>p DEF Waiting
    <2>2. EventsOf(at)' = EventsOf(at) /\ \A i : Place(i)' = Place(i)
        BY <1>4 DEF EventsOf, Place
    <2>3. Mirrored(at)
        BY <1>1 DEF MirrorInv
    <2>4. Cardinality(EventsOf(at)) \in Nat
        BY <1>0, Finite, FS_CardinalityType
    <2>5. Cardinality(Waiting(at)) = 0 /\ Cardinality(Waiting(at)') = 1
        BY <2>1, FS_EmptySet, FS_Singleton, Zenon
    <2>6. Cardinality(EventsOf(at)) = 1 + n
        <3>1. Counted(at)
            BY <2>3 DEF Mirrored
        <3>2. n \in Nat /\ n = Len(decisions[at])
            BY <1>1, <1>p
        <3> QED BY <2>4, <2>5, <3>1, <3>2 DEF Counted
    <2>7. Counted(at)'
        BY <1>1, <2>2, <2>5, <2>6 DEF Counted
    <2>8. ASSUME NEW i \in EventsOf(at)
          PROVE  TellsChange(log[i], at, Place(i))'
        <3>1. Place(i) \in 1 .. n + 1
            <4>1. Place(i) \in 1 .. Cardinality(EventsOf(at))
                BY <1>0, <2>8, PlaceType
            <4> QED BY <1>1, <2>6, <4>1
        <3>2. TellsChange(log[i], at, Place(i))
            BY <2>3, <2>8 DEF Mirrored
        <3>3. CASE Place(i) = 1
            BY <1>2, <1>4, <2>2, <3>2, <3>3 DEF TellsChange
        <3>4. CASE Place(i) # 1
            <4>1. Place(i) - 1 \in 1 .. n
                BY <1>1, <3>1, <3>4
            <4>2. decisions'[at][Place(i) - 1] = decisions[at][Place(i) - 1]
                BY <1>1, <4>1
            <4> QED BY <1>4, <2>2, <3>2, <3>4, <4>2 DEF TellsChange
        <3> QED BY <3>3, <3>4
    <2> QED BY <2>1, <2>2, <2>7, <2>8 DEF Mirrored
<1>10. \A id \in DOMAIN requests' : Mirrored(id)'
    BY <1>1, <1>8, <1>9
<1> QED BY <1>7, <1>10

LEMMA AppendMirror ==
    ASSUME OneClient, MirrorInv, NEW c \in Clients, LogAppend(c)
    PROVE  (\A id \in DOMAIN requests : Mirrored(id))' /\ WaitingTells'
<1>0. TypeInv /\ LogCounts /\ WaitingTells
    BY DEF MirrorInv, RoutingInv, DutyInv
<1>p. PICK event, at, n, m : /\ event = op[c].event /\ at = event.request_id
                             /\ n = Len(log) /\ m = Len(decisions[at])
    OBVIOUS
<1>1. /\ op[c].pc = "unlogged" /\ log' = Append(log, event) /\ op'[c].pc # "unlogged"
      /\ UNCHANGED <<requests, decisions>>
    BY <1>0, <1>p DEF LogAppend, Done, TypeInv, TypeOK
<1>2. event \in Event /\ at \in DOMAIN requests
    BY <1>0, <1>1, <1>p DEF TypeInv, TypeOK, Idle, Reading, Unlogged, LogCounts
<1>3. TellsChange(event, at, m + 1) /\ TellsState(event, at)
    BY <1>0, <1>1, <1>p DEF WaitingTells
<1>4. \A b \in Clients : b = c
    BY DEF OneClient
<1>5. /\ \A id : Waiting(id)' = {}
      /\ Waiting(at) = {c} /\ \A id : id # at => Waiting(id) = {}
    BY <1>1, <1>4, <1>p DEF Waiting
<1>6. m \in Nat
    <2>1. decisions[at] \in Seq(DecisionRecord)
        BY <1>0, <1>2, LenProperties, ElementOfSeq DEF TypeInv, TypeOK, TablesAgree
    <2> QED BY <1>p, <2>1, LenProperties
<1>7. /\ n \in Nat /\ DOMAIN log = 1 .. n /\ DOMAIN log' = 1 .. n + 1
      /\ log'[n + 1] = event /\ \A i \in 1 .. n : log'[i] = log[i]
    BY <1>0, <1>1, <1>2, <1>p, LogRows
<1>8. WaitingTells'
    BY <1>1, <1>4 DEF WaitingTells
<1>9. ASSUME NEW id \in DOMAIN requests, id # at PROVE Mirrored(id)'
    <2>1. EventsOf(id)' = EventsOf(id)
        BY <1>7, <1>9, <1>p DEF EventsOf
    <2>2. \A i \in EventsOf(id) : log'[i] = log[i]
        BY <1>7 DEF EventsOf
    <2>3. Mirrored(id)
        BY <1>9 DEF MirrorInv
    <2> QED BY <1>0, <1>1, <1>5, <1>9, <2>1, <2>2, <2>3, SameMirrored
<1>10. Mirrored(at)'
    <2>o. PICK old : old = EventsOf(at)
        OBVIOUS
    <2>1. /\ EventsOf(at)' = old \cup {n + 1} /\ old \subseteq 1 .. n
          /\ \A i \in old : log'[i] = log[i]
        BY <1>7, <1>p, <2>o DEF EventsOf
    <2>2. Mirrored(at)
        BY <1>2 DEF MirrorInv
    <2>3. IsFiniteSet(old) /\ Cardinality(old) \in Nat
        BY <1>0, <2>o, Finite, FS_CardinalityType
    <2>4. Cardinality(Waiting(at)) = 1 /\ Cardinality(Waiting(at)') = 0
        BY <1>5, FS_EmptySet, FS_Singleton, Zenon
    <2>5. Cardinality(old) = m
        BY <1>6, <1>p, <2>2, <2>3, <2>4, <2>o DEF Mirrored, Counted
    <2>6. \A i \in old : Place(i) = Cardinality({j \in old : j <= i})
        BY <2>o DEF Place, EventsOf
    <2>7. \A i \in EventsOf(at)' : Place(i)' = Cardinality({j \in EventsOf(at)' : j <= i})
        BY DEF Place, EventsOf
    <2>0. /\ \A j : j \in EventsOf(at)' <=> j \in old \/ j = n + 1
          /\ \A j \in old : j \in Nat /\ j <= n
        <3>1. \A j : j \in EventsOf(at)' <=> j \in old \/ j = n + 1
            BY <2>1, Zenon
        <3>2. \A j \in old : j \in 1 .. n
            BY <2>1, Zenon
        <3> QED BY <1>7, <3>1, <3>2
    <2>8. n + 1 \notin old
        BY <1>7, <2>0
    <2>9. Cardinality(EventsOf(at)') = m + 1
        BY <2>1, <2>3, <2>5, <2>8, FS_AddElement
    <2>10. Counted(at)'
        BY <1>1, <1>6, <1>p, <2>4, <2>9 DEF Counted
    <2>11. ASSUME NEW i \in old PROVE TellsChange(log[i], at, Place(i))'
        <3>1. {j \in EventsOf(at)' : j <= i} = {j \in old : j <= i}
            BY <1>7, <2>1, <2>11
        <3>2. Place(i)' = Place(i)
            BY <2>1, <2>6, <2>7, <2>11, <3>1
        <3>3. TellsChange(log[i], at, Place(i))
            BY <2>2, <2>11, <2>o DEF Mirrored
        <3> QED BY <1>1, <2>1, <2>11, <3>2, <3>3 DEF TellsChange
    <2>12. TellsChange(log[n + 1], at, Place(n + 1))'
        <3>1. \A j \in EventsOf(at)' : j <= n + 1
            <4>1. n \in Nat
                BY <1>7
            <4> QED BY <2>0, <4>1
        <3>2. {j \in EventsOf(at)' : j <= n + 1} = EventsOf(at)'
            BY <3>1
        <3>3. Place(n + 1)' = m + 1
            BY <2>1, <2>7, <2>9, <3>2
        <3> QED BY <1>1, <1>3, <1>7, <3>3 DEF TellsChange
    <2>13. ASSUME NEW i \in EventsOf(at)', \A j \in EventsOf(at)' : j <= i
           PROVE  TellsState(log[i], at)'
        <3>1. n + 1 <= i /\ (i \in old \/ i = n + 1)
            BY <2>0, <2>13
        <3>2. i = n + 1
            BY <1>7, <2>0, <3>1
        <3> QED BY <1>1, <1>3, <1>7, <3>2 DEF TellsState
    <2>14. \A i \in EventsOf(at)' : TellsChange(log[i], at, Place(i))'
        BY <2>1, <2>11, <2>12
    <2> QED BY <2>10, <2>13, <2>14 DEF Mirrored
<1>11. \A id \in DOMAIN requests' : Mirrored(id)'
    BY <1>1, <1>9, <1>10
<1> QED BY <1>8, <1>11

LEMMA NextMirror ==
    ASSUME OneClient
    PROVE  MirrorInv /\ [Next]_vars => MirrorInv'
<1> SUFFICES ASSUME MirrorInv, [Next]_vars PROVE MirrorInv'
    OBVIOUS
<1>1. [CrashNext]_vars
    BY DEF CrashNext
<1>2. RoutingInv' /\ LogCounts'
    BY <1>1, RoutingInvariant, NextCounts DEF MirrorInv, RoutingInv, DutyInv, CountInv
<1>3. TypeInv /\ op \in [Clients -> Idle \cup Reading \cup Unlogged]
    BY DEF MirrorInv, RoutingInv, DutyInv, TypeInv, TypeOK
<1> DEFINE Kept == (\A id \in DOMAIN requests : Mirrored(id))' /\ WaitingTells'
<1>4. ASSUME NEW c \in Clients, NEW preparer \in Actors, NEW payload \in Payloads,
             Submit(c, preparer, payload)
      PROVE  Kept
    BY <1>4, SubmitMirror
<1>5. ASSUME NEW c \in Clients, NEW call \in Calls, DecideRead(c, call)
      PROVE  Kept
    <2>1. /\ UNCHANGED <<requests, decisions, log>>
          /\ op[c].pc # "unlogged" /\ op'[c].pc # "unlogged"
        BY <1>3, <1>5 DEF DecideRead, Done
    <2> QED BY <2>1, QuietMirror
<1>6. ASSUME NEW c \in Clients, DecideCheck(c)
      PROVE  Kept
    <2>1. op[c].pc = "read" /\ op[c] \in Reading
        BY <1>3, <1>6 DEF DecideCheck, Idle, Unlogged, Reading
    <2>2. [op[c] EXCEPT !.pc = "checked"].pc = "checked"
        BY <2>1 DEF Reading
    <2>3. /\ UNCHANGED <<requests, decisions, log>> /\ op'[c].pc # "unlogged"
        BY <1>3, <1>6, <2>2 DEF DecideCheck, Done
    <2> QED BY <2>1, <2>3, QuietMirror
<1>7. ASSUME NEW c \in Clients, DecideWrite(c)
      PROVE  Kept
    BY <1>7, WriteMirror
<1>8. ASSUME NEW c \in Clients, LogAppend(c)
      PROVE  Kept
    BY <1>8, AppendMirror
<1>9. ASSUME UNCHANGED vars
      PROVE  Kept
    <2>1. WaitingTells'
        BY <1>9 DEF vars, MirrorInv, WaitingTells, TellsChange, TellsState
    <2>2. ASSUME NEW id \in DOMAIN requests PROVE Mirrored(id)'
        <3>1. EventsOf(id)' = EventsOf(id) /\ Waiting(id)' = Waiting(id) /\ Mirrored(id)
            BY <1>9, <2>2 DEF vars, EventsOf, Waiting, MirrorInv
        <3> QED BY <1>3, <1>9, <3>1, SameMirrored DEF vars
    <2> QED BY <1>9, <2>1, <2>2 DEF vars
<1> HIDE DEF Kept
<1>10. Kept
    BY <1>4, <1>5, <1>6, <1>7, <1>8, <1>9 DEF Next
<1> QED BY <1>2, <1>10 DEF MirrorInv, Kept

LEMMA MirrorsSuffice == MirrorInv => LogMirrorsTables
<1> SUFFICES ASSUME MirrorInv, NEW id \in DOMAIN requests
             PROVE  /\ Cardinality(EventsOf(id)) + Cardinality(Waiting(id))
                         = 1 + Len(decisions[id])
                    /\ \A i \in EventsOf(id) :
                          IF Place(i) = 1
                            THEN /\ log[i].decision = "submit"
                                 /\ log[i].actor = requests[id].preparer
                            ELSE LET d == decisions[id][Place(i) - 1]
                                 IN  /\ log[i].decision = d.decision
                                     /\ log[i].actor = d.actor
                                     /\ log[i].role = d.role
                    /\ Waiting(id) = {} =>
                          \A i \in EventsOf(id) :
                              (\A j \in EventsOf(id) : j <= i) =>
                                  /\ log[i].status = requests[id].status
                                  /\ log[i].current_stage = requests[id].current_stage
    BY DEF LogMirrorsTables
<1>1. Mirrored(id)
    BY DEF MirrorInv
<1>2. ASSUME NEW i \in EventsOf(id)
      PROVE  IF Place(i) = 1
               THEN /\ log[i].decision = "submit"
                    /\ log[i].actor = requests[id].preparer
               ELSE LET d == decisions[id][Place(i) - 1]
                    IN  /\ log[i].decision = d.decision
                        /\ log[i].actor = d.actor
                        /\ log[i].role = d.role
    <2>1. TellsChange(log[i], id, Place(i))
        BY <1>1, <1>2 DEF Mirrored
    <2> QED BY <2>1 DEF TellsChange, Tells
<1> QED BY <1>1, <1>2 DEF Mirrored, Counted, TellsState

(* With one queue that does not die between its commit and its event, the  *)
(* events of a request are its submission and its decisions, one for one   *)
(* and in order, whatever the calls and refusals in between.               *)
THEOREM LogMirrors ==
    ASSUME OneClient
    PROVE  Spec => []LogMirrorsTables
<1> QED BY InitMirror, NextMirror, MirrorsSuffice, PTL DEF Spec
=============================================================================
