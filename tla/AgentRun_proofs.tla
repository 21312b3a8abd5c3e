--------------------------- MODULE AgentRun_proofs ---------------------------
(***************************************************************************)
(* Proofs about the agents' runs, for any number of processes, runs and    *)
(* documents, whatever the model answers and whoever dies wherever.        *)
(***************************************************************************)
EXTENDS AppPages, SequenceTheorems, TLAPS

-----------------------------------------------------------------------------
(* Sequences of records that only grow.                                    *)
Rows(s) == s \in Seq({s[i] : i \in DOMAIN s})

LEMMA RowsAppend ==
    ASSUME NEW s, NEW x, Rows(s)
    PROVE  /\ Rows(Append(s, x))
           /\ Len(s) \in Nat /\ DOMAIN s = 1 .. Len(s)
           /\ DOMAIN Append(s, x) = 1 .. Len(s) + 1
           /\ Append(s, x)[Len(s) + 1] = x
           /\ \A i \in 1 .. Len(s) : Append(s, x)[i] = s[i]
<1> DEFINE S == {s[i] : i \in DOMAIN s} \cup {x}
           t == Append(s, x)
<1>1. s \in Seq(S) /\ x \in S
    BY DEF Rows
<1> HIDE DEF S
<1>2. /\ t \in Seq(S) /\ Len(t) = Len(s) + 1 /\ t[Len(s) + 1] = x
      /\ \A i \in 1 .. Len(s) : t[i] = s[i]
      /\ Len(s) \in Nat /\ DOMAIN s = 1 .. Len(s)
    BY <1>1, AppendProperties
<1>3. DOMAIN t = 1 .. Len(s) + 1
    BY <1>2
<1>4. t \in [1 .. Len(s) + 1 -> {t[i] : i \in DOMAIN t}]
    BY <1>2, <1>3, ElementOfSeq, LenProperties
<1>5. \A T : t \in [1 .. Len(s) + 1 -> T] => t \in Seq(T)
    <2> HIDE DEF t
    <2> QED BY <1>2, SeqDef
<1>6. Rows(t)
    <2> HIDE DEF t
    <2> QED BY <1>4, <1>5 DEF Rows
<1> QED BY <1>2, <1>3, <1>6

LEMMA AgentNames ==
    Agents = {"ap", "expense", "close", "ar_collections", "controls_sox", "fpa",
              "tax_compliance", "regulatory_change", "reconciliation", "audit_readiness",
              "vat_treatment", "technical_accounting"}
BY DEF Agents, Runs

LEMMA RunsTyped ==
    ASSUME NEW agent \in Agents
    PROVE  Runs[agent] \in Seq(Steps) /\ Runs[agent] # << >>
<1>1. /\ process_invoice \in Seq(Steps) /\ check_receipt_policy_compliance \in Seq(Steps)
      /\ process_invoice # << >> /\ check_receipt_policy_compliance # << >>
    BY DEF process_invoice, check_receipt_policy_compliance, Steps
<1>2. /\ run_close_variance_analysis \in Seq(Steps) /\ run_close_variance_analysis # << >>
      /\ run_ar_collections_analysis = run_close_variance_analysis
      /\ run_journal_entry_control_test = run_close_variance_analysis
      /\ run_driver_based_forecast = run_close_variance_analysis
      /\ run_vat_provision = run_close_variance_analysis
    BY DEF run_close_variance_analysis, run_ar_collections_analysis, Steps,
           run_journal_entry_control_test, run_driver_based_forecast, run_vat_provision
<1>3. run_change_triage \in Seq(Steps) /\ run_change_triage # << >>
    BY DEF run_change_triage, Steps
<1>4. run_reconciliation \in Seq(Steps) /\ run_reconciliation # << >>
    BY DEF run_reconciliation, Steps
<1>5. respond_to_pbc_item \in Seq(Steps) /\ respond_to_pbc_item # << >>
    BY DEF respond_to_pbc_item, Steps
<1>6. /\ determine_vat_treatment \in Seq(Steps) /\ determine_vat_treatment # << >>
      /\ answer_question = determine_vat_treatment
    BY DEF determine_vat_treatment, answer_question, Steps
<1>8. Runs[agent] \in {process_invoice, check_receipt_policy_compliance,
         run_close_variance_analysis, run_ar_collections_analysis,
         run_journal_entry_control_test, run_driver_based_forecast, run_vat_provision,
         run_change_triage, run_reconciliation, respond_to_pbc_item,
         determine_vat_treatment, answer_question}
    BY AgentNames DEF Runs
<1> QED BY <1>1, <1>2, <1>3, <1>4, <1>5, <1>6, <1>8

LEMMA CallExcept ==
    ASSUME NEW o \in Calls, NEW todo, NEW payload
    PROVE  /\ [o EXCEPT !.todo = todo, !.payload = payload] =
                [agent |-> o.agent, run |-> o.run, todo |-> todo, payload |-> payload]
           /\ [o EXCEPT !.payload = payload, !.todo = todo] =
                [agent |-> o.agent, run |-> o.run, todo |-> todo, payload |-> payload]
           /\ [o EXCEPT !.todo = todo] =
                [agent |-> o.agent, run |-> o.run, todo |-> todo, payload |-> o.payload]
<1>1. PICK a, r, t, q : o = [agent |-> a, run |-> r, todo |-> t, payload |-> q]
    BY DEF Calls
<1>2. o.agent = a /\ o.run = r /\ o.payload = q
    BY <1>1
<1>3. /\ [[agent |-> a, run |-> r, todo |-> t, payload |-> q] EXCEPT !.todo = todo] =
            [agent |-> a, run |-> r, todo |-> todo, payload |-> q]
      /\ [[agent |-> a, run |-> r, todo |-> todo, payload |-> q] EXCEPT !.payload = payload] =
            [agent |-> a, run |-> r, todo |-> todo, payload |-> payload]
      /\ [[agent |-> a, run |-> r, todo |-> t, payload |-> q] EXCEPT !.payload = payload] =
            [agent |-> a, run |-> r, todo |-> t, payload |-> payload]
      /\ [[agent |-> a, run |-> r, todo |-> t, payload |-> payload] EXCEPT !.todo = todo] =
            [agent |-> a, run |-> r, todo |-> todo, payload |-> payload]
    OBVIOUS
<1>4. [o EXCEPT !.todo = todo, !.payload = payload] =
         [[o EXCEPT !.todo = todo] EXCEPT !.payload = payload]
    OBVIOUS
<1>5. [o EXCEPT !.payload = payload, !.todo = todo] =
         [[o EXCEPT !.payload = payload] EXCEPT !.todo = todo]
    OBVIOUS
<1> QED BY <1>1, <1>2, <1>3, <1>4, <1>5

LEMMA SeqOfMore ==
    ASSUME NEW S, NEW T, S \subseteq T, NEW s \in Seq(S)
    PROVE  s \in Seq(T)
<1>1. Len(s) \in Nat /\ s \in [1 .. Len(s) -> S]
    BY ElementOfSeq, LenProperties
<1>2. s \in [1 .. Len(s) -> T]
    BY <1>1
<1> QED BY <1>1, <1>2, SeqDef

-----------------------------------------------------------------------------
(* The steps, sorted by what they do to the tables.                        *)
Writes(o, payload, step, fields) ==
    LogStep(o.agent, o.run, step, States(payload, fields))

Steered(p, new) == op' = [op EXCEPT ![p] = new]

Carry(o, todo, payload) ==
    [agent |-> o.agent, run |-> o.run, todo |-> todo, payload |-> payload]

(* A run goes on, with or without an event.                                *)
GoesOn(p, o, payload, todo) ==
    /\ o = op[p] /\ Busy(p) /\ o.todo # << >> /\ payload \in Payload /\ todo \in Seq(Steps)
    /\ Steered(p, Carry(o, todo, payload))
    /\ UNCHANGED <<requests, started, died, serial>>

Put(o, todo, payload) == [o EXCEPT !.todo = todo, !.payload = payload]
PutBack(o, todo, payload) == [o EXCEPT !.payload = payload, !.todo = todo]

LEMMA CallCarried ==
    ASSUME NEW o \in Calls, NEW todo, NEW payload
    PROVE  /\ Put(o, todo, payload) = Carry(o, todo, payload)
           /\ PutBack(o, todo, payload) = Carry(o, todo, payload)
BY CallExcept DEF Carry, Put, PutBack

WithholdingSteps == {"extraction_failed", "answer_refused"}

LEMMA TailTyped ==
    ASSUME NEW todo \in Seq(Steps), todo # << >>
    PROVE  Tail(todo) \in Seq(Steps) /\ Head(todo) \in Steps
BY HeadTailProperties

LEMMA TailOfTwo ==
    ASSUME NEW todo \in Seq(Steps), Len(todo) \in Nat, Len(todo) >= 2
    PROVE  Tail(todo) # << >> /\ Tail(todo) \in Seq(Steps) /\ Head(Tail(todo)) = todo[2]
<1>1. todo # << >>
    BY EmptySeq
<1> PICK t : t = Tail(todo)
    OBVIOUS
<1>2. t \in Seq(Steps) /\ Len(t) = Len(todo) - 1 /\ \A i \in 1 .. Len(todo) - 1 : t[i] = todo[i + 1]
    BY <1>1, HeadTailProperties
<1>3. Len(t) # 0 /\ t[1] = todo[2]
    BY <1>2
<1>4. t # << >>
    <2>1. Len(<< >>) = 0
        OBVIOUS
    <2> QED BY <1>3, <2>1
<1>5. Head(t) = t[1]
    OBVIOUS
<1> QED BY <1>2, <1>3, <1>4, <1>5

LEMMA AdvanceForm ==
    ASSUME TypeOK, NEW p \in Runners, NEW at, AtStep(p, at), NEW payload \in Payload,
           NEW step, NEW fields, Advance(p, payload, step, fields), NEW o, o = op[p]
    PROVE  /\ GoesOn(p, o, payload, Tail(o.todo)) /\ Writes(o, payload, step, fields)
           /\ o \in Calls
<1>1. o \in Calls /\ o.todo \in Seq(Steps) /\ o.todo # << >>
    BY DEF TypeOK, AtStep, Busy, Calls
<1>2. [o EXCEPT !.todo = Tail(o.todo), !.payload = payload] = Carry(o, Tail(o.todo), payload)
    <2>1. Put(o, Tail(o.todo), payload) = Carry(o, Tail(o.todo), payload)
        BY <1>1, CallCarried
    <2> QED BY <2>1 DEF Put
<1>3. op' = [op EXCEPT ![p] = [o EXCEPT !.todo = Tail(o.todo), !.payload = payload]]
    BY DEF Advance
<1>4. Steered(p, Carry(o, Tail(o.todo), payload))
    BY <1>2, <1>3 DEF Steered
<1> QED BY <1>1, <1>4, TailTyped DEF GoesOn, Advance, AtStep, Writes

LEMMA PassOverForm ==
    ASSUME TypeOK, NEW p \in Runners, NEW reason \in Reasons, PassOver(p, reason),
           AtStep(p, "context") \/ AtStep(p, "drafted"), NEW o, o = op[p],
           o.todo # << >>, Head(o.todo) = "context" => Tail(o.todo) # << >>
    PROVE  \E payload \in Payload, todo \in Seq(Steps) :
              /\ GoesOn(p, o, payload, todo) /\ Writes(o, payload, "skipped", {"reason"})
              /\ payload = [o.payload EXCEPT !.reason = reason]
              /\ todo = IF Head(o.todo) = "context" THEN Tail(Tail(o.todo)) ELSE Tail(o.todo)
<1> DEFINE payload == [o.payload EXCEPT !.reason = reason]
           todo == IF Head(o.todo) = "context" THEN Tail(Tail(o.todo)) ELSE Tail(o.todo)
<1>1. o \in Calls /\ o.todo \in Seq(Steps) /\ Busy(p)
    BY DEF TypeOK, AtStep, Busy, Calls
<1>2. payload \in Payload
    BY <1>1 DEF Calls, Payload
<1>3. todo \in Seq(Steps)
    BY <1>1, TailTyped
<1>4. op' = [op EXCEPT ![p] = [o EXCEPT !.payload = payload, !.todo = todo]]
    BY DEF PassOver, NextStep
<1> HIDE DEF payload, todo
<1>5. Steered(p, Carry(o, todo, payload))
    <2>1. PutBack(o, todo, payload) = Carry(o, todo, payload)
        BY <1>1, CallCarried
    <2> QED BY <1>4, <2>1 DEF Steered, PutBack
<1>6. Writes(o, payload, "skipped", {"reason"})
    BY DEF PassOver, Writes, payload
<1>7. GoesOn(p, o, payload, todo)
    BY <1>1, <1>2, <1>3, <1>5 DEF GoesOn, PassOver
<1> QED BY <1>2, <1>3, <1>6, <1>7 DEF payload, todo

-----------------------------------------------------------------------------
(* What is left of a run is the end of its list of steps.                  *)
RestOf(agent, todo) ==
    todo = << >> \/
    \E k \in 1 .. Len(Runs[agent]) :
        /\ Len(todo) = Len(Runs[agent]) - k
        /\ \A i \in 1 .. Len(todo) : todo[i] = Runs[agent][k + i]

LEMMA RestTail ==
    ASSUME NEW agent \in Agents, NEW todo \in Seq(Steps), todo # << >>
    PROVE  /\ RestOf(agent, todo) => RestOf(agent, Tail(todo))
           /\ todo = Runs[agent] => RestOf(agent, Tail(todo))
<1>1. /\ Len(todo) \in Nat /\ Len(todo) # 0 /\ Len(Tail(todo)) = Len(todo) - 1
      /\ \A i \in 1 .. Len(todo) - 1 : Tail(todo)[i] = todo[i + 1]
    BY HeadTailProperties, EmptySeq, LenProperties
<1>2. Len(Runs[agent]) \in Nat
    BY RunsTyped, LenProperties
<1>3. ASSUME RestOf(agent, todo)
      PROVE  RestOf(agent, Tail(todo))
    <2>1. PICK k \in 1 .. Len(Runs[agent]) :
             /\ Len(todo) = Len(Runs[agent]) - k
             /\ \A i \in 1 .. Len(todo) : todo[i] = Runs[agent][k + i]
        BY <1>3 DEF RestOf
    <2>2. k + 1 \in 1 .. Len(Runs[agent]) /\ Len(Tail(todo)) = Len(Runs[agent]) - (k + 1)
        BY <1>1, <1>2, <2>1
    <2>3. ASSUME NEW i \in 1 .. Len(Tail(todo))
          PROVE  Tail(todo)[i] = Runs[agent][(k + 1) + i]
        BY <1>1, <1>2, <2>1
    <2> QED BY <2>2, <2>3 DEF RestOf
<1>4. ASSUME todo = Runs[agent]
      PROVE  RestOf(agent, Tail(todo))
    <2>1. ASSUME NEW i \in 1 .. Len(Tail(todo))
          PROVE  Tail(todo)[i] = Runs[agent][1 + i]
        BY <1>1, <1>4
    <2>2. 1 \in 1 .. Len(Runs[agent]) /\ Len(Tail(todo)) = Len(Runs[agent]) - 1
        BY <1>1, <1>4
    <2> QED BY <2>1, <2>2 DEF RestOf
<1> QED BY <1>3, <1>4

LEMMA ContextForm ==
    ASSUME NEW agent \in Agents
    PROVE  \A k \in 1 .. Len(Runs[agent]) : Runs[agent][k] = "context" =>
              /\ k < Len(Runs[agent])
              /\ Drafting[agent] = "per_finding" => Runs[agent][k + 1] = "drafted"
              /\ agent = "audit_readiness" => Runs[agent][k + 1] = "answered"
<1>1. CASE agent \in {"ap", "expense"}
    <2>1. Runs[agent] = process_invoice
        BY <1>1 DEF Runs, process_invoice, check_receipt_policy_compliance
    <2>2. \A k \in 1 .. 5 : process_invoice[k] # "context"
        BY DEF process_invoice
    <2>3. Len(process_invoice) = 5
        BY DEF process_invoice
    <2> QED BY <2>1, <2>2, <2>3
<1>2. CASE agent \in {"close", "ar_collections", "controls_sox", "fpa", "tax_compliance"}
    <2>1. Runs[agent] = run_close_variance_analysis
        BY <1>2 DEF Runs, run_close_variance_analysis, run_ar_collections_analysis,
           run_journal_entry_control_test, run_driver_based_forecast, run_vat_provision
    <2> QED BY <1>2, <2>1 DEF run_close_variance_analysis
<1>3. CASE agent = "regulatory_change"
    BY <1>3 DEF Runs, run_change_triage
<1>4. CASE agent = "reconciliation"
    BY <1>4 DEF Runs, run_reconciliation
<1>5. CASE agent = "audit_readiness"
    <2>1. Drafting[agent] = "text"
        BY <1>5 DEF Drafting, draft_response
    <2> QED BY <1>5, <2>1 DEF Runs, respond_to_pbc_item
<1>6. CASE agent \in {"vat_treatment", "technical_accounting"}
    <2>1. Drafting[agent] = "text"
        BY <1>6 DEF Drafting, draft_treatment, draft_answer
    <2>2. Runs[agent] = determine_vat_treatment
        BY <1>6 DEF Runs, determine_vat_treatment, answer_question
    <2> QED BY <1>6, <2>1, <2>2 DEF determine_vat_treatment
<1> QED BY <1>1, <1>2, <1>3, <1>4, <1>5, <1>6, AgentNames

LEMMA RestContext ==
    ASSUME NEW agent \in Agents, NEW todo \in Seq(Steps), RestOf(agent, todo),
           todo # << >>, Head(todo) = "context"
    PROVE  /\ Len(todo) \in Nat /\ Len(todo) >= 2
           /\ Drafting[agent] = "per_finding" => todo[2] = "drafted"
           /\ agent = "audit_readiness" => todo[2] = "answered"
<1>1. PICK k \in 1 .. Len(Runs[agent]) :
         /\ Len(todo) = Len(Runs[agent]) - k
         /\ \A i \in 1 .. Len(todo) : todo[i] = Runs[agent][k + i]
    BY DEF RestOf
<1>2. Len(Runs[agent]) \in Nat /\ Len(todo) \in Nat /\ Len(todo) # 0 /\ todo[1] = "context"
    BY RunsTyped, LenProperties, EmptySeq
<1>3. Runs[agent][k + 1] = "context" /\ k + 1 \in 1 .. Len(Runs[agent])
    BY <1>1, <1>2
<1>4. /\ k + 1 < Len(Runs[agent])
      /\ Drafting[agent] = "per_finding" => Runs[agent][k + 2] = "drafted"
      /\ agent = "audit_readiness" => Runs[agent][k + 2] = "answered"
    BY <1>2, <1>3, ContextForm
<1> QED BY <1>1, <1>2, <1>4

LEMMA SubmittedLast ==
    ASSUME NEW agent \in Agents
    PROVE  \A k \in 1 .. Len(Runs[agent]) :
              Runs[agent][k] = "submitted" <=> k = Len(Runs[agent])
<1>1. CASE agent \in {"ap", "expense"}
    <2>1. Runs[agent] = process_invoice
        BY <1>1 DEF Runs, process_invoice, check_receipt_policy_compliance
    <2> QED BY <2>1 DEF process_invoice
<1>2. CASE agent \in {"close", "ar_collections", "controls_sox", "fpa", "tax_compliance"}
    <2>1. Runs[agent] = run_close_variance_analysis
        BY <1>2 DEF Runs, run_close_variance_analysis, run_ar_collections_analysis,
           run_journal_entry_control_test, run_driver_based_forecast, run_vat_provision
    <2> QED BY <1>2, <2>1 DEF run_close_variance_analysis
<1>3. CASE agent = "regulatory_change"
    BY <1>3 DEF Runs, run_change_triage
<1>4. CASE agent = "reconciliation"
    BY <1>4 DEF Runs, run_reconciliation
<1>5. CASE agent = "audit_readiness"
    BY <1>5 DEF Runs, respond_to_pbc_item
<1>6. CASE agent \in {"vat_treatment", "technical_accounting"}
    <2>1. Runs[agent] = determine_vat_treatment
        BY <1>6 DEF Runs, determine_vat_treatment, answer_question
    <2> QED BY <1>6, <2>1 DEF determine_vat_treatment
<1> QED BY <1>1, <1>2, <1>3, <1>4, <1>5, <1>6, AgentNames

(* A step that does not submit is never the last.                          *)
LEMMA TailLeft ==
    ASSUME NEW agent \in Agents, NEW todo \in Seq(Steps), todo # << >>,
           RestOf(agent, todo) \/ todo = Runs[agent], Head(todo) # "submitted"
    PROVE  Tail(todo) # << >>
<1>1. Len(Runs[agent]) \in Nat /\ Len(todo) \in Nat /\ Len(todo) # 0 /\ Head(todo) = todo[1]
    BY RunsTyped, LenProperties, EmptySeq
<1>2. CASE RestOf(agent, todo)
    <2>1. PICK k \in 1 .. Len(Runs[agent]) :
             /\ Len(todo) = Len(Runs[agent]) - k
             /\ \A i \in 1 .. Len(todo) : todo[i] = Runs[agent][k + i]
        BY <1>2 DEF RestOf
    <2>2. k + 1 \in 1 .. Len(Runs[agent]) /\ Runs[agent][k + 1] # "submitted"
        BY <1>1, <2>1
    <2>3. k + 1 # Len(Runs[agent])
        BY <2>2, SubmittedLast
    <2> QED BY <1>1, <2>1, <2>2, <2>3, TailOfTwo
<1>3. CASE todo = Runs[agent]
    <2>1. 1 # Len(Runs[agent])
        BY <1>1, <1>3, SubmittedLast
    <2>2. Len(todo) # 1
        BY <1>3, <2>1
    <2>3. PICK n : n = Len(todo)
        OBVIOUS
    <2>4. n \in Nat /\ n # 0 /\ n # 1
        BY <1>1, <2>2, <2>3
    <2>5. n >= 2
        BY <2>4
    <2> QED BY <1>1, <2>3, <2>5, TailOfTwo
<1> QED BY <1>2, <1>3

-----------------------------------------------------------------------------
(* What the events of a run may have stated before it takes a step: no     *)
(* step from then on changes it.                                           *)
PayloadFields == {"source", "transcript", "findings", "chunks", "draft", "reason"}

Untranscribed == {"extracted", "retrieved"}
Uncomputed == Untranscribed \cup {"computed"}
Unretrieved(agent) ==
    Uncomputed \cup {"context"} \cup (IF agent \in Vision THEN {"drafted"} ELSE {})
Undrafted == Uncomputed \cup {"context", "drafted", "answered"}

Past(agent, step) ==
    {"source"} \cup (IF step \in Untranscribed THEN {} ELSE {"transcript", "heading"})
               \cup (IF step \in Uncomputed THEN {} ELSE {"findings", "count"})
               \cup (IF step \in Unretrieved(agent) THEN {} ELSE {"chunks"})
               \cup (IF step \in Undrafted THEN {} ELSE {"draft", "reason"})

LEMMA PastForm ==
    ASSUME NEW agent
    PROVE  /\ \A step : Past(agent, step) \subseteq StatedFields /\ "source" \in Past(agent, step)
           /\ \A step : step \in Untranscribed => Past(agent, step) = {"source"}
           /\ Past(agent, "computed") = {"source", "transcript", "heading"}
           /\ Past(agent, "context") = {"source", "transcript", "heading", "findings", "count"}
           /\ Past(agent, "answered") = Past(agent, "context") \cup {"chunks"}
           /\ Past(agent, "drafted") =
                 Past(agent, "context") \cup (IF agent \in Vision THEN {} ELSE {"chunks"})
           /\ Past(agent, "reported") = StatedFields
           /\ Past(agent, "submitted") = StatedFields
BY DEF Past, StatedFields, Untranscribed, Uncomputed, Unretrieved, Undrafted

(* Which step comes after which.                                           *)
Follows(agent, s, t) ==
    /\ s \in Undrafted \cup {"reported"}
    /\ s # Head(Runs[agent])
    /\ s = "extracted" => agent \in Vision /\ t = "computed"
    /\ s = "retrieved" => t = "computed"
    /\ s = "computed" => IF agent \in Vision THEN t = "drafted" ELSE t \in {"context", "reported"}
    /\ s = "context" => agent \notin Vision /\ t \in {"drafted", "answered"}
    /\ s = "drafted" => t \in {"reported", "submitted"}
    /\ s \in {"answered", "reported"} => t = "submitted"

LEMMA PastGrows ==
    ASSUME NEW agent, NEW s, NEW t, Follows(agent, s, t)
    PROVE  Past(agent, s) \subseteq Past(agent, t)
BY DEF Past, Follows, Untranscribed, Uncomputed, Unretrieved, Undrafted

LEMMA StepOrder ==
    ASSUME NEW agent \in Agents
    PROVE  /\ \A k \in 2 .. Len(Runs[agent]) - 1 :
                 Follows(agent, Runs[agent][k], Runs[agent][k + 1])
           /\ Len(Runs[agent]) \in Nat /\ Len(Runs[agent]) >= 2
           /\ Head(Runs[agent]) \in {"received", "retrieved", "tied_out", "context"}
           /\ Head(Runs[agent]) = "tied_out" => Runs[agent][2] = "context"
           /\ Head(Runs[agent]) = "context" => Runs[agent][2] = "answered"
<1> DEFINE Ordered ==
       /\ \A k \in 2 .. Len(Runs[agent]) - 1 : Follows(agent, Runs[agent][k], Runs[agent][k + 1])
       /\ Len(Runs[agent]) \in Nat /\ Len(Runs[agent]) >= 2
       /\ Head(Runs[agent]) \in {"received", "retrieved", "tied_out", "context"}
       /\ Head(Runs[agent]) = "tied_out" => Runs[agent][2] = "context"
       /\ Head(Runs[agent]) = "context" => Runs[agent][2] = "answered"
<1> SUFFICES Ordered
    OBVIOUS
<1> USE DEF Follows, Undrafted, Uncomputed, Untranscribed
<1>1. CASE agent \in {"ap", "expense"}
    <2>1. Runs[agent] = process_invoice /\ agent \in Vision
        BY <1>1 DEF Runs, process_invoice, check_receipt_policy_compliance, Vision
    <2>2. \A k \in 2 .. 4 : k = 2 \/ k = 3 \/ k = 4
        OBVIOUS
    <2> QED BY <2>1, <2>2 DEF process_invoice
<1>2. CASE agent \in {"close", "ar_collections", "controls_sox", "fpa", "tax_compliance"}
    <2>1. Runs[agent] = run_close_variance_analysis /\ agent \notin Vision
        BY <1>2 DEF Runs, run_close_variance_analysis, run_ar_collections_analysis,
           run_journal_entry_control_test, run_driver_based_forecast, run_vat_provision, Vision
    <2>2. \A k \in 2 .. 5 : k = 2 \/ k = 3 \/ k = 4 \/ k = 5
        OBVIOUS
    <2> QED BY <2>1, <2>2 DEF run_close_variance_analysis
<1>3. CASE agent = "regulatory_change"
    <2>1. Runs[agent] = run_change_triage /\ agent \notin Vision
        BY <1>3 DEF Runs, Vision
    <2>2. \A k \in 2 .. 6 : k = 2 \/ k = 3 \/ k = 4 \/ k = 5 \/ k = 6
        OBVIOUS
    <2> QED BY <2>1, <2>2 DEF run_change_triage
<1>4. CASE agent = "reconciliation"
    <2>1. Runs[agent] = run_reconciliation /\ agent \notin Vision
        BY <1>4 DEF Runs, Vision
    <2>2. \A k \in 2 .. 3 : k = 2 \/ k = 3
        OBVIOUS
    <2> QED BY <2>1, <2>2 DEF run_reconciliation
<1>5. CASE agent = "audit_readiness"
    <2>1. Runs[agent] = respond_to_pbc_item /\ agent \notin Vision
        BY <1>5 DEF Runs, Vision
    <2>2. \A k \in 2 .. 3 : k = 2 \/ k = 3
        OBVIOUS
    <2> QED BY <2>1, <2>2 DEF respond_to_pbc_item
<1>6. CASE agent \in {"vat_treatment", "technical_accounting"}
    <2>1. Runs[agent] = determine_vat_treatment /\ agent \notin Vision
        BY <1>6 DEF Runs, determine_vat_treatment, answer_question, Vision
    <2>2. \A k \in 2 .. 2 : k = 2
        OBVIOUS
    <2> QED BY <2>1, <2>2 DEF determine_vat_treatment
<1> QED BY <1>1, <1>2, <1>3, <1>4, <1>5, <1>6, AgentNames

LEMMA RestFollows ==
    ASSUME NEW agent \in Agents, NEW todo \in Seq(Steps), todo # << >>, RestOf(agent, todo),
           Tail(todo) # << >>
    PROVE  Follows(agent, Head(todo), Head(Tail(todo)))
<1>1. PICK k \in 1 .. Len(Runs[agent]) :
         /\ Len(todo) = Len(Runs[agent]) - k
         /\ \A i \in 1 .. Len(todo) : todo[i] = Runs[agent][k + i]
    BY DEF RestOf
<1>2. Len(todo) \in Nat /\ Len(todo) # 0 /\ Len(Tail(todo)) = Len(todo) - 1 /\ Head(todo) = todo[1]
      /\ Tail(todo) \in Seq(Steps)
    BY HeadTailProperties, EmptySeq, LenProperties
<1>3. Len(Tail(todo)) # 0
    <2> PICK t : t = Tail(todo)
        OBVIOUS
    <2> QED BY <1>2, EmptySeq
<1>4. Len(todo) >= 2
    BY <1>2, <1>3
<1>5. Head(Tail(todo)) = todo[2]
    BY <1>2, <1>4, TailOfTwo
<1>6. /\ k + 1 \in 2 .. Len(Runs[agent]) - 1 /\ todo[1] = Runs[agent][k + 1]
      /\ todo[2] = Runs[agent][(k + 1) + 1]
    <2>1. Len(Runs[agent]) \in Nat
        BY StepOrder
    <2> QED BY <1>1, <1>4, <2>1
<1> QED BY <1>2, <1>5, <1>6, StepOrder

LEMMA FirstStep ==
    ASSUME NEW agent \in Agents
    PROVE  /\ Head(Runs[agent]) \in {"received", "retrieved", "tied_out", "context"}
           /\ Head(Runs[agent]) = "tied_out" => Head(Tail(Runs[agent])) = "context"
           /\ Head(Runs[agent]) = "context" => Head(Tail(Runs[agent])) = "answered"
<1>1. Runs[agent] \in Seq(Steps)
    BY RunsTyped
<1>2. Head(Tail(Runs[agent])) = Runs[agent][2]
    BY <1>1, StepOrder, TailOfTwo
<1> QED BY <1>2, StepOrder

-----------------------------------------------------------------------------
Withheld(run) ==
    \E i \in DOMAIN log : log[i].run = run /\ log[i].step \in WithholdingSteps

(* A run in progress is nobody else's, has not ended, and has submitted    *)
(* nothing before it is through with its steps.                            *)
RunRight(o) ==
    /\ RestOf(o.agent, o.todo)
    /\ o.run \in 1 .. started /\ o.run \notin died /\ ~Withheld(o.run)
    /\ Submitted(o.run) => o.todo = << >>

RunsRight ==
    /\ \A p \in Runners : Busy(p) => RunRight(op[p])
    /\ \A p, q \in Runners : Busy(p) /\ Busy(q) /\ op[p].run = op[q].run => p = q

RunInv == TypeOK /\ Rows(log) /\ RunsRight

QuietSteps == Steps \ (WithholdingSteps \cup {"submitted"})

(* An event tells a field, or it need not: it is empty, or told in part.   *)
Covered(f, payload, fields) ==
    \/ f \in fields
    \/ payload[f] = Fresh(payload.source)[f]
    \/ f = "transcript" /\ "heading" \in fields
    \/ f = "findings" /\ "count" \in fields /\ payload.findings = Findings[payload.source]

(* A step in the middle of a run: it changes nothing that earlier events   *)
(* may have stated, and what it changes its own event covers.              *)
Moves(p, o, payload, todo, step, fields) ==
    /\ GoesOn(p, o, payload, todo)
    /\ o \in Calls /\ RunRight(o) /\ RestOf(o.agent, todo) /\ todo # << >>
    /\ \/ Writes(o, payload, step, fields)
       \/ log' = log /\ fields = {}
    /\ step \in QuietSteps /\ step # Head(Runs[o.agent])
    /\ fields \subseteq Past(o.agent, Head(todo))
    /\ Past(o.agent, Head(o.todo)) \subseteq Past(o.agent, Head(todo))
    /\ payload.source = o.payload.source
    /\ \A f \in Past(o.agent, Head(o.todo)) : Says(payload, f) = Says(o.payload, f)
    /\ \A f \in PayloadFields : payload[f] = o.payload[f] \/ Covered(f, payload, fields)

LEMMA AdvanceMoves ==
    ASSUME RunInv, NEW p \in Runners, NEW at, at # "submitted", AtStep(p, at), NEW o, o = op[p],
           NEW payload \in Payload, NEW step \in QuietSteps, step \in {at, "not_drafted"},
           NEW fields, Advance(p, payload, step, fields),
           \A t : Follows(o.agent, at, t) => fields \subseteq Past(o.agent, t),
           payload.source = o.payload.source,
           \A f \in Past(o.agent, at) : Says(payload, f) = Says(o.payload, f),
           \A f \in PayloadFields : payload[f] = o.payload[f] \/ Covered(f, payload, fields)
    PROVE  Moves(p, o, payload, Tail(o.todo), step, fields)
<1>1. o.todo # << >> /\ Head(o.todo) = at /\ Busy(p)
    BY DEF AtStep, NextStep
<1>2. /\ GoesOn(p, o, payload, Tail(o.todo)) /\ Writes(o, payload, step, fields)
      /\ o \in Calls /\ RunRight(o)
    <2>1. TypeOK /\ RunRight(o)
        BY <1>1 DEF RunInv, RunsRight
    <2>2. GoesOn(p, o, payload, Tail(o.todo)) /\ Writes(o, payload, step, fields) /\ o \in Calls
        <3>1. /\ TypeOK /\ AtStep(p, at)
            BY <2>1
        <3>2. o \in Calls /\ o.todo \in Seq(Steps)
            BY <1>1, <2>1 DEF TypeOK, Busy, Calls
        <3> QED BY <1>1, <2>1, <3>2, AdvanceForm
    <2> QED BY <2>1, <2>2
<1>3. o.todo \in Seq(Steps) /\ o.agent \in Agents
    BY <1>2 DEF Calls
<1>4. RestOf(o.agent, Tail(o.todo)) /\ Tail(o.todo) # << >>
    BY <1>1, <1>2, <1>3, RestTail, TailLeft DEF RunRight
<1>5. Follows(o.agent, at, Head(Tail(o.todo)))
    BY <1>1, <1>2, <1>3, <1>4, RestFollows DEF RunRight
<1>6. /\ fields \subseteq Past(o.agent, Head(Tail(o.todo)))
      /\ Past(o.agent, at) \subseteq Past(o.agent, Head(Tail(o.todo)))
    BY <1>5, PastGrows
<1>7. step # Head(Runs[o.agent])
    BY <1>3, <1>5, FirstStep DEF Follows
<1> QED BY <1>1, <1>2, <1>4, <1>6, <1>7 DEF Moves

LEMMA PassOverMoves ==
    ASSUME RunInv, NEW p \in Runners, NEW reason \in Reasons, PassOver(p, reason),
           NEW o, o = op[p],
           \/ AtStep(p, "context") /\ Drafting[o.agent] = "per_finding"
           \/ AtStep(p, "drafted")
    PROVE  \E payload, todo : Moves(p, o, payload, todo, "skipped", {"reason"})
<1>1. o \in Calls /\ RunRight(o) /\ o.todo # << >>
    BY DEF RunInv, TypeOK, RunsRight, AtStep, Busy
<1>2. o.todo \in Seq(Steps) /\ o.agent \in Agents /\ RestOf(o.agent, o.todo)
      /\ o.payload \in Payload
    BY <1>1 DEF Calls, RunRight
<1>3. Head(o.todo) \in {"context", "drafted"}
    BY DEF AtStep, NextStep
<1>4. ASSUME Head(o.todo) = "context"
      PROVE  /\ Tail(o.todo) # << >> /\ Head(Tail(o.todo)) = "drafted"
             /\ Tail(o.todo) \in Seq(Steps)
    <2>1. Drafting[o.agent] = "per_finding"
        BY <1>4 DEF AtStep, NextStep
    <2>2. Len(o.todo) \in Nat /\ Len(o.todo) >= 2 /\ o.todo[2] = "drafted"
        BY <1>1, <1>2, <1>4, <2>1, RestContext
    <2> QED BY <1>2, <2>2, TailOfTwo
<1>5. PICK payload \in Payload, todo \in Seq(Steps) :
         /\ GoesOn(p, o, payload, todo) /\ Writes(o, payload, "skipped", {"reason"})
         /\ payload = [o.payload EXCEPT !.reason = reason]
         /\ todo = IF Head(o.todo) = "context" THEN Tail(Tail(o.todo)) ELSE Tail(o.todo)
    BY <1>1, <1>4, PassOverForm DEF RunInv
<1> PICK last \in Seq(Steps) : last = IF Head(o.todo) = "context" THEN Tail(o.todo) ELSE o.todo
    BY <1>2, <1>4
<1>6. /\ last # << >> /\ Head(last) = "drafted" /\ RestOf(o.agent, last) /\ todo = Tail(last)
    <2>1. RestOf(o.agent, Tail(o.todo))
        BY <1>1, <1>2, RestTail
    <2> QED BY <1>1, <1>2, <1>3, <1>4, <1>5, <2>1
<1>7. RestOf(o.agent, todo) /\ todo # << >>
    BY <1>2, <1>6, RestTail, TailLeft
<1>8. Follows(o.agent, "drafted", Head(todo))
    BY <1>2, <1>6, <1>7, RestFollows
<1>9. /\ "reason" \in Past(o.agent, Head(todo))
      /\ Past(o.agent, "drafted") \subseteq Past(o.agent, Head(todo))
    <2>1. Head(todo) \in {"reported", "submitted"}
        BY <1>8 DEF Follows
    <2> QED BY <1>8, <2>1, PastForm, PastGrows DEF StatedFields
<1>10. /\ Past(o.agent, Head(o.todo)) \subseteq Past(o.agent, "drafted")
       /\ "reason" \notin Past(o.agent, "drafted")
    BY <1>3, PastForm
<1>11. /\ payload.source = o.payload.source
       /\ \A f \in StatedFields \ {"reason"} : Says(payload, f) = Says(o.payload, f)
       /\ \A f \in PayloadFields \ {"reason"} : payload[f] = o.payload[f]
    BY <1>2, <1>5 DEF Payload, PayloadFields, StatedFields, Says
<1>12. \A f \in Past(o.agent, Head(o.todo)) : Says(payload, f) = Says(o.payload, f)
    BY <1>10, <1>11, PastForm
<1>13. "skipped" \in QuietSteps /\ "skipped" # Head(Runs[o.agent])
    BY <1>2, FirstStep DEF QuietSteps, Steps, WithholdingSteps
<1>14. Past(o.agent, Head(o.todo)) \subseteq Past(o.agent, Head(todo))
    BY <1>9, <1>10
<1>15. \A f \in PayloadFields : payload[f] = o.payload[f] \/ Covered(f, payload, {"reason"})
    BY <1>11 DEF Covered
<1> QED BY <1>1, <1>5, <1>7, <1>9, <1>11, <1>12, <1>13, <1>14, <1>15 DEF Moves

(* What the actions do with the payload keeps it a payload.                *)
LEMMA WantedItems ==
    ASSUME NEW p, op[p] \in Calls
    PROVE  Wanted(p) \subseteq Items
BY DEF Wanted, Calls, Payload

LEMMA DraftTyped ==
    ASSUME NEW p, op[p] \in Calls, NEW answer
    PROVE  DraftFrom(p, answer) \in Drafts
<1>1. Wanted(p) \in SUBSET Items
    BY WantedItems
<1>2. DraftFrom(p, answer) \in [Wanted(p) -> BOOLEAN]
    BY DEF DraftFrom
<1> QED BY <1>1, <1>2 DEF Drafts

(* The steps of Continue that neither withhold nor submit.                 *)
LEMMA MovesForm ==
    ASSUME RunInv, NEW p \in Runners, NEW o, o = op[p],
           \/ \E transcript \in Sources : Extract(p, transcript)
           \/ RetrieveControls(p) \/ Report(p)
           \/ \E source \in Sources : Compute(p, source)
           \/ \E chunks \in SUBSET Chunks : RetrieveContext(p, chunks)
           \/ NoKnowledgeBase(p) \/ SkipUnflagged(p) \/ SkipUngrounded(p)
           \/ \E chunks \in SUBSET Chunks, answer \in Answers : Draft(p, chunks, answer)
           \/ \E answer \in Answers : Answer(p, answer) /\ answer.kind # "refusal"
    PROVE  \E payload, todo, step, fields : Moves(p, o, payload, todo, step, fields)
<1>o. o \in Calls /\ o.payload \in Payload /\ o.agent \in Agents /\ o.todo \in Seq(Steps)
      /\ RunRight(o) /\ o.todo # << >> /\ Busy(p)
    BY DEF RunInv, TypeOK, Calls, RunsRight, Busy, AtStep, Extract, RetrieveControls, Report,
       Compute, RetrieveContext, NoKnowledgeBase, SkipUnflagged, SkipUngrounded, Draft, Answer
<1>q. {"extracted", "retrieved", "reported", "computed", "context", "drafted", "not_drafted",
       "answered"} \subseteq QuietSteps
    BY DEF QuietSteps, Steps, WithholdingSteps
<1>1. ASSUME NEW transcript \in Sources, Extract(p, transcript)
      PROVE  \E payload, todo, step, fields : Moves(p, o, payload, todo, step, fields)
    <2> DEFINE payload == [o.payload EXCEPT !.transcript = transcript]
    <2> PICK fields : fields = IF o.agent = "ap" THEN {"heading"} ELSE {"transcript"}
        OBVIOUS
    <2>1. payload \in Payload
        BY <1>o DEF Payload
    <2>2. /\ payload.source = o.payload.source
          /\ \A f \in PayloadFields \ {"transcript"} : payload[f] = o.payload[f]
        BY <1>o DEF Payload, PayloadFields
    <2>3. AtStep(p, "extracted") /\ Advance(p, payload, "extracted", fields)
        BY <1>1 DEF Extract
    <2> HIDE DEF payload
    <2>4. \A f \in Past(o.agent, "extracted") : Says(payload, f) = Says(o.payload, f)
        BY <2>2, PastForm DEF Says, Untranscribed
    <2>5. \A f \in PayloadFields : payload[f] = o.payload[f] \/ Covered(f, payload, fields)
        BY <2>2 DEF Covered
    <2>6. \A t : Follows(o.agent, "extracted", t) => fields \subseteq Past(o.agent, t)
        BY PastForm DEF Follows
    <2> QED BY <1>q, <2>1, <2>2, <2>3, <2>4, <2>5, <2>6, AdvanceMoves
<1>2. CASE RetrieveControls(p)
    <2>1. AtStep(p, "retrieved") /\ Advance(p, o.payload, "retrieved", {"source"})
        BY <1>2 DEF RetrieveControls
    <2>2. \A t : {"source"} \subseteq Past(o.agent, t)
        BY PastForm
    <2> QED BY <1>o, <1>q, <2>1, <2>2, AdvanceMoves
<1>3. CASE Report(p)
    <2> PICK fields : fields = IF o.agent \in Summarised THEN {"findings"} ELSE {"count"}
        OBVIOUS
    <2>1. AtStep(p, "reported") /\ Advance(p, o.payload, "reported", fields)
        BY <1>3 DEF Report
    <2>2. \A t : Follows(o.agent, "reported", t) => fields \subseteq Past(o.agent, t)
        BY PastForm DEF Follows, StatedFields
    <2> QED BY <1>o, <1>q, <2>1, <2>2, AdvanceMoves
<1>4. ASSUME NEW source \in Sources, Compute(p, source)
      PROVE  \E payload, todo, step, fields : Moves(p, o, payload, todo, step, fields)
    <2> DEFINE payload == [o.payload EXCEPT !.findings = Findings[source]]
    <2> PICK fields : fields = IF o.agent = "reconciliation" THEN {"count"} ELSE {"findings"}
        OBVIOUS
    <2>1. payload \in Payload
        BY <1>o, FindingsAssumption DEF Payload
    <2>2. /\ payload.source = o.payload.source /\ payload.findings = Findings[source]
          /\ \A f \in PayloadFields \ {"findings"} : payload[f] = o.payload[f]
        BY <1>o DEF Payload, PayloadFields
    <2>3. /\ AtStep(p, "computed") /\ Advance(p, payload, "computed", fields)
          /\ o.agent = "reconciliation" => source = o.payload.source
        BY <1>4 DEF Compute, Vision
    <2> HIDE DEF payload
    <2>4. \A f \in Past(o.agent, "computed") : Says(payload, f) = Says(o.payload, f)
        BY <2>2, PastForm DEF Says, PayloadFields
    <2>5. \A f \in PayloadFields : payload[f] = o.payload[f] \/ Covered(f, payload, fields)
        BY <2>2, <2>3 DEF Covered
    <2>6. \A t : Follows(o.agent, "computed", t) => fields \subseteq Past(o.agent, t)
        BY PastForm DEF Follows, StatedFields
    <2> QED BY <1>q, <2>1, <2>2, <2>3, <2>4, <2>5, <2>6, AdvanceMoves
<1>5. ASSUME NEW chunks \in SUBSET Chunks, RetrieveContext(p, chunks)
      PROVE  \E payload, todo, step, fields : Moves(p, o, payload, todo, step, fields)
    <2> DEFINE payload == [o.payload EXCEPT !.chunks = chunks]
    <2>1. payload \in Payload
        BY <1>o DEF Payload
    <2>2. /\ payload.source = o.payload.source
          /\ \A f \in PayloadFields \ {"chunks"} : payload[f] = o.payload[f]
        BY <1>o DEF Payload, PayloadFields
    <2>3. AtStep(p, "context") /\ Advance(p, payload, "context", {"chunks"})
        BY <1>5 DEF RetrieveContext
    <2> HIDE DEF payload
    <2>4. \A f \in Past(o.agent, "context") : Says(payload, f) = Says(o.payload, f)
        BY <2>2, PastForm DEF Says, PayloadFields
    <2>5. \A f \in PayloadFields : payload[f] = o.payload[f] \/ Covered(f, payload, {"chunks"})
        BY <2>2 DEF Covered
    <2>6. \A t : Follows(o.agent, "context", t) => {"chunks"} \subseteq Past(o.agent, t)
        BY PastForm DEF Follows
    <2> QED BY <1>q, <2>1, <2>2, <2>3, <2>4, <2>5, <2>6, AdvanceMoves
<1>6. CASE NoKnowledgeBase(p)
    <2>1. Head(o.todo) = "context" /\ o.agent = "audit_readiness"
        BY <1>6 DEF NoKnowledgeBase, AtStep, NextStep
    <2>2. Len(o.todo) \in Nat /\ Len(o.todo) >= 2 /\ o.todo[2] = "answered"
        BY <1>o, <2>1, RestContext DEF RunRight
    <2>3. Tail(o.todo) # << >> /\ Head(Tail(o.todo)) = "answered" /\ Tail(o.todo) \in Seq(Steps)
        BY <1>o, <2>2, TailOfTwo
    <2>4. Follows(o.agent, "context", "answered")
        BY <1>o, <2>1, <2>3, RestFollows DEF RunRight
    <2>5. [o EXCEPT !.todo = Tail(o.todo)] = Carry(o, Tail(o.todo), o.payload)
        BY <1>o, CallExcept DEF Carry
    <2>6. GoesOn(p, o, o.payload, Tail(o.todo)) /\ log' = log
        BY <1>6, <1>o, <2>3, <2>5 DEF NoKnowledgeBase, GoesOn, Steered
    <2>7. RestOf(o.agent, Tail(o.todo))
        BY <1>o, RestTail DEF RunRight
    <2>8. Past(o.agent, Head(o.todo)) \subseteq Past(o.agent, Head(Tail(o.todo)))
        BY <2>1, <2>3, <2>4, PastGrows
    <2>9. "context" # Head(Runs[o.agent])
        BY <2>4 DEF Follows
    <2>10. Moves(p, o, o.payload, Tail(o.todo), "context", {})
        BY <1>o, <1>q, <2>3, <2>6, <2>7, <2>8, <2>9 DEF Moves
    <2> QED BY <2>10
<1>7. CASE SkipUnflagged(p) \/ SkipUngrounded(p)
    BY <1>7, PassOverMoves DEF SkipUnflagged, SkipUngrounded, Reasons
<1>8. ASSUME NEW chunks \in SUBSET Chunks, NEW answer \in Answers, Draft(p, chunks, answer)
      PROVE  \E payload, todo, step, fields : Moves(p, o, payload, todo, step, fields)
    <2> PICK reason \in Reasons : reason = Verdict(p, answer)
        BY DEF Verdict, Reasons
    <2> PICK draft \in Drafts : draft = IF reason = "none" THEN DraftFrom(p, answer) ELSE NoDraft
        <3>1. NoDraft \in Drafts
            BY DEF Drafts
        <3>2. DraftFrom(p, answer) \in Drafts
            BY <1>o, DraftTyped
        <3> QED BY <3>1, <3>2
    <2> DEFINE payload == [o.payload EXCEPT !.chunks = chunks, !.reason = reason, !.draft = draft]
    <2> PICK step : step = IF reason = "none" THEN "drafted" ELSE "not_drafted"
        OBVIOUS
    <2> PICK fields : fields = IF reason = "none" THEN {"chunks", "draft"} ELSE {"chunks", "reason"}
        OBVIOUS
    <2>1. payload \in Payload
        BY <1>o DEF Payload
    <2>2. /\ payload.source = o.payload.source /\ payload.chunks = chunks
          /\ payload.reason = reason /\ payload.draft = draft
          /\ \A f \in PayloadFields \ {"chunks", "draft", "reason"} : payload[f] = o.payload[f]
        BY <1>o DEF Payload, PayloadFields
    <2>3. AtStep(p, "drafted") /\ o.agent \notin Vision => chunks = o.payload.chunks
        BY <1>8 DEF Draft
    <2>4. AtStep(p, "drafted") /\ Advance(p, payload, step, fields)
        BY <1>8 DEF Draft
    <2> HIDE DEF payload
    <2>5. \A f \in Past(o.agent, "drafted") : Says(payload, f) = Says(o.payload, f)
        BY <2>2, <2>3, <2>4, PastForm DEF Says, PayloadFields
    <2>6. \A f \in PayloadFields : payload[f] = o.payload[f] \/ Covered(f, payload, fields)
        <3>1. reason = "none" => payload.reason = Fresh(payload.source).reason
            BY <2>2 DEF Fresh
        <3>2. reason # "none" => payload.draft = Fresh(payload.source).draft
            BY <2>2 DEF Fresh
        <3> QED BY <2>2, <3>1, <3>2 DEF Covered
    <2>7. \A t : Follows(o.agent, "drafted", t) => fields \subseteq Past(o.agent, t)
        BY PastForm DEF Follows, StatedFields
    <2>8. step \in QuietSteps /\ step \in {"drafted", "not_drafted"}
        BY <1>q
    <2> QED BY <2>1, <2>2, <2>4, <2>5, <2>6, <2>7, <2>8, AdvanceMoves
<1>9. ASSUME NEW answer \in Answers, Answer(p, answer), answer.kind # "refusal"
      PROVE  \E payload, todo, step, fields : Moves(p, o, payload, todo, step, fields)
    <2> PICK draft \in Drafts : draft = DraftFrom(p, answer)
        BY <1>o, DraftTyped
    <2> DEFINE payload == [o.payload EXCEPT !.draft = draft]
    <2> PICK fields : fields = Given(p) \cup {"draft"}
        OBVIOUS
    <2>1. payload \in Payload
        BY <1>o DEF Payload
    <2>2. /\ payload.source = o.payload.source
          /\ \A f \in PayloadFields \ {"draft"} : payload[f] = o.payload[f]
        BY <1>o DEF Payload, PayloadFields
    <2>3. AtStep(p, "answered") /\ Advance(p, payload, "answered", fields)
        BY <1>9 DEF Answer
    <2> HIDE DEF payload
    <2>4. \A f \in Past(o.agent, "answered") : Says(payload, f) = Says(o.payload, f)
        BY <2>2, PastForm DEF Says, PayloadFields
    <2>5. \A f \in PayloadFields : payload[f] = o.payload[f] \/ Covered(f, payload, fields)
        BY <2>2 DEF Covered
    <2>6. \A t : Follows(o.agent, "answered", t) => fields \subseteq Past(o.agent, t)
        BY PastForm DEF Follows, StatedFields, Given
    <2> QED BY <1>q, <2>1, <2>2, <2>3, <2>4, <2>5, <2>6, AdvanceMoves
<1> QED BY <1>1, <1>2, <1>3, <1>4, <1>5, <1>6, <1>7, <1>8, <1>9

-----------------------------------------------------------------------------
(* What a step leaves of the tables and of the other processes' runs.      *)
LogTyped ==
    \A i \in DOMAIN log :
        /\ log[i].agent \in Agents /\ log[i].run \in 1 .. started /\ log[i].step \in Steps
        /\ DOMAIN log[i].body \subseteq StatedFields

RequestType == [agent : Agents, run : 1 .. started, payload : Payload]

LEMMA LogStays ==
    ASSUME RunInv, UNCHANGED <<log, started>>
    PROVE  LogTyped' /\ Rows(log)' /\ \A r : Withheld(r)' <=> Withheld(r)
BY DEF RunInv, TypeOK, LogTyped, Rows, Withheld

LEMMA LogGrows ==
    ASSUME RunInv, NEW agent \in Agents, NEW run, NEW step \in Steps, NEW body,
           DOMAIN body \subseteq StatedFields, started' \in Nat, started <= started',
           run \in 1 .. started', LogStep(agent, run, step, body)
    PROVE  /\ LogTyped' /\ Rows(log)'
           /\ \A r : Withheld(r)' <=> Withheld(r) \/ (r = run /\ step \in WithholdingSteps)
<1> DEFINE event == [agent |-> agent, run |-> run, step |-> step, body |-> body]
<1>1. log' = Append(log, event)
    BY DEF LogStep
<1>2. event.agent = agent /\ event.run = run /\ event.step = step /\ event.body = body
    OBVIOUS
<1> HIDE DEF event
<1>3. /\ Rows(log') /\ Len(log) \in Nat /\ DOMAIN log = 1 .. Len(log)
      /\ DOMAIN log' = 1 .. Len(log) + 1
      /\ log'[Len(log) + 1] = event
      /\ \A i \in 1 .. Len(log) : log'[i] = log[i]
    BY <1>1, RowsAppend DEF RunInv
<1>4. \A i \in DOMAIN log' : (i \in DOMAIN log /\ log'[i] = log[i]) \/ log'[i] = event
    BY <1>3
<1>5. LogTyped'
    <2> SUFFICES ASSUME NEW i \in DOMAIN log'
                 PROVE  /\ log'[i].agent \in Agents /\ log'[i].run \in 1 .. started'
                        /\ log'[i].step \in Steps /\ DOMAIN log'[i].body \subseteq StatedFields
        BY DEF LogTyped
    <2>1. CASE i \in DOMAIN log /\ log'[i] = log[i]
        BY <2>1 DEF RunInv, TypeOK
    <2>2. CASE log'[i] = event
        BY <1>2, <2>2
    <2> QED BY <1>4, <2>1, <2>2
<1>6. ASSUME NEW r
      PROVE  Withheld(r)' <=> Withheld(r) \/ (r = run /\ step \in WithholdingSteps)
    <2>1. Withheld(r)' <=> \E i \in DOMAIN log' : log'[i].run = r /\ log'[i].step \in WithholdingSteps
        BY DEF Withheld
    <2>2. Len(log) + 1 \in DOMAIN log' /\ \A i \in DOMAIN log : i \in DOMAIN log' /\ log'[i] = log[i]
        BY <1>3
    <2> QED BY <1>2, <1>3, <1>4, <2>1, <2>2 DEF Withheld
<1> QED BY <1>3, <1>5, <1>6

LEMMA RequestsStay ==
    ASSUME RunInv, UNCHANGED requests, started' \in Nat, started <= started'
    PROVE  requests' \in Seq(RequestType') /\ \A r : Submitted(r)' <=> Submitted(r)
<1>1. requests \in Seq(RequestType) /\ RequestType \subseteq RequestType'
    BY DEF RunInv, TypeOK, RequestType
<1> PICK S : S = RequestType
    OBVIOUS
<1> PICK T : T = RequestType'
    OBVIOUS
<1>2. requests \in Seq(T)
    BY <1>1, SeqOfMore
<1> QED BY <1>2 DEF Submitted

LEMMA RequestsGrow ==
    ASSUME RunInv, UNCHANGED started, NEW row \in RequestType, requests' = Append(requests, row)
    PROVE  /\ requests' \in Seq(RequestType') /\ \A r : Submitted(r)' <=> Submitted(r) \/ r = row.run
           /\ Len(requests) \in Nat /\ DOMAIN requests = 1 .. Len(requests)
           /\ DOMAIN requests' = 1 .. Len(requests) + 1
           /\ requests'[Len(requests) + 1] = row
           /\ \A i \in 1 .. Len(requests) : requests'[i] = requests[i]
<1>1. requests \in Seq(RequestType)
    BY DEF RunInv, TypeOK, RequestType
<1>2. /\ Append(requests, row) \in Seq(RequestType)
      /\ Len(Append(requests, row)) = Len(requests) + 1
      /\ \A i \in 1 .. Len(requests) : Append(requests, row)[i] = requests[i]
      /\ Append(requests, row)[Len(requests) + 1] = row
    BY <1>1, AppendProperties
<1>3. /\ Len(requests) \in Nat /\ DOMAIN requests = 1 .. Len(requests)
      /\ DOMAIN Append(requests, row) = 1 .. Len(requests) + 1
    BY <1>1, <1>2, LenProperties
<1>4. RequestType' = RequestType
    BY DEF RequestType
<1>5. ASSUME NEW r
      PROVE  Submitted(r)' <=> Submitted(r) \/ r = row.run
    <2>1. Submitted(r)' <=> \E i \in DOMAIN requests' : requests'[i].run = r
        BY DEF Submitted
    <2>2. \A i \in 1 .. Len(requests) + 1 : i \in 1 .. Len(requests) \/ i = Len(requests) + 1
        BY <1>3
    <2>3. Len(requests) + 1 \in 1 .. Len(requests) + 1
          /\ 1 .. Len(requests) \subseteq 1 .. Len(requests) + 1
        BY <1>3
    <2> QED BY <1>2, <1>3, <2>1, <2>2, <2>3 DEF Submitted
<1> QED BY <1>2, <1>3, <1>4, <1>5

LEMMA SteeredOp ==
    ASSUME RunInv, NEW p \in Runners, NEW new \in Calls \cup {Idle}, Steered(p, new)
    PROVE  /\ op' \in [Runners -> Calls \cup {Idle}]
           /\ op'[p] = new /\ \A q \in Runners \ {p} : op'[q] = op[q]
BY DEF RunInv, TypeOK, Steered

(* A step of one run changes nothing about the others.                     *)
OthersKept(run) ==
    \A r \in 1 .. started :
        r # run => /\ Withheld(r)' <=> Withheld(r)
                   /\ Submitted(r)' <=> Submitted(r)
                   /\ r \in died' <=> r \in died

LEMMA RunsKept ==
    ASSUME RunInv, NEW p \in Runners, NEW new \in Calls \cup {Idle}, Steered(p, new),
           NEW run, OthersKept(run), started' \in Nat, started <= started',
           \A q \in Runners \ {p} : Busy(q) => op[q].run # run,
           new # Idle => new.run = run /\ RunRight(new)'
    PROVE  RunsRight'
<1>1. op'[p] = new /\ \A q \in Runners \ {p} : op'[q] = op[q]
    BY SteeredOp
<1>2. ASSUME NEW q \in Runners, Busy(q)'
      PROVE  RunRight(op[q])'
    <2>1. CASE q = p
        BY <1>1, <1>2, <2>1 DEF Busy, RunRight
    <2>2. CASE q # p
        <3>1. Busy(q) /\ op'[q] = op[q]
            BY <1>1, <1>2, <2>2 DEF Busy
        <3>2. RunRight(op[q]) /\ op[q].run # run /\ op[q].run \in 1 .. started
            BY <2>2, <3>1 DEF RunInv, RunsRight, RunRight
        <3>3. op[q].run \in 1 .. started'
            BY <3>2 DEF RunInv, TypeOK
        <3>4. /\ Withheld(op[q].run)' <=> Withheld(op[q].run)
              /\ Submitted(op[q].run)' <=> Submitted(op[q].run)
              /\ op[q].run \in died' <=> op[q].run \in died
            BY <3>1, <3>2 DEF OthersKept, Withheld, Submitted
        <3> QED BY <3>1, <3>2, <3>3, <3>4 DEF RunRight
    <2> QED BY <2>1, <2>2
<1>3. ASSUME NEW q \in Runners, NEW r \in Runners, Busy(q)', Busy(r)', op'[q].run = op'[r].run
      PROVE  q = r
    <2>1. \A s \in Runners \ {p} : Busy(s)' => Busy(s) /\ op'[s] = op[s] /\ op[s].run # run
        BY <1>1 DEF Busy
    <2>2. Busy(p)' => op'[p].run = run
        BY <1>1 DEF Busy
    <2>3. CASE q # p /\ r # p
        BY <1>3, <2>1, <2>3 DEF RunInv, RunsRight
    <2> QED BY <1>3, <2>1, <2>2, <2>3
<1> QED BY <1>2, <1>3 DEF RunsRight

-----------------------------------------------------------------------------
(* Each kind of step keeps RunInv, and what it makes of the run's end.     *)
Quiet == \A r : (Withheld(r)' <=> Withheld(r)) /\ (Submitted(r)' <=> Submitted(r))

LEMMA MovesKeep ==
    ASSUME RunInv, NEW p \in Runners, NEW o, NEW payload, NEW todo, NEW step, NEW fields,
           Moves(p, o, payload, todo, step, fields)
    PROVE  RunInv' /\ Quiet /\ UNCHANGED <<requests, started, died, serial>>
<1>1. /\ Steered(p, Carry(o, todo, payload)) /\ o = op[p] /\ Busy(p) /\ o \in Calls
      /\ UNCHANGED <<requests, started, died, serial>> /\ o.todo # << >>
      /\ RunRight(o) /\ RestOf(o.agent, todo)
    BY DEF Moves, GoesOn
<1>2. Carry(o, todo, payload) \in Calls
    BY <1>1 DEF Moves, GoesOn, Carry, Calls
<1>3. /\ Carry(o, todo, payload).agent = o.agent /\ Carry(o, todo, payload).run = o.run
      /\ Carry(o, todo, payload).todo = todo
    BY DEF Carry
<1>4. started \in Nat /\ started' = started /\ started <= started' /\ o.run \in 1 .. started
    BY <1>1 DEF RunInv, TypeOK, RunRight
<1>5. LogTyped' /\ Rows(log)' /\ \A r : Withheld(r)' <=> Withheld(r)
    <2>1. CASE log' = log
        BY <1>1, <2>1, LogStays
    <2>2. CASE log' # log
        <3>1. LogStep(o.agent, o.run, step, States(payload, fields)) /\ step \in QuietSteps
            BY <2>2 DEF Moves, Writes
        <3>2. DOMAIN States(payload, fields) \subseteq StatedFields
            <4>1. fields \subseteq StatedFields
                BY PastForm DEF Moves
            <4> QED BY <4>1 DEF States
        <3>3. o.agent \in Agents
            BY <1>1 DEF Calls
        <3>4. step \in Steps /\ step \notin WithholdingSteps
            BY <3>1 DEF QuietSteps
        <3> PICK body : body = States(payload, fields)
            OBVIOUS
        <3> QED BY <1>4, <3>1, <3>2, <3>3, <3>4, LogGrows
    <2> QED BY <2>1, <2>2
<1>6. requests' \in Seq(RequestType') /\ \A r : Submitted(r)' <=> Submitted(r)
    BY <1>1, <1>4, RequestsStay
<1>7. op' \in [Runners -> Calls \cup {Idle}]
    BY <1>1, <1>2, SteeredOp
<1>8. TypeOK'
    BY <1>1, <1>5, <1>6, <1>7 DEF TypeOK, RunInv, LogTyped, RequestType
<1>9. RunsRight'
    <2>1. OthersKept(o.run)
        BY <1>1, <1>5, <1>6 DEF OthersKept
    <2>2. \A q \in Runners \ {p} : Busy(q) => op[q].run # o.run
        BY <1>1 DEF RunInv, RunsRight
    <2> PICK new : new = Carry(o, todo, payload)
        OBVIOUS
    <2>3. RunRight(new)'
        <3>1. o.run \notin died' /\ ~Withheld(o.run)' /\ ~Submitted(o.run)'
            BY <1>1, <1>5, <1>6 DEF RunRight
        <3> QED BY <1>1, <1>3, <1>4, <3>1 DEF RunRight
    <2> QED BY <1>1, <1>2, <1>3, <1>4, <2>1, <2>2, <2>3, RunsKept
<1> QED BY <1>1, <1>5, <1>6, <1>8, <1>9 DEF RunInv, Quiet

(* The event that says why there will be no draft.                         *)
Withholds(p, o, step) ==
    /\ o = op[p] /\ Busy(p) /\ o.todo # << >> /\ step \in WithholdingSteps
    /\ \E fields \in SUBSET StatedFields :
          LogStep(o.agent, o.run, step, States(o.payload, fields))
    /\ Steered(p, Idle)
    /\ UNCHANGED <<requests, started, died, serial>>

LEMMA WithholdsKeep ==
    ASSUME RunInv, NEW p \in Runners, NEW o, NEW step, Withholds(p, o, step)
    PROVE  /\ RunInv' /\ OthersKept(o.run) /\ Withheld(o.run)' /\ RunRight(o) /\ o.todo # << >>
           /\ UNCHANGED <<requests, started, died, serial>> /\ o \in Calls
<1>1. /\ Steered(p, Idle) /\ o = op[p] /\ Busy(p) /\ o \in Calls /\ RunRight(o)
      /\ UNCHANGED <<requests, started, died, serial>> /\ o.todo # << >>
    BY DEF Withholds, RunInv, TypeOK, RunsRight, Busy
<1>2. started \in Nat /\ started' = started /\ started <= started' /\ o.run \in 1 .. started
    BY <1>1 DEF RunInv, TypeOK, RunRight
<1>3. /\ LogTyped' /\ Rows(log)'
      /\ \A r : Withheld(r)' <=> Withheld(r) \/ r = o.run
    <2>1. PICK body : DOMAIN body \subseteq StatedFields /\ LogStep(o.agent, o.run, step, body)
        BY DEF Withholds, States
    <2>2. o.agent \in Agents /\ step \in Steps
        BY <1>1 DEF Calls, Withholds, WithholdingSteps, Steps
    <2>3. step \in WithholdingSteps
        BY DEF Withholds
    <2> QED BY <1>2, <2>1, <2>2, <2>3, LogGrows
<1>4. requests' \in Seq(RequestType') /\ \A r : Submitted(r)' <=> Submitted(r)
    BY <1>1, <1>2, RequestsStay
<1>5. op' \in [Runners -> Calls \cup {Idle}]
    BY <1>1, SteeredOp
<1>6. TypeOK'
    BY <1>1, <1>3, <1>4, <1>5 DEF TypeOK, RunInv, LogTyped, RequestType
<1>7. OthersKept(o.run)
    BY <1>1, <1>3, <1>4 DEF OthersKept
<1>8. RunsRight'
    <2>1. \A q \in Runners \ {p} : Busy(q) => op[q].run # o.run
        BY <1>1 DEF RunInv, RunsRight
    <2> QED BY <1>1, <1>2, <1>7, <2>1, RunsKept
<1> QED BY <1>1, <1>3, <1>6, <1>7, <1>8 DEF RunInv

(* ApprovalQueue.submit(): the row.                                        *)
LEMMA SubmitRowKeeps ==
    ASSUME RunInv, NEW p \in Runners, SubmitRow(p), NEW o, o = op[p]
    PROVE  /\ RunInv' /\ OthersKept(o.run) /\ Submitted(o.run)' /\ RunRight(o)
           /\ o.todo # << >> /\ o \in Calls
           /\ requests' = Append(requests, [agent |-> o.agent, run |-> o.run,
                                            payload |-> o.payload])
           /\ UNCHANGED <<log, started, died, serial>>
<1> DEFINE row == [agent |-> o.agent, run |-> o.run, payload |-> o.payload]
<1>1. /\ Busy(p) /\ o \in Calls /\ RunRight(o) /\ o.todo # << >>
      /\ UNCHANGED <<log, started, died, serial>> /\ requests' = Append(requests, row)
    BY DEF SubmitRow, AtStep, RunInv, TypeOK, RunsRight, Busy
<1>2. started \in Nat /\ started' = started /\ started <= started' /\ o.run \in 1 .. started
    BY <1>1 DEF RunInv, TypeOK, RunRight
<1>3. row \in RequestType /\ row.run = o.run
    BY <1>1, <1>2 DEF RequestType, Calls
<1> PICK new : new = Carry(o, << >>, o.payload)
    OBVIOUS
<1>4. new \in Calls /\ new.todo = << >> /\ new.run = o.run /\ new.agent = o.agent
    <2>1. << >> \in Seq(Steps)
        BY EmptySeq
    <2> QED BY <1>1, <2>1 DEF Carry, Calls
<1>5. Steered(p, new)
    <2>1. [o EXCEPT !.todo = << >>] = new
        BY <1>1, CallExcept DEF Carry
    <2> QED BY <2>1 DEF SubmitRow, Steered
<1> HIDE DEF row
<1>6. requests' \in Seq(RequestType') /\ \A r : Submitted(r)' <=> Submitted(r) \/ r = o.run
    BY <1>1, <1>3, RequestsGrow
<1>7. LogTyped' /\ Rows(log)' /\ \A r : Withheld(r)' <=> Withheld(r)
    BY <1>1, LogStays
<1>8. op' \in [Runners -> Calls \cup {Idle}]
    BY <1>4, <1>5, SteeredOp
<1>9. TypeOK'
    BY <1>1, <1>6, <1>7, <1>8 DEF TypeOK, RunInv, LogTyped, RequestType
<1>10. OthersKept(o.run)
    BY <1>1, <1>6, <1>7 DEF OthersKept
<1>11. RunsRight'
    <2>1. \A q \in Runners \ {p} : Busy(q) => op[q].run # o.run
        BY <1>1 DEF RunInv, RunsRight
    <2>2. RunRight(new)'
        <3>1. o.run \notin died' /\ ~Withheld(o.run)'
            BY <1>1, <1>7 DEF RunRight
        <3> QED BY <1>2, <1>4, <3>1 DEF RunRight, RestOf
    <2> QED BY <1>2, <1>4, <1>5, <1>10, <2>1, <2>2, RunsKept
<1> QED BY <1>1, <1>6, <1>7, <1>9, <1>10, <1>11 DEF RunInv, row

(* ... and its event.                                                      *)
LEMMA SubmitEventKeeps ==
    ASSUME RunInv, NEW p \in Runners, SubmitEvent(p)
    PROVE  RunInv' /\ Quiet /\ UNCHANGED <<requests, started, died, serial>>
<1> PICK o : o = op[p]
    OBVIOUS
<1>1. /\ Busy(p) /\ o \in Calls /\ RunRight(o)
      /\ UNCHANGED <<requests, started, died, serial>>
    BY DEF SubmitEvent, RunInv, TypeOK, RunsRight, Busy
<1>2. started \in Nat /\ started' = started /\ started <= started' /\ o.run \in 1 .. started
    BY <1>1 DEF RunInv, TypeOK, RunRight
<1>3. LogTyped' /\ Rows(log)' /\ \A r : Withheld(r)' <=> Withheld(r)
    <2>1. DOMAIN o.payload \subseteq StatedFields /\ o.agent \in Agents
        BY <1>1 DEF Calls, Payload, StatedFields
    <2>2. LogStep(o.agent, o.run, "submitted", o.payload)
        BY DEF SubmitEvent
    <2>3. "submitted" \in Steps /\ "submitted" \notin WithholdingSteps
        BY DEF Steps, WithholdingSteps
    <2> QED BY <1>2, <2>1, <2>2, <2>3, LogGrows
<1>4. requests' \in Seq(RequestType') /\ \A r : Submitted(r)' <=> Submitted(r)
    BY <1>1, <1>2, RequestsStay
<1>5. Steered(p, Idle)
    BY DEF SubmitEvent, Steered
<1>6. op' \in [Runners -> Calls \cup {Idle}]
    BY <1>5, SteeredOp
<1>7. TypeOK'
    BY <1>1, <1>3, <1>4, <1>6 DEF TypeOK, RunInv, LogTyped, RequestType
<1>8. RunsRight'
    <2>1. \A q \in Runners \ {p} : Busy(q) => op[q].run # o.run
        BY <1>1 DEF RunInv, RunsRight
    <2>2. OthersKept(o.run)
        BY <1>1, <1>3, <1>4 DEF OthersKept
    <2> QED BY <1>2, <1>5, <2>1, <2>2, RunsKept
<1> QED BY <1>1, <1>3, <1>4, <1>7, <1>8 DEF RunInv, Quiet

LEMMA DieKeeps ==
    ASSUME RunInv, NEW p \in Runners, Die(p), NEW o, o = op[p]
    PROVE  /\ RunInv' /\ Quiet /\ RunRight(o) /\ died' = died \cup {o.run} /\ o \in Calls
           /\ UNCHANGED <<log, requests, started, serial>>
<1>1. /\ Busy(p) /\ o \in Calls /\ RunRight(o) /\ died' = died \cup {o.run}
      /\ UNCHANGED <<log, requests, started, serial>>
    BY DEF Die, RunInv, TypeOK, RunsRight, Busy
<1>2. started \in Nat /\ started' = started /\ started <= started' /\ o.run \in 1 .. started
    BY <1>1 DEF RunInv, TypeOK, RunRight
<1>3. LogTyped' /\ Rows(log)' /\ \A r : Withheld(r)' <=> Withheld(r)
    BY <1>1, LogStays
<1>4. requests' \in Seq(RequestType') /\ \A r : Submitted(r)' <=> Submitted(r)
    BY <1>1, <1>2, RequestsStay
<1>5. Steered(p, Idle)
    BY DEF Die, Steered
<1>6. op' \in [Runners -> Calls \cup {Idle}]
    BY <1>5, SteeredOp
<1>7. died' \subseteq 1 .. started'
    BY <1>1, <1>2 DEF RunInv, TypeOK
<1>8. TypeOK'
    BY <1>1, <1>3, <1>4, <1>6, <1>7 DEF TypeOK, RunInv, LogTyped, RequestType
<1>9. RunsRight'
    <2>1. \A q \in Runners \ {p} : Busy(q) => op[q].run # o.run
        BY <1>1 DEF RunInv, RunsRight
    <2>2. OthersKept(o.run)
        BY <1>1, <1>3, <1>4 DEF OthersKept
    <2> QED BY <1>2, <1>5, <2>1, <2>2, RunsKept
<1> QED BY <1>1, <1>3, <1>4, <1>8, <1>9 DEF RunInv, Quiet

(* A run starts with an event that states its source, and all else that    *)
(* the payload holds.                                                      *)
Opens(p, agent, payload, step, fields) ==
    /\ Begin(p, agent, payload, step, fields)
    /\ agent \in Agents /\ payload \in Payload /\ step \in QuietSteps
    /\ "source" \in fields /\ fields \subseteq Past(agent, Head(Tail(Runs[agent])))
    /\ step = "context" => "chunks" \in fields
    /\ \A f \in PayloadFields \ fields : payload[f] = Fresh(payload.source)[f]

LEMMA FreshTyped ==
    ASSUME NEW source \in Sources
    PROVE  /\ Fresh(source) \in Payload /\ Fresh(source).source = source
           /\ [Fresh(source) EXCEPT !.findings = Findings[source]] \in Payload
           /\ \A chunks \in SUBSET Chunks : [Fresh(source) EXCEPT !.chunks = chunks] \in Payload
<1>1. NoDraft \in Drafts /\ "none" \in Reasons
    BY DEF Drafts, Reasons
<1>2. Findings[source] \in SUBSET Items
    BY FindingsAssumption
<1> QED BY <1>1, <1>2 DEF Fresh, Payload

LEMMA BeginForm ==
    ASSUME NEW p \in Runners, BeginRun(p)
    PROVE  \E agent, payload, step, fields : Opens(p, agent, payload, step, fields)
<1>1. PICK agent \in AgentsOf[p], source \in Sources :
         \/ Receive(p, agent, source)
         \/ Retrieve(p, agent, source)
         \/ TieOut(p, agent, source)
         \/ \E chunks \in SUBSET Chunks : Search(p, agent, source, chunks)
    BY DEF BeginRun
<1>2. agent \in Agents
    BY AgentsAssumption
<1>3. {"received", "retrieved", "tied_out", "context"} \subseteq QuietSteps
    BY DEF QuietSteps, Steps, WithholdingSteps
<1> PICK fresh : fresh = Fresh(source)
    OBVIOUS
<1>f. /\ fresh \in Payload /\ \A f \in PayloadFields : fresh[f] = Fresh(fresh.source)[f]
      /\ {"source"} \subseteq Past(agent, Head(Tail(Runs[agent])))
    <2>1. fresh \in Payload /\ fresh.source = source
        BY FreshTyped
    <2>2. {"source"} \subseteq Past(agent, Head(Tail(Runs[agent])))
        BY PastForm
    <2> QED BY <2>1, <2>2
<1>4. CASE Receive(p, agent, source)
    <2>1. Begin(p, agent, fresh, "received", {"source"})
        BY <1>4 DEF Receive
    <2>2. Opens(p, agent, fresh, "received", {"source"})
        BY <1>2, <1>3, <1>f, <2>1 DEF Opens
    <2> QED BY <2>2
<1>5. CASE Retrieve(p, agent, source)
    <2>1. Begin(p, agent, fresh, "retrieved", {"source"})
        BY <1>5 DEF Retrieve
    <2>2. Opens(p, agent, fresh, "retrieved", {"source"})
        BY <1>2, <1>3, <1>f, <2>1 DEF Opens
    <2> QED BY <2>2
<1>6. CASE TieOut(p, agent, source)
    <2> DEFINE payload == [Fresh(source) EXCEPT !.findings = Findings[source]]
    <2>1. payload \in Payload /\ payload.source = source
          /\ \A f \in PayloadFields \ {"source", "findings"} : payload[f] = Fresh(source)[f]
        BY FreshTyped DEF PayloadFields, Fresh
    <2>2. Begin(p, agent, payload, "tied_out", {"source", "findings"})
        BY <1>6 DEF TieOut
    <2> HIDE DEF payload
    <2>3. {"source", "findings"} \subseteq Past(agent, Head(Tail(Runs[agent])))
        BY <1>2, <2>2, FirstStep, PastForm DEF Begin
    <2>4. Opens(p, agent, payload, "tied_out", {"source", "findings"})
        BY <1>2, <1>3, <2>1, <2>2, <2>3 DEF Opens
    <2> QED BY <2>4
<1>7. ASSUME NEW chunks \in SUBSET Chunks, Search(p, agent, source, chunks)
      PROVE  \E payload, step, fields : Opens(p, agent, payload, step, fields)
    <2> DEFINE payload == [Fresh(source) EXCEPT !.chunks = chunks]
    <2>1. payload \in Payload /\ payload.source = source
          /\ \A f \in PayloadFields \ {"source", "chunks"} : payload[f] = Fresh(source)[f]
        BY FreshTyped DEF PayloadFields, Fresh
    <2>2. Begin(p, agent, payload, "context", {"source", "chunks"})
        BY <1>7 DEF Search
    <2> HIDE DEF payload
    <2>3. {"source", "chunks"} \subseteq Past(agent, Head(Tail(Runs[agent])))
        BY <1>2, <2>2, FirstStep, PastForm DEF Begin
    <2>4. Opens(p, agent, payload, "context", {"source", "chunks"})
        BY <1>2, <1>3, <2>1, <2>2, <2>3 DEF Opens
    <2> QED BY <2>4
<1> QED BY <1>1, <1>4, <1>5, <1>6, <1>7

LEMMA OpensKeep ==
    ASSUME RunInv, NEW p \in Runners, NEW agent, NEW payload, NEW step, NEW fields,
           Opens(p, agent, payload, step, fields)
    PROVE  /\ RunInv' /\ Quiet /\ started \in Nat /\ started < MaxRuns /\ started' = started + 1
           /\ ~Withheld(started + 1) /\ ~Submitted(started + 1) /\ started + 1 \notin died
           /\ UNCHANGED <<requests, died>>
<1> PICK run : run = started + 1
    OBVIOUS
<1> PICK new : new = [agent |-> agent, run |-> run, todo |-> Tail(Runs[agent]),
                      payload |-> payload]
    OBVIOUS
<1>1. /\ started \in Nat /\ started < MaxRuns /\ started' = run /\ run = started + 1
      /\ started' \in Nat /\ started <= started' /\ UNCHANGED <<requests, died>>
      /\ agent \in Agents /\ step \in QuietSteps /\ ~Busy(p) /\ Steered(p, new)
      /\ LogStep(agent, run, step, States(payload, fields))
    BY DEF Opens, Begin, RunInv, TypeOK, Steered
<1>2. Runs[agent] \in Seq(Steps) /\ Runs[agent] # << >>
    BY <1>1, RunsTyped
<1>3. new \in Calls /\ RestOf(agent, new.todo) /\ new.agent = agent /\ new.run = run
    BY <1>1, <1>2, RestTail, TailTyped DEF Opens, Calls
<1>4. run \notin 1 .. started /\ run \in 1 .. started'
    BY <1>1
<1>5. ~Withheld(run) /\ run \notin died
    BY <1>4 DEF Withheld, RunInv, TypeOK
<1>6. ~Submitted(run)
    <2>1. \A i \in DOMAIN requests : requests[i] \in RequestType
        <3>1. requests \in Seq(RequestType)
            BY DEF RunInv, TypeOK, RequestType
        <3> QED BY <3>1, LenProperties, ElementOfSeq
    <2>2. \A i \in DOMAIN requests : requests[i].run \in 1 .. started
        BY <2>1 DEF RequestType
    <2> QED BY <1>4, <2>2 DEF Submitted
<1>7. LogTyped' /\ Rows(log)' /\ \A r : Withheld(r)' <=> Withheld(r)
    <2>1. step \in Steps /\ step \notin WithholdingSteps
        BY <1>1 DEF QuietSteps
    <2> PICK body : body = States(payload, fields)
        OBVIOUS
    <2>2. DOMAIN body \subseteq StatedFields
        <3>1. fields \subseteq StatedFields
            BY PastForm DEF Opens
        <3> QED BY <3>1 DEF States
    <2>3. /\ LogStep(agent, run, step, body) /\ agent \in Agents
          /\ started' \in Nat /\ started <= started' /\ run \in 1 .. started'
        BY <1>1, <1>4
    <2>4. /\ LogTyped' /\ Rows(log)'
          /\ \A r : Withheld(r)' <=> Withheld(r) \/ (r = run /\ step \in WithholdingSteps)
        BY <2>1, <2>2, <2>3, LogGrows
    <2> QED BY <2>1, <2>4
<1>8. requests' \in Seq(RequestType') /\ \A r : Submitted(r)' <=> Submitted(r)
    BY <1>1, RequestsStay
<1>9. op' \in [Runners -> Calls \cup {Idle}]
    BY <1>1, <1>3, SteeredOp
<1>10. died' \subseteq 1 .. started' /\ serial' \in BOOLEAN
    <2>1. serial' = (serial /\ \A q \in Runners : Busy(q) => op[q].agent # agent)
        BY DEF Opens, Begin
    <2>2. died' \subseteq 1 .. started'
        BY <1>1 DEF RunInv, TypeOK
    <2> QED BY <2>1, <2>2 DEF RunInv, TypeOK
<1>11. TypeOK'
    BY <1>1, <1>7, <1>8, <1>9, <1>10 DEF TypeOK, LogTyped, RequestType
<1>12. RunsRight'
    <2>1. \A q \in Runners \ {p} : Busy(q) => op[q].run # run
        BY <1>4 DEF RunInv, RunsRight, RunRight
    <2>2. OthersKept(run)
        BY <1>1, <1>7, <1>8 DEF OthersKept
    <2>3. RunRight(new)'
        <3>1. /\ run \notin died' /\ ~Withheld(run)' /\ ~Submitted(run)'
            BY <1>1, <1>5, <1>6, <1>7, <1>8
        <3> QED BY <1>3, <1>4, <3>1 DEF RunRight
    <2> QED BY <1>1, <1>3, <2>1, <2>2, <2>3, RunsKept
<1> QED BY <1>1, <1>5, <1>6, <1>7, <1>8, <1>11, <1>12 DEF RunInv, Quiet

LEMMA ContinueForm ==
    ASSUME RunInv, NEW p \in Runners, Continue(p), NEW o, o = op[p]
    PROVE  \/ \E payload, todo, step, fields : Moves(p, o, payload, todo, step, fields)
           \/ \E step : Withholds(p, o, step)
           \/ SubmitRow(p) \/ SubmitEvent(p)
<1>1. ASSUME NEW step \in WithholdingSteps, NEW at, AtStep(p, at),
             NEW fields \in SUBSET StatedFields, Withhold(p, step, fields)
      PROVE  Withholds(p, o, step)
    BY <1>1 DEF Withhold, Withholds, Steered, AtStep
<1>2. CASE FailExtraction(p)
    <2>1. {} \in SUBSET StatedFields
        OBVIOUS
    <2> QED BY <1>1, <1>2, <2>1 DEF FailExtraction, WithholdingSteps
<1>3. ASSUME NEW answer \in Answers, Answer(p, answer), answer.kind = "refusal"
      PROVE  \E step : Withholds(p, o, step)
    <2>1. Given(p) \in SUBSET StatedFields
        BY DEF Given, StatedFields
    <2> QED BY <1>1, <1>3, <2>1 DEF Answer, WithholdingSteps
<1> QED BY <1>2, <1>3, MovesForm DEF Continue

-----------------------------------------------------------------------------
LEMMA InitRunInv == Init => RunInv
<1> SUFFICES ASSUME Init PROVE RunInv
    OBVIOUS
<1>1. log = << >> /\ DOMAIN << >> = {} /\ << >> \in Seq({}) /\ requests = << >>
    BY EmptySeq DEF Init
<1>2. Rows(log)
    BY <1>1 DEF Rows
<1>3. requests \in Seq([agent : Agents, run : 1 .. started, payload : Payload])
    BY <1>1, EmptySeq
<1> QED BY <1>1, <1>2, <1>3 DEF Init, RunInv, TypeOK, RunsRight, Busy, Idle

LEMMA NextRunInv == RunInv /\ [Next]_vars => RunInv'
<1> SUFFICES ASSUME RunInv, [Next]_vars PROVE RunInv'
    OBVIOUS
<1>1. ASSUME NEW p \in Runners, BeginRun(p)
      PROVE  RunInv'
    BY <1>1, BeginForm, OpensKeep
<1>2. ASSUME NEW p \in Runners, Continue(p)
      PROVE  RunInv'
    <2> PICK o : o = op[p]
        OBVIOUS
    <2> QED BY <1>2, ContinueForm, MovesKeep, WithholdsKeep, SubmitRowKeeps, SubmitEventKeeps
<1>3. ASSUME NEW p \in Runners, Die(p)
      PROVE  RunInv'
    <2> PICK o : o = op[p]
        OBVIOUS
    <2> QED BY <1>3, DieKeeps
<1>4. CASE UNCHANGED vars
    BY <1>4 DEF vars, RunInv, TypeOK, Rows, RunsRight, Busy, RunRight, Withheld, Submitted
<1> QED BY <1>1, <1>2, <1>3, <1>4 DEF Next

LEMMA RunInvariant == Spec => []RunInv
<1> QED BY InitRunInv, NextRunInv, PTL DEF Spec

(* Types.                                                                  *)
THEOREM TypeCorrect == Spec => []TypeOK
<1>1. RunInv => TypeOK
    BY DEF RunInv
<1> QED BY <1>1, RunInvariant, PTL

-----------------------------------------------------------------------------
(* The runs implement DraftOnly.                                           *)
LEMMA OutcomeForm ==
    \A r : OutcomeOf(r) = IF Withheld(r) THEN "withheld"
                          ELSE IF Submitted(r) THEN "submitted"
                          ELSE IF r \in died THEN "dead" ELSE "working"
BY DEF OutcomeOf, Withheld, WithholdingSteps

LEMMA OutcomeFormNext ==
    \A r : OutcomeOf(r)' = IF Withheld(r)' THEN "withheld"
                           ELSE IF Submitted(r)' THEN "submitted"
                           ELSE IF r \in died' THEN "dead" ELSE "working"
BY DEF OutcomeOf, Withheld, WithholdingSteps

LEMMA OutcomeKept ==
    ASSUME NEW run, OthersKept(run), UNCHANGED started
    PROVE  \A r \in 1 .. started : r # run => OutcomeOf(r)' = OutcomeOf(r)
BY OutcomeForm, OutcomeFormNext DEF OthersKept

LEMMA OutcomeExcept ==
    ASSUME NEW run \in 1 .. started, OthersKept(run), UNCHANGED started,
           NEW how, OutcomeOf(run)' = how
    PROVE  outcome' = [outcome EXCEPT ![run] = how]
<1>1. \A r \in 1 .. started : r # run => OutcomeOf(r)' = OutcomeOf(r)
    BY OutcomeKept
<1>2. outcome' = [r \in 1 .. started |-> OutcomeOf(r)']
    BY DEF outcome
<1>3. outcome = [r \in 1 .. started |-> OutcomeOf(r)]
    BY DEF outcome
<1> QED BY <1>1, <1>2, <1>3

LEMMA OutcomeStutter ==
    ASSUME Quiet, UNCHANGED <<requests, started, died>>
    PROVE  UNCHANGED <<outcome, delivered>>
<1>1. \A r : OutcomeOf(r)' = OutcomeOf(r)
    BY OutcomeForm, OutcomeFormNext DEF Quiet
<1>2. outcome' = [r \in 1 .. started |-> OutcomeOf(r)']
    BY DEF outcome
<1>3. outcome' = outcome
    BY <1>1, <1>2 DEF outcome
<1> QED BY <1>3 DEF delivered

LEMMA OutcomeAt ==
    ASSUME NEW run \in 1 .. started
    PROVE  outcome[run] = OutcomeOf(run) /\ run \in DOMAIN outcome
BY DEF outcome

LEMMA WithholdsPromise ==
    ASSUME RunInv, NEW p \in Runners, NEW o, NEW step, Withholds(p, o, step)
    PROVE  Promise!Next
<1>1. /\ OthersKept(o.run) /\ Withheld(o.run)' /\ RunRight(o) /\ o.todo # << >>
      /\ UNCHANGED <<requests, started, died, serial>>
    BY WithholdsKeep
<1>2. o.run \in 1 .. started /\ OutcomeOf(o.run) = "working" /\ OutcomeOf(o.run)' = "withheld"
    BY <1>1, OutcomeForm, OutcomeFormNext DEF RunRight
<1>3. outcome' = [outcome EXCEPT ![o.run] = "withheld"]
    BY <1>1, <1>2, OutcomeExcept
<1>4. delivered' = delivered
    BY <1>1 DEF delivered
<1>5. Promise!Stop(o.run, "withheld")
    BY <1>2, <1>3, <1>4, OutcomeAt DEF Promise!Stop
<1> QED BY <1>2, <1>5, OutcomeAt DEF Promise!Next

LEMMA DiePromise ==
    ASSUME RunInv, NEW p \in Runners, Die(p)
    PROVE  [Promise!Next]_<<outcome, delivered>>
<1> PICK o : o = op[p]
    OBVIOUS
<1>1. /\ Quiet /\ RunRight(o) /\ died' = died \cup {o.run}
      /\ UNCHANGED <<log, requests, started, serial>>
    BY DieKeeps
<1>2. OthersKept(o.run) /\ o.run \in 1 .. started
    BY <1>1 DEF OthersKept, Quiet, RunRight
<1>3. delivered' = delivered
    BY <1>1 DEF delivered
<1>4. CASE Submitted(o.run)
    <2>1. ~Withheld(o.run)
        BY <1>1 DEF RunRight
    <2>2. OutcomeOf(o.run)' = OutcomeOf(o.run)
        BY <1>1, <1>4, OutcomeForm, OutcomeFormNext DEF Quiet
    <2>3. \A r \in 1 .. started : OutcomeOf(r)' = OutcomeOf(r)
        BY <1>1, <1>2, <2>2, OutcomeKept
    <2>4. outcome' = [r \in 1 .. started |-> OutcomeOf(r)']
        BY <1>1 DEF outcome
    <2>5. outcome' = outcome
        BY <2>3, <2>4 DEF outcome
    <2> QED BY <1>3, <2>5
<1>5. CASE ~Submitted(o.run)
    <2>1. OutcomeOf(o.run) = "working" /\ OutcomeOf(o.run)' = "dead"
        BY <1>1, <1>5, OutcomeForm, OutcomeFormNext DEF Quiet, RunRight
    <2>2. outcome' = [outcome EXCEPT ![o.run] = "dead"]
        BY <1>1, <1>2, <2>1, OutcomeExcept
    <2>3. Promise!Stop(o.run, "dead")
        BY <1>2, <1>3, <2>1, <2>2, OutcomeAt DEF Promise!Stop
    <2> QED BY <1>2, <2>3, OutcomeAt DEF Promise!Next
<1> QED BY <1>4, <1>5

(* The numbers of the runs, in the order of a sequence of requests.        *)
LEMMA RunsAppend ==
    ASSUME NEW S, NEW rows \in Seq(S), NEW row \in S, NEW d, NEW e,
           d = [i \in DOMAIN rows |-> rows[i].run],
           e = [i \in DOMAIN Append(rows, row) |-> Append(rows, row)[i].run]
    PROVE  e = Append(d, row.run)
<1> PICK t : t = Append(rows, row)
    OBVIOUS
<1>1. /\ Len(rows) \in Nat /\ DOMAIN rows = 1 .. Len(rows) /\ DOMAIN t = 1 .. Len(rows) + 1
      /\ t[Len(rows) + 1] = row /\ \A i \in 1 .. Len(rows) : t[i] = rows[i]
    <2>1. t \in Seq(S) /\ Len(t) = Len(rows) + 1
        BY AppendProperties
    <2> QED BY <2>1, AppendProperties, LenProperties
<1> PICK n \in Nat : n = Len(rows)
    BY <1>1
<1> PICK T : T = {rows[i].run : i \in DOMAIN rows} \cup {row.run}
    OBVIOUS
<1>2. d \in [1 .. n -> T] /\ row.run \in T
    BY <1>1
<1>3. d \in Seq(T)
    BY <1>2, SeqDef
<1>4. Len(d) = n
    BY <1>2, <1>3, LenProperties
<1>5. /\ Append(d, row.run) \in Seq(T) /\ Len(Append(d, row.run)) = n + 1
      /\ \A i \in 1 .. n : Append(d, row.run)[i] = d[i]
      /\ Append(d, row.run)[n + 1] = row.run
    BY <1>2, <1>3, <1>4, AppendProperties
<1>6. Append(d, row.run) \in [1 .. n + 1 -> T]
    BY <1>5, LenProperties
<1>7. e = [i \in 1 .. n + 1 |-> t[i].run]
    BY <1>1
<1>8. \A i \in 1 .. n + 1 : e[i] = Append(d, row.run)[i]
    <2>1. \A i \in 1 .. n + 1 : i \in 1 .. n \/ i = n + 1
        OBVIOUS
    <2>2. \A i \in 1 .. n : d[i] = rows[i].run
        BY <1>1
    <2> QED BY <1>1, <1>5, <1>7, <2>1, <2>2
<1> QED BY <1>6, <1>7, <1>8

LEMMA SubmitPromise ==
    ASSUME RunInv, NEW p \in Runners, SubmitRow(p)
    PROVE  Promise!Next
<1> PICK o : o = op[p]
    OBVIOUS
<1>1. /\ OthersKept(o.run) /\ Submitted(o.run)' /\ RunRight(o)
      /\ o.todo # << >> /\ o \in Calls
      /\ requests' = Append(requests, [agent |-> o.agent, run |-> o.run, payload |-> o.payload])
      /\ UNCHANGED <<log, started, died, serial>>
    BY SubmitRowKeeps
<1>2. Withheld(o.run)' <=> Withheld(o.run)
    BY <1>1 DEF Withheld
<1>3. o.run \in 1 .. started /\ OutcomeOf(o.run) = "working" /\ OutcomeOf(o.run)' = "submitted"
    BY <1>1, <1>2, OutcomeForm, OutcomeFormNext DEF RunRight
<1>4. outcome' = [outcome EXCEPT ![o.run] = "submitted"]
    BY <1>1, <1>3, OutcomeExcept
<1>5. delivered' = Append(delivered, o.run)
    <2> PICK row : row = [agent |-> o.agent, run |-> o.run, payload |-> o.payload]
        OBVIOUS
    <2>1. row \in RequestType /\ row.run = o.run
        BY <1>1, <1>3 DEF RequestType, Calls
    <2>2. requests \in Seq(RequestType)
        BY DEF RunInv, TypeOK, RequestType
    <2>3. delivered' = [i \in DOMAIN Append(requests, row) |-> Append(requests, row)[i].run]
        BY <1>1 DEF delivered
    <2> QED BY <2>1, <2>2, <2>3, RunsAppend DEF delivered
<1>6. Promise!Deliver(o.run)
    BY <1>3, <1>4, <1>5, OutcomeAt DEF Promise!Deliver
<1> QED BY <1>3, <1>6, OutcomeAt DEF Promise!Next

LEMMA OpensPromise ==
    ASSUME RunInv, NEW p \in Runners, NEW agent, NEW payload, NEW step, NEW fields,
           Opens(p, agent, payload, step, fields)
    PROVE  Promise!Next
<1>1. /\ Quiet /\ started \in Nat /\ started < MaxRuns /\ started' = started + 1
      /\ ~Withheld(started + 1) /\ ~Submitted(started + 1) /\ started + 1 \notin died
      /\ UNCHANGED <<requests, died>>
    BY OpensKeep
<1> PICK n \in Nat : n = started
    BY <1>1
<1>2. \A r : OutcomeOf(r)' = OutcomeOf(r)
    BY <1>1, OutcomeForm, OutcomeFormNext DEF Quiet
<1>3. OutcomeOf(n + 1) = "working"
    BY <1>1, OutcomeForm
<1> PICK T : T = {OutcomeOf(r) : r \in 1 .. n} \cup {"working"}
    OBVIOUS
<1>4. outcome \in [1 .. n -> T] /\ "working" \in T
    BY DEF outcome
<1>5. outcome \in Seq(T)
    BY <1>4, SeqDef
<1>6. Len(outcome) = n
    BY <1>4, <1>5, LenProperties
<1>7. /\ Append(outcome, "working") \in Seq(T) /\ Len(Append(outcome, "working")) = n + 1
      /\ \A i \in 1 .. n : Append(outcome, "working")[i] = outcome[i]
      /\ Append(outcome, "working")[n + 1] = "working"
    BY <1>4, <1>5, <1>6, AppendProperties
<1>8. Append(outcome, "working") \in [1 .. n + 1 -> T]
    BY <1>7, LenProperties
<1>9. outcome' = [r \in 1 .. n + 1 |-> OutcomeOf(r)']
    BY <1>1 DEF outcome
<1>10. \A i \in 1 .. n + 1 : outcome'[i] = Append(outcome, "working")[i]
    <2>1. \A i \in 1 .. n + 1 : i \in 1 .. n \/ i = n + 1
        OBVIOUS
    <2>2. \A i \in 1 .. n : outcome[i] = OutcomeOf(i)
        BY DEF outcome
    <2> QED BY <1>2, <1>3, <1>7, <1>9, <2>1, <2>2
<1>11. outcome' = Append(outcome, "working")
    BY <1>8, <1>9, <1>10
<1>12. Promise!Begin
    BY <1>1, <1>6, <1>11 DEF Promise!Begin, delivered
<1> QED BY <1>12 DEF Promise!Next

LEMMA PromiseStep ==
    ASSUME RunInv, [Next]_vars
    PROVE  [Promise!Next]_<<outcome, delivered>>
<1>1. ASSUME NEW p \in Runners, BeginRun(p)
      PROVE  Promise!Next
    BY <1>1, BeginForm, OpensPromise
<1>2. ASSUME NEW p \in Runners, Continue(p)
      PROVE  [Promise!Next]_<<outcome, delivered>>
    <2> PICK o : o = op[p]
        OBVIOUS
    <2>1. ASSUME NEW payload, NEW todo, NEW step, NEW fields,
                 Moves(p, o, payload, todo, step, fields)
          PROVE  UNCHANGED <<outcome, delivered>>
        BY <2>1, MovesKeep, OutcomeStutter
    <2>2. ASSUME SubmitEvent(p)
          PROVE  UNCHANGED <<outcome, delivered>>
        BY <2>2, SubmitEventKeeps, OutcomeStutter
    <2> QED BY <1>2, <2>1, <2>2, ContinueForm, WithholdsPromise, SubmitPromise
<1>3. ASSUME NEW p \in Runners, Die(p)
      PROVE  [Promise!Next]_<<outcome, delivered>>
    BY <1>3, DiePromise
<1>4. CASE UNCHANGED vars
    <2>1. Quiet /\ UNCHANGED <<requests, started, died>>
        BY <1>4 DEF vars, Quiet, Withheld, Submitted
    <2> QED BY <2>1, OutcomeStutter
<1> QED BY <1>1, <1>2, <1>3, <1>4 DEF Next

(* "Autonomy: draft_only": whatever the model answers and wherever runs    *)
(* die, each delivers one draft, or withholds it with an event that says   *)
(* so, or dies; and what it did is final.                                  *)
THEOREM ImplementsDraftOnly == Spec => DraftOnlySpec
<1>1. Init => Promise!Init
    <2> SUFFICES ASSUME Init PROVE outcome = << >> /\ delivered = << >>
        BY DEF Promise!Init
    <2>1. DOMAIN requests = {} /\ 1 .. started = {}
        BY EmptySeq DEF Init
    <2> QED BY <2>1 DEF outcome, delivered
<1>2. RunInv /\ [Next]_vars => [Promise!Next]_<<outcome, delivered>>
    BY PromiseStep
<1> QED BY <1>1, <1>2, RunInvariant, PTL DEF Spec, DraftOnlySpec, Promise!Spec

-----------------------------------------------------------------------------
(* A run can be read back from the log.                                    *)

(* The first n events: those of a run, and those since an agent began one. *)
Own(run, n) == {j \in 1 .. n : log[j].run = run}

Since(agent, n) ==
    {j \in 1 .. n : /\ log[j].agent = agent
                    /\ \A k \in j + 1 .. n : ~(log[k].agent = agent /\ Begins(k))}

Has(run, f, n) == \E j \in Own(run, n) : f \in DOMAIN log[j].body

Covers(run, f, draft, n) ==
    \/ draft[f] = Fresh(draft.source)[f]
    \/ Has(run, f, n)
    \/ f = "transcript" /\ Has(run, "heading", n)
    \/ f = "findings" /\ Has(run, "count", n) /\ draft.findings = Findings[draft.source]

NextUp(todo) == IF todo = << >> THEN "submitted" ELSE Head(todo)

(* What a run's events state is what its draft says; no step to come will  *)
(* change it; and they cover what the draft says.                          *)
CallReads(o, n) ==
    /\ \A j \in Own(o.run, n) : /\ DOMAIN log[j].body \subseteq Past(o.agent, NextUp(o.todo))
                                /\ log[j].body = States(o.payload, DOMAIN log[j].body)
    /\ Has(o.run, "source", n)
    /\ \A f \in PayloadFields : Covers(o.run, f, o.payload, n)

CallsRead == \A p \in Runners : Busy(p) => CallReads(op[p], Len(log))

(* As long as an agent's runs do not overlap, the one in progress is the   *)
(* one that its events since it last began a run are of.                   *)
Alone == \A p, q \in Runners : Busy(p) /\ Busy(q) /\ op[p].agent = op[q].agent => p = q

CallsTraced ==
    \A p \in Runners : Busy(p) => Since(op[p].agent, Len(log)) = Own(op[p].run, Len(log))

DraftReads(i) ==
    /\ \A j \in Trail(i) : log[j].body = States(log[i].body, DOMAIN log[j].body)
    /\ Told(i, "source")
    /\ \A field \in DOMAIN log[i].body :
          \/ log[i].body[field] = Fresh(log[i].body.source)[field]
          \/ Told(i, field)
          \/ ToldInPart(i, field)

DraftsRead == \A i \in DOMAIN log : log[i].step = "submitted" => DraftReads(i)

ReadInv == RunInv /\ CallsRead /\ (serial => Alone /\ CallsTraced /\ DraftsRead)

(* How the log that grows by an event is read.                             *)
GrowsBy(n, event) ==
    /\ n \in Nat /\ DOMAIN log = 1 .. n /\ n = Len(log) /\ DOMAIN log' = 1 .. n + 1
    /\ Len(log') = n + 1
    /\ log'[n + 1] = event /\ \A i \in 1 .. n : log'[i] = log[i]

LEMMA LogStepGrows ==
    ASSUME RunInv, NEW agent, NEW run, NEW step, NEW body, LogStep(agent, run, step, body)
    PROVE  GrowsBy(Len(log), [agent |-> agent, run |-> run, step |-> step, body |-> body])
<1> DEFINE event == [agent |-> agent, run |-> run, step |-> step, body |-> body]
<1>1. log' = Append(log, event)
    BY DEF LogStep
<1> HIDE DEF event
<1>2. /\ Rows(log') /\ Len(log) \in Nat /\ DOMAIN log = 1 .. Len(log)
      /\ DOMAIN log' = 1 .. Len(log) + 1
      /\ log'[Len(log) + 1] = event
      /\ \A i \in 1 .. Len(log) : log'[i] = log[i]
    BY <1>1, RowsAppend DEF RunInv
<1>3. Len(log') = Len(log) + 1
    <2>1. Len(log') \in Nat /\ DOMAIN log' = 1 .. Len(log')
        BY <1>2, LenProperties DEF Rows
    <2> QED BY <1>2, <2>1
<1> QED BY <1>2, <1>3 DEF GrowsBy, event

LEMMA OwnGrows ==
    ASSUME NEW n, NEW event, GrowsBy(n, event), NEW run
    PROVE  /\ event.run # run => Own(run, n + 1)' = Own(run, n)
           /\ event.run = run => Own(run, n + 1)' = Own(run, n) \cup {n + 1}
           /\ \A j \in Own(run, n) : log'[j] = log[j]
<1>1. n \in Nat /\ \A j \in 1 .. n + 1 : j \in 1 .. n \/ j = n + 1
    BY DEF GrowsBy
<1>2. n + 1 \in 1 .. n + 1 /\ 1 .. n \subseteq 1 .. n + 1
    BY <1>1
<1>3. Own(run, n + 1)' = {j \in 1 .. n + 1 : log'[j].run = run}
    BY DEF Own
<1> QED BY <1>1, <1>2, <1>3 DEF Own, GrowsBy

LEMMA HasGrows ==
    ASSUME NEW n, NEW event, GrowsBy(n, event), NEW run, NEW f
    PROVE  /\ Has(run, f, n) => Has(run, f, n + 1)'
           /\ event.run = run /\ f \in DOMAIN event.body => Has(run, f, n + 1)'
<1>1. /\ Own(run, n) \subseteq Own(run, n + 1)' /\ \A j \in Own(run, n) : log'[j] = log[j]
      /\ event.run = run => n + 1 \in Own(run, n + 1)'
    BY OwnGrows
<1>2. log'[n + 1] = event
    BY DEF GrowsBy
<1>3. Has(run, f, n + 1)' <=> \E j \in Own(run, n + 1)' : f \in DOMAIN log'[j].body
    BY DEF Has
<1> QED BY <1>1, <1>2, <1>3 DEF Has

LEMMA CoversGrows ==
    ASSUME NEW n, NEW event, GrowsBy(n, event), NEW run, NEW f, NEW draft,
           Covers(run, f, draft, n)
    PROVE  Covers(run, f, draft, n + 1)'
<1>1. \A g : Has(run, g, n) => Has(run, g, n + 1)'
    BY HasGrows
<1> QED BY <1>1 DEF Covers, Fresh

LEMMA SinceGrows ==
    ASSUME NEW n, NEW event, GrowsBy(n, event), NEW agent
    PROVE  /\ event.agent # agent => Since(agent, n + 1)' = Since(agent, n)
           /\ event.agent = agent /\ event.step = Head(Runs[agent]) =>
                 Since(agent, n + 1)' = {n + 1}
           /\ event.agent = agent /\ event.step # Head(Runs[agent]) =>
                 Since(agent, n + 1)' = Since(agent, n) \cup {n + 1}
<1> DEFINE Breaks == event.agent = agent /\ event.step = Head(Runs[agent])
           B(k) == log[k].agent = agent /\ Begins(k)
<1>1. n \in Nat /\ log'[n + 1] = event /\ \A j \in 1 .. n : log'[j] = log[j]
    BY DEF GrowsBy
<1>2. Since(agent, n + 1)' =
         {j \in 1 .. n + 1 : log'[j].agent = agent /\ \A k \in j + 1 .. n + 1 : ~B(k)'}
    BY DEF Since
<1>3. B(n + 1)' <=> Breaks
    BY <1>1 DEF Begins
<1>4. \A k \in 1 .. n : B(k)' <=> B(k)
    BY <1>1 DEF Begins
<1> HIDE DEF B, Breaks
<1>5. ASSUME NEW j \in 1 .. n
      PROVE  j \in Since(agent, n + 1)' <=> j \in Since(agent, n) /\ ~Breaks
    <2>1. \A k \in j + 1 .. n + 1 : (k \in 1 .. n /\ k \in j + 1 .. n) \/ k = n + 1
        BY <1>1
    <2>2. n + 1 \in j + 1 .. n + 1 /\ \A k \in j + 1 .. n : k \in j + 1 .. n + 1 /\ k \in 1 .. n
        BY <1>1
    <2>3. (\A k \in j + 1 .. n + 1 : ~B(k)') <=> (\A k \in j + 1 .. n : ~B(k)) /\ ~Breaks
        BY <1>3, <1>4, <2>1, <2>2
    <2>4. j \in 1 .. n + 1 /\ log'[j].agent = log[j].agent
        BY <1>1
    <2>5. j \in Since(agent, n) <=> log[j].agent = agent /\ \A k \in j + 1 .. n : ~B(k)
        BY DEF Since, B
    <2> QED BY <1>2, <2>3, <2>4, <2>5
<1>6. n + 1 \in Since(agent, n + 1)' <=> event.agent = agent
    <2>1. n + 1 \in 1 .. n + 1 /\ \A k \in (n + 1) + 1 .. n + 1 : FALSE
        BY <1>1
    <2> QED BY <1>1, <1>2, <2>1
<1>7. /\ \A j \in Since(agent, n + 1)' : j \in 1 .. n \/ j = n + 1
      /\ \A j \in Since(agent, n) : j \in 1 .. n
    <2>1. \A j \in 1 .. n + 1 : j \in 1 .. n \/ j = n + 1
        BY <1>1
    <2> QED BY <1>2, <2>1 DEF Since
<1> QED BY <1>5, <1>6, <1>7 DEF Breaks

LEMMA TrailForm ==
    /\ \A i : Trail(i) = Since(log[i].agent, i - 1)
    /\ \A i : Trail(i)' = Since(log[i].agent, i - 1)'
BY DEF Trail, Since

LEMMA DraftReadsNext ==
    ASSUME NEW i,
           \A j \in Trail(i)' : log'[j].body = States(log'[i].body, DOMAIN log'[j].body),
           Told(i, "source")',
           \A f \in DOMAIN log'[i].body : \/ log'[i].body[f] = Fresh(log'[i].body.source)[f]
                                         \/ Told(i, f)' \/ ToldInPart(i, f)'
    PROVE  DraftReads(i)'
BY DEF DraftReads, States, Says, Fresh

LEMMA DraftsStayRead ==
    ASSUME NEW n, NEW event, GrowsBy(n, event), NEW i \in 1 .. n, DraftReads(i)
    PROVE  DraftReads(i)'
<1>1. /\ n \in Nat /\ \A j \in 1 .. n : log'[j] = log[j] /\ (Begins(j)' <=> Begins(j))
    BY DEF GrowsBy, Begins
<1>2. log'[i] = log[i]
    BY <1>1
<1>3. \A j \in 1 .. i - 1 : j \in 1 .. n /\ \A k \in j + 1 .. i - 1 : k \in 1 .. n
    BY <1>1
<1>4. Trail(i)' = {j \in 1 .. i - 1 : /\ log'[j].agent = log'[i].agent
                                     /\ \A k \in j + 1 .. i - 1 :
                                           ~(log'[k].agent = log'[i].agent /\ Begins(k)')}
    BY DEF Trail
<1>5. Trail(i)' = Trail(i) /\ \A j \in Trail(i) : log'[j] = log[j]
    BY <1>1, <1>2, <1>3, <1>4 DEF Trail
<1>6. \A f : Told(i, f)' <=> Told(i, f)
    <2>1. \A f : Told(i, f)' <=> \E j \in Trail(i)' : f \in DOMAIN log'[j].body
        BY DEF Told
    <2> QED BY <1>5, <2>1 DEF Told
<1>7. \A f : ToldInPart(i, f)' <=> ToldInPart(i, f)
    BY <1>2, <1>6 DEF ToldInPart
<1> PICK draft : draft = log[i].body
    OBVIOUS
<1>8. /\ \A j \in Trail(i) : log'[j].body = States(draft, DOMAIN log'[j].body)
      /\ Told(i, "source")
      /\ \A f \in DOMAIN draft : \/ draft[f] = Fresh(draft.source)[f]
                                 \/ Told(i, f) \/ ToldInPart(i, f)
    BY <1>5 DEF DraftReads
<1>9. log'[i].body = draft
    BY <1>2
<1>10. \A j \in Trail(i)' : log'[j].body = States(log'[i].body, DOMAIN log'[j].body)
    BY <1>5, <1>8, <1>9
<1>11. Told(i, "source")'
    BY <1>6, <1>8
<1>12. \A f \in DOMAIN draft : \/ draft[f] = Fresh(draft.source)[f]
                              \/ Told(i, f)' \/ ToldInPart(i, f)'
    BY <1>6, <1>7, <1>8
<1>13. \A f \in DOMAIN log'[i].body : \/ log'[i].body[f] = Fresh(log'[i].body.source)[f]
                                      \/ Told(i, f)' \/ ToldInPart(i, f)'
    BY <1>9, <1>12
<1> QED BY <1>10, <1>11, <1>13, DraftReadsNext

LEMMA CallKept ==
    ASSUME NEW n, NEW event, GrowsBy(n, event), NEW o, o.run # event.run, CallReads(o, n)
    PROVE  CallReads(o, n + 1)'
<1>1. Own(o.run, n + 1)' = Own(o.run, n) /\ \A j \in Own(o.run, n) : log'[j] = log[j]
    BY OwnGrows
<1>2. Has(o.run, "source", n + 1)'
    BY HasGrows DEF CallReads
<1>3. \A f \in PayloadFields : Covers(o.run, f, o.payload, n + 1)'
    BY CoversGrows DEF CallReads
<1>4. \A j \in Own(o.run, n) : /\ DOMAIN log'[j].body \subseteq Past(o.agent, NextUp(o.todo))
                               /\ log'[j].body = States(o.payload, DOMAIN log'[j].body)
    BY <1>1 DEF CallReads
<1> QED BY <1>1, <1>2, <1>3, <1>4 DEF CallReads, States, Says, Past, NextUp

OnlyOne(p, agent) == \A q \in Runners \ {p} : Busy(q) => op[q].agent # agent

LEMMA AloneKept ==
    ASSUME RunInv, Alone, NEW p \in Runners, NEW new \in Calls \cup {Idle}, Steered(p, new),
           NEW agent, OnlyOne(p, agent), new = Idle \/ new.agent = agent
    PROVE  Alone'
<1>1. op'[p] = new /\ \A q \in Runners \ {p} : op'[q] = op[q]
    BY SteeredOp
<1>2. \A q \in Runners \ {p} : Busy(q)' => Busy(q) /\ op'[q] = op[q] /\ op[q].agent # agent
    BY <1>1 DEF Busy, OnlyOne
<1>3. Busy(p)' => op'[p].agent = agent
    BY <1>1 DEF Busy
<1>4. ASSUME NEW q \in Runners, NEW r \in Runners, Busy(q)', Busy(r)', op'[q].agent = op'[r].agent
      PROVE  q = r
    <2>1. CASE q # p /\ r # p
        BY <1>2, <1>4, <2>1 DEF Alone
    <2> QED BY <1>2, <1>3, <1>4, <2>1
<1> QED BY <1>4 DEF Alone

(* A step of a run that appends an event.                                  *)
LEMMA ReadGrows ==
    ASSUME ReadInv, RunInv', NEW p \in Runners, NEW new \in Calls \cup {Idle}, Steered(p, new),
           NEW n, NEW event, GrowsBy(n, event),
           \A q \in Runners \ {p} : Busy(q) => op[q].run # event.run,
           serial' => serial /\ OnlyOne(p, event.agent),
           serial' /\ event.step = "submitted" => DraftReads(n + 1)',
           new # Idle => new.agent = event.agent /\ CallReads(new, n + 1)',
           serial' /\ new # Idle => Since(new.agent, n + 1)' = Own(new.run, n + 1)'
    PROVE  ReadInv'
<1>1. /\ RunInv /\ n \in Nat /\ DOMAIN log' = 1 .. n + 1 /\ log'[n + 1] = event
      /\ Len(log') = n + 1 /\ Len(log) = n
      /\ \A i \in 1 .. n : log'[i] = log[i] /\ i \in DOMAIN log
      /\ \A i \in 1 .. n + 1 : i \in 1 .. n \/ i = n + 1
    BY DEF GrowsBy, ReadInv
<1>2. op'[p] = new /\ \A q \in Runners \ {p} : op'[q] = op[q]
    BY <1>1, SteeredOp
<1>3. ASSUME NEW q \in Runners, Busy(q)', NEW o, o = op'[q]
      PROVE  CallReads(o, n + 1)' /\ (serial' => Since(o.agent, n + 1)' = Own(o.run, n + 1)')
    <2>1. CASE q = p
        BY <1>2, <1>3, <2>1 DEF Busy
    <2>2. CASE q # p
        <3>1. o = op[q] /\ Busy(q) /\ o.run # event.run
            BY <1>2, <1>3, <2>2 DEF Busy
        <3>2. CallReads(o, n)
            BY <1>1, <3>1 DEF ReadInv, CallsRead
        <3>3. CallReads(o, n + 1)'
            BY <3>1, <3>2, CallKept
        <3>4. ASSUME serial'
              PROVE  Since(o.agent, n + 1)' = Own(o.run, n + 1)'
            <4>1. o.agent # event.agent /\ Since(o.agent, n) = Own(o.run, n)
                BY <1>1, <2>2, <3>1, <3>4 DEF OnlyOne, ReadInv, CallsTraced
            <4> QED BY <3>1, <4>1, OwnGrows, SinceGrows
        <3> QED BY <3>3, <3>4
    <2> QED BY <2>1, <2>2
<1>4. CallsRead'
    <2> SUFFICES ASSUME NEW q \in Runners, Busy(q)' PROVE CallReads(op[q], Len(log))'
        BY DEF CallsRead
    <2> PICK o : o = op'[q]
        OBVIOUS
    <2>1. CallReads(o, n + 1)'
        BY <1>3
    <2> QED BY <1>1, <2>1 DEF CallReads, Own, Has, Covers
<1>5. ASSUME serial'
      PROVE  Alone' /\ CallsTraced' /\ DraftsRead'
    <2>1. Alone /\ DraftsRead /\ OnlyOne(p, event.agent)
        BY <1>5 DEF ReadInv
    <2>2. Alone'
        <3> PICK agent : agent = event.agent
            OBVIOUS
        <3>1. OnlyOne(p, agent) /\ (new = Idle \/ new.agent = agent)
            BY <2>1
        <3> QED BY <1>1, <2>1, <3>1, AloneKept
    <2>3. CallsTraced'
        <3> SUFFICES ASSUME NEW q \in Runners, Busy(q)'
                     PROVE  Since(op[q].agent, Len(log))' = Own(op[q].run, Len(log))'
            BY DEF CallsTraced
        <3> PICK o : o = op'[q]
            OBVIOUS
        <3>1. Since(o.agent, n + 1)' = Own(o.run, n + 1)'
            BY <1>3, <1>5
        <3> QED BY <1>1, <3>1 DEF Since, Own
    <2>4. ASSUME NEW i \in 1 .. n + 1, log'[i].step = "submitted"
          PROVE  DraftReads(i)'
        <3>1. CASE i \in 1 .. n
            <4>1. DraftReads(i)
                BY <1>1, <2>1, <2>4, <3>1 DEF DraftsRead
            <4> QED BY <3>1, <4>1, DraftsStayRead
        <3>2. CASE i = n + 1
            <4>1. DraftReads(n + 1)'
                BY <1>1, <1>5, <2>4, <3>2
            <4> QED BY <3>2, <4>1
        <3> QED BY <1>1, <3>1, <3>2
    <2>5. DraftsRead'
        BY <1>1, <2>4 DEF DraftsRead
    <2> QED BY <2>2, <2>3, <2>5
<1> QED BY <1>4, <1>5 DEF ReadInv

(* ... and one that appends none.                                          *)
LEMMA ReadStays ==
    ASSUME ReadInv, RunInv', NEW p \in Runners, NEW new \in Calls \cup {Idle}, Steered(p, new),
           UNCHANGED log, serial' => serial, NEW o, o = op[p], Busy(p),
           new # Idle => /\ new.agent = o.agent /\ new.run = o.run
                         /\ CallReads(new, Len(log))
    PROVE  ReadInv'
<1> PICK n : n = Len(log)
    OBVIOUS
<1>1. RunInv /\ n = Len(log')
    BY DEF ReadInv
<1>2. op'[p] = new /\ \A q \in Runners \ {p} : op'[q] = op[q]
    BY <1>1, SteeredOp
<1>3. \A c : CallReads(c, n)' <=> CallReads(c, n)
    BY DEF CallReads, Own, Has, Covers, Fresh, States, Says, Past, NextUp
<1>4. /\ \A a : Since(a, n)' = Since(a, n)
      /\ \A r : Own(r, n)' = Own(r, n)
    BY DEF Since, Own, Begins
<1>5. ASSUME NEW q \in Runners, Busy(q)', NEW c, c = op'[q]
      PROVE  CallReads(c, n) /\ (serial' => Since(c.agent, n) = Own(c.run, n))
    <2>1. CASE q = p
        <3>1. c = new /\ new # Idle
            BY <1>2, <1>5, <2>1 DEF Busy
        <3>2. serial => Since(o.agent, n) = Own(o.run, n)
            BY DEF ReadInv, CallsTraced
        <3> QED BY <3>1, <3>2
    <2>2. CASE q # p
        BY <1>2, <1>5, <2>2 DEF Busy, ReadInv, CallsRead, CallsTraced
    <2> QED BY <2>1, <2>2
<1>6. CallsRead'
    <2> SUFFICES ASSUME NEW q \in Runners, Busy(q)' PROVE CallReads(op[q], Len(log))'
        BY DEF CallsRead
    <2> PICK c : c = op'[q]
        OBVIOUS
    <2>1. CallReads(c, n)'
        BY <1>3, <1>5
    <2> QED BY <1>1, <2>1 DEF CallReads, Own, Has, Covers
<1>7. ASSUME serial'
      PROVE  Alone' /\ CallsTraced' /\ DraftsRead'
    <2>1. Alone /\ DraftsRead
        BY <1>7 DEF ReadInv
    <2>2. Alone'
        <3> PICK agent : agent = o.agent
            OBVIOUS
        <3>1. OnlyOne(p, agent) /\ (new = Idle \/ new.agent = agent)
            BY <2>1 DEF OnlyOne, Alone
        <3> QED BY <1>1, <2>1, <3>1, AloneKept
    <2>3. CallsTraced'
        <3> SUFFICES ASSUME NEW q \in Runners, Busy(q)'
                     PROVE  Since(op[q].agent, Len(log))' = Own(op[q].run, Len(log))'
            BY DEF CallsTraced
        <3> PICK c : c = op'[q]
            OBVIOUS
        <3>1. Since(c.agent, n)' = Own(c.run, n)'
            BY <1>4, <1>5, <1>7
        <3> QED BY <1>1, <3>1 DEF Since, Own
    <2>4. \A i : DraftReads(i)' <=> DraftReads(i)
        BY DEF DraftReads, Trail, Begins, Told, ToldInPart, Fresh, States, Says
    <2>5. DraftsRead'
        BY <2>1, <2>4 DEF DraftsRead
    <2> QED BY <2>2, <2>3, <2>5
<1> QED BY <1>6, <1>7 DEF ReadInv

LEMMA EventIs ==
    ASSUME RunInv, NEW agent, NEW run, NEW step, NEW body, LogStep(agent, run, step, body)
    PROVE  \E n, event : /\ GrowsBy(n, event) /\ n = Len(log)
                         /\ event.agent = agent /\ event.run = run
                         /\ event.step = step /\ event.body = body
<1> PICK event : event = [agent |-> agent, run |-> run, step |-> step, body |-> body]
    OBVIOUS
<1> PICK n : n = Len(log)
    OBVIOUS
<1>1. GrowsBy(n, event)
    BY LogStepGrows
<1>2. event.agent = agent /\ event.run = run /\ event.step = step /\ event.body = body
    OBVIOUS
<1> QED BY <1>1, <1>2

LEMMA OthersElsewhere ==
    ASSUME RunInv, NEW p \in Runners, Busy(p), NEW o, o = op[p]
    PROVE  /\ \A q \in Runners \ {p} : Busy(q) => op[q].run # o.run
           /\ Alone => OnlyOne(p, o.agent)
BY DEF Alone, OnlyOne, RunInv, RunsRight

LEMMA MovesRead ==
    ASSUME ReadInv, NEW p \in Runners, NEW o, NEW payload, NEW todo, NEW step, NEW fields,
           Moves(p, o, payload, todo, step, fields)
    PROVE  ReadInv'
<1>1. /\ RunInv /\ RunInv' /\ serial' = serial /\ o = op[p] /\ Busy(p)
      /\ Steered(p, Carry(o, todo, payload)) /\ o \in Calls
    BY MovesKeep DEF ReadInv, Moves, GoesOn
<1> PICK new : new = Carry(o, todo, payload)
    OBVIOUS
<1>2. /\ new \in Calls /\ new.agent = o.agent /\ new.todo = todo /\ new.payload = payload
      /\ new.run = o.run
    BY <1>1 DEF Moves, GoesOn, Carry, Calls
<1> PICK n : n = Len(log)
    OBVIOUS
<1> PICK past : past = Past(o.agent, NextUp(o.todo))
    OBVIOUS
<1> PICK soon : soon = Past(o.agent, NextUp(todo))
    OBVIOUS
<1>3. /\ payload.source = o.payload.source /\ fields \subseteq soon /\ past \subseteq soon
      /\ \A f \in past : Says(payload, f) = Says(o.payload, f)
      /\ \A f \in PayloadFields : payload[f] = o.payload[f] \/ Covered(f, payload, fields)
    BY DEF Moves, GoesOn, NextUp
<1>4. /\ \A j \in Own(o.run, n) : /\ DOMAIN log[j].body \subseteq past
                                  /\ log[j].body = States(o.payload, DOMAIN log[j].body)
      /\ Has(o.run, "source", n)
      /\ \A f \in PayloadFields : Covers(o.run, f, o.payload, n)
    BY <1>1 DEF ReadInv, CallsRead, CallReads
<1>5. \A j \in Own(o.run, n) : /\ DOMAIN log[j].body \subseteq soon
                               /\ log[j].body = States(payload, DOMAIN log[j].body)
    <2> SUFFICES ASSUME NEW j \in Own(o.run, n)
                 PROVE  /\ DOMAIN log[j].body \subseteq soon
                        /\ log[j].body = States(payload, DOMAIN log[j].body)
        OBVIOUS
    <2> PICK told : told = DOMAIN log[j].body
        OBVIOUS
    <2>1. told \subseteq past /\ log[j].body = States(o.payload, told)
        BY <1>4
    <2>2. States(payload, told) = States(o.payload, told)
        BY <1>3, <2>1 DEF States
    <2> QED BY <1>3, <2>1, <2>2
<1>6. ASSUME Writes(o, payload, step, fields)
      PROVE  ReadInv'
    <2>1. PICK m, event :
             /\ GrowsBy(m, event) /\ m = Len(log) /\ event.agent = o.agent /\ event.run = o.run
             /\ event.step = step /\ event.body = States(payload, fields)
        BY <1>1, <1>6, EventIs DEF Writes
    <2>2. DOMAIN event.body = fields /\ event.body = States(payload, DOMAIN event.body)
        BY <2>1 DEF States
    <2>3. step # "submitted" /\ step # Head(Runs[o.agent])
        BY DEF Moves, QuietSteps
    <2>4. /\ Own(o.run, m + 1)' = Own(o.run, m) \cup {m + 1} /\ log'[m + 1] = event
          /\ \A j \in Own(o.run, m) : log'[j] = log[j]
        <3>1. log'[m + 1] = event
            BY <2>1 DEF GrowsBy
        <3> PICK run : run = o.run
            OBVIOUS
        <3>2. event.run = run /\ GrowsBy(m, event)
            BY <2>1
        <3>3. /\ Own(run, m + 1)' = Own(run, m) \cup {m + 1}
              /\ \A j \in Own(run, m) : log'[j] = log[j]
            BY <3>2, OwnGrows
        <3> QED BY <3>1, <3>3
    <2>5. \A j \in Own(o.run, m + 1)' : /\ DOMAIN log'[j].body \subseteq soon
                                        /\ log'[j].body = States(payload, DOMAIN log'[j].body)
        BY <1>3, <1>5, <2>1, <2>2, <2>4
    <2>6. Has(o.run, "source", m + 1)'
        BY <1>4, <2>1, HasGrows
    <2>7. ASSUME NEW f \in PayloadFields
          PROVE  Covers(o.run, f, payload, m + 1)'
        <3>1. CASE payload[f] = o.payload[f]
            <4>1. Covers(o.run, f, o.payload, m)
                BY <1>4, <2>1
            <4>2. Covers(o.run, f, payload, m)
                BY <1>3, <3>1, <4>1 DEF Covers
            <4> QED BY <2>1, <4>2, CoversGrows
        <3>2. CASE Covered(f, payload, fields)
            <4>1. \A g \in fields : Has(o.run, g, m + 1)'
                BY <2>1, <2>2, HasGrows
            <4> QED BY <3>2, <4>1 DEF Covered, Covers, Fresh
        <3> QED BY <1>3, <3>1, <3>2
    <2>8. CallReads(new, m + 1)'
        <3>1. soon = Past(new.agent, NextUp(new.todo))
            BY <1>2
        <3> QED BY <1>2, <2>5, <2>6, <2>7, <3>1 DEF CallReads, States, Says, Past, NextUp
    <2>9. serial => Since(new.agent, m + 1)' = Own(new.run, m + 1)'
        <3>1. serial => Since(o.agent, m) = Own(o.run, m)
            BY <1>1, <2>1 DEF ReadInv, CallsTraced
        <3>2. Since(o.agent, m + 1)' = Since(o.agent, m) \cup {m + 1}
            BY <2>1, <2>3, SinceGrows
        <3> QED BY <1>2, <2>4, <3>1, <3>2
    <2>10. /\ \A q \in Runners \ {p} : Busy(q) => op[q].run # event.run
           /\ serial' => serial /\ OnlyOne(p, event.agent)
        BY <1>1, <2>1, OthersElsewhere DEF ReadInv
    <2> QED BY <1>1, <1>2, <2>1, <2>3, <2>8, <2>9, <2>10, ReadGrows
<1>7. ASSUME UNCHANGED log, fields = {}
      PROVE  ReadInv'
    <2>1. \A f \in PayloadFields : Covers(o.run, f, payload, n)
        BY <1>3, <1>4, <1>7 DEF Covers, Covered
    <2>2. CallReads(new, n)
        BY <1>2, <1>4, <1>5, <2>1 DEF CallReads
    <2> QED BY <1>1, <1>2, <1>7, <2>2, ReadStays
<1> QED BY <1>6, <1>7 DEF Moves

LEMMA WithholdsRead ==
    ASSUME ReadInv, NEW p \in Runners, NEW o, NEW step, Withholds(p, o, step)
    PROVE  ReadInv'
<1>1. /\ RunInv /\ RunInv' /\ serial' = serial /\ o = op[p] /\ Busy(p) /\ Steered(p, Idle)
      /\ step # "submitted"
    BY WithholdsKeep DEF ReadInv, Withholds, WithholdingSteps
<1> PICK body : LogStep(o.agent, o.run, step, body)
    BY DEF Withholds
<1>2. PICK n, event :
         /\ GrowsBy(n, event) /\ n = Len(log) /\ event.agent = o.agent /\ event.run = o.run
         /\ event.step = step /\ event.body = body
    BY <1>1, EventIs
<1>3. /\ \A q \in Runners \ {p} : Busy(q) => op[q].run # event.run
      /\ serial' => serial /\ OnlyOne(p, event.agent)
    BY <1>1, <1>2, OthersElsewhere DEF ReadInv
<1> QED BY <1>1, <1>2, <1>3, ReadGrows

LEMMA SubmitRowReads ==
    ASSUME ReadInv, NEW p \in Runners, SubmitRow(p)
    PROVE  ReadInv'
<1> PICK o : o = op[p]
    OBVIOUS
<1>1. /\ RunInv /\ RunInv' /\ UNCHANGED <<log, serial>> /\ Busy(p) /\ o \in Calls
      /\ Head(o.todo) = "submitted" /\ o.todo # << >>
    BY SubmitRowKeeps DEF ReadInv, SubmitRow, AtStep, NextStep
<1> PICK new : new = Carry(o, << >>, o.payload)
    OBVIOUS
<1>2. /\ new \in Calls /\ new.agent = o.agent /\ new.todo = << >> /\ new.payload = o.payload
      /\ new.run = o.run
    <2>1. << >> \in Seq(Steps)
        BY EmptySeq
    <2> QED BY <1>1, <2>1 DEF Carry, Calls
<1>3. Steered(p, new)
    <2>1. [o EXCEPT !.todo = << >>] = new
        BY <1>1, CallExcept DEF Carry
    <2> QED BY <2>1 DEF SubmitRow, Steered
<1>4. CallReads(new, Len(log))
    <2>1. CallReads(o, Len(log))
        BY <1>1 DEF ReadInv, CallsRead
    <2>2. NextUp(new.todo) = NextUp(o.todo)
        BY <1>1, <1>2 DEF NextUp
    <2> QED BY <1>2, <2>1, <2>2 DEF CallReads
<1> QED BY <1>1, <1>2, <1>3, <1>4, ReadStays

LEMMA SubmitEventReads ==
    ASSUME ReadInv, NEW p \in Runners, SubmitEvent(p)
    PROVE  ReadInv'
<1> PICK o : o = op[p]
    OBVIOUS
<1>1. /\ RunInv /\ RunInv' /\ serial' = serial /\ Busy(p) /\ o \in Calls
      /\ LogStep(o.agent, o.run, "submitted", o.payload)
    BY SubmitEventKeeps DEF ReadInv, SubmitEvent, RunInv, TypeOK, RunsRight, Busy
<1>2. Steered(p, Idle)
    BY DEF SubmitEvent, Steered
<1>3. PICK n, event :
         /\ GrowsBy(n, event) /\ n = Len(log) /\ event.agent = o.agent /\ event.run = o.run
         /\ event.step = "submitted" /\ event.body = o.payload
    BY <1>1, EventIs
<1>4. DOMAIN o.payload = PayloadFields
    BY <1>1 DEF Calls, Payload, PayloadFields
<1>5. /\ \A q \in Runners \ {p} : Busy(q) => op[q].run # event.run
      /\ serial' => serial /\ OnlyOne(p, event.agent)
    BY <1>1, <1>3, OthersElsewhere DEF ReadInv
<1>6. ASSUME serial'
      PROVE  DraftReads(n + 1)'
    <2>1. /\ n \in Nat /\ log'[n + 1] = event /\ \A j \in 1 .. n : log'[j] = log[j]
          /\ (n + 1) - 1 = n
        BY <1>3 DEF GrowsBy
    <2>2. Since(o.agent, n) = Own(o.run, n) /\ CallReads(o, n)
        BY <1>1, <1>3, <1>6 DEF ReadInv, CallsTraced, CallsRead
    <2>3. Trail(n + 1)' = Own(o.run, n)
        <3>1. Trail(n + 1)' = Since(log[n + 1].agent, (n + 1) - 1)'
            BY TrailForm
        <3>2. Since(o.agent, n)' = Since(o.agent, n)
            <4>1. \A j \in 1 .. n : /\ log'[j] = log[j] /\ (Begins(j)' <=> Begins(j))
                                    /\ \A k \in j + 1 .. n : k \in 1 .. n
                BY <2>1 DEF Begins
            <4>2. Since(o.agent, n)' =
                     {j \in 1 .. n : /\ log'[j].agent = o.agent
                                     /\ \A k \in j + 1 .. n :
                                           ~(log'[k].agent = o.agent /\ Begins(k)')}
                BY DEF Since
            <4> QED BY <4>1, <4>2 DEF Since
        <3>3. Since(log[n + 1].agent, (n + 1) - 1)' = Since(o.agent, n)'
            BY <1>3, <2>1 DEF Since
        <3> QED BY <2>2, <3>1, <3>2, <3>3
    <2>4. \A j \in Own(o.run, n) : log'[j] = log[j]
        BY <2>1 DEF Own
    <2>5. \A f : Told(n + 1, f)' <=> Has(o.run, f, n)
        <3>1. \A f : Told(n + 1, f)' <=> \E j \in Trail(n + 1)' : f \in DOMAIN log'[j].body
            BY DEF Told
        <3> QED BY <2>3, <2>4, <3>1 DEF Has
    <2>6. log'[n + 1].body = o.payload
        BY <1>3, <2>1
    <2>7. \A j \in Trail(n + 1)' : log'[j].body = States(o.payload, DOMAIN log'[j].body)
        BY <2>2, <2>3, <2>4 DEF CallReads
    <2>8. \A f \in PayloadFields : \/ o.payload[f] = Fresh(o.payload.source)[f]
                                   \/ Told(n + 1, f)' \/ ToldInPart(n + 1, f)'
        <3>1. \A f \in PayloadFields : Covers(o.run, f, o.payload, n)
            BY <2>2 DEF CallReads
        <3> QED BY <2>5, <2>6, <3>1 DEF Covers, ToldInPart
    <2>9. Told(n + 1, "source")'
        BY <2>2, <2>5 DEF CallReads
    <2>10. \A j \in Trail(n + 1)' :
              log'[j].body = States(log'[n + 1].body, DOMAIN log'[j].body)
        BY <2>6, <2>7
    <2>11. \A f \in DOMAIN log'[n + 1].body :
              \/ log'[n + 1].body[f] = Fresh(log'[n + 1].body.source)[f]
              \/ Told(n + 1, f)' \/ ToldInPart(n + 1, f)'
        BY <1>4, <2>6, <2>8
    <2> QED BY <2>9, <2>10, <2>11, DraftReadsNext
<1> QED BY <1>1, <1>2, <1>3, <1>5, <1>6, ReadGrows

LEMMA DieReads ==
    ASSUME ReadInv, NEW p \in Runners, Die(p)
    PROVE  ReadInv'
<1> PICK o : o = op[p]
    OBVIOUS
<1>1. RunInv' /\ UNCHANGED <<log, serial>>
    BY DieKeeps DEF ReadInv
<1>2. Steered(p, Idle) /\ Busy(p)
    BY DEF Die, Steered
<1> QED BY <1>1, <1>2, ReadStays

LEMMA OpensRead ==
    ASSUME ReadInv, NEW p \in Runners, NEW agent, NEW payload, NEW step, NEW fields,
           Opens(p, agent, payload, step, fields)
    PROVE  ReadInv'
<1> PICK run : run = started + 1
    OBVIOUS
<1> PICK new : new = [agent |-> agent, run |-> run, todo |-> Tail(Runs[agent]),
                      payload |-> payload]
    OBVIOUS
<1>1. /\ RunInv /\ RunInv' /\ Steered(p, new) /\ agent \in Agents /\ step \in QuietSteps
      /\ step = Head(Runs[agent]) /\ payload \in Payload
      /\ "source" \in fields /\ fields \subseteq Past(agent, Head(Tail(Runs[agent])))
      /\ \A f \in PayloadFields \ fields : payload[f] = Fresh(payload.source)[f]
      /\ LogStep(agent, run, step, States(payload, fields)) /\ started \in Nat
    <2>1. RunInv /\ RunInv'
        BY OpensKeep DEF ReadInv
    <2>2. Steered(p, new)
        BY DEF Opens, Begin, Steered
    <2> QED BY <2>1, <2>2 DEF Opens, Begin, RunInv, TypeOK
<1>2. serial' = (serial /\ \A q \in Runners : Busy(q) => op[q].agent # agent)
    BY DEF Opens, Begin
<1>3. Runs[agent] \in Seq(Steps) /\ Runs[agent] # << >>
    BY <1>1, RunsTyped
<1>4. /\ new \in Calls /\ new.agent = agent /\ new.todo = Tail(Runs[agent])
      /\ new.payload = payload /\ new.run = run
    BY <1>1, <1>3, TailTyped DEF Calls
<1>5. PICK n, event :
         /\ GrowsBy(n, event) /\ n = Len(log) /\ event.agent = agent /\ event.run = run
         /\ event.step = step /\ event.body = States(payload, fields)
    BY <1>1, EventIs
<1>6. DOMAIN event.body = fields /\ event.body = States(payload, DOMAIN event.body)
    BY <1>5 DEF States
<1>7. step # "submitted"
    BY <1>1 DEF QuietSteps
<1>8. Tail(Runs[agent]) # << >>
    BY <1>1, <1>3, <1>7, TailLeft
<1>9. Own(run, n + 1)' = {n + 1} /\ log'[n + 1] = event
    <2>1. \A j \in DOMAIN log : log[j].run \in 1 .. started
        BY <1>1 DEF RunInv, TypeOK
    <2>2. \A j \in 1 .. n : log[j].run # run
        BY <1>1, <1>5, <2>1 DEF GrowsBy
    <2>3. Own(run, n) = {}
        BY <2>2 DEF Own
    <2> QED BY <1>5, <2>3, OwnGrows DEF GrowsBy
<1>10. CallReads(new, n + 1)'
    <2>1. DOMAIN event.body \subseteq Past(agent, NextUp(new.todo))
        BY <1>1, <1>4, <1>6, <1>8 DEF NextUp
    <2>2. \A f \in fields : Has(run, f, n + 1)'
        BY <1>5, <1>6, HasGrows
    <2>3. \A f \in PayloadFields : Covers(run, f, payload, n + 1)'
        BY <1>1, <2>2 DEF Covers, Fresh
    <2>4. \A j \in Own(run, n + 1)' :
             /\ DOMAIN log'[j].body \subseteq Past(agent, NextUp(new.todo))
             /\ log'[j].body = States(payload, DOMAIN log'[j].body)
        BY <1>6, <1>9, <2>1
    <2>5. Has(run, "source", n + 1)'
        BY <1>1, <2>2
    <2>6. /\ \A j \in Own(new.run, n + 1)' :
                /\ DOMAIN log'[j].body \subseteq Past(new.agent, NextUp(new.todo))
                /\ log'[j].body = States(new.payload, DOMAIN log'[j].body)
          /\ Has(new.run, "source", n + 1)'
          /\ \A f \in PayloadFields : Covers(new.run, f, new.payload, n + 1)'
        BY <1>4, <2>3, <2>4, <2>5
    <2> QED BY <2>6 DEF CallReads, States, Says, Past, NextUp
<1>11. Since(new.agent, n + 1)' = Own(new.run, n + 1)'
    <2>1. Since(agent, n + 1)' = {n + 1}
        BY <1>1, <1>5, SinceGrows
    <2> QED BY <1>4, <1>9, <2>1
<1>12. serial' => serial /\ OnlyOne(p, event.agent)
    BY <1>2, <1>5 DEF OnlyOne
<1>13. \A q \in Runners \ {p} : Busy(q) => op[q].run # event.run
    <2>1. \A q \in Runners : Busy(q) => op[q].run \in 1 .. started
        BY <1>1 DEF RunInv, RunsRight, RunRight
    <2> QED BY <1>1, <1>5, <2>1
<1>14. new.agent = event.agent /\ event.step # "submitted"
    BY <1>4, <1>5, <1>7
<1> QED BY <1>1, <1>4, <1>5, <1>10, <1>11, <1>12, <1>13, <1>14, ReadGrows

LEMMA InitReadInv == Init => ReadInv
<1> SUFFICES ASSUME Init PROVE ReadInv
    OBVIOUS
<1>1. DOMAIN log = {} /\ \A p \in Runners : ~Busy(p)
    BY EmptySeq DEF Init, Busy
<1> QED BY <1>1, InitRunInv DEF ReadInv, Alone, CallsRead, CallsTraced, DraftsRead

LEMMA NextReadInv == ReadInv /\ [Next]_vars => ReadInv'
<1> SUFFICES ASSUME ReadInv, [Next]_vars PROVE ReadInv'
    OBVIOUS
<1>1. ASSUME NEW p \in Runners, BeginRun(p)
      PROVE  ReadInv'
    BY <1>1, BeginForm, OpensRead
<1>2. ASSUME NEW p \in Runners, Continue(p)
      PROVE  ReadInv'
    <2> PICK o : o = op[p]
        OBVIOUS
    <2> QED BY <1>2, ContinueForm, MovesRead, WithholdsRead, SubmitRowReads, SubmitEventReads
            DEF ReadInv
<1>3. ASSUME NEW p \in Runners, Die(p)
      PROVE  ReadInv'
    BY <1>3, DieReads
<1>4. CASE UNCHANGED vars
    <2>1. RunInv'
        BY NextRunInv DEF ReadInv
    <2>2. CallsRead'
        BY <1>4 DEF vars, ReadInv, CallsRead, CallReads, Busy, Own, Has, Covers, Fresh, States,
           Says, Past, NextUp
    <2>3. serial' => Alone' /\ CallsTraced'
        BY <1>4 DEF vars, ReadInv, Alone, CallsTraced, Busy, Since, Own, Begins
    <2>4. serial' => DraftsRead'
        BY <1>4 DEF vars, ReadInv, DraftsRead, DraftReads, Trail, Begins, Told, ToldInPart,
           Fresh, States, Says
    <2> QED BY <2>1, <2>2, <2>3, <2>4 DEF ReadInv
<1> QED BY <1>1, <1>2, <1>3, <1>4 DEF Next

LEMMA ReadsBack == ReadInv => DraftsReadBack
BY DEF ReadInv, DraftsRead, DraftReads, DraftsReadBack

(* "A run can be reconstructed": as long as no two runs of one agent       *)
(* overlap, what the log tells since an agent last began a run is what the *)
(* draft it submits says, and nothing that the draft says is told nowhere  *)
(* -- even if earlier runs of the agent broke off and left their events    *)
(* behind.                                                                 *)
THEOREM RunsReadBack == Spec => []DraftsReadBack
<1> QED BY InitReadInv, NextReadInv, ReadsBack, PTL DEF Spec
-----------------------------------------------------------------------------
(* The pages.  A run that nobody is in the middle of gets no more events   *)
(* and no more requests; a click that starts none is run 0.                *)
Over(run) == run \in 0 .. started /\ \A p \in Runners : Busy(p) => op[p].run # run

(* What a step of one run may add.                                         *)
AddsTo(run) ==
    /\ \/ log' = log
       \/ \E event : event.run = run /\ log' = Append(log, event)
    /\ \/ requests' = requests
       \/ \E row \in RequestType : row.run = run /\ requests' = Append(requests, row)
    /\ started' \in Nat /\ started <= started'

LEMMA OthersUntouched ==
    ASSUME RunInv, NEW run, AddsTo(run), NEW r, r # run
    PROVE  EventsOf(r)' = EventsOf(r) /\ RequestsOf(r)' = RequestsOf(r)
<1>1. EventsOf(r)' = EventsOf(r)
    <2>1. CASE log' = log
        BY <2>1 DEF EventsOf
    <2>2. ASSUME NEW event, event.run = run, log' = Append(log, event)
          PROVE  EventsOf(r)' = EventsOf(r)
        <3>1. /\ Len(log) \in Nat /\ DOMAIN log = 1 .. Len(log)
              /\ DOMAIN log' = 1 .. Len(log) + 1 /\ log'[Len(log) + 1] = event
              /\ \A i \in 1 .. Len(log) : log'[i] = log[i]
            BY <2>2, RowsAppend DEF RunInv
        <3>2. {j \in DOMAIN log' : log'[j].run = r} = {j \in DOMAIN log : log[j].run = r}
            <4>1. \A j \in DOMAIN log' : j \in DOMAIN log \/ j = Len(log) + 1
                BY <3>1
            <4> QED BY <2>2, <3>1, <4>1
        <3>3. EventsOf(r)' = [i \in {j \in DOMAIN log' : log'[j].run = r} |-> log'[i]]
            BY DEF EventsOf
        <3>4. EventsOf(r)' = [i \in {j \in DOMAIN log : log[j].run = r} |-> log'[i]]
            BY <3>2, <3>3
        <3>5. \A i \in {j \in DOMAIN log : log[j].run = r} : log'[i] = log[i]
            BY <3>1
        <3> QED BY <3>4, <3>5 DEF EventsOf
    <2> QED BY <2>1, <2>2 DEF AddsTo
<1>2. RequestsOf(r)' = RequestsOf(r)
    <2>1. CASE requests' = requests
        BY <2>1 DEF RequestsOf
    <2>2. ASSUME NEW row \in RequestType, row.run = run, requests' = Append(requests, row)
          PROVE  RequestsOf(r)' = RequestsOf(r)
        <3>1. requests \in Seq(RequestType)
            BY DEF RunInv, TypeOK, RequestType
        <3>2. /\ Len(requests) \in Nat /\ DOMAIN requests = 1 .. Len(requests)
              /\ DOMAIN requests' = 1 .. Len(requests) + 1
              /\ requests'[Len(requests) + 1] = row
              /\ \A i \in 1 .. Len(requests) : requests'[i] = requests[i]
            BY <2>2, <3>1, AppendProperties, LenProperties
        <3>3. \A j \in DOMAIN requests' : j \in DOMAIN requests \/ j = Len(requests) + 1
            BY <3>2
        <3>4. {j \in DOMAIN requests' : requests'[j].run = r}
                 = {j \in DOMAIN requests : requests[j].run = r}
            BY <2>2, <3>2, <3>3
        <3>5. \A i \in {j \in DOMAIN requests : requests[j].run = r} : requests'[i] = requests[i]
            BY <3>2
        <3>6. RequestsOf(r)'
                = {requests'[i].payload : i \in {j \in DOMAIN requests' : requests'[j].run = r}}
            BY DEF RequestsOf
        <3>7. RequestsOf(r)'
                = {requests'[i].payload : i \in {j \in DOMAIN requests : requests[j].run = r}}
            BY <3>4, <3>6
        <3> QED BY <3>5, <3>7 DEF RequestsOf
    <2> QED BY <2>1, <2>2 DEF AddsTo
<1> QED BY <1>1, <1>2

(* Nobody asked for anything yet on behalf of a run without a request.     *)
LEMMA NoRequests ==
    ASSUME NEW r, ~Submitted(r)
    PROVE  RequestsOf(r) = {}
BY DEF Submitted, RequestsOf

LEMMA RunZero ==
    ASSUME RunInv
    PROVE  Over(0) /\ RequestsOf(0) = {}
<1>1. started \in Nat
    BY DEF RunInv, TypeOK
<1>2. \A p \in Runners : Busy(p) => op[p].run # 0
    BY <1>1 DEF RunInv, RunsRight, RunRight
<1>3. \A i \in DOMAIN requests : requests[i].run \in 1 .. started
    <2>1. requests \in Seq(RequestType)
        BY DEF RunInv, TypeOK, RequestType
    <2>2. \A i \in DOMAIN requests : requests[i] \in RequestType
        BY <2>1, LenProperties, ElementOfSeq
    <2> QED BY <2>2 DEF RequestType
<1>4. ~Submitted(0)
    BY <1>1, <1>3 DEF Submitted
<1> QED BY <1>1, <1>2, <1>4, NoRequests DEF Over
-----------------------------------------------------------------------------
(* Two agents retrieve once, before they ask, and show what the log says   *)
(* of that.                                                                *)
ShowsExcerpts(agent) == agent \in {"vat_treatment", "technical_accounting"}

Excerpts(run) ==
    UNION {EventsOf(run)[i].body.chunks :
              i \in {j \in DOMAIN EventsOf(run) : EventsOf(run)[j].step = "context"}}

CallShows(o) ==
    /\ ShowsExcerpts(o.agent) => Excerpts(o.run) = o.payload.chunks
    /\ o.todo = << >> => o.payload \in RequestsOf(o.run)

Withholders == {"ap", "expense", "vat_treatment", "technical_accounting", "audit_readiness"}

ReturnRight(s) ==
    /\ Over(s.id) /\ s.agent \in Agents /\ s.withheld \in BOOLEAN
    /\ s.withheld => RequestsOf(s.id) = {} /\ s.agent \in Withholders
    /\ ~s.withheld => /\ s.payload \in RequestsOf(s.id)
                      /\ ShowsExcerpts(s.agent) => Excerpts(s.id) = s.payload.chunks

ResultRight(s) ==
    /\ s.denial <=> RequestsOf(s.run) = {}
    /\ s.request => \E payload \in RequestsOf(s.run) :
                       \A f \in DOMAIN s.states : s.states[f] = payload[f]
    /\ s.events \in {Nothing, EventsOf(s.run)}

ScreenRight(s) ==
    /\ s.kind = "returned" => ReturnRight(s)
    /\ s.kind = "result" => Over(s.run) /\ ResultRight(s)
    /\ s.kind = "message" => Over(s.run) /\ RequestsOf(s.run) = {}

PageInv ==
    /\ RunInv /\ DOMAIN screen = Runners
    /\ \A p \in Runners : Busy(p) => CallShows(op[p])
    /\ \A t \in Runners : ScreenRight(screen[t])

LEMMA ExcerptsFollow ==
    ASSUME NEW r, EventsOf(r)' = EventsOf(r)
    PROVE  Excerpts(r)' = Excerpts(r)
BY DEF Excerpts

(* A step of one run leaves what the others and the screens show.          *)
LEMMA ScreensKept ==
    ASSUME RunInv, NEW p \in Runners, NEW run, AddsTo(run),
           run \notin 0 .. started \/ (Busy(p) /\ op[p].run = run),
           \A q \in Runners \ {p} : op'[q] = op[q],
           Busy(p)' => op'[p].run = run
    PROVE  /\ \A r : Over(r) => Over(r)' /\ r # run
           /\ \A s : ScreenRight(s) => ScreenRight(s)'
           /\ \A q \in Runners \ {p} : Busy(q)' /\ CallShows(op[q]) => CallShows(op[q])'
<1>1. \A r : Over(r) => Over(r)' /\ r # run
    <2>1. started \in Nat /\ started' \in Nat /\ started <= started'
        BY DEF RunInv, TypeOK, AddsTo
    <2> SUFFICES ASSUME NEW r, Over(r) PROVE Over(r)' /\ r # run
        OBVIOUS
    <2>2. r \in 0 .. started /\ r \in 0 .. started'
        BY <2>1 DEF Over
    <2>3. r # run
        BY <2>2 DEF Over
    <2>4. \A q \in Runners : Busy(q)' => op'[q].run # r
        BY <2>3 DEF Over, Busy
    <2> QED BY <2>2, <2>3, <2>4 DEF Over
<1>2. \A r : r # run => /\ EventsOf(r)' = EventsOf(r) /\ RequestsOf(r)' = RequestsOf(r)
                        /\ Excerpts(r)' = Excerpts(r)
    BY OthersUntouched, ExcerptsFollow
<1>3. ASSUME NEW s, ScreenRight(s)
      PROVE  ScreenRight(s)'
    <2>1. CASE s.kind = "returned"
        <3>1. ReturnRight(s)
            BY <1>3, <2>1 DEF ScreenRight
        <3>2. ReturnRight(s)'
            <4>1. Over(s.id)' /\ s.id # run
                BY <1>1, <3>1 DEF ReturnRight
            <4> QED BY <1>2, <3>1, <4>1 DEF ReturnRight
        <3> QED BY <2>1, <3>2 DEF ScreenRight
    <2>2. CASE s.kind = "result"
        <3>1. Over(s.run) /\ ResultRight(s)
            BY <1>3, <2>2 DEF ScreenRight
        <3>2. Over(s.run)' /\ s.run # run
            BY <1>1, <3>1
        <3>3. ResultRight(s)'
            BY <1>2, <3>1, <3>2 DEF ResultRight, Nothing
        <3> QED BY <2>2, <3>2, <3>3 DEF ScreenRight
    <2>3. CASE s.kind = "message"
        <3>1. Over(s.run) /\ RequestsOf(s.run) = {}
            BY <1>3, <2>3 DEF ScreenRight
        <3>2. Over(s.run)' /\ s.run # run
            BY <1>1, <3>1
        <3> QED BY <1>2, <2>3, <3>1, <3>2 DEF ScreenRight
    <2>4. CASE s.kind \notin {"returned", "result", "message"}
        BY <2>4 DEF ScreenRight
    <2> QED BY <2>1, <2>2, <2>3, <2>4
<1>4. ASSUME NEW q \in Runners \ {p}, Busy(q)', CallShows(op[q])
      PROVE  CallShows(op[q])'
    <2> PICK o : o = op[q]
        OBVIOUS
    <2>1. op'[q] = o /\ Busy(q) /\ o.run # run
        BY <1>4 DEF Busy, RunInv, RunsRight, RunRight, TypeOK
    <2>2. CallShows(o)'
        BY <1>2, <1>4, <2>1 DEF CallShows
    <2> QED BY <2>1, <2>2
<1> QED BY <1>1, <1>3, <1>4
-----------------------------------------------------------------------------
(* What a step of a run does to its own call and excerpts.                 *)
LEMMA ExcerptsForm ==
    /\ \A r : Excerpts(r) = UNION {log[i].body.chunks :
                  i \in {j \in DOMAIN log : log[j].run = r /\ log[j].step = "context"}}
    /\ \A r : Excerpts(r)' = UNION {log'[i].body.chunks :
                  i \in {j \in DOMAIN log' : log'[j].run = r /\ log'[j].step = "context"}}
<1> DEFINE Contexts(s, r) == {j \in DOMAIN s : s[j].run = r /\ s[j].step = "context"}
           Of(s, r) == [i \in {j \in DOMAIN s : s[j].run = r} |-> s[i]]
<1>1. ASSUME NEW s, NEW r
      PROVE  UNION {Of(s, r)[i].body.chunks :
                       i \in {j \in DOMAIN Of(s, r) : Of(s, r)[j].step = "context"}}
                = UNION {s[i].body.chunks : i \in Contexts(s, r)}
    <2>1. {j \in DOMAIN Of(s, r) : Of(s, r)[j].step = "context"} = Contexts(s, r)
        OBVIOUS
    <2>2. \A i \in Contexts(s, r) : Of(s, r)[i] = s[i]
        OBVIOUS
    <2> HIDE DEF Of, Contexts
    <2>3. {Of(s, r)[i].body.chunks : i \in Contexts(s, r)} = {s[i].body.chunks : i \in Contexts(s, r)}
        BY <2>2
    <2> QED BY <2>1, <2>3
<1>3. \A r : Excerpts(r) = UNION {Of(log, r)[i].body.chunks :
                 i \in {j \in DOMAIN Of(log, r) : Of(log, r)[j].step = "context"}}
    BY DEF Excerpts, EventsOf
<1>4. \A r : Excerpts(r)' = UNION {Of(log', r)[i].body.chunks :
                 i \in {j \in DOMAIN Of(log', r) : Of(log', r)[j].step = "context"}}
    BY DEF Excerpts, EventsOf
<1> HIDE DEF Of, Contexts
<1>5. \A r : Excerpts(r) = UNION {log[i].body.chunks : i \in Contexts(log, r)}
    BY <1>1, <1>3
<1>6. \A r : Excerpts(r)' = UNION {log'[i].body.chunks : i \in Contexts(log', r)}
    BY <1>1, <1>4
<1> QED BY <1>5, <1>6 DEF Contexts

LEMMA NoExcerpts ==
    ASSUME RunInv, NEW agent, NEW run, NEW step, NEW body, LogStep(agent, run, step, body),
           step # "context", NEW r
    PROVE  Excerpts(r)' = Excerpts(r)
<1> DEFINE event == [agent |-> agent, run |-> run, step |-> step, body |-> body]
           Contexts == {j \in DOMAIN log : log[j].run = r /\ log[j].step = "context"}
<1>1. GrowsBy(Len(log), event) /\ event.step = step
    BY LogStepGrows
<1> HIDE DEF event
<1>2. \A j \in DOMAIN log' : (j \in DOMAIN log /\ log'[j] = log[j]) \/ log'[j] = event
    BY <1>1 DEF GrowsBy
<1>3. \A j \in DOMAIN log : j \in DOMAIN log' /\ log'[j] = log[j]
    BY <1>1 DEF GrowsBy
<1>4. {j \in DOMAIN log' : log'[j].run = r /\ log'[j].step = "context"} = Contexts
    BY <1>1, <1>2, <1>3
<1>5. \A j \in Contexts : log'[j] = log[j]
    BY <1>3
<1>6. Excerpts(r) = UNION {log[i].body.chunks : i \in Contexts}
    BY ExcerptsForm
<1>7. Excerpts(r)' = UNION {log'[i].body.chunks : i \in
            {j \in DOMAIN log' : log'[j].run = r /\ log'[j].step = "context"}}
    BY ExcerptsForm
<1> HIDE DEF Contexts
<1>8. {log'[i].body.chunks : i \in Contexts} = {log[i].body.chunks : i \in Contexts}
    BY <1>5
<1> QED BY <1>4, <1>6, <1>7, <1>8

(* The agents with a step that may withhold or that shows excerpts.        *)
LEMMA StepsAhead ==
    ASSUME NEW agent \in Agents, NEW todo \in Seq(Steps), todo # << >>, RestOf(agent, todo)
    PROVE  /\ ShowsExcerpts(agent) => Head(todo) \in {"answered", "submitted"}
           /\ Head(todo) \in {"extracted", "answered"} => agent \in Withholders
<1>1. PICK k \in 1 .. Len(Runs[agent]) :
         /\ Len(todo) = Len(Runs[agent]) - k
         /\ \A i \in 1 .. Len(todo) : todo[i] = Runs[agent][k + i]
    BY DEF RestOf
<1>2. Len(Runs[agent]) \in Nat /\ Len(todo) \in Nat /\ Len(todo) # 0 /\ Head(todo) = todo[1]
    BY RunsTyped, LenProperties, EmptySeq
<1>3. Head(todo) = Runs[agent][k + 1] /\ k + 1 \in 2 .. Len(Runs[agent])
    BY <1>1, <1>2
<1>4. ASSUME ShowsExcerpts(agent)
      PROVE  \A i \in 2 .. Len(Runs[agent]) : Runs[agent][i] \in {"answered", "submitted"}
    <2>1. Runs[agent] = determine_vat_treatment
        BY <1>4 DEF ShowsExcerpts, Runs, determine_vat_treatment, answer_question
    <2> QED BY <2>1 DEF determine_vat_treatment
<1>5. CASE agent \in {"close", "ar_collections", "controls_sox", "fpa", "tax_compliance"}
    <2>1. Runs[agent] = run_close_variance_analysis
        BY <1>5 DEF Runs, run_close_variance_analysis, run_ar_collections_analysis,
           run_journal_entry_control_test, run_driver_based_forecast, run_vat_provision
    <2>2. \A i \in 1 .. Len(Runs[agent]) : Runs[agent][i] \notin {"extracted", "answered"}
        BY <2>1 DEF run_close_variance_analysis
    <2> QED BY <1>3, <1>4, <2>2
<1>6. CASE agent = "regulatory_change"
    <2>1. \A i \in 1 .. Len(Runs[agent]) : Runs[agent][i] \notin {"extracted", "answered"}
        BY <1>6 DEF Runs, run_change_triage
    <2> QED BY <1>3, <1>4, <2>1
<1>7. CASE agent = "reconciliation"
    <2>1. \A i \in 1 .. Len(Runs[agent]) : Runs[agent][i] \notin {"extracted", "answered"}
        BY <1>7 DEF Runs, run_reconciliation
    <2> QED BY <1>3, <1>4, <2>1
<1>8. CASE agent \in Withholders
    BY <1>3, <1>4, <1>8
<1> QED BY <1>5, <1>6, <1>7, <1>8, AgentNames DEF Withholders

LEMMA ExcerptsStay ==
    ASSUME RunInv, NEW p \in Runners, Continue(p), NEW o, o = op[p], ShowsExcerpts(o.agent)
    PROVE  /\ Excerpts(o.run)' = Excerpts(o.run)
           /\ op'[p] # Idle => op'[p].payload.chunks = o.payload.chunks
<1>1. /\ Busy(p) /\ o \in Calls /\ RunRight(o) /\ o.agent \in Agents /\ o.todo \in Seq(Steps)
      /\ op \in [Runners -> Calls \cup {Idle}]
    BY DEF RunInv, TypeOK, RunsRight, Calls, Busy, Continue, Extract, FailExtraction,
       RetrieveControls, Compute, RetrieveContext, NoKnowledgeBase, SkipUnflagged,
       SkipUngrounded, Draft, Answer, Report, SubmitRow, SubmitEvent, AtStep
<1>2. o.todo # << >> => Head(o.todo) \in {"answered", "submitted"}
    BY <1>1, StepsAhead DEF RunRight
<1>3. CASE SubmitEvent(p)
    <2>1. LogStep(o.agent, o.run, "submitted", o.payload) /\ op'[p] = Idle
        BY <1>1, <1>3 DEF SubmitEvent
    <2> QED BY <2>1, NoExcerpts
<1>4. CASE SubmitRow(p)
    <2>1. log' = log /\ op'[p].payload = o.payload
        BY <1>1, <1>4 DEF SubmitRow, Calls
    <2>2. EventsOf(o.run)' = EventsOf(o.run)
        BY <2>1 DEF EventsOf
    <2> QED BY <2>1, <2>2, ExcerptsFollow
<1>5. ASSUME NEW answer \in Answers, Answer(p, answer)
      PROVE  /\ Excerpts(o.run)' = Excerpts(o.run)
             /\ op'[p] # Idle => op'[p].payload.chunks = o.payload.chunks
    <2>1. CASE answer.kind = "refusal"
        <3> PICK body : body = States(o.payload, Given(p))
            OBVIOUS
        <3>1. LogStep(o.agent, o.run, "answer_refused", body) /\ op'[p] = Idle
            BY <1>1, <1>5, <2>1 DEF Answer, Withhold
        <3> QED BY <3>1, NoExcerpts
    <2>2. CASE answer.kind # "refusal"
        <3> PICK draft : draft = DraftFrom(p, answer)
            OBVIOUS
        <3> DEFINE payload == [o.payload EXCEPT !.draft = draft]
        <3> PICK fields : fields = Given(p) \cup {"draft"}
            OBVIOUS
        <3>1. Advance(p, payload, "answered", fields)
            BY <1>5, <2>2 DEF Answer
        <3>2. payload.chunks = o.payload.chunks
            BY <1>1 DEF Calls, Payload
        <3> HIDE DEF payload
        <3>3. LogStep(o.agent, o.run, "answered", States(payload, fields))
            BY <3>1 DEF Advance
        <3>4. op'[p].payload = payload
            BY <1>1, <3>1 DEF Advance, Calls
        <3> PICK body : body = States(payload, fields)
            OBVIOUS
        <3> QED BY <3>2, <3>3, <3>4, NoExcerpts
    <2> QED BY <2>1, <2>2
<1> QED BY <1>2, <1>3, <1>4, <1>5 DEF Continue, Extract, FailExtraction, RetrieveControls,
        Compute, RetrieveContext, NoKnowledgeBase, SkipUnflagged, SkipUngrounded, Draft, Report,
        AtStep, NextStep
-----------------------------------------------------------------------------
(* A run goes on, and its page shows nothing new, or the runner returns.   *)
LEMMA Continues ==
    ASSUME PageInv, NEW p \in Runners, Continue(p), NEW o, o = op[p]
    PROVE  /\ AddsTo(o.run) /\ Busy(p) /\ RunInv'
           /\ op'[p] = Idle \/ op'[p].run = o.run
           /\ \A q \in Runners \ {p} : op'[q] = op[q]
           /\ op'[p] # Idle => CallShows(op[p])'
           /\ op'[p] = Idle => \A s : /\ s.id = o.run /\ s.agent = o.agent
                                      /\ s.payload = o.payload /\ s.withheld = (o.todo # << >>)
                                      => ReturnRight(s)'
<1>1. RunInv /\ RunInv'
    <2>1. Next
        BY DEF Next
    <2> QED BY <2>1, NextRunInv DEF PageInv
<1>2. /\ op \in [Runners -> Calls \cup {Idle}] /\ started \in Nat /\ op[p] = o
      /\ op' \in [Runners -> Calls \cup {Idle}]
    BY <1>1 DEF RunInv, TypeOK
<1>3. /\ Busy(p) /\ o \in Calls /\ RunRight(o) /\ o.agent \in Agents /\ o.todo \in Seq(Steps)
      /\ CallShows(o) /\ UNCHANGED started
    BY <1>1, <1>2 DEF PageInv, RunInv, RunsRight, Calls, Busy, Continue, Extract, FailExtraction,
       RetrieveControls, Compute, RetrieveContext, NoKnowledgeBase, SkipUnflagged,
       SkipUngrounded, Draft, Answer, Report, SubmitRow, SubmitEvent, AtStep, Advance,
       Withhold, PassOver
<1>4. ShowsExcerpts(o.agent) => /\ Excerpts(o.run)' = Excerpts(o.run)
                                /\ op'[p] # Idle => op'[p].payload.chunks = o.payload.chunks
    BY <1>1, ExcerptsStay
<1>5. ASSUME NEW agent, NEW run, NEW step, NEW body, LogStep(agent, run, step, body),
             UNCHANGED <<requests, started>>
      PROVE  AddsTo(run)
    <2>1. [agent |-> agent, run |-> run, step |-> step, body |-> body].run = run
        OBVIOUS
    <2> QED BY <1>2, <1>5, <2>1 DEF LogStep, AddsTo
<1>6. \A r : requests' = requests => RequestsOf(r)' = RequestsOf(r)
    BY DEF RequestsOf
<1>7. ASSUME op'[p] = Idle, \A q \in Runners \ {p} : op'[q] = op[q]
      PROVE  Over(o.run)'
    <2>1. o.run \in 0 .. started' /\ \A q \in Runners \ {p} : Busy(q) => op[q].run # o.run
        BY <1>1, <1>2, <1>3 DEF RunInv, RunsRight, RunRight
    <2> QED BY <1>7, <2>1 DEF Over, Busy
<1>8. ASSUME NEW payload, NEW todo, NEW step, NEW fields, Moves(p, o, payload, todo, step, fields)
      PROVE  /\ AddsTo(o.run) /\ op'[p] # Idle /\ op'[p].run = o.run
             /\ \A q \in Runners \ {p} : op'[q] = op[q]
             /\ CallShows(op[p])'
    <2>1. /\ Steered(p, Carry(o, todo, payload)) /\ UNCHANGED <<requests, started>>
          /\ todo # << >>
        BY <1>8 DEF Moves, GoesOn
    <2>2. op'[p] = Carry(o, todo, payload) /\ \A q \in Runners \ {p} : op'[q] = op[q]
        BY <1>2, <2>1 DEF Steered
    <2>3. op'[p].run = o.run /\ op'[p].agent = o.agent /\ op'[p].todo = todo
        BY <2>2 DEF Carry
    <2>4. op'[p] # Idle
        BY <1>3, <2>3, <1>2 DEF RunRight, Idle
    <2>5. AddsTo(o.run)
        <3>1. CASE log' = log
            BY <1>2, <2>1, <3>1 DEF AddsTo
        <3>2. CASE Writes(o, payload, step, fields)
            BY <1>5, <2>1, <3>2 DEF Writes
        <3> QED BY <1>8, <3>1, <3>2 DEF Moves
    <2>6. CallShows(op[p])'
        <3> PICK n : n = op'[p]
            OBVIOUS
        <3>1. CallShows(n)'
            BY <1>3, <1>4, <2>1, <2>3, <2>4 DEF CallShows
        <3> QED BY <3>1
    <2> QED BY <2>2, <2>3, <2>4, <2>5, <2>6
<1>9. ASSUME NEW step, Withholds(p, o, step)
      PROVE  /\ AddsTo(o.run) /\ op'[p] = Idle
             /\ \A q \in Runners \ {p} : op'[q] = op[q]
             /\ RequestsOf(o.run)' = {} /\ o.todo # << >>
    <2>1. /\ Steered(p, Idle) /\ o.todo # << >> /\ UNCHANGED <<requests, started>>
        BY <1>9 DEF Withholds
    <2> PICK body : LogStep(o.agent, o.run, step, body)
        BY <1>9 DEF Withholds
    <2>2. AddsTo(o.run)
        BY <1>5, <2>1
    <2>3. RequestsOf(o.run)' = {}
        BY <1>3, <1>6, <2>1, NoRequests DEF RunRight
    <2> QED BY <1>2, <2>1, <2>2, <2>3 DEF Steered
<1>10. CASE SubmitRow(p)
    <2> PICK row : row = [agent |-> o.agent, run |-> o.run, payload |-> o.payload]
        OBVIOUS
    <2>1. /\ requests' = Append(requests, row) /\ UNCHANGED <<log, started>>
          /\ row \in RequestType /\ row.run = o.run /\ row.payload = o.payload
        BY <1>3, <1>10 DEF SubmitRow, RequestType, Calls, RunRight
    <2>2. AddsTo(o.run)
        BY <1>2, <2>1 DEF AddsTo
    <2>3. /\ op'[p] = [o EXCEPT !.todo = << >>] /\ \A q \in Runners \ {p} : op'[q] = op[q]
        BY <1>2, <1>10 DEF SubmitRow
    <2>4. op'[p].run = o.run /\ op'[p].agent = o.agent /\ op'[p].payload = o.payload
        BY <1>3, <2>3 DEF Calls
    <2>5. op'[p] # Idle
        BY <1>2, <1>3, <2>3 DEF Calls, Idle
    <2>6. o.payload \in RequestsOf(o.run)'
        <3>1. Len(requests) + 1 \in DOMAIN requests' /\ requests'[Len(requests) + 1] = row
            BY <1>1, <2>1, RequestsGrow
        <3> QED BY <2>1, <3>1 DEF RequestsOf
    <2>7. CallShows(op[p])'
        <3> PICK n : n = op'[p]
            OBVIOUS
        <3>1. CallShows(n)'
            BY <1>3, <1>4, <2>4, <2>5, <2>6 DEF CallShows
        <3> QED BY <3>1
    <2> QED BY <1>1, <1>3, <2>2, <2>3, <2>4, <2>5, <2>7
<1>11. CASE SubmitEvent(p)
    <2>1. /\ LogStep(o.agent, o.run, "submitted", o.payload) /\ o.todo = << >>
          /\ UNCHANGED <<requests, started>>
          /\ op'[p] = Idle /\ \A q \in Runners \ {p} : op'[q] = op[q]
        BY <1>2, <1>11 DEF SubmitEvent
    <2>2. AddsTo(o.run)
        <3> PICK body : body = o.payload
            OBVIOUS
        <3> QED BY <1>5, <2>1
    <2>3. o.payload \in RequestsOf(o.run)'
        BY <1>3, <1>6, <2>1 DEF CallShows
    <2>4. ASSUME NEW s, s.id = o.run, s.agent = o.agent, s.payload = o.payload,
                 s.withheld = (o.todo # << >>)
          PROVE  ReturnRight(s)'
        BY <1>3, <1>4, <1>7, <2>1, <2>3, <2>4 DEF ReturnRight, CallShows
    <2> QED BY <1>1, <1>3, <2>1, <2>2, <2>4
<1>12. ASSUME NEW step, Withholds(p, o, step)
       PROVE  o.agent \in Withholders
    <2>1. o.todo # << >> /\ op'[p] = Idle
        BY <1>9, <1>12
    <2>2. ~SubmitEvent(p)
        BY <1>2, <2>1 DEF SubmitEvent
    <2>3. Head(o.todo) \in {"extracted", "answered"}
        <3>1. ASSUME NEW payload, NEW todo, NEW at, NEW fields,
                     Moves(p, o, payload, todo, at, fields)
              PROVE  FALSE
            BY <1>8, <2>1, <3>1
        <3>2. ~(\/ \E transcript \in Sources : Extract(p, transcript)
                \/ RetrieveControls(p) \/ Report(p)
                \/ \E source \in Sources : Compute(p, source)
                \/ \E chunks \in SUBSET Chunks : RetrieveContext(p, chunks)
                \/ NoKnowledgeBase(p) \/ SkipUnflagged(p) \/ SkipUngrounded(p)
                \/ \E chunks \in SUBSET Chunks, answer \in Answers : Draft(p, chunks, answer)
                \/ \E answer \in Answers : Answer(p, answer) /\ answer.kind # "refusal")
            BY <1>1, <3>1, MovesForm
        <3>3. ~SubmitRow(p)
            <4>1. ASSUME SubmitRow(p)
                  PROVE  op'[p] = [o EXCEPT !.todo = << >>]
                BY <1>2, <4>1 DEF SubmitRow
            <4>2. [o EXCEPT !.todo = << >>] # Idle
                BY <1>3 DEF Calls, Idle
            <4> QED BY <2>1, <4>1, <4>2
        <3>4. FailExtraction(p) \/ \E answer \in Answers : Answer(p, answer)
            BY <2>2, <3>2, <3>3 DEF Continue
        <3>5. AtStep(p, "extracted") \/ AtStep(p, "answered")
            BY <3>4 DEF FailExtraction, Answer
        <3> QED BY <1>2, <3>5 DEF AtStep, NextStep
    <2> QED BY <1>3, <2>1, <2>3, StepsAhead DEF RunRight
<1>13. ASSUME NEW step, Withholds(p, o, step), NEW s, s.id = o.run, s.agent = o.agent,
              s.payload = o.payload, s.withheld = (o.todo # << >>)
       PROVE  ReturnRight(s)'
    BY <1>3, <1>7, <1>9, <1>12, <1>13 DEF ReturnRight
<1> QED BY <1>1, <1>3, <1>8, <1>9, <1>10, <1>11, <1>13, ContinueForm
-----------------------------------------------------------------------------
(* A run starts: two agents have their excerpts then, and nobody has a     *)
(* request yet.                                                            *)
LEMMA Starts ==
    ASSUME RunInv, NEW p \in Runners, BeginRun(p)
    PROVE  \E run : /\ run \notin 0 .. started /\ AddsTo(run) /\ RunInv'
                    /\ \A q \in Runners \ {p} : op'[q] = op[q]
                    /\ op'[p] # Idle /\ op'[p].run = run /\ op'[p].agent \in Agents
                    /\ CallShows(op[p])'
<1>1. PICK agent, payload, step, fields : Opens(p, agent, payload, step, fields)
    BY BeginForm
<1> PICK run : run = started + 1
    OBVIOUS
<1> PICK body : body = States(payload, fields)
    OBVIOUS
<1> PICK new : new = [agent |-> agent, run |-> run, todo |-> Tail(Runs[agent]),
                      payload |-> payload]
    OBVIOUS
<1>2. /\ started \in Nat /\ run = started + 1 /\ started' = run /\ requests' = requests
      /\ LogStep(agent, run, step, body) /\ agent \in Agents /\ RunInv'
      /\ step = Head(Runs[agent]) /\ (step = "context" => "chunks" \in fields)
      /\ op' = [op EXCEPT ![p] = new] /\ op \in [Runners -> Calls \cup {Idle}]
    <2>1. /\ Begin(p, agent, payload, step, fields) /\ agent \in Agents
          /\ (step = "context" => "chunks" \in fields)
        BY <1>1 DEF Opens
    <2>2. /\ LogStep(agent, run, step, body) /\ step = Head(Runs[agent])
          /\ op' = [op EXCEPT ![p] = new]
        BY <2>1 DEF Begin
    <2>3. RunInv' /\ started \in Nat /\ started' = run /\ requests' = requests
        BY <1>1, OpensKeep
    <2>4. op \in [Runners -> Calls \cup {Idle}]
        BY DEF RunInv, TypeOK
    <2> QED BY <2>1, <2>2, <2>3, <2>4
<1>3. run \notin 0 .. started /\ run \in Nat /\ started <= run
    BY <1>2
<1>4. op'[p] = new /\ \A q \in Runners \ {p} : op'[q] = op[q]
    BY <1>2
<1>5. new.agent = agent /\ new.run = run /\ new.payload = payload /\ new # Idle
    BY <1>3 DEF Idle
<1> DEFINE event == [agent |-> agent, run |-> run, step |-> step, body |-> body]
<1>6. /\ GrowsBy(Len(log), event) /\ log' = Append(log, event)
      /\ event.run = run /\ event.step = step /\ event.body = body
    BY <1>2, LogStepGrows DEF LogStep
<1> HIDE DEF event
<1>7. AddsTo(run)
    BY <1>2, <1>3, <1>6 DEF AddsTo
<1>8. new.todo # << >>
    <2>1. Runs[agent] \in Seq(Steps) /\ Runs[agent] # << >>
        BY <1>2, RunsTyped
    <2>2. Head(Runs[agent]) # "submitted"
        BY <1>1, <1>2 DEF Opens, QuietSteps
    <2>3. Tail(Runs[agent]) # << >>
        BY <1>2, <2>1, <2>2, TailLeft
    <2> QED BY <2>3
<1>9. ASSUME ShowsExcerpts(agent)
      PROVE  Excerpts(run)' = payload.chunks
    <2>1. step = "context"
        <3>1. Runs[agent] = determine_vat_treatment
            BY <1>9 DEF ShowsExcerpts, Runs, determine_vat_treatment, answer_question
        <3> QED BY <1>2, <3>1 DEF determine_vat_treatment
    <2>2. body.chunks = payload.chunks
        BY <1>2, <2>1 DEF States, Says
    <2>3. \A i \in DOMAIN log : log[i].run # run
        BY <1>3 DEF RunInv, TypeOK
    <2>4. {j \in DOMAIN log' : log'[j].run = run /\ log'[j].step = "context"} = {Len(log) + 1}
        BY <1>6, <2>1, <2>3 DEF GrowsBy
    <2>5. Excerpts(run)' = UNION {log'[i].body.chunks : i \in
                {j \in DOMAIN log' : log'[j].run = run /\ log'[j].step = "context"}}
        BY ExcerptsForm
    <2>6. log'[Len(log) + 1].body.chunks = payload.chunks
        BY <1>6, <2>2 DEF GrowsBy
    <2>7. {log'[i].body.chunks : i \in {Len(log) + 1}} = {payload.chunks}
        BY <2>6
    <2> QED BY <2>4, <2>5, <2>7
<1>10. CallShows(op[p])'
    <2>1. CallShows(new)'
        BY <1>5, <1>8, <1>9 DEF CallShows
    <2> QED BY <1>4, <2>1
<1> QED BY <1>2, <1>3, <1>4, <1>5, <1>7, <1>10

(* A run raises: the exceptions for which there is a message are not those *)
(* of a submission.                                                        *)
LEMMA Raises ==
    ASSUME PageInv, NEW p \in Runners, NEW error, Raise(p, error), NEW o, o = op[p]
    PROVE  /\ RunInv' /\ AddsTo(o.run) /\ Busy(p) /\ op'[p] = Idle
           /\ \A q \in Runners \ {p} : op'[q] = op[q]
           /\ ScreenRight(Outcry(o.agent, error, o.run))'
<1>1. /\ Die(p) /\ RunInv /\ RunInv' /\ RunRight(o) /\ o \in Calls
      /\ UNCHANGED <<log, requests, started>> /\ op \in [Runners -> Calls \cup {Idle}]
      /\ started \in Nat
    BY DieKeeps DEF Raise, PageInv, RunInv, TypeOK
<1>2. Busy(p) /\ op'[p] = Idle /\ \A q \in Runners \ {p} : op'[q] = op[q]
    BY <1>1 DEF Die
<1>3. AddsTo(o.run)
    BY <1>1 DEF AddsTo
<1>4. Over(o.run)'
    <2>1. o.run \in 0 .. started' /\ \A q \in Runners \ {p} : Busy(q) => op[q].run # o.run
        BY <1>1, <1>2 DEF RunInv, RunsRight, RunRight
    <2> QED BY <1>2, <2>1 DEF Over, Busy
<1>5. ASSUME error \in views[o.agent].catches
      PROVE  RequestsOf(o.run)' = {}
    <2>1. error # "other"
        <3>1. o.agent \in Agents
            BY <1>1 DEF Calls
        <3>2. views[o.agent] \in {render_reconciliation, render_vat_treatment,
                 render_ap_invoice, render_close_variance, render_controls_sod,
                 render_ar_collections, render_expense, render_fpa, render_tax_compliance,
                 render_regulatory_change, render_technical_accounting, render_audit_readiness}
            BY <3>1, AgentNames DEF views
        <3>3. /\ "other" \notin render_reconciliation.catches
              /\ "other" \notin render_vat_treatment.catches
              /\ "other" \notin render_ap_invoice.catches
              /\ "other" \notin render_close_variance.catches
              /\ "other" \notin render_controls_sod.catches
              /\ "other" \notin render_ar_collections.catches
            BY DEF render_reconciliation, render_vat_treatment, render_ap_invoice,
               render_close_variance, render_controls_sod, render_ar_collections
        <3>4. /\ "other" \notin render_expense.catches
              /\ "other" \notin render_fpa.catches
              /\ "other" \notin render_tax_compliance.catches
              /\ "other" \notin render_regulatory_change.catches
              /\ "other" \notin render_technical_accounting.catches
              /\ "other" \notin render_audit_readiness.catches
            BY DEF render_expense, render_fpa, render_tax_compliance, render_regulatory_change,
               render_technical_accounting, render_audit_readiness
        <3> PICK view : view = views[o.agent]
            OBVIOUS
        <3>5. "other" \notin view.catches
            BY <3>2, <3>3, <3>4
        <3> QED BY <1>5, <3>5
    <2>2. o.todo # << >>
        <3>1. "submitted" \notin {"extracted", "drafted", "answered", "retrieved", "computed"}
            OBVIOUS
        <3> QED BY <2>1, <3>1 DEF Raise, ErrorsAt
    <2>3. ~Submitted(o.run)
        BY <1>1, <2>2 DEF RunRight
    <2>4. RequestsOf(o.run) = {}
        BY <2>3, NoRequests
    <2> QED BY <1>1, <2>4 DEF RequestsOf
<1>6. ScreenRight(Outcry(o.agent, error, o.run))'
    BY <1>4, <1>5 DEF ScreenRight, Outcry, Message
<1> QED BY <1>1, <1>2, <1>3, <1>6
-----------------------------------------------------------------------------
(* What a page makes of what its runner returned.                          *)
Honest(run, states) ==
    \A f \in DOMAIN states : states[f] = run.payload[f]

LEMMA ResultIs ==
    ASSUME NEW run, NEW states, NEW request, NEW denial, NEW events, ReturnRight(run),
           request \in BOOLEAN, denial \in BOOLEAN, denial <=> run.withheld,
           request => ~run.withheld, request => Honest(run, states),
           events \in {Nothing, EventsOf(run.id)}
    PROVE  ScreenRight(Result(run, states, request, denial, events))
<1> PICK s : s = Result(run, states, request, denial, events)
    OBVIOUS
<1>1. /\ s.kind = "result" /\ s.run = run.id /\ s.states = states /\ s.request = request
      /\ s.denial = denial /\ s.events = events
    BY DEF Result
<1>2. Over(run.id)
    BY DEF ReturnRight
<1>3. denial <=> RequestsOf(run.id) = {}
    BY DEF ReturnRight
<1>4. request => /\ run.payload \in RequestsOf(run.id)
                 /\ \A f \in DOMAIN states : states[f] = run.payload[f]
    BY DEF ReturnRight, Honest
<1>5. ScreenRight(s)
    BY <1>1, <1>2, <1>3, <1>4 DEF ScreenRight, ResultRight
<1> QED BY <1>5

LEMMA StatesHonest ==
    ASSUME NEW run, NEW fields, fields \cap {"heading", "count"} = {}
    PROVE  Honest(run, States(run.payload, fields))
BY DEF Honest, States, Says

LEMMA Reported ==
    ASSUME NEW run, ReturnRight(run), ~run.withheld
    PROVE  ScreenRight(ReportScreen(run))
<1> PICK states : states = States(run.payload, {"findings", DraftOrReason(run.payload)})
    OBVIOUS
<1>1. Honest(run, states)
    BY StatesHonest DEF DraftOrReason
<1>2. ScreenRight(Result(run, states, TRUE, FALSE, EventsOf(run.id)))
    BY <1>1, ResultIs DEF ReturnRight
<1> QED BY <1>2 DEF ReportScreen

LEMMA Denied ==
    ASSUME NEW run, ReturnRight(run), run.withheld
    PROVE  ScreenRight(DenialScreen(run)) /\ ScreenRight(Result(run, Nothing, FALSE, TRUE, Nothing))
<1>1. /\ ScreenRight(Result(run, Nothing, FALSE, TRUE, EventsOf(run.id)))
      /\ ScreenRight(Result(run, Nothing, FALSE, TRUE, Nothing))
    BY ResultIs DEF ReturnRight
<1> QED BY <1>1 DEF DenialScreen

LEMMA Excerpted ==
    ASSUME NEW run, ReturnRight(run), ~run.withheld, ShowsExcerpts(run.agent)
    PROVE  Honest(run, [draft |-> run.payload.draft, chunks |-> ChunksLogged(run)])
<1>1. ChunksLogged(run) = run.payload.chunks
    <2>1. ChunksLogged(run) = Excerpts(run.id)
        BY DEF ChunksLogged, Excerpts
    <2> QED BY <2>1 DEF ReturnRight
<1> QED BY <1>1 DEF Honest

LEMMA ResultsRight ==
    ASSUME NEW run, ReturnRight(run)
    PROVE  ScreenRight(ResultOf(run))
<1>1. run.agent \in Agents /\ run.withheld \in BOOLEAN
      /\ (run.withheld => run.agent \in Withholders)
    BY DEF ReturnRight
<1>2. CASE run.agent = "reconciliation"
    <2>1. ~run.withheld
        BY <1>1, <1>2 DEF Withholders
    <2> PICK states : states = States(run.payload, {"findings"})
        OBVIOUS
    <2>2. ScreenRight(Result(run, states, TRUE, FALSE, EventsOf(run.id)))
        BY <2>1, StatesHonest, ResultIs
    <2>3. ResultOf(run) = reconciliation_result(run)
        BY <1>2 DEF ResultOf
    <2> QED BY <2>2, <2>3 DEF reconciliation_result
<1>3. CASE run.agent = "vat_treatment"
    <2>1. ResultOf(run) = vat_result(run)
        BY <1>3 DEF ResultOf
    <2>2. CASE run.withheld
        BY <2>1, <2>2, Denied DEF vat_result
    <2>3. CASE ~run.withheld
        <3> PICK states : states = [draft |-> run.payload.draft, chunks |-> ChunksLogged(run)]
            OBVIOUS
        <3>1. Honest(run, states)
            BY <1>3, <2>3, Excerpted DEF ShowsExcerpts
        <3>2. ScreenRight(Result(run, states, TRUE, FALSE, Nothing))
            BY <2>3, <3>1, ResultIs
        <3> QED BY <2>1, <2>3, <3>2 DEF vat_result
    <2> QED BY <2>2, <2>3
<1>4. CASE run.agent = "technical_accounting"
    <2>1. ResultOf(run) = technical_accounting_result(run)
        BY <1>4 DEF ResultOf
    <2>2. CASE run.withheld
        BY <2>1, <2>2, Denied DEF technical_accounting_result
    <2>3. CASE ~run.withheld
        <3> PICK states : states = [draft |-> run.payload.draft, chunks |-> ChunksLogged(run)]
            OBVIOUS
        <3>1. Honest(run, states)
            BY <1>4, <2>3, Excerpted DEF ShowsExcerpts
        <3>2. ScreenRight(Result(run, states, TRUE, FALSE, EventsOf(run.id)))
            BY <2>3, <3>1, ResultIs
        <3> QED BY <2>1, <2>3, <3>2 DEF technical_accounting_result
    <2> QED BY <2>2, <2>3
<1>5. CASE run.agent = "audit_readiness"
    <2>1. ResultOf(run) = audit_readiness_result(run)
        BY <1>5 DEF ResultOf
    <2> PICK found : found = States(run.payload, {"findings"})
        OBVIOUS
    <2> PICK both : both = States(run.payload, {"findings", "draft"})
        OBVIOUS
    <2>2. Honest(run, both)
        BY StatesHonest
    <2>3. /\ run.withheld => ScreenRight(Result(run, found, FALSE, TRUE, EventsOf(run.id)))
          /\ ~run.withheld => ScreenRight(Result(run, both, TRUE, FALSE, EventsOf(run.id)))
        BY <2>2, ResultIs
    <2> QED BY <2>1, <2>3 DEF audit_readiness_result
<1>6. CASE run.agent \in {"ap", "expense"}
    <2>1. ResultOf(run) = IF run.withheld THEN DenialScreen(run) ELSE ReportScreen(run)
        BY <1>6 DEF ResultOf, ap_result, expense_result
    <2> QED BY <2>1, Reported, Denied
<1>7. CASE run.agent \in {"close", "controls_sox", "ar_collections", "fpa", "tax_compliance",
                          "regulatory_change"}
    <2>1. ~run.withheld
        BY <1>1, <1>7 DEF Withholders
    <2>2. ResultOf(run) = ReportScreen(run)
        BY <1>7 DEF ResultOf, close_result, controls_result, ar_collections_result, fpa_result,
           tax_compliance_result, regulatory_change_result
    <2> QED BY <2>1, <2>2, Reported
<1> QED BY <1>1, <1>2, <1>3, <1>4, <1>5, <1>6, <1>7, AgentNames
-----------------------------------------------------------------------------
LEMMA PageInitInv == PageInit => PageInv
<1> SUFFICES ASSUME PageInit PROVE PageInv
    OBVIOUS
<1>1. RunInv /\ DOMAIN screen = Runners /\ \A t \in Runners : screen[t] = Form
    BY InitRunInv DEF PageInit
<1>2. \A p \in Runners : ~Busy(p)
    BY DEF PageInit, Init, Busy
<1>3. ScreenRight(Form)
    BY DEF ScreenRight, Form
<1> QED BY <1>1, <1>2, <1>3 DEF PageInv

(* Nothing but screens change, and what they show is right.                *)
LEMMA ScreensChange ==
    ASSUME PageInv, UNCHANGED vars, DOMAIN screen' = Runners,
           \A u \in Runners : screen'[u] = screen[u] \/ ScreenRight(screen'[u])
    PROVE  PageInv'
<1>1. RunInv'
    BY NextRunInv DEF PageInv
<1>3. \A r : EventsOf(r)' = EventsOf(r) /\ RequestsOf(r)' = RequestsOf(r) /\ Over(r)' = Over(r)
    BY DEF EventsOf, RequestsOf, Over, Busy, vars
<1>4. \A r : Excerpts(r)' = Excerpts(r)
    BY <1>3, ExcerptsFollow
<1>5. \A s : ScreenRight(s) => ScreenRight(s)'
    BY <1>3, <1>4 DEF ScreenRight, ReturnRight, ResultRight, Nothing
<1>6. \A u \in Runners : ScreenRight(screen[u])'
    <2> SUFFICES ASSUME NEW u \in Runners PROVE ScreenRight(screen[u])'
        OBVIOUS
    <2> PICK s : s = screen'[u]
        OBVIOUS
    <2>1. ScreenRight(s)
        BY DEF PageInv
    <2>2. ScreenRight(s)'
        BY <1>5, <2>1
    <2> QED BY <2>2
<1>7. \A p \in Runners : Busy(p)' => CallShows(op[p])'
    <2> SUFFICES ASSUME NEW p \in Runners, Busy(p)' PROVE CallShows(op[p])'
        OBVIOUS
    <2> PICK o : o = op[p]
        OBVIOUS
    <2>1. op' = op /\ Busy(p) /\ CallShows(o)
        BY DEF Busy, vars, PageInv
    <2>2. CallShows(o)'
        BY <1>3, <1>4, <2>1 DEF CallShows
    <2> QED BY <2>1, <2>2
<1> QED BY <1>1, <1>6, <1>7 DEF PageInv

LEMMA ShowKeeps ==
    ASSUME PageInv, NEW t \in Runners, NEW what, Show(t, what), UNCHANGED vars, ScreenRight(what)
    PROVE  PageInv'
<1>1. DOMAIN screen' = Runners /\ screen'[t] = what
      /\ \A u \in Runners \ {t} : screen'[u] = screen[u]
    BY DEF Show, PageInv
<1> QED BY <1>1, ScreensChange

(* A step of a run, after which its page shows what is right.              *)
LEMMA RunKeeps ==
    ASSUME PageInv, NEW p \in Runners, NEW run, AddsTo(run), RunInv',
           run \notin 0 .. started \/ (Busy(p) /\ op[p].run = run),
           \A q \in Runners \ {p} : op'[q] = op[q],
           Busy(p)' => op'[p].run = run /\ CallShows(op[p])',
           DOMAIN screen' = Runners, \A u \in Runners \ {p} : screen'[u] = screen[u],
           screen'[p] = screen[p] \/ ScreenRight(screen[p])'
    PROVE  PageInv'
<1>1. /\ \A s : ScreenRight(s) => ScreenRight(s)'
      /\ \A q \in Runners \ {p} : Busy(q)' /\ CallShows(op[q]) => CallShows(op[q])'
    BY ScreensKept DEF PageInv
<1>2. \A u \in Runners : ScreenRight(screen[u])'
    <2> SUFFICES ASSUME NEW u \in Runners PROVE ScreenRight(screen[u])'
        OBVIOUS
    <2>1. CASE screen'[u] = screen[u]
        <3> PICK s : s = screen[u]
            OBVIOUS
        <3>1. ScreenRight(s)'
            BY <1>1 DEF PageInv
        <3> QED BY <2>1, <3>1
    <2>2. CASE u = p /\ ScreenRight(screen[p])'
        BY <2>2
    <2> QED BY <2>1, <2>2
<1>3. \A q \in Runners : Busy(q)' => CallShows(op[q])'
    <2>1. \A q \in Runners \ {p} : Busy(q)' => Busy(q) /\ CallShows(op[q])
        BY DEF Busy, PageInv
    <2> QED BY <1>1, <2>1
<1> QED BY <1>2, <1>3 DEF PageInv

LEMMA ClickKeeps ==
    ASSUME PageInv, NEW t \in Runners, Click(t)
    PROVE  PageInv'
<1>1. PICK run : /\ run \notin 0 .. started /\ AddsTo(run) /\ RunInv'
                 /\ \A q \in Runners \ {t} : op'[q] = op[q]
                 /\ op'[t] # Idle /\ op'[t].run = run
                 /\ CallShows(op[t])'
    BY Starts DEF Click, PageInv
<1>2. DOMAIN screen' = Runners /\ screen'[t] = Form
      /\ \A u \in Runners \ {t} : screen'[u] = screen[u]
    BY DEF Click, Show, PageInv
<1>3. ScreenRight(screen[t])'
    BY <1>2 DEF ScreenRight, Form
<1> QED BY <1>1, <1>2, <1>3, RunKeeps

LEMMA RaiseKeeps ==
    ASSUME PageInv, NEW t \in Runners, NEW error, Raise(t, error)
    PROVE  PageInv'
<1> PICK o : o = op[t]
    OBVIOUS
<1> PICK outcry : outcry = Outcry(o.agent, error, o.run)
    OBVIOUS
<1>1. /\ RunInv' /\ AddsTo(o.run) /\ Busy(t) /\ op'[t] = Idle
      /\ \A q \in Runners \ {t} : op'[q] = op[q]
      /\ ScreenRight(outcry)'
    BY Raises
<1>2. DOMAIN screen' = Runners /\ screen'[t] = outcry
      /\ \A u \in Runners \ {t} : screen'[u] = screen[u]
    BY DEF Raise, Show, PageInv
<1>3. ScreenRight(screen[t])'
    BY <1>1, <1>2
<1>4. ~Busy(t)'
    BY <1>1 DEF Busy
<1> QED BY <1>1, <1>2, <1>3, <1>4, RunKeeps

LEMMA GoKeeps ==
    ASSUME PageInv, NEW t \in Runners, Go(t)
    PROVE  PageInv'
<1> PICK o : o = op[t]
    OBVIOUS
<1> PICK s : s = [kind |-> "returned", id |-> o.run, agent |-> o.agent,
                  payload |-> o.payload, withheld |-> o.todo # << >>]
    OBVIOUS
<1>1. /\ AddsTo(o.run) /\ Busy(t) /\ RunInv'
      /\ op'[t] = Idle \/ op'[t].run = o.run
      /\ \A q \in Runners \ {t} : op'[q] = op[q]
      /\ op'[t] # Idle => CallShows(op[t])'
      /\ op'[t] = Idle => ReturnRight(s)'
    BY Continues DEF Go
<1>2. DOMAIN screen' = Runners /\ \A u \in Runners \ {t} : screen'[u] = screen[u]
    BY DEF Go, Show, PageInv
<1>3. screen'[t] = screen[t] \/ ScreenRight(screen[t])'
    <2>1. CASE op'[t] = Idle
        <3>1. screen'[t] = s
            BY <2>1 DEF Go, Show, PageInv
        <3>2. ScreenRight(s)'
            BY <1>1, <2>1 DEF ScreenRight
        <3> QED BY <3>1, <3>2
    <2>2. CASE op'[t] # Idle
        BY <2>2 DEF Go
    <2> QED BY <2>1, <2>2
<1>4. Busy(t)' => op'[t].run = o.run /\ CallShows(op[t])'
    BY <1>1 DEF Busy
<1> QED BY <1>1, <1>2, <1>3, <1>4, RunKeeps

(* A message about a call that was no run.                                 *)
LEMMA NoRunMessage ==
    ASSUME RunInv, NEW kind \in {"incomplete", "message", "traceback"}
    PROVE  ScreenRight(Message(kind, 0))
<1>1. Message(kind, 0).kind = kind /\ Message(kind, 0).run = 0
    BY DEF Message
<1> PICK s : s = Message(kind, 0)
    OBVIOUS
<1>2. s.kind = kind /\ s.run = 0
    BY <1>1
<1>3. ScreenRight(s)
    BY <1>2, RunZero DEF ScreenRight
<1> QED BY <1>3

LEMMA PageStep == PageInv /\ [PageNext]_pageVars => PageInv'
<1> SUFFICES ASSUME PageInv, [PageNext]_pageVars PROVE PageInv'
    OBVIOUS
<1>r. RunInv
    BY DEF PageInv
<1>1. CASE UNCHANGED pageVars
    <2>1. UNCHANGED vars /\ screen' = screen
        BY <1>1 DEF pageVars, vars
    <2> QED BY <2>1, ScreensChange DEF PageInv
<1>2. ASSUME NEW t \in Runners, IncompleteClick(t)
      PROVE  PageInv'
    <2>1. ScreenRight(Message("incomplete", 0))
        BY <1>r, NoRunMessage
    <2> PICK what : what = Message("incomplete", 0)
        OBVIOUS
    <2>2. Show(t, what) /\ UNCHANGED vars /\ ScreenRight(what)
        BY <1>2, <2>1 DEF IncompleteClick
    <2> QED BY <2>2, ShowKeeps
<1>3. ASSUME NEW t \in Runners, NEW error, RefusedSource(t, error)
      PROVE  PageInv'
    <2>1. PICK agent : Show(t, Outcry(agent, error, 0)) /\ UNCHANGED vars
        BY <1>3 DEF RefusedSource
    <2> PICK what : what = Outcry(agent, error, 0)
        OBVIOUS
    <2>2. ScreenRight(what)
        BY <1>r, NoRunMessage DEF Outcry
    <2> QED BY <2>1, <2>2, ShowKeeps
<1>4. ASSUME NEW t \in Runners, Render(t)
      PROVE  PageInv'
    <2> PICK s : s = screen[t]
        OBVIOUS
    <2>1. ReturnRight(s)
        BY <1>4 DEF Render, PageInv, ScreenRight
    <2> PICK what : what = ResultOf(s)
        OBVIOUS
    <2>2. ScreenRight(what)
        BY <2>1, ResultsRight
    <2>3. Show(t, what) /\ UNCHANGED vars
        BY <1>4 DEF Render
    <2> QED BY <2>2, <2>3, ShowKeeps
<1>5. ASSUME NEW t \in Runners, Interact(t)
      PROVE  PageInv'
    <2> PICK what : what = Form
        OBVIOUS
    <2>1. ScreenRight(what)
        BY DEF ScreenRight, Form
    <2>2. Show(t, what) /\ UNCHANGED vars
        BY <1>5 DEF Interact
    <2> QED BY <2>1, <2>2, ShowKeeps
<1> QED BY <1>1, <1>2, <1>3, <1>4, <1>5, ClickKeeps, RaiseKeeps, GoKeeps DEF PageNext

(* What a user reads is what a human can act on, on every page, whatever   *)
(* the tabs run, in whatever order, and wherever a run raises.             *)
THEOREM ScreensTrue == PageSpec => []ScreenIsTrue
<1>1. PageInv => ScreenIsTrue
    BY DEF PageInv, ScreenIsTrue, ScreenRight, ResultRight
<1> QED BY <1>1, PageInitInv, PageStep, PTL DEF PageSpec
=============================================================================
