----------------------------- MODULE HITLProofs -----------------------------
(***************************************************************************)
(* Proofs about HITLService for every set of requests, messages, workers,  *)
(* approvers and bodies, and every bound on mishaps and deliveries.        *)
(***************************************************************************)
EXTENDS HITLProperties, TLAPS

\* What the types of a step depend on and TypeOK does not say: a run and a checkpoint
\* carry a request, the actor of a run is in its call of the graph, a worker neither polling
\* nor stopped has a batch, and what it holds was published.
RunWired(a) ==
    run[a].node # "none" =>
        /\ run[a].rid \in Requests
        /\ run[a].vals.request \in Payloads
        /\ a \in Workers => worker[a].pc = "run"
        /\ a \in Approvers => api[a].pc = "running"
CheckpointWired(r) == ckpt[r].next # "none" => ckpt[r].vals.request \in Payloads
BatchWired(w) ==
    /\ worker[w].pc \notin {"poll", "stopped"} => worker[w].batch # <<>>
    /\ \A i \in DOMAIN worker[w].batch : msg[worker[w].batch[i].message].status # "new"
CallWired(a) == api[a].pc # "idle" => api[a].rid \in Requests

Wired ==
    /\ \A a \in Actors : RunWired(a)
    /\ \A r \in Requests : CheckpointWired(r)
    /\ \A w \in Workers : BatchWired(w)
    /\ \A a \in Approvers : CallWired(a)

TypeInv == TypeOK /\ Wired

LEMMA PlanFacts ==
    \A p \in Plans : /\ p # <<>>
                     /\ Head(p) \in Domains
                     /\ Tail(p) \in Plans \cup {<<>>}
  <1>1. SUFFICES ASSUME NEW p \in Plans
                 PROVE  p # <<>> /\ Head(p) \in Domains /\ Tail(p) \in Plans \cup {<<>>}
    OBVIOUS
  <1>2. ASSUME NEW d \in Domains, p = <<d>>
        PROVE  p # <<>> /\ Head(p) = d /\ Tail(p) = <<>>
    BY <1>2
  <1>3. CASE p = <<"ER", "LEGAL">>
    <2>1. p # <<>> /\ Head(p) = "ER" /\ Tail(p) = <<"LEGAL">>
      BY <1>3
    <2>2. "ER" \in Domains /\ <<"LEGAL">> \in Plans
      BY DEF Plans, Domains
    <2>3. QED
      BY <2>1, <2>2
  <1>4. QED
    BY <1>2, <1>3 DEF Plans

LEMMA WithoutType ==
    ASSUME NEW p \in Plans \cup {<<>>}, NEW d \in Domains
    PROVE  Without(p, d) \in Plans \cup {<<>>}
  BY PlanFacts DEF Without

LEMMA RouteType ==
    ASSUME NEW v \in WorkflowState
    PROVE  RouteNext(v) \in Nodes
  <1>1. CASE v.error \/ v.hitl \/ v.pending = <<>>
    BY <1>1 DEF RouteNext, Nodes, WorkflowState
  <1>2. CASE ~v.error /\ ~v.hitl /\ v.pending # <<>>
    <2>1. Head(v.pending) \in Domains
      BY <1>2, PlanFacts DEF WorkflowState
    <2>2. RouteNext(v) = NodeForDomain(Head(v.pending))
      BY <1>2 DEF RouteNext
    <2>3. QED
      BY <2>1, <2>2 DEF NodeForDomain, Nodes, SimpleAgents
  <1>3. QED
    BY <1>1, <1>2

LEMMA NextNodeType ==
    ASSUME NEW n \in Nodes, NEW v \in WorkflowState
    PROVE  NextNode(n, v) \in Nodes \cup {"end"}
  BY RouteType DEF NextNode, ERBranch, Nodes

LEMMA EntryTyped ==
    ASSUME NEW event \in Events, NEW agent \in Domains \cup {"DIRECTOR", "NONE"}
    PROVE  Entry(event, agent) \in AuditEntry
  BY DEF Entry, AuditEntry

\* What every outcome of every node has.
Typed(o) ==
    /\ o.vals \in WorkflowState
    /\ o.vals.request \in Payloads
    /\ o.log \in Seq(AuditEntry)
    /\ o.notify \in BOOLEAN
    /\ o.notify => o.vals.final.agent \in Domains

LEMMA OutcomeTyped ==
    ASSUME NEW v \in WorkflowState, v.request \in Payloads, NEW log \in Seq(AuditEntry),
           NEW notify \in BOOLEAN, notify => v.final.agent \in Domains
    PROVE  Typed(Outcome(v, log, notify))
  BY DEF Outcome, Typed

LEMMA EntryNodeTyped ==
    ASSUME NEW v \in WorkflowState, v.request \in Payloads, NEW o \in EntryNode(v)
    PROVE  Typed(o)
  <1>1. /\ <<Entry("PII_BOUNDARY_VIOLATION", "DIRECTOR")>> \in Seq(AuditEntry)
        /\ <<Entry("WORKFLOW_ROUTED", "DIRECTOR")>> \in Seq(AuditEntry)
    BY EntryTyped DEF Events
  <1>2. CASE v.request \in PIIPayloads
    <2> DEFINE r == [agent |-> "DIRECTOR", tier |-> "MANDATORY"]
               u == [v EXCEPT !.error = TRUE, !.final = r, !.responses = <<r>>,
                              !.pending = <<>>, !.hitl = FALSE]
    <2>1. r \in Response /\ <<r>> \in Seq(Response) /\ <<>> \in Plans \cup {<<>>}
      BY DEF Response, Tiers
    <2>2. ASSUME NEW f \in Response, NEW rs \in Seq(Response), NEW p \in Plans \cup {<<>>}
          PROVE  LET w == [v EXCEPT !.error = TRUE, !.final = f, !.responses = rs,
                                    !.pending = p, !.hitl = FALSE]
                 IN  w \in WorkflowState /\ w.request = v.request
      BY DEF WorkflowState
    <2> HIDE DEF r
    <2>3. u \in WorkflowState /\ u.request = v.request
      BY <2>1, <2>2, Zenon
    <2>4. o = Outcome(u, <<Entry("PII_BOUNDARY_VIOLATION", "DIRECTOR")>>, FALSE)
      BY <1>2, Zenon DEF EntryNode, r
    <2> HIDE DEF u
    <2>5. QED
      BY <1>1, <2>3, <2>4, OutcomeTyped
  <1>3. CASE v.request \notin PIIPayloads
    <2>1. PICK p \in PlansOf[v.request] :
            o = Outcome([v EXCEPT !.pending = p, !.responses = <<>>, !.error = FALSE,
                                  !.hitl = FALSE],
                        <<Entry("WORKFLOW_ROUTED", "DIRECTOR")>>, FALSE)
      BY <1>3 DEF EntryNode
    <2> DEFINE u == [v EXCEPT !.pending = p, !.responses = <<>>, !.error = FALSE,
                              !.hitl = FALSE]
    <2>2. p \in Plans \cup {<<>>} /\ <<>> \in Seq(Response)
      BY PayloadAssumption
    <2>3. ASSUME NEW rs \in Seq(Response)
          PROVE  LET w == [v EXCEPT !.pending = p, !.responses = rs, !.error = FALSE,
                                    !.hitl = FALSE]
                 IN  w \in WorkflowState /\ w.request = v.request
      BY <2>2 DEF WorkflowState
    <2>4. u \in WorkflowState /\ u.request = v.request
      BY <2>2, <2>3, Zenon
    <2>5. o = Outcome(u, <<Entry("WORKFLOW_ROUTED", "DIRECTOR")>>, FALSE)
      BY <2>1
    <2> HIDE DEF u
    <2>6. QED
      BY <1>1, <2>4, <2>5, OutcomeTyped
  <1>4. QED
    BY <1>2, <1>3

LEMMA ERComplianceTyped ==
    ASSUME NEW v \in WorkflowState, v.request \in Payloads, NEW o \in ERComplianceNode(v)
    PROVE  Typed(o)
  <1>1. /\ <<Entry("ER_HARD_STOP", "ER")>> \in Seq(AuditEntry)
        /\ <<Entry("ER_CLEAR", "ER")>> \in Seq(AuditEntry)
    BY EntryTyped DEF Events, Domains
  <1>2. CASE v.request \in Rejected
    BY <1>2 DEF ERComplianceNode
  <1>3. CASE v.request \in HardStops \ Rejected
    <2> DEFINE r == [agent |-> "ER", tier |-> "MANDATORY"]
               u == [v EXCEPT !.responses = Append(@, r), !.final = r, !.pending = <<>>,
                              !.clear = FALSE, !.hitl = TRUE, !.entry = 0]
    <2>1. r \in Response /\ r.agent \in Domains
      BY DEF Response, Tiers, Domains
    <2> HIDE DEF r
    <2>2. Append(v.responses, r) \in Seq(Response) /\ <<>> \in Plans \cup {<<>>}
      BY <2>1 DEF WorkflowState
    <2>3. ASSUME NEW rs \in Seq(Response), NEW p \in Plans \cup {<<>>}
          PROVE  LET w == [v EXCEPT !.responses = rs, !.final = r, !.pending = p,
                                    !.clear = FALSE, !.hitl = TRUE, !.entry = 0]
                 IN  w \in WorkflowState /\ w.request = v.request /\ w.final = r
      BY <2>1 DEF WorkflowState
    <2>4. u \in WorkflowState /\ u.request = v.request /\ u.final = r
      BY <2>2, <2>3, Zenon
    <2>5. o = Outcome(u, <<Entry("ER_HARD_STOP", "ER")>>, TRUE)
      BY <1>3 DEF ERComplianceNode, r
    <2> HIDE DEF u
    <2>6. QED
      BY <1>1, <2>1, <2>4, <2>5, OutcomeTyped
  <1>4. CASE v.request \notin HardStops \cup Rejected
    <2> DEFINE u == [v EXCEPT !.clear = TRUE]
    <2>1. u \in WorkflowState /\ u.request = v.request
      BY DEF WorkflowState
    <2>2. o = Outcome(u, <<Entry("ER_CLEAR", "ER")>>, FALSE)
      BY <1>4 DEF ERComplianceNode
    <2> HIDE DEF u
    <2>3. QED
      BY <1>1, <2>1, <2>2, OutcomeTyped
  <1>5. QED
    BY <1>2, <1>3, <1>4

LEMMA ERReasonTyped ==
    ASSUME NEW v \in WorkflowState, v.request \in Payloads, NEW o \in ERReasonNode(v)
    PROVE  Typed(o)
  <1> DEFINE r == [agent |-> "ER", tier |-> "RECOMMENDED"]
             u == [v EXCEPT !.responses = Append(@, r), !.final = r,
                            !.pending = Without(@, "ER")]
  <1>1. r \in Response
    BY DEF Response, Tiers, Domains
  <1>2. o = Outcome(u, <<>>, FALSE)
    BY DEF ERReasonNode
  <1> HIDE DEF r
  <1>3. Append(v.responses, r) \in Seq(Response) /\ <<>> \in Seq(AuditEntry)
    BY <1>1 DEF WorkflowState
  <1>4. Without(v.pending, "ER") \in Plans \cup {<<>>}
    BY WithoutType DEF WorkflowState, Domains
  <1>5. ASSUME NEW rs \in Seq(Response), NEW p \in Plans \cup {<<>>}
        PROVE  LET w == [v EXCEPT !.responses = rs, !.final = r, !.pending = p]
               IN  w \in WorkflowState /\ w.request = v.request
    BY <1>1 DEF WorkflowState
  <1>6. u \in WorkflowState /\ u.request = v.request
    BY <1>3, <1>4, <1>5, Zenon
  <1> HIDE DEF u
  <1>7. QED
    BY <1>2, <1>3, <1>6, OutcomeTyped

LEMMA AgentTyped ==
    ASSUME NEW v \in WorkflowState, v.request \in Payloads,
           NEW d \in SimpleAgents, NEW o \in AgentNode(d, v)
    PROVE  Typed(o)
  <1>1. d \in Domains
    BY DEF SimpleAgents
  <1>2. PICK t \in TiersOf(d, v.request), own \in ProcessLogs(d) :
           o = Answers(d, v, t, own)
    BY DEF AgentNode
  <1> DEFINE r == [agent |-> d, tier |-> t]
             pn == IF t = "MANDATORY" THEN <<>> ELSE Without(v.pending, d)
             u == [v EXCEPT !.responses = Append(@, r), !.final = r, !.pending = pn,
                            !.hitl = @ \/ t = "MANDATORY"]
             log == <<Entry("REQUEST_RECEIVED", d)>> \o own
                        \o <<Entry("RESPONSE_GENERATED", d)>>
  <1>3. r \in Response /\ r.agent = d
    BY <1>1, <1>2 DEF Response, Tiers, TiersOf
  <1>4. pn \in Plans \cup {<<>>}
    BY <1>1, WithoutType DEF WorkflowState
  <1>5. log \in Seq(AuditEntry)
    <2>1. /\ Entry("REQUEST_RECEIVED", d) \in AuditEntry
          /\ Entry("RESPONSE_GENERATED", d) \in AuditEntry
          /\ Entry("AGENT_RECORD", d) \in AuditEntry
      BY <1>1, EntryTyped DEF Events
    <2>2. own = <<Entry("AGENT_RECORD", d)>> \/ own = <<>>
      BY Zenon DEF ProcessLogs
    <2>3. own \in Seq(AuditEntry)
      <3>1. <<Entry("AGENT_RECORD", d)>> \in Seq(AuditEntry) /\ <<>> \in Seq(AuditEntry)
        BY <2>1
      <3>2. QED
        BY <2>2, <3>1, Zenon
    <2>4. QED
      BY <2>1, <2>3
  <1>6. o = Outcome(u, log, t = "MANDATORY")
    BY <1>2, Zenon DEF Answers
  <1> HIDE DEF r, pn, log
  <1>7. Append(v.responses, r) \in Seq(Response)
    BY <1>3 DEF WorkflowState
  <1>8. (v.hitl \/ t = "MANDATORY") \in BOOLEAN
    BY Zenon
  <1>9. ASSUME NEW rs \in Seq(Response), NEW h \in BOOLEAN
        PROVE  LET w == [v EXCEPT !.responses = rs, !.final = r, !.pending = pn, !.hitl = h]
               IN  w \in WorkflowState /\ w.request = v.request /\ w.final = r
    BY <1>3, <1>4 DEF WorkflowState
  <1>10. u \in WorkflowState /\ u.request = v.request /\ u.final = r
    BY <1>7, <1>8, <1>9, Zenon
  <1> HIDE DEF u
  <1>11. QED
    BY <1>1, <1>3, <1>5, <1>6, <1>10, OutcomeTyped

LEMMA GateTyped ==
    ASSUME NEW v \in WorkflowState, v.request \in Payloads, NEW id \in Nat,
           NEW o \in HITLGateNode(v, id)
    PROVE  Typed(o)
  <1> DEFINE u == [v EXCEPT !.entry = id, !.hitl = TRUE]
  <1>1. u \in WorkflowState /\ u.request = v.request
    BY DEF WorkflowState
  <1>2. <<Entry("HITL_PENDING", v.final.agent)>> \in Seq(AuditEntry)
    BY EntryTyped DEF Events, WorkflowState, Response
  <1>3. o = Outcome(u, <<Entry("HITL_PENDING", v.final.agent)>>, FALSE)
    BY DEF HITLGateNode
  <1> HIDE DEF u
  <1>4. QED
    BY <1>1, <1>2, <1>3, OutcomeTyped

LEMMA NodeTyped ==
    ASSUME NEW n \in Nodes, NEW v \in WorkflowState, v.request \in Payloads,
           NEW id \in Nat, NEW o \in RunNode(n, v, id)
    PROVE  Typed(o)
  <1>1. CASE n = "entry"
    BY <1>1, EntryNodeTyped DEF RunNode
  <1>2. CASE n = "dispatch"
    <2>1. o = Outcome(v, <<>>, FALSE) /\ <<>> \in Seq(AuditEntry)
      BY <1>2 DEF RunNode, DispatchNode
    <2>2. QED
      BY <2>1, OutcomeTyped
  <1>3. CASE n = "er_compliance"
    BY <1>3, ERComplianceTyped DEF RunNode
  <1>4. CASE n = "er_reason"
    BY <1>4, ERReasonTyped DEF RunNode
  <1>5. CASE n = "hitl_gate"
    BY <1>5, GateTyped DEF RunNode
  <1>6. CASE n = "finalize"
    <2>1. /\ o = Outcome(v, <<Entry("WORKFLOW_COMPLETED", "NONE")>>, FALSE)
          /\ <<Entry("WORKFLOW_COMPLETED", "NONE")>> \in Seq(AuditEntry)
      BY <1>6, EntryTyped DEF RunNode, FinalizeNode, Events
    <2>2. QED
      BY <2>1, OutcomeTyped
  <1>7. CASE n \in SimpleAgents
    BY <1>7, AgentTyped DEF RunNode, SimpleAgents, Domains
  <1>8. QED
    BY <1>1, <1>2, <1>3, <1>4, <1>5, <1>6, <1>7 DEF Nodes

LEMMA StampTyped ==
    ASSUME NEW trail \in Seq(AuditEntry), NEW i \in Nat, NEW approver \in Approvers \cup {None}
    PROVE  /\ Stamp(trail, i, approver) \in Seq(AuditEntry)
           /\ Len(Stamp(trail, i, approver)) = Len(trail)
           /\ \A j \in 1..Len(trail) :
                  Stamp(trail, i, approver)[j].event = trail[j].event
  <1>1. CASE i \notin DOMAIN trail
    BY <1>1 DEF Stamp
  <1>2. CASE i \in DOMAIN trail
    <2>1. Stamp(trail, i, approver) = [trail EXCEPT ![i].approver = approver]
      BY <1>2 DEF Stamp
    <2> DEFINE e == [trail[i] EXCEPT !.approver = approver]
    <2>2. trail[i] \in AuditEntry
      BY <1>2
    <2>3. e \in AuditEntry /\ e.event = trail[i].event
      BY <2>2 DEF AuditEntry
    <2>4. Stamp(trail, i, approver) = [trail EXCEPT ![i] = e]
      BY <2>1
    <2> HIDE DEF e
    <2>5. QED
      BY <1>2, <2>3, <2>4
  <1>3. QED
    BY <1>1, <1>2

LEMMA ProvenanceTyped ==
    ASSUME NEW n, NEW v \in WorkflowState
    PROVE  Provenance(n, v) \in Nat /\ v.approval \in Approvers \cup {None}
  BY DEF Provenance, WorkflowState

LEMMA ErrorLogsTyped ==
    ASSUME NEW n \in Nodes, NEW log \in ErrorLogs(n)
    PROVE  log \in Seq(AuditEntry) /\ RejectLog(n) \in Seq(AuditEntry)
  <1>1. CASE n \in SimpleAgents
    <2>1. /\ Entry("REQUEST_RECEIVED", n) \in AuditEntry
          /\ Entry("AGENT_RECORD", n) \in AuditEntry
          /\ Entry("PROCESSING_ERROR", n) \in AuditEntry
      BY <1>1, EntryTyped DEF Events, SimpleAgents
    <2>2. /\ RejectLog(n) = <<Entry("REQUEST_RECEIVED", n), Entry("PROCESSING_ERROR", n)>>
          /\ \/ log = RejectLog(n)
             \/ log = <<Entry("REQUEST_RECEIVED", n), Entry("AGENT_RECORD", n),
                        Entry("PROCESSING_ERROR", n)>>
      BY <1>1, Zenon DEF ErrorLogs, RejectLog
    <2>3. RejectLog(n) \in Seq(AuditEntry)
      BY <2>1, <2>2
    <2>4. <<Entry("REQUEST_RECEIVED", n), Entry("AGENT_RECORD", n),
            Entry("PROCESSING_ERROR", n)>> \in Seq(AuditEntry)
      BY <2>1
    <2>5. QED
      BY <2>2, <2>3, <2>4, Zenon
  <1>2. CASE n \notin SimpleAgents
    <2>1. RejectLog(n) = <<>> /\ log = <<>>
      BY <1>2, Zenon DEF ErrorLogs, RejectLog
    <2>2. QED
      BY <2>1
  <1>3. QED
    BY <1>1, <1>2

----------------------------------------------------------------------------
(* Type correctness.                                                       *)

LEMMA DeliveryTyped ==
    ASSUME NEW b \in Seq(Delivery), NEW i \in DOMAIN b
    PROVE  b[i] \in Delivery /\ b[i].message \in Messages /\ b[i].receipt \in Nat
  <1>1. b[i] \in Delivery
    OBVIOUS
  <1>2. QED
    BY <1>1 DEF Delivery

\* Publication and expiry only write msg, and no message becomes new again.
LEMMA MsgStepTyped ==
    ASSUME TypeInv, UNCHANGED <<worker, api, run, ckpt, audit, notified, posted>>,
           mishaps' \in Nat, NEW m \in Messages, NEW e \in BrokerMessage,
           e.status # "new", msg' = [msg EXCEPT ![m] = e]
    PROVE  TypeInv'
  <1>1. TypeOK'
    BY DEF TypeInv, TypeOK
  <1>2. \A q \in Messages : msg[q].status # "new" => msg'[q].status # "new"
    BY DEF TypeInv, TypeOK
  <1>3. ASSUME NEW w \in Workers PROVE BatchWired(w)'
    <2>1. BatchWired(w) /\ worker[w].batch \in Seq(Delivery) /\ worker' = worker
      BY DEF TypeInv, TypeOK, Wired, WorkerState
    <2>2. \A i \in DOMAIN worker[w].batch : worker[w].batch[i].message \in Messages
      BY <2>1, DeliveryTyped
    <2>3. QED
      BY <1>2, <2>1, <2>2 DEF BatchWired
  <1>4. /\ \A a \in Actors : RunWired(a)'
        /\ \A r \in Requests : CheckpointWired(r)'
        /\ \A a \in Approvers : CallWired(a)'
    BY DEF TypeInv, Wired, RunWired, CheckpointWired, CallWired
  <1>5. QED
    BY <1>1, <1>3, <1>4 DEF TypeInv, Wired

LEMMA InitTyped == Init => TypeInv
  <1>1. EmptyState \in WorkflowState
    BY DEF EmptyState, WorkflowState, NoResponse, Response, Tiers
  <1>2. SUFFICES ASSUME Init PROVE TypeInv
    OBVIOUS
  <1>3. TypeOK
    BY <1>1, <1>2 DEF Init, TypeOK, Statuses, NoRun, NoCheckpoint, BrokerMessage,
                      WorkerState, ApprovalCall, GraphRun, Checkpoint
  <1>4. Wired
    BY <1>2 DEF Init, Wired, NoRun, NoCheckpoint, Actors,
                RunWired, CheckpointWired, BatchWired, CallWired
  <1>5. QED
    BY <1>3, <1>4 DEF TypeInv

LEMMA IngestTyped ==
    ASSUME TypeInv, NEW m \in Messages, Ingest(m)
    PROVE  TypeInv'
  <1>1. PICK body \in BodiesOf[m] \ {None} :
           msg' = [msg EXCEPT ![m].body = body,
                              ![m].status = IF body \in PIIPayloads
                                            THEN "refused" ELSE "visible"]
    BY DEF Ingest
  <1> DEFINE s == IF body \in PIIPayloads THEN "refused" ELSE "visible"
             e == [msg[m] EXCEPT !.body = body, !.status = s]
  <1>2. s \in Statuses /\ s # "new" /\ body \in Payloads \cup {None}
    BY ServiceAssumption DEF Statuses
  <1>3. msg' = [msg EXCEPT ![m] = e]
    BY <1>1 DEF TypeInv, TypeOK
  <1> HIDE DEF s
  <1>4. e \in BrokerMessage /\ e.status # "new"
    BY <1>2 DEF TypeInv, TypeOK, BrokerMessage
  <1>5. /\ UNCHANGED <<worker, api, run, ckpt, audit, notified, posted>>
        /\ mishaps' \in Nat
    BY DEF Ingest, TypeInv, TypeOK
  <1> HIDE DEF e
  <1>6. QED
    BY <1>3, <1>4, <1>5, MsgStepTyped

LEMMA PublishDirectTyped ==
    ASSUME TypeInv, NEW m \in Messages, PublishDirect(m)
    PROVE  TypeInv'
  <1>1. PICK body \in BodiesOf[m] :
           msg' = [msg EXCEPT ![m].body = body, ![m].status = "visible"]
    BY DEF PublishDirect
  <1> DEFINE e == [msg[m] EXCEPT !.body = body, !.status = "visible"]
  <1>2. body \in Payloads \cup {None}
    BY ServiceAssumption
  <1>3. msg' = [msg EXCEPT ![m] = e]
    BY <1>1 DEF TypeInv, TypeOK
  <1>4. e \in BrokerMessage /\ e.status # "new"
    BY <1>2 DEF TypeInv, TypeOK, BrokerMessage, Statuses
  <1>5. /\ UNCHANGED <<worker, api, run, ckpt, audit, notified, posted>>
        /\ mishaps' \in Nat
    BY DEF PublishDirect, TypeInv, TypeOK
  <1> HIDE DEF e
  <1>6. QED
    BY <1>3, <1>4, <1>5, MsgStepTyped

LEMMA ExpireTyped ==
    ASSUME TypeInv, NEW m \in Messages, Expire(m)
    PROVE  TypeInv'
  <1> DEFINE e == [msg[m] EXCEPT !.status = "visible"]
  <1>1. msg' = [msg EXCEPT ![m] = e]
    BY DEF Expire, TypeInv, TypeOK
  <1>2. e \in BrokerMessage /\ e.status # "new"
    BY DEF TypeInv, TypeOK, BrokerMessage, Statuses
  <1>3. /\ UNCHANGED <<worker, api, run, ckpt, audit, notified, posted>>
        /\ mishaps' \in Nat
    BY DEF Expire, Mishap, TypeInv, TypeOK
  <1> HIDE DEF e
  <1>4. QED
    BY <1>1, <1>2, <1>3, MsgStepTyped

LEMMA HandOutTyped ==
    ASSUME TypeInv, NEW S \in SUBSET Messages, HandOut(S)
    PROVE  /\ msg' \in [Messages -> BrokerMessage]
           /\ \A m \in Messages : m \in S \/ msg[m].status # "new" => msg'[m].status # "new"
  <1> DEFINE got(m) == [msg[m] EXCEPT !.status = "inflight", !.deliveries = @ + 1]
  <1>1. ASSUME NEW e \in BrokerMessage
        PROVE  LET g == [e EXCEPT !.status = "inflight", !.deliveries = @ + 1]
               IN  g \in BrokerMessage /\ g.status = "inflight"
    <2>1. ASSUME NEW k \in Nat
          PROVE  LET g == [e EXCEPT !.status = "inflight", !.deliveries = k]
                 IN  g \in BrokerMessage /\ g.status = "inflight"
      BY DEF BrokerMessage, Statuses
    <2>2. e.deliveries + 1 \in Nat
      BY DEF BrokerMessage
    <2>3. QED
      BY <2>1, <2>2, Zenon
  <1>2. ASSUME NEW m \in Messages
        PROVE  got(m) \in BrokerMessage /\ got(m).status = "inflight"
    <2> DEFINE e == msg[m]
    <2>1. e \in BrokerMessage
      BY DEF TypeInv, TypeOK
    <2>2. got(m) = [e EXCEPT !.status = "inflight", !.deliveries = @ + 1]
      OBVIOUS
    <2> HIDE DEF e, got
    <2>3. QED
      BY <1>1, <2>1, <2>2
  <1>3. msg' = [m \in Messages |-> IF m \in S THEN got(m) ELSE msg[m]]
    BY DEF HandOut
  <1> HIDE DEF got
  <1>4. QED
    BY <1>2, <1>3 DEF TypeInv, TypeOK

LEMMA PullTyped ==
    ASSUME TypeInv, NEW w \in Workers, Pull(w)
    PROVE  TypeInv'
  <1>1. PICK n \in 1..BatchSize : \E s \in [1..n -> Messages] :
          /\ HandOut({s[i] : i \in 1..n})
          /\ worker' = [worker EXCEPT ![w] =
               [pc |-> "handle",
                batch |-> [i \in 1..n |-> [message |-> s[i],
                                           receipt |-> msg[s[i]].deliveries + 1]]]]
    BY Zenon DEF Pull
  <1>2. PICK s \in [1..n -> Messages] :
          /\ HandOut({s[i] : i \in 1..n})
          /\ worker' = [worker EXCEPT ![w] =
               [pc |-> "handle",
                batch |-> [i \in 1..n |-> [message |-> s[i],
                                           receipt |-> msg[s[i]].deliveries + 1]]]]
    BY <1>1, Zenon
  <1>3. UNCHANGED <<api, run, ckpt, audit, notified, posted, mishaps>> /\ worker[w].pc = "poll"
    BY DEF Pull
  <1> DEFINE b == [i \in 1..n |-> [message |-> s[i], receipt |-> msg[s[i]].deliveries + 1]]
             st == [pc |-> "handle", batch |-> b]
  <1>4. n \in Nat /\ n > 0
    BY ServiceAssumption
  <1>5. b \in Seq(Delivery) /\ b # <<>> /\ \A i \in DOMAIN b : b[i].message = s[i]
    <2>1. \A i \in 1..n : b[i] \in Delivery
      BY DEF TypeInv, TypeOK, BrokerMessage, Delivery
    <2>2. b \in [1..n -> Delivery] /\ DOMAIN b = 1..n
      BY <2>1
    <2>3. \A i \in DOMAIN b : b[i].message = s[i]
      OBVIOUS
    <2> HIDE DEF b
    <2>4. b \in Seq(Delivery)
      BY <1>4, <2>2
    <2>5. b # <<>>
      BY <1>4, <2>2
    <2>6. QED
      BY <2>3, <2>4, <2>5
  <1>6. /\ msg' \in [Messages -> BrokerMessage]
        /\ \A m \in Messages : msg[m].status # "new" => msg'[m].status # "new"
        /\ \A i \in 1..n : msg'[s[i]].status # "new"
    BY <1>2, HandOutTyped
  <1>8. worker' = [worker EXCEPT ![w] = st]
    BY <1>2
  <1>9. DOMAIN b = 1..n
    OBVIOUS
  <1> HIDE DEF b
  <1>10. st \in WorkerState /\ st.pc = "handle" /\ st.batch = b
    BY <1>5 DEF WorkerState
  <1> HIDE DEF st
  <1>11. TypeOK'
    BY <1>3, <1>6, <1>8, <1>10 DEF TypeInv, TypeOK
  <1>13. ASSUME NEW x \in Workers PROVE BatchWired(x)'
    <2>1. CASE x = w
      <3>1. worker'[x] = st
        BY <1>8, <2>1 DEF TypeInv, TypeOK
      <3>2. \A i \in DOMAIN b : msg'[b[i].message].status # "new"
        BY <1>5, <1>6, <1>9
      <3>3. QED
        BY <1>5, <1>10, <3>1, <3>2 DEF BatchWired
    <2>2. CASE x # w
      <3>1. worker'[x] = worker[x] /\ BatchWired(x) /\ worker[x].batch \in Seq(Delivery)
        BY <1>8, <2>2 DEF TypeInv, TypeOK, Wired, WorkerState
      <3>2. \A i \in DOMAIN worker[x].batch : worker[x].batch[i].message \in Messages
        BY <3>1, DeliveryTyped
      <3>3. QED
        BY <1>6, <3>1, <3>2 DEF BatchWired
    <2>3. QED
      BY <2>1, <2>2
  <1>14. ASSUME NEW a \in Actors PROVE RunWired(a)'
    <2>1. RunWired(a) /\ run' = run /\ api' = api
      BY <1>3 DEF TypeInv, Wired
    <2>2. a \in Workers => run[a].node = "none" \/ (a # w /\ worker'[a] = worker[a])
      BY <1>3, <1>8, <2>1 DEF RunWired, TypeInv, TypeOK
    <2>3. QED
      BY <2>1, <2>2 DEF RunWired
  <1>15. /\ \A r \in Requests : CheckpointWired(r)'
         /\ \A a \in Approvers : CallWired(a)'
    BY <1>3 DEF TypeInv, Wired, CheckpointWired, CallWired
  <1>16. QED
    BY <1>11, <1>13, <1>14, <1>15 DEF TypeInv, Wired

\* What a worker turns to after a message was in the batch it pulled.
LEMMA AdvanceTyped ==
    ASSUME TypeInv, NEW w \in Workers, worker[w].pc \notin {"poll", "stopped"}
    PROVE  /\ Advance(w) \in WorkerState
           /\ Advance(w).pc # "poll" => Advance(w).batch # <<>>
           /\ \A i \in DOMAIN Advance(w).batch :
                /\ Advance(w).batch[i].message \in Messages
                /\ msg[Advance(w).batch[i].message].status # "new"
  <1> DEFINE b == worker[w].batch
  <1>1. b \in Seq(Delivery) /\ b # <<>> /\ BatchWired(w)
    BY DEF TypeInv, TypeOK, Wired, BatchWired, WorkerState
  <1>2. \A i \in DOMAIN b : b[i].message \in Messages /\ msg[b[i].message].status # "new"
    BY <1>1, DeliveryTyped DEF BatchWired
  <1> HIDE DEF b
  <1>3. Advance(w) = [pc |-> IF Tail(b) = <<>> THEN "poll" ELSE "handle", batch |-> Tail(b)]
    BY DEF Advance, b
  <1>4. /\ Tail(b) \in Seq(Delivery)
        /\ \A i \in DOMAIN Tail(b) : i + 1 \in DOMAIN b /\ Tail(b)[i] = b[i + 1]
    BY <1>1
  <1>5. Advance(w) \in WorkerState
    BY <1>3, <1>4 DEF WorkerState
  <1>6. Advance(w).batch = Tail(b) /\ (Advance(w).pc # "poll" => Advance(w).batch # <<>>)
    BY <1>3
  <1>7. QED
    BY <1>2, <1>4, <1>5, <1>6

LEMMA CurrentTyped ==
    ASSUME TypeInv, NEW w \in Workers, worker[w].pc \notin {"poll", "stopped"}
    PROVE  /\ Current(w) \in Delivery
           /\ Current(w).message \in Messages
           /\ msg[Current(w).message].status # "new"
  <1>1. worker[w].batch \in Seq(Delivery) /\ worker[w].batch # <<>> /\ BatchWired(w)
    BY DEF TypeInv, TypeOK, Wired, BatchWired, WorkerState
  <1>2. 1 \in DOMAIN worker[w].batch
    BY <1>1
  <1>3. QED
    BY <1>1, <1>2, DeliveryTyped DEF Current, BatchWired

LEMMA AckTyped ==
    ASSUME TypeInv, NEW w \in Workers, Ack(w)
    PROVE  TypeInv'
  <1>1. /\ worker[w].pc = "ack"
        /\ worker' = [worker EXCEPT ![w] = Advance(w)]
        /\ UNCHANGED <<api, run, ckpt, audit, notified, posted, mishaps>>
    BY DEF Ack
  <1>2. PICK m \in Messages : msg' \in {msg, [msg EXCEPT ![m].status = "deleted"]}
    BY <1>1, CurrentTyped DEF Ack
  <1>3. /\ msg' \in [Messages -> BrokerMessage]
        /\ \A q \in Messages : msg[q].status # "new" => msg'[q].status # "new"
    <2> DEFINE e == [msg[m] EXCEPT !.status = "deleted"]
    <2>1. e \in BrokerMessage /\ e.status # "new"
      BY DEF TypeInv, TypeOK, BrokerMessage, Statuses
    <2>2. msg' = msg \/ msg' = [msg EXCEPT ![m] = e]
      BY <1>2
    <2> HIDE DEF e
    <2>3. QED
      BY <2>1, <2>2 DEF TypeInv, TypeOK
  <1>4. TypeOK'
    BY <1>1, <1>3, AdvanceTyped DEF TypeInv, TypeOK
  <1>5. ASSUME NEW x \in Workers PROVE BatchWired(x)'
    <2>1. CASE x = w
      <3>1. worker'[x] = Advance(w)
        BY <1>1, <2>1 DEF TypeInv, TypeOK
      <3>2. QED
        BY <1>1, <1>3, <3>1, AdvanceTyped DEF BatchWired
    <2>2. CASE x # w
      <3>1. /\ BatchWired(x) /\ worker[x].batch \in Seq(Delivery) /\ worker'[x] = worker[x]
            /\ \A i \in DOMAIN worker[x].batch : worker[x].batch[i].message \in Messages
        BY <1>1, <2>2, DeliveryTyped DEF TypeInv, TypeOK, Wired, WorkerState
      <3>2. QED
        BY <1>3, <3>1 DEF BatchWired
    <2>3. QED
      BY <2>1, <2>2
  <1>6. ASSUME NEW a \in Actors PROVE RunWired(a)'
    <2>1. RunWired(a) /\ run' = run /\ api' = api
      BY <1>1 DEF TypeInv, Wired
    <2>2. a \in Workers => run[a].node = "none" \/ (a # w /\ worker'[a] = worker[a])
      BY <1>1, <2>1 DEF RunWired, TypeInv, TypeOK
    <2>3. QED
      BY <2>1, <2>2 DEF RunWired
  <1>7. /\ \A r \in Requests : CheckpointWired(r)'
        /\ \A a \in Approvers : CallWired(a)'
    BY <1>1 DEF TypeInv, Wired, CheckpointWired, CallWired
  <1>8. QED
    BY <1>4, <1>5, <1>6, <1>7 DEF TypeInv, Wired

\* The queue raises; whatever it did to msg, no message became new again.
LEMMA StopTyped ==
    ASSUME TypeInv, NEW w \in Workers, worker[w].pc # "run", Stop(w),
           msg' \in [Messages -> BrokerMessage],
           \A q \in Messages : msg[q].status # "new" => msg'[q].status # "new"
    PROVE  TypeInv'
  <1> DEFINE st == [pc |-> "stopped", batch |-> <<>>]
  <1>1. /\ worker' = [worker EXCEPT ![w] = st] /\ mishaps' \in Nat
        /\ UNCHANGED <<api, run, ckpt, audit, notified, posted>>
    BY DEF Stop, Mishap, TypeInv, TypeOK
  <1>2. st \in WorkerState /\ st.pc = "stopped" /\ st.batch = <<>>
    BY DEF WorkerState
  <1> HIDE DEF st
  <1>3. TypeOK'
    BY <1>1, <1>2 DEF TypeInv, TypeOK
  <1>4. ASSUME NEW x \in Workers PROVE BatchWired(x)'
    <2>1. CASE x = w
      <3>1. worker'[x] = st
        BY <1>1, <2>1 DEF TypeInv, TypeOK
      <3>2. QED
        BY <1>2, <3>1 DEF BatchWired
    <2>2. CASE x # w
      <3>1. /\ BatchWired(x) /\ worker[x].batch \in Seq(Delivery) /\ worker'[x] = worker[x]
            /\ \A i \in DOMAIN worker[x].batch : worker[x].batch[i].message \in Messages
        BY <1>1, <2>2, DeliveryTyped DEF TypeInv, TypeOK, Wired, WorkerState
      <3>2. QED
        BY <3>1 DEF BatchWired
    <2>3. QED
      BY <2>1, <2>2
  <1>5. ASSUME NEW a \in Actors PROVE RunWired(a)'
    <2>1. RunWired(a) /\ run' = run /\ api' = api
      BY <1>1 DEF TypeInv, Wired
    <2>2. a \in Workers => run[a].node = "none" \/ (a # w /\ worker'[a] = worker[a])
      BY <1>1, <2>1 DEF RunWired, TypeInv, TypeOK
    <2>3. QED
      BY <2>1, <2>2 DEF RunWired
  <1>6. /\ \A r \in Requests : CheckpointWired(r)'
        /\ \A a \in Approvers : CallWired(a)'
    BY <1>1 DEF TypeInv, Wired, CheckpointWired, CallWired
  <1>7. QED
    BY <1>3, <1>4, <1>5, <1>6 DEF TypeInv, Wired

LEMMA PullRaisesTyped ==
    ASSUME TypeInv, NEW w \in Workers, PullRaises(w)
    PROVE  TypeInv'
  <1>1. PICK S \in SUBSET Messages : HandOut(S)
    BY DEF PullRaises
  <1>2. worker[w].pc = "poll" /\ Stop(w)
    BY DEF PullRaises
  <1>3. QED
    BY <1>1, <1>2, HandOutTyped, StopTyped

LEMMA AckRaisesTyped ==
    ASSUME TypeInv, NEW w \in Workers, AckRaises(w)
    PROVE  TypeInv'
  <1>1. worker[w].pc = "ack" /\ Stop(w)
    BY DEF AckRaises
  <1>2. PICK m \in Messages : msg' \in {msg, [msg EXCEPT ![m].status = "deleted"]}
    BY <1>1, CurrentTyped DEF AckRaises
  <1> DEFINE e == [msg[m] EXCEPT !.status = "deleted"]
  <1>3. e \in BrokerMessage /\ e.status # "new"
    BY DEF TypeInv, TypeOK, BrokerMessage, Statuses
  <1>4. msg' = msg \/ msg' = [msg EXCEPT ![m] = e]
    BY <1>2
  <1> HIDE DEF e
  <1>5. /\ msg' \in [Messages -> BrokerMessage]
        /\ \A q \in Messages : msg[q].status # "new" => msg'[q].status # "new"
    BY <1>3, <1>4 DEF TypeInv, TypeOK
  <1>6. QED
    BY <1>1, <1>5, StopTyped

LEMMA ProcessTyped ==
    ASSUME TypeInv, NEW w \in Workers, Process(w)
    PROVE  TypeInv'
  <1> DEFINE m == Current(w).message
             r == RidOf[m]
             v == [ckpt[r].vals EXCEPT !.request = msg[m].body]
  <1>1. worker[w].pc = "handle" /\ UNCHANGED <<msg, api, audit, notified, posted, mishaps>>
    BY DEF Process
  <1>2. m \in Messages /\ r \in Requests
    BY <1>1, CurrentTyped, ServiceAssumption
  <1>3. run[w].node = "none" /\ w \in Actors
    BY <1>1 DEF TypeInv, Wired, RunWired, Actors
  <1>4. ASSUME NEW pc \in {"ack", "run"}, worker' = [worker EXCEPT ![w].pc = pc]
        PROVE  /\ worker' \in [Workers -> WorkerState]
               /\ worker'[w].pc = pc
               /\ \A x \in Workers : BatchWired(x)'
               /\ \A x \in Workers \ {w} : worker'[x] = worker[x]
    <2> DEFINE st == [worker[w] EXCEPT !.pc = pc]
    <2>1. worker' = [worker EXCEPT ![w] = st]
      BY <1>4 DEF TypeInv, TypeOK
    <2>2. st \in WorkerState /\ st.pc = pc /\ st.batch = worker[w].batch
      BY DEF TypeInv, TypeOK, WorkerState
    <2> HIDE DEF st
    <2>3. ASSUME NEW x \in Workers PROVE BatchWired(x)'
      <3>1. /\ BatchWired(x) /\ worker'[x].batch = worker[x].batch
            /\ worker[x].pc \in {"poll", "stopped"} => worker'[x].pc = worker[x].pc
        BY <1>1, <2>1, <2>2 DEF TypeInv, TypeOK, Wired
      <3>2. msg' = msg
        BY <1>1
      <3>3. QED
        BY <3>1, <3>2, Zenon DEF BatchWired
    <2>4. QED
      BY <2>1, <2>2, <2>3 DEF TypeInv, TypeOK
  <1>5. CASE msg[m].body = None
    <2>1. worker' = [worker EXCEPT ![w].pc = "ack"] /\ UNCHANGED <<run, ckpt>>
      BY <1>5 DEF Process
    <2>2. TypeOK'
      BY <1>1, <1>4, <2>1 DEF TypeInv, TypeOK
    <2>3. ASSUME NEW a \in Actors PROVE RunWired(a)'
      BY <1>1, <1>3, <1>4, <2>1 DEF TypeInv, Wired, RunWired
    <2>4. QED
      BY <1>1, <1>4, <2>1, <2>2, <2>3 DEF TypeInv, Wired, CheckpointWired, CallWired
  <1>6. CASE msg[m].body # None
    <2> DEFINE g == [rid |-> r, node |-> "entry", vals |-> v]
               c == [next |-> "entry", vals |-> v]
    <2>1. /\ worker' = [worker EXCEPT ![w].pc = "run"]
          /\ run' = [run EXCEPT ![w] = g]
          /\ ckpt' = [ckpt EXCEPT ![r] = c]
      BY <1>6 DEF Process
    <2>2. v \in WorkflowState /\ v.request \in Payloads
      <3>1. msg[m].body \in Payloads /\ ckpt[r].vals \in WorkflowState
        BY <1>2, <1>6 DEF TypeInv, TypeOK, BrokerMessage, Checkpoint
      <3>2. ASSUME NEW u \in WorkflowState, NEW p \in Payloads
            PROVE  LET x == [u EXCEPT !.request = p]
                   IN  x \in WorkflowState /\ x.request = p
        BY DEF WorkflowState
      <3> DEFINE u == ckpt[r].vals
                 p == msg[m].body
      <3>3. u \in WorkflowState /\ p \in Payloads
        BY <3>1
      <3>4. v = [u EXCEPT !.request = p]
        OBVIOUS
      <3> HIDE DEF u, p, v
      <3>5. QED
        BY <3>2, <3>3, <3>4
    <2> HIDE DEF v
    <2>3. /\ g \in GraphRun /\ g.rid = r /\ g.vals.request \in Payloads
          /\ c \in Checkpoint /\ c.vals.request \in Payloads
      BY <1>2, <2>2 DEF GraphRun, Checkpoint, Nodes
    <2> HIDE DEF g, c, r, m
    <2>4. TypeOK'
      BY <1>1, <1>4, <2>1, <2>3 DEF TypeInv, TypeOK
    <2>5. ASSUME NEW a \in Actors PROVE RunWired(a)'
      <3>1. CASE a = w
        <4>1. run'[a] = g /\ worker'[a].pc = "run" /\ a \notin Approvers
          BY <1>3, <1>4, <2>1, <3>1, ServiceAssumption DEF TypeInv, TypeOK
        <4>2. QED
          BY <1>2, <2>3, <4>1 DEF RunWired
      <3>2. CASE a # w
        <4>1. /\ RunWired(a) /\ run'[a] = run[a] /\ api' = api
              /\ a \in Workers => worker'[a] = worker[a]
          BY <1>1, <1>4, <2>1, <3>2 DEF TypeInv, TypeOK, Wired
        <4>2. QED
          BY <4>1 DEF RunWired
      <3>3. QED
        BY <3>1, <3>2
    <2>6. ASSUME NEW q \in Requests PROVE CheckpointWired(q)'
      BY <2>1, <2>3 DEF TypeInv, TypeOK, Wired, CheckpointWired
    <2>7. QED
      BY <1>1, <1>4, <2>1, <2>4, <2>5, <2>6 DEF TypeInv, Wired, CallWired
  <1>7. QED
    BY <1>5, <1>6

\* The part of TypeInv about the actors, without the checkpoints and the logs.
ActorsTyped ==
    /\ worker \in [Workers -> WorkerState]
    /\ api \in [Approvers -> ApprovalCall]
    /\ run \in [Actors -> GraphRun]
    /\ \A a \in Actors : RunWired(a)
    /\ \A w \in Workers : BatchWired(w)
    /\ \A a \in Approvers : CallWired(a)

\* A run goes on at its next node.
LEMMA RunContinuesTyped ==
    ASSUME TypeInv, NEW a \in Actors, run[a].node # "none", UNCHANGED <<msg, worker, api>>,
           NEW n \in Nodes, NEW v \in WorkflowState, v.request \in Payloads,
           run' = [run EXCEPT ![a] = [@ EXCEPT !.node = n, !.vals = v]]
    PROVE  ActorsTyped'
  <1> DEFINE g == [run[a] EXCEPT !.node = n, !.vals = v]
  <1>1. run' = [run EXCEPT ![a] = g]
    OBVIOUS
  <1>2. g \in GraphRun /\ g.rid = run[a].rid /\ g.vals = v
    BY DEF TypeInv, TypeOK, GraphRun
  <1> HIDE DEF g
  <1>3. run' \in [Actors -> GraphRun]
    BY <1>1, <1>2 DEF TypeInv, TypeOK
  <1>4. ASSUME NEW b \in Actors PROVE RunWired(b)'
    <2>1. RunWired(b) /\ RunWired(a)
      BY DEF TypeInv, Wired
    <2>2. run'[b] = IF b = a THEN g ELSE run[b]
      BY <1>1 DEF TypeInv, TypeOK
    <2>3. QED
      BY <1>2, <2>1, <2>2 DEF RunWired
  <1>5. QED
    BY <1>3, <1>4 DEF ActorsTyped, TypeInv, TypeOK, Wired, BatchWired, CallWired

\* A run ends, because the call of the graph returns or because it raises.
LEMMA RunEndsTyped ==
    ASSUME TypeInv, NEW a \in Actors, run[a].node # "none", UNCHANGED msg,
           run' = [run EXCEPT ![a] = NoRun], Return(a) \/ Raise(a)
    PROVE  ActorsTyped'
  <1>1. NoRun \in GraphRun /\ NoRun.node = "none"
    <2>1. EmptyState \in WorkflowState
      BY DEF EmptyState, WorkflowState, NoResponse, Response, Tiers
    <2>2. QED
      BY <2>1 DEF NoRun, GraphRun
  <1>2. RunWired(a)
    BY DEF TypeInv, Wired
  <1>3. /\ run' \in [Actors -> GraphRun]
        /\ run'[a].node = "none"
        /\ \A b \in Actors \ {a} : run'[b] = run[b]
    BY <1>1 DEF TypeInv, TypeOK
  <1>4. CASE a \in Workers
    <2>1. PICK st \in WorkerState :
            /\ worker' = [worker EXCEPT ![a] = st]
            /\ st.pc \notin {"poll", "stopped"} => st.batch # <<>>
            /\ \A i \in DOMAIN st.batch : msg[st.batch[i].message].status # "new"
      <3>1. worker[a].pc = "run" /\ BatchWired(a) /\ worker[a] \in WorkerState
        BY <1>2, <1>4 DEF RunWired, TypeInv, TypeOK, Wired
      <3>2. CASE Return(a)
        <4> DEFINE st == [worker[a] EXCEPT !.pc = "ack"]
        <4>1. worker' = [worker EXCEPT ![a] = st]
          BY <1>4, <3>2 DEF Return
        <4>2. st \in WorkerState /\ st.batch = worker[a].batch
          BY <3>1 DEF WorkerState
        <4> HIDE DEF st
        <4>3. QED
          BY <3>1, <4>1, <4>2 DEF BatchWired
      <3>3. CASE Raise(a)
        BY <1>4, <3>1, <3>3, AdvanceTyped DEF Raise
      <3>4. QED
        BY <3>2, <3>3
    <2>2. a \notin Approvers /\ api' = api
      BY <1>4, ServiceAssumption DEF Return, Raise
    <2>3. worker' \in [Workers -> WorkerState]
      BY <2>1 DEF TypeInv, TypeOK
    <2>4. ASSUME NEW w \in Workers PROVE BatchWired(w)'
      <3>1. BatchWired(w) /\ worker'[w] = IF w = a THEN st ELSE worker[w]
        BY <2>1 DEF TypeInv, TypeOK, Wired
      <3>2. QED
        BY <2>1, <3>1 DEF BatchWired
    <2>5. ASSUME NEW b \in Actors PROVE RunWired(b)'
      <3>1. RunWired(b) /\ (b # a /\ b \in Workers => worker'[b] = worker[b])
        BY <2>1 DEF TypeInv, TypeOK, Wired
      <3>2. QED
        BY <1>3, <2>2, <3>1 DEF RunWired
    <2>6. QED
      BY <1>3, <2>2, <2>3, <2>4, <2>5 DEF ActorsTyped, TypeInv, TypeOK, Wired, CallWired
  <1>5. CASE a \in Approvers
    <2>1. PICK pc \in {"done", "failed"} : api' = [api EXCEPT ![a].pc = pc]
      BY <1>5 DEF Return, Raise
    <2> DEFINE c == [api[a] EXCEPT !.pc = pc]
    <2>2. c \in ApprovalCall /\ c.rid = api[a].rid
      BY <1>5 DEF TypeInv, TypeOK, ApprovalCall
    <2>3. api' = [api EXCEPT ![a] = c]
      BY <2>1
    <2> HIDE DEF c
    <2>4. a \notin Workers /\ worker' = worker
      BY <1>5, ServiceAssumption DEF Return, Raise
    <2>5. api' \in [Approvers -> ApprovalCall]
      BY <2>2, <2>3 DEF TypeInv, TypeOK
    <2>6. ASSUME NEW b \in Approvers PROVE CallWired(b)'
      <3>1. /\ CallWired(b) /\ CallWired(a) /\ api[a].pc = "running"
            /\ api'[b] = IF b = a THEN c ELSE api[b]
        BY <1>2, <1>5, <2>3 DEF TypeInv, TypeOK, Wired, RunWired
      <3>2. QED
        BY <2>2, <3>1 DEF CallWired
    <2>7. ASSUME NEW b \in Actors PROVE RunWired(b)'
      <3>1. RunWired(b) /\ (b # a /\ b \in Approvers => api'[b] = api[b])
        BY <2>3 DEF TypeInv, TypeOK, Wired
      <3>2. QED
        BY <1>3, <2>4, <3>1 DEF RunWired
    <2>8. QED
      BY <1>3, <2>4, <2>5, <2>6, <2>7 DEF ActorsTyped, TypeInv, TypeOK, Wired, BatchWired
  <1>6. QED
    BY <1>4, <1>5 DEF Actors

LEMMA StepTyped ==
    ASSUME TypeInv, NEW a \in Actors, Step(a)
    PROVE  TypeInv'
  <1> DEFINE r == run[a].rid
             n == run[a].node
             v == run[a].vals
             trail == Stamp(audit[r], Provenance(n, v), v.approval)
  <1>1. n # "none" /\ UNCHANGED <<msg, posted, mishaps>>
    BY DEF Step
  <1>2. r \in Requests /\ n \in Nodes /\ v \in WorkflowState /\ v.request \in Payloads
    BY <1>1 DEF TypeInv, TypeOK, Wired, RunWired, GraphRun
  <1>3. PICK o \in RunNode(n, v, Len(trail) + 1) :
          LET nx == NextNode(n, o.vals) IN
          /\ audit' = [audit EXCEPT ![r] = trail \o o.log]
          /\ notified' = [notified EXCEPT ![r] =
                             IF o.notify THEN @ \cup {o.vals.final.agent} ELSE @]
          /\ ckpt' = [ckpt EXCEPT ![r] = [next |-> nx, vals |-> o.vals]]
          /\ IF nx = "end" \/ n \in InterruptAfter
             THEN /\ run' = [run EXCEPT ![a] = NoRun]
                  /\ Return(a)
             ELSE /\ run' = [run EXCEPT ![a] = [@ EXCEPT !.node = nx, !.vals = o.vals]]
                  /\ UNCHANGED <<worker, api>>
    BY Zenon DEF Step
  <1> DEFINE nx == NextNode(n, o.vals)
             c == [next |-> nx, vals |-> o.vals]
             sent == IF o.notify THEN notified[r] \cup {o.vals.final.agent} ELSE notified[r]
  <1>4. trail \in Seq(AuditEntry)
    BY <1>2, StampTyped, ProvenanceTyped DEF TypeInv, TypeOK
  <1>5. /\ audit' = [audit EXCEPT ![r] = trail \o o.log]
        /\ notified' = [notified EXCEPT ![r] = sent]
        /\ ckpt' = [ckpt EXCEPT ![r] = c]
    BY <1>3
  <1>6. IF nx = "end" \/ n \in InterruptAfter
        THEN run' = [run EXCEPT ![a] = NoRun] /\ Return(a)
        ELSE /\ run' = [run EXCEPT ![a] = [@ EXCEPT !.node = nx, !.vals = o.vals]]
             /\ UNCHANGED <<worker, api>>
    BY <1>3
  <1> HIDE DEF trail
  <1>7. Typed(o)
    <2>1. Len(trail) + 1 \in Nat
      BY <1>4
    <2>2. QED
      BY <1>2, <2>1, NodeTyped
  <1>8. nx \in Nodes \cup {"end"}
    BY <1>2, <1>7, NextNodeType DEF Typed
  <1>9. c \in Checkpoint /\ c.vals.request \in Payloads
    BY <1>7, <1>8 DEF Typed, Checkpoint
  <1>10. sent \in SUBSET Domains
    BY <1>2, <1>7 DEF Typed, TypeInv, TypeOK
  <1>11. trail \o o.log \in Seq(AuditEntry)
    BY <1>4, <1>7 DEF Typed
  <1>12. ActorsTyped'
    <2>1. CASE nx = "end" \/ n \in InterruptAfter
      BY <1>1, <1>6, <2>1, RunEndsTyped
    <2>2. CASE ~(nx = "end" \/ n \in InterruptAfter)
      <3>1. /\ run' = [run EXCEPT ![a] = [@ EXCEPT !.node = nx, !.vals = o.vals]]
            /\ UNCHANGED <<msg, worker, api>>
        BY <1>1, <1>6, <2>2
      <3>2. nx \in Nodes /\ o.vals \in WorkflowState /\ o.vals.request \in Payloads
        BY <1>7, <1>8, <2>2 DEF Typed
      <3> HIDE DEF nx, n
      <3>3. QED
        BY <1>1, <3>1, <3>2, RunContinuesTyped DEF n
    <2>3. QED
      BY <2>1, <2>2
  <1> HIDE DEF r, n, v, nx, c, sent
  <1>13. TypeOK'
    BY <1>1, <1>2, <1>5, <1>9, <1>10, <1>11, <1>12 DEF ActorsTyped, TypeInv, TypeOK
  <1>14. \A q \in Requests : CheckpointWired(q)'
    BY <1>5, <1>9 DEF TypeInv, TypeOK, Wired, CheckpointWired
  <1>15. QED
    BY <1>12, <1>13, <1>14 DEF ActorsTyped, TypeInv, Wired

\* A step that raises leaves the checkpoint and appends well-typed entries.
LEMMA RaiseTyped ==
    ASSUME TypeInv, NEW a \in Actors, run[a].node # "none", Raise(a),
           UNCHANGED <<msg, ckpt, posted>>, mishaps' \in Nat,
           audit' \in [Requests -> Seq(AuditEntry)], notified' \in [Requests -> SUBSET Domains]
    PROVE  TypeInv'
  <1>1. ActorsTyped'
    BY RunEndsTyped DEF Raise
  <1>2. TypeOK'
    BY <1>1 DEF ActorsTyped, TypeInv, TypeOK
  <1>3. \A r \in Requests : CheckpointWired(r)'
    BY DEF TypeInv, Wired, CheckpointWired
  <1>4. QED
    BY <1>1, <1>2, <1>3 DEF ActorsTyped, TypeInv, Wired

LEMMA StepRaisesTyped ==
    ASSUME TypeInv, NEW a \in Actors, StepRaises(a)
    PROVE  TypeInv'
  <1> DEFINE r == run[a].rid
             n == run[a].node
             v == run[a].vals
             stamped == Stamp(audit[r], Provenance(n, v), v.approval)
  <1>1. n # "none" /\ Raise(a) /\ UNCHANGED <<msg, ckpt, posted>> /\ mishaps' \in Nat
    <2>1. n # "none" /\ Raise(a) /\ Mishap("raise") /\ UNCHANGED <<msg, ckpt, posted>>
      BY Zenon DEF StepRaises
    <2>2. QED
      BY <2>1 DEF Mishap, TypeInv, TypeOK
  <1>2. r \in Requests /\ n \in Nodes /\ v \in WorkflowState /\ v.request \in Payloads
    BY <1>1 DEF TypeInv, TypeOK, Wired, RunWired, GraphRun
  <1>3. \/ UNCHANGED <<audit, notified>>
        \/ /\ \E log \in ErrorLogs(n) : audit' = [audit EXCEPT ![r] = @ \o log]
           /\ UNCHANGED notified
        \/ \E o \in RunNode(n, v, Len(audit[r]) + 1) : \E k \in 0..Len(o.log) :
             \E sent \in {FALSE, o.notify /\ k = Len(o.log)} :
               /\ audit' = [audit EXCEPT ![r] = stamped \o SubSeq(o.log, 1, k)]
               /\ notified' = [notified EXCEPT ![r] =
                                  IF sent THEN @ \cup {o.vals.final.agent} ELSE @]
    BY Zenon DEF StepRaises
  <1>4. audit[r] \in Seq(AuditEntry) /\ stamped \in Seq(AuditEntry)
    BY <1>2, StampTyped, ProvenanceTyped DEF TypeInv, TypeOK
  <1> HIDE DEF stamped
  <1>5. /\ audit' \in [Requests -> Seq(AuditEntry)]
        /\ notified' \in [Requests -> SUBSET Domains]
    <2>1. CASE UNCHANGED <<audit, notified>>
      BY <2>1 DEF TypeInv, TypeOK
    <2>2. ASSUME NEW log \in ErrorLogs(n), audit' = [audit EXCEPT ![r] = @ \o log],
                 UNCHANGED notified
          PROVE  /\ audit' \in [Requests -> Seq(AuditEntry)]
                 /\ notified' \in [Requests -> SUBSET Domains]
      <3>1. audit[r] \o log \in Seq(AuditEntry)
        BY <1>2, <1>4, ErrorLogsTyped
      <3>2. QED
        BY <1>2, <2>2, <3>1 DEF TypeInv, TypeOK
    <2>3. ASSUME NEW o \in RunNode(n, v, Len(audit[r]) + 1), NEW k \in 0..Len(o.log),
                 NEW sent \in {FALSE, o.notify /\ k = Len(o.log)},
                 audit' = [audit EXCEPT ![r] = stamped \o SubSeq(o.log, 1, k)],
                 notified' = [notified EXCEPT ![r] =
                                 IF sent THEN @ \cup {o.vals.final.agent} ELSE @]
          PROVE  /\ audit' \in [Requests -> Seq(AuditEntry)]
                 /\ notified' \in [Requests -> SUBSET Domains]
      <3>1. Len(audit[r]) + 1 \in Nat
        BY <1>4
      <3>2. Typed(o)
        BY <1>2, <3>1, NodeTyped
      <3>3. stamped \o SubSeq(o.log, 1, k) \in Seq(AuditEntry)
        BY <1>4, <3>2 DEF Typed
      <3>4. sent => o.vals.final.agent \in Domains
        BY <3>2, Zenon DEF Typed
      <3> DEFINE told == IF sent THEN notified[r] \cup {o.vals.final.agent} ELSE notified[r]
      <3>5. told \in SUBSET Domains
        BY <1>2, <3>4 DEF TypeInv, TypeOK
      <3>6. notified' = [notified EXCEPT ![r] = told]
        BY <2>3
      <3> HIDE DEF told
      <3>7. QED
        BY <1>2, <2>3, <3>3, <3>5, <3>6 DEF TypeInv, TypeOK
    <2>4. QED
      BY <1>3, <2>1, <2>2, <2>3, Zenon
  <1>6. QED
    BY <1>1, <1>5, RaiseTyped

LEMMA StepRejectsTyped ==
    ASSUME TypeInv, NEW a \in Actors, StepRejects(a)
    PROVE  TypeInv'
  <1> DEFINE r == run[a].rid
             n == run[a].node
  <1>1. /\ n # "none" /\ Raise(a)
        /\ UNCHANGED <<msg, ckpt, posted>> /\ mishaps' \in Nat /\ UNCHANGED notified
        /\ audit' = [audit EXCEPT ![r] = @ \o RejectLog(n)]
    BY DEF StepRejects, TypeInv, TypeOK
  <1>2. r \in Requests /\ n \in Nodes
    BY <1>1 DEF TypeInv, TypeOK, Wired, RunWired, GraphRun
  <1>3. audit[r] \o RejectLog(n) \in Seq(AuditEntry)
    BY <1>2, ErrorLogsTyped DEF ErrorLogs, TypeInv, TypeOK
  <1>4. /\ audit' \in [Requests -> Seq(AuditEntry)]
        /\ notified' \in [Requests -> SUBSET Domains]
    BY <1>1, <1>2, <1>3 DEF TypeInv, TypeOK
  <1>5. QED
    BY <1>1, <1>4, RaiseTyped

\* An approval call goes on to pc, on request r, without a run of its own yet.
LEMMA CallTyped ==
    ASSUME TypeInv, NEW a \in Approvers, api[a].pc # "running", NEW c \in ApprovalCall,
           c.rid \in Requests, api' = [api EXCEPT ![a] = c], UNCHANGED <<msg, worker, run>>
    PROVE  ActorsTyped'
  <1>1. RunWired(a) /\ a \in Actors
    BY DEF TypeInv, Wired, Actors
  <1>2. run[a].node = "none"
    BY <1>1 DEF RunWired
  <1>3. ASSUME NEW b \in Actors PROVE RunWired(b)'
    <2>1. RunWired(b) /\ (b # a /\ b \in Approvers => api'[b] = api[b])
      BY DEF TypeInv, TypeOK, Wired
    <2>2. QED
      BY <1>2, <2>1 DEF RunWired
  <1>4. ASSUME NEW b \in Approvers PROVE CallWired(b)'
    <2>1. CallWired(b) /\ api'[b] = IF b = a THEN c ELSE api[b]
      BY DEF TypeInv, TypeOK, Wired
    <2>2. QED
      BY <2>1 DEF CallWired
  <1>5. QED
    BY <1>3, <1>4 DEF ActorsTyped, TypeInv, TypeOK, Wired, BatchWired

LEMMA ApproveCheckTyped ==
    ASSUME TypeInv, NEW a \in Approvers, NEW r \in Requests, ApproveCheck(a, r)
    PROVE  TypeInv'
  <1> DEFINE c == [pc |-> "checked", rid |-> r]
  <1>1. /\ api[a].pc = "idle" /\ api' = [api EXCEPT ![a] = c]
        /\ UNCHANGED <<msg, worker, run, ckpt, audit, notified, posted, mishaps>>
    BY DEF ApproveCheck
  <1>2. c \in ApprovalCall /\ c.rid \in Requests
    BY DEF ApprovalCall
  <1> HIDE DEF c
  <1>3. ActorsTyped'
    BY <1>1, <1>2, CallTyped
  <1>4. QED
    BY <1>1, <1>3 DEF ActorsTyped, TypeInv, TypeOK, Wired, CheckpointWired

LEMMA ApproveUpdateTyped ==
    ASSUME TypeInv, NEW a \in Approvers, ApproveUpdate(a)
    PROVE  TypeInv'
  <1> DEFINE r == api[a].rid
             c == [api[a] EXCEPT !.pc = "updated"]
             k == [ckpt[r] EXCEPT !.vals.approval = a]
  <1>1. /\ api[a].pc = "checked"
        /\ ckpt' = [ckpt EXCEPT ![r] = k]
        /\ posted' = [posted EXCEPT ![r] = @ \cup {a}]
        /\ api' = [api EXCEPT ![a] = c]
        /\ UNCHANGED <<msg, worker, run, audit, notified, mishaps>>
    BY DEF ApproveUpdate
  <1>2. r \in Requests /\ c \in ApprovalCall /\ c.rid = r
    BY <1>1 DEF TypeInv, TypeOK, Wired, CallWired, ApprovalCall
  <1>3. k \in Checkpoint /\ k.next = ckpt[r].next /\ k.vals.request = ckpt[r].vals.request
    <2>1. ASSUME NEW e \in Checkpoint
          PROVE  LET x == [e EXCEPT !.vals = [e.vals EXCEPT !.approval = a]]
                 IN  /\ x \in Checkpoint /\ x.next = e.next
                     /\ x.vals.request = e.vals.request
      <3>1. ASSUME NEW u \in WorkflowState
            PROVE  LET y == [u EXCEPT !.approval = a]
                   IN  y \in WorkflowState /\ y.request = u.request
        BY DEF WorkflowState
      <3>2. ASSUME NEW y \in WorkflowState
            PROVE  LET x == [e EXCEPT !.vals = y]
                   IN  x \in Checkpoint /\ x.next = e.next /\ x.vals = y
        BY DEF Checkpoint
      <3>3. e.vals \in WorkflowState
        BY DEF Checkpoint
      <3>4. QED
        BY <3>1, <3>2, <3>3, Zenon
    <2>2. ckpt[r] \in Checkpoint
      BY <1>2 DEF TypeInv, TypeOK
    <2>3. k = [ckpt[r] EXCEPT !.vals = [ckpt[r].vals EXCEPT !.approval = a]]
      OBVIOUS
    <2>4. QED
      BY <2>1, <2>2, <2>3, Zenon
  <1> HIDE DEF c, k
  <1>4. ActorsTyped'
    BY <1>1, <1>2, CallTyped
  <1>5. TypeOK'
    BY <1>1, <1>2, <1>3, <1>4 DEF ActorsTyped, TypeInv, TypeOK
  <1>6. ASSUME NEW q \in Requests PROVE CheckpointWired(q)'
    <2>1. CheckpointWired(q) /\ ckpt'[q] = IF q = r THEN k ELSE ckpt[q]
      BY <1>1 DEF TypeInv, TypeOK, Wired
    <2>2. QED
      BY <1>3, <2>1 DEF CheckpointWired
  <1>7. QED
    BY <1>4, <1>5, <1>6 DEF ActorsTyped, TypeInv, Wired

LEMMA ApproveInvokeTyped ==
    ASSUME TypeInv, NEW a \in Approvers, ApproveInvoke(a)
    PROVE  TypeInv'
  <1> DEFINE r == api[a].rid
  <1>1. /\ api[a].pc = "updated"
        /\ UNCHANGED <<msg, worker, ckpt, audit, notified, posted, mishaps>>
    BY DEF ApproveInvoke
  <1>2. r \in Requests
    BY <1>1 DEF TypeInv, Wired, CallWired
  <1>3. ASSUME NEW pc \in {"done", "running"}
        PROVE  LET c == [api[a] EXCEPT !.pc = pc]
               IN  c \in ApprovalCall /\ c.rid = r /\ c.pc = pc
    BY DEF TypeInv, TypeOK, ApprovalCall
  <1>4. CASE ckpt[r].next = "end"
    <2> DEFINE c == [api[a] EXCEPT !.pc = "done"]
    <2>1. /\ api' = [api EXCEPT ![a] = c] /\ UNCHANGED run
          /\ c \in ApprovalCall /\ c.rid = r
      BY <1>3, <1>4 DEF ApproveInvoke
    <2> HIDE DEF c
    <2>2. ActorsTyped'
      BY <1>1, <1>2, <2>1, CallTyped
    <2>3. QED
      BY <1>1, <2>2 DEF ActorsTyped, TypeInv, TypeOK, Wired, CheckpointWired
  <1>5. CASE ckpt[r].next # "end"
    <2> DEFINE c == [api[a] EXCEPT !.pc = "running"]
               g == [rid |-> r, node |-> ckpt[r].next, vals |-> ckpt[r].vals]
    <2>1. /\ api' = [api EXCEPT ![a] = c]
          /\ run' = [run EXCEPT ![a] = g]
          /\ c \in ApprovalCall /\ c.rid = r /\ c.pc = "running"
      BY <1>3, <1>5 DEF ApproveInvoke
    <2>2. /\ g \in GraphRun /\ g.rid = r
          /\ g.node # "none" => g.vals.request \in Payloads
      BY <1>2, <1>5 DEF TypeInv, TypeOK, Wired, CheckpointWired, Checkpoint, GraphRun
    <2> HIDE DEF c, g
    <2>3. a \in Actors /\ a \notin Workers
      BY ServiceAssumption DEF Actors
    <2>4. TypeOK'
      BY <1>1, <2>1, <2>2 DEF TypeInv, TypeOK
    <2>5. ASSUME NEW b \in Actors PROVE RunWired(b)'
      <3>1. /\ RunWired(b)
            /\ run'[b] = IF b = a THEN g ELSE run[b]
            /\ b \in Approvers => api'[b] = IF b = a THEN c ELSE api[b]
        BY <2>1 DEF TypeInv, TypeOK, Wired
      <3>2. QED
        BY <1>1, <1>2, <2>1, <2>2, <2>3, <3>1 DEF RunWired
    <2>6. ASSUME NEW b \in Approvers PROVE CallWired(b)'
      <3>1. CallWired(b) /\ api'[b] = IF b = a THEN c ELSE api[b]
        BY <2>1 DEF TypeInv, TypeOK, Wired
      <3>2. QED
        BY <1>2, <2>1, <3>1 DEF CallWired
    <2>7. QED
      BY <1>1, <2>4, <2>5, <2>6 DEF TypeInv, Wired, CheckpointWired, BatchWired
  <1>6. QED
    BY <1>4, <1>5

LEMMA RestartTyped ==
    ASSUME TypeInv, NEW S \in Deployments, Restart(S)
    PROVE  TypeInv'
  <1>1. /\ mishaps' \in Nat
        /\ UNCHANGED <<msg, audit, notified, posted>>
        /\ run' = [a \in Actors |-> IF a \in S THEN NoRun ELSE run[a]]
        /\ worker' = [w \in Workers |->
                        IF w \in S THEN [pc |-> "poll", batch |-> <<>>] ELSE worker[w]]
        /\ api' = [a \in Approvers |->
                     IF a \in S /\ api[a].pc \in {"checked", "updated", "running"}
                     THEN [api[a] EXCEPT !.pc = "failed"] ELSE api[a]]
        /\ ckpt' = IF Durable THEN ckpt ELSE [r \in Requests |-> NoCheckpoint]
    BY DEF Restart, Mishap, TypeInv, TypeOK
  <1>2. NoRun \in GraphRun /\ NoRun.node = "none" /\ NoCheckpoint \in Checkpoint
        /\ NoCheckpoint.next = "none"
    <2>1. EmptyState \in WorkflowState
      BY DEF EmptyState, WorkflowState, NoResponse, Response, Tiers
    <2>2. QED
      BY <2>1 DEF NoRun, GraphRun, NoCheckpoint, Checkpoint
  <1> DEFINE st == [pc |-> "poll", batch |-> <<>>]
             failed(a) == [api[a] EXCEPT !.pc = "failed"]
  <1>3. st \in WorkerState /\ st.pc = "poll" /\ st.batch = <<>>
    BY DEF WorkerState
  <1>4. ASSUME NEW a \in Approvers
        PROVE  failed(a) \in ApprovalCall /\ failed(a).rid = api[a].rid
    BY DEF TypeInv, TypeOK, ApprovalCall
  <1>5. /\ \A w \in Workers : worker'[w] = IF w \in S THEN st ELSE worker[w]
        /\ \A a \in Approvers : api'[a] \in {api[a], failed(a)}
        /\ \A a \in Approvers : a \notin S => api'[a] = api[a]
        /\ \A a \in Actors : run'[a] = IF a \in S THEN NoRun ELSE run[a]
        /\ \A r \in Requests : ckpt'[r] \in {ckpt[r], NoCheckpoint}
    BY <1>1
  <1>6. TypeOK'
    <2>1. worker' \in [Workers -> WorkerState]
      BY <1>1, <1>3 DEF TypeInv, TypeOK
    <2>2. run' \in [Actors -> GraphRun] /\ ckpt' \in [Requests -> Checkpoint]
      BY <1>1, <1>2 DEF TypeInv, TypeOK
    <2>3. api' \in [Approvers -> ApprovalCall]
      BY <1>1, <1>4 DEF TypeInv, TypeOK
    <2>4. QED
      BY <1>1, <2>1, <2>2, <2>3 DEF TypeInv, TypeOK
  <1> HIDE DEF st, failed
  <1>7. ASSUME NEW a \in Actors PROVE RunWired(a)'
    BY <1>2, <1>5 DEF TypeInv, Wired, RunWired
  <1>8. ASSUME NEW r \in Requests PROVE CheckpointWired(r)'
    BY <1>2, <1>5 DEF TypeInv, Wired, CheckpointWired
  <1>9. ASSUME NEW w \in Workers PROVE BatchWired(w)'
    <2>1. BatchWired(w) /\ msg' = msg
      BY <1>1 DEF TypeInv, Wired
    <2>2. CASE w \in S
      BY <1>3, <1>5, <2>2 DEF BatchWired
    <2>3. CASE w \notin S
      BY <1>5, <2>1, <2>3 DEF BatchWired
    <2>4. QED
      BY <2>2, <2>3
  <1>10. ASSUME NEW a \in Approvers PROVE CallWired(a)'
    <2>1. CallWired(a) /\ api'[a].rid = api[a].rid
      BY <1>4, <1>5 DEF TypeInv, Wired
    <2>2. api[a].pc = "idle" => api'[a] = api[a]
      BY <1>1
    <2>3. QED
      BY <2>1, <2>2 DEF CallWired
  <1>11. QED
    BY <1>6, <1>7, <1>8, <1>9, <1>10 DEF TypeInv, Wired

LEMMA NextTyped == TypeInv /\ [Next]_vars => TypeInv'
  <1> SUFFICES ASSUME TypeInv, [Next]_vars PROVE TypeInv'
    OBVIOUS
  <1>1. ASSUME NEW m \in Messages, Ingest(m) \/ PublishDirect(m) \/ Expire(m)
        PROVE  TypeInv'
    BY <1>1, IngestTyped, PublishDirectTyped, ExpireTyped
  <1>2. ASSUME NEW w \in Workers,
               Pull(w) \/ PullRaises(w) \/ Process(w) \/ Ack(w) \/ AckRaises(w)
        PROVE  TypeInv'
    BY <1>2, PullTyped, PullRaisesTyped, ProcessTyped, AckTyped, AckRaisesTyped
  <1>3. ASSUME NEW a \in Actors, Step(a) \/ StepRaises(a) \/ StepRejects(a)
        PROVE  TypeInv'
    BY <1>3, StepTyped, StepRaisesTyped, StepRejectsTyped
  <1>4. ASSUME NEW a \in Approvers, NEW r \in Requests, ApproveCheck(a, r)
        PROVE  TypeInv'
    BY <1>4, ApproveCheckTyped
  <1>5. ASSUME NEW a \in Approvers, ApproveUpdate(a) \/ ApproveInvoke(a)
        PROVE  TypeInv'
    BY <1>5, ApproveUpdateTyped, ApproveInvokeTyped
  <1>6. ASSUME NEW S \in Deployments, Restart(S)
        PROVE  TypeInv'
    BY <1>6, RestartTyped
  <1>7. CASE UNCHANGED vars
    BY <1>7 DEF vars, TypeInv, TypeOK, Wired, RunWired, CheckpointWired, BatchWired, CallWired
  <1>8. QED
    BY <1>1, <1>2, <1>3, <1>4, <1>5, <1>6, <1>7 DEF Next

\* Every reachable state is well typed, and the program counters of workers and approval
\* calls agree with the runs they started.
THEOREM TypeCorrect == Spec => []TypeOK
  <1>1. Init => TypeInv
    BY InitTyped
  <1>2. TypeInv /\ [Next]_vars => TypeInv'
    BY NextTyped
  <1>3. TypeInv => TypeOK
    BY DEF TypeInv
  <1>4. QED
    BY <1>1, <1>2, <1>3, PTL DEF Spec
=============================================================================
