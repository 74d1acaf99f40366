--------------------------- MODULE HardStopProofs ---------------------------
(***************************************************************************)
(* A request that Module B stops is not completed without its human, for   *)
(* every number of workers, approvers, requests, redeliveries, errors and  *)
(* restarts; and the service implements HumanGate.                         *)
(***************************************************************************)
EXTENDS HITLProofs

HardStopNodes == {"entry", "dispatch", "er_compliance", "hitl_gate", "finalize", "end"}

\* What channels v of request r look like before node n: the run has not left the path
\* that leads through er_compliance to the gate.
OnPath(r, n, v) ==
    /\ n \in HardStopNodes
    /\ v.request \in HardStopBodies
    /\ n \in {"dispatch", "er_compliance", "hitl_gate"} => ~v.error
    /\ n = "dispatch" /\ ~v.hitl => v.pending # <<>> /\ Head(v.pending) = "ER"
    /\ n = "dispatch" /\ v.hitl => "ER" \in notified[r]
    /\ n = "hitl_gate" => "ER" \in notified[r]
    /\ n \in {"finalize", "end"} => "ER" \in notified[r] /\ Logged(r, "HITL_PENDING")
    /\ n = "end" => posted[r] # {}

Settled(r) ==
    "ER" \in notified[r] /\ Logged(r, "HITL_PENDING") /\ posted[r] # {}

\* The inductive invariant, about one request: every copy of its channels is on the path,
\* nobody runs finalize or resumes a run before an approval, and so it never completes
\* unsettled.
CheckpointOnPath(r) == ckpt[r].next # "none" => OnPath(r, ckpt[r].next, ckpt[r].vals)
RunOnPath(r, a) ==
    run[a].rid = r /\ run[a].node # "none" =>
        /\ OnPath(r, run[a].node, run[a].vals)
        /\ run[a].node = "finalize" => posted[r] # {}
CallPosted(r, a) ==
    api[a].rid = r /\ api[a].pc \in {"updated", "running"} => posted[r] # {}

HardStopInv(r) ==
    /\ CheckpointOnPath(r)
    /\ \A a \in Actors : RunOnPath(r, a)
    /\ \A a \in Approvers : CallPosted(r, a)
    /\ Logged(r, "WORKFLOW_COMPLETED") => Settled(r)

GateInv == \A r \in HardStopRequests : HardStopInv(r)

----------------------------------------------------------------------------
(* The logs only grow, and a request is released, never obliged again.     *)

\* A trail whose entries keep their events and that may go on.
Extends(new, old) ==
    /\ DOMAIN old \subseteq DOMAIN new
    /\ \A i \in DOMAIN old : new[i].event = old[i].event

LEMMA LoggedKept ==
    ASSUME NEW r, Extends(audit'[r], audit[r]), NEW event, Logged(r, event)
    PROVE  Logged(r, event)'
  BY DEF Extends, Logged

LEMMA AppendExtends ==
    ASSUME NEW old \in Seq(AuditEntry), NEW mid \in Seq(AuditEntry), NEW log \in Seq(AuditEntry),
           Len(mid) = Len(old), \A j \in 1..Len(old) : mid[j].event = old[j].event
    PROVE  Extends(mid \o log, old)
  BY DEF Extends

\* What a step does to the messages, the notifications and the posted approvals.
Grows ==
    /\ \A m \in Messages : msg[m].status # "new" =>
           msg'[m].status # "new" /\ msg'[m].body = msg[m].body
    /\ \A r \in Requests : notified[r] \subseteq notified'[r] /\ posted[r] \subseteq posted'[r]
    /\ \A r \in Requests : Extends(audit'[r], audit[r])

LEMMA ObligedShrinks ==
    ASSUME Grows
    PROVE  HardStopRequests' \subseteq HardStopRequests
  BY DEF Grows, HardStopRequests, HardStopBodies

Kept(r) ==
    /\ "ER" \in notified[r] => "ER" \in notified'[r]
    /\ Logged(r, "HITL_PENDING") => Logged(r, "HITL_PENDING")'
    /\ posted[r] # {} => posted'[r] # {}

LEMMA GrowsKept ==
    ASSUME NEW r \in Requests, Grows
    PROVE  Kept(r)
  <1>1. Extends(audit'[r], audit[r]) /\ notified[r] \subseteq notified'[r]
        /\ posted[r] \subseteq posted'[r]
    BY DEF Grows
  <1>2. Logged(r, "HITL_PENDING") => Logged(r, "HITL_PENDING")'
    BY <1>1, LoggedKept
  <1>3. QED
    BY <1>1, <1>2 DEF Kept

----------------------------------------------------------------------------
(* The nodes.                                                              *)

\* Only the gate logs HITL_PENDING, only finalize logs WORKFLOW_COMPLETED, and ER is
\* reported to the approver by er_compliance alone.
LEMMA NodeLog ==
    ASSUME NEW n \in Nodes, NEW v \in WorkflowState, NEW id, NEW o \in RunNode(n, v, id)
    PROVE  /\ n # "hitl_gate" => \A i \in DOMAIN o.log : o.log[i].event # "HITL_PENDING"
           /\ n # "finalize" => \A i \in DOMAIN o.log : o.log[i].event # "WORKFLOW_COMPLETED"
           /\ o.notify /\ o.vals.final.agent = "ER" => n = "er_compliance"
  <1>1. CASE n = "entry"
    <2>1. o.notify = FALSE /\ \E e \in {"PII_BOUNDARY_VIOLATION", "WORKFLOW_ROUTED"} :
                                o.log = <<Entry(e, "DIRECTOR")>>
      <3>1. o \in EntryNode(v)
        BY <1>1 DEF RunNode
      <3>2. CASE v.request \in PIIPayloads
        BY <3>1, <3>2 DEF EntryNode, Outcome
      <3>3. CASE v.request \notin PIIPayloads
        <4>1. PICK p \in PlansOf[v.request] :
                o = Outcome([v EXCEPT !.pending = p, !.responses = <<>>, !.error = FALSE,
                                      !.hitl = FALSE],
                            <<Entry("WORKFLOW_ROUTED", "DIRECTOR")>>, FALSE)
          BY <3>1, <3>3 DEF EntryNode
        <4>2. QED
          BY <4>1 DEF Outcome
      <3>4. QED
        BY <3>2, <3>3
    <2>2. QED
      BY <1>1, <2>1 DEF Entry
  <1>2. CASE n = "dispatch"
    <2>1. o.notify = FALSE /\ o.log = <<>>
      BY <1>2 DEF RunNode, DispatchNode, Outcome
    <2>2. QED
      BY <1>2, <2>1
  <1>3. CASE n = "er_compliance"
    <2>1. \E e \in {"ER_HARD_STOP", "ER_CLEAR"} : o.log = <<Entry(e, "ER")>>
      BY <1>3 DEF RunNode, ERComplianceNode, Outcome
    <2>2. QED
      BY <1>3, <2>1 DEF Entry
  <1>4. CASE n = "er_reason"
    <2>1. o.notify = FALSE /\ o.log = <<>>
      BY <1>4 DEF RunNode, ERReasonNode, Outcome
    <2>2. QED
      BY <1>4, <2>1
  <1>5. CASE n = "hitl_gate"
    <2>1. o.notify = FALSE /\ o.log = <<Entry("HITL_PENDING", v.final.agent)>>
      BY <1>5 DEF RunNode, HITLGateNode, Outcome
    <2>2. QED
      BY <1>5, <2>1 DEF Entry
  <1>6. CASE n = "finalize"
    <2>1. o.notify = FALSE /\ o.log = <<Entry("WORKFLOW_COMPLETED", "NONE")>>
      BY <1>6 DEF RunNode, FinalizeNode, Outcome
    <2>2. QED
      BY <1>6, <2>1 DEF Entry
  <1>7. CASE n \in SimpleAgents
    <2>1. PICK t \in TiersOf(n, v.request), own \in ProcessLogs(n) : o = Answers(n, v, t, own)
      BY <1>7 DEF RunNode, AgentNode, SimpleAgents, Domains
    <2> DEFINE u == [v EXCEPT !.responses = Append(@, [agent |-> n, tier |-> t]),
                              !.final = [agent |-> n, tier |-> t],
                              !.pending = IF t = "MANDATORY" THEN <<>> ELSE Without(@, n),
                              !.hitl = @ \/ t = "MANDATORY"]
               log == <<Entry("REQUEST_RECEIVED", n)>> \o own
                          \o <<Entry("RESPONSE_GENERATED", n)>>
    <2>2. o.vals = u /\ o.log = log
      BY <2>1 DEF Answers, Outcome
    <2>3. u.final.agent # "ER"
      BY <1>7 DEF WorkflowState, SimpleAgents
    <2>4. \A i \in DOMAIN log :
            log[i].event \in {"REQUEST_RECEIVED", "AGENT_RECORD", "RESPONSE_GENERATED"}
      <3>1. own = <<Entry("AGENT_RECORD", n)>> \/ own = <<>>
        BY Zenon DEF ProcessLogs
      <3>2. CASE own = <<Entry("AGENT_RECORD", n)>>
        BY <3>2 DEF Entry
      <3>3. CASE own = <<>>
        BY <3>3 DEF Entry
      <3>4. QED
        BY <3>1, <3>2, <3>3
    <2> HIDE DEF u, log
    <2>5. QED
      BY <2>2, <2>3, <2>4
  <1>8. QED
    BY <1>1, <1>2, <1>3, <1>4, <1>5, <1>6, <1>7 DEF Nodes

LEMMA ErrorLogEvents ==
    ASSUME NEW n \in Nodes, NEW log \in ErrorLogs(n), NEW i \in DOMAIN log
    PROVE  log[i].event \notin {"HITL_PENDING", "WORKFLOW_COMPLETED"}
  BY DEF ErrorLogs, RejectLog, Entry

\* What a node on the path of a hard stop leads to.
LEMMA HardStopNode ==
    ASSUME NEW n \in HardStopNodes \ {"end"}, NEW v \in WorkflowState,
           v.request \in HardStopBodies,
           n \in {"dispatch", "er_compliance", "hitl_gate"} => ~v.error,
           n = "dispatch" /\ ~v.hitl => v.pending # <<>> /\ Head(v.pending) = "ER",
           NEW id \in Nat, NEW o \in RunNode(n, v, id)
    PROVE  LET nx == NextNode(n, o.vals) IN
           /\ o.vals.request = v.request
           /\ n = "entry" => /\ nx = "dispatch" /\ ~o.vals.error /\ ~o.vals.hitl
                             /\ o.vals.pending # <<>> /\ Head(o.vals.pending) = "ER"
           /\ n = "dispatch" => /\ o.vals = v
                                /\ nx = IF v.hitl THEN "hitl_gate" ELSE "er_compliance"
           /\ n = "er_compliance" => /\ nx = "dispatch" /\ ~o.vals.error /\ o.vals.hitl
                                     /\ o.notify /\ o.vals.final.agent = "ER"
           /\ n = "hitl_gate" => /\ nx = "finalize"
                                 /\ o.log = <<Entry("HITL_PENDING", v.final.agent)>>
           /\ n = "finalize" => nx = "end"
  <1>1. /\ v.request \in HardStops \ PIIPayloads
        /\ \A plan \in PlansOf[v.request] : Head(plan) = "ER"
        /\ PlansOf[v.request] \subseteq Plans
    BY PayloadAssumption DEF HardStopBodies
  <1>2. CASE n = "entry"
    <2>1. PICK p \in PlansOf[v.request] :
            o.vals = [v EXCEPT !.pending = p, !.responses = <<>>, !.error = FALSE,
                               !.hitl = FALSE]
      <3>1. o \in EntryNode(v) /\ v.request \notin PIIPayloads
        BY <1>1, <1>2 DEF RunNode
      <3>2. PICK p \in PlansOf[v.request] :
              o = Outcome([v EXCEPT !.pending = p, !.responses = <<>>, !.error = FALSE,
                                    !.hitl = FALSE],
                          <<Entry("WORKFLOW_ROUTED", "DIRECTOR")>>, FALSE)
        BY <3>1 DEF EntryNode
      <3>3. QED
        BY <3>2 DEF Outcome
    <2>2. p # <<>> /\ Head(p) = "ER"
      BY <1>1, PlanFacts
    <2>3. /\ o.vals.request = v.request /\ o.vals.pending = p
          /\ o.vals.error = FALSE /\ o.vals.hitl = FALSE
      BY <2>1 DEF WorkflowState
    <2>4. NextNode(n, o.vals) = "dispatch"
      BY <1>2 DEF NextNode
    <2>5. QED
      BY <1>2, <2>2, <2>3, <2>4
  <1>3. CASE n = "dispatch"
    <2>1. o.vals = v
      BY <1>3 DEF RunNode, DispatchNode, Outcome
    <2>2. NextNode(n, v) = IF v.hitl THEN "hitl_gate" ELSE "er_compliance"
      BY <1>3 DEF NextNode, RouteNext, NodeForDomain
    <2>3. QED
      BY <1>3, <2>1, <2>2
  <1>4. CASE n = "er_compliance"
    <2> DEFINE r == [agent |-> "ER", tier |-> "MANDATORY"]
               u == [v EXCEPT !.responses = Append(@, r), !.final = r, !.pending = <<>>,
                              !.clear = FALSE, !.hitl = TRUE, !.entry = 0]
    <2>1. o = Outcome(u, <<Entry("ER_HARD_STOP", "ER")>>, TRUE)
      BY <1>1, <1>4 DEF RunNode, ERComplianceNode
    <2>2. o.vals = u /\ o.notify = TRUE
      BY <2>1 DEF Outcome
    <2>3. /\ u.request = v.request /\ u.error = v.error /\ u.hitl = TRUE
          /\ u.clear = FALSE /\ u.final = r
      BY DEF WorkflowState
    <2>4. NextNode(n, o.vals) = "dispatch"
      BY <1>4, <2>2, <2>3 DEF NextNode, ERBranch
    <2>5. r.agent = "ER"
      OBVIOUS
    <2> HIDE DEF r, u
    <2>6. QED
      BY <1>4, <2>2, <2>3, <2>4, <2>5
  <1>5. CASE n = "hitl_gate"
    <2>1. o = Outcome([v EXCEPT !.entry = id, !.hitl = TRUE],
                      <<Entry("HITL_PENDING", v.final.agent)>>, FALSE)
      BY <1>5 DEF RunNode, HITLGateNode
    <2>2. /\ o.vals = [v EXCEPT !.entry = id, !.hitl = TRUE]
          /\ o.log = <<Entry("HITL_PENDING", v.final.agent)>>
      BY <2>1 DEF Outcome
    <2>3. o.vals.request = v.request
      BY <2>2 DEF WorkflowState
    <2>4. NextNode(n, o.vals) = "finalize"
      BY <1>5 DEF NextNode
    <2>5. QED
      BY <1>5, <2>2, <2>3, <2>4
  <1>6. CASE n = "finalize"
    BY <1>6 DEF RunNode, FinalizeNode, Outcome, NextNode
  <1>7. QED
    BY <1>2, <1>3, <1>4, <1>5, <1>6 DEF HardStopNodes

----------------------------------------------------------------------------
(* What steps of other actors, and of other requests, leave alone.         *)

LEMMA CheckpointFrame ==
    ASSUME NEW r, CheckpointOnPath(r), Kept(r), ckpt'[r] = ckpt[r]
    PROVE  CheckpointOnPath(r)'
  BY DEF CheckpointOnPath, OnPath, Kept

LEMMA RunFrame ==
    ASSUME NEW r, NEW a, RunOnPath(r, a), Kept(r),
           run'[a] = run[a] \/ run'[a].node = "none"
    PROVE  RunOnPath(r, a)'
  BY DEF RunOnPath, OnPath, Kept

LEMMA CallFrame ==
    ASSUME NEW r, NEW a, CallPosted(r, a), Kept(r),
           api'[a] = api[a] \/ api'[a].pc \notin {"updated", "running"}
    PROVE  CallPosted(r, a)'
  BY DEF CallPosted, Kept

LEMMA SettledFrame ==
    ASSUME NEW r, Kept(r), Settled(r)
    PROVE  Settled(r)'
  BY DEF Settled, Kept

MsgKept ==
    \A m \in Messages : msg[m].status # "new" =>
        msg'[m].status # "new" /\ msg'[m].body = msg[m].body

LEMMA QuietGrows ==
    ASSUME TypeInv, MsgKept, UNCHANGED <<audit, notified>>,
           \A r \in Requests : posted[r] \subseteq posted'[r]
    PROVE  Grows
  BY DEF Grows, MsgKept, Extends

\* A step of the broker, or one that only moves a worker on.
LEMMA QuietStep ==
    ASSUME TypeInv, GateInv, MsgKept, UNCHANGED <<run, ckpt, api, audit, notified, posted>>
    PROVE  Grows /\ \A r \in HardStopRequests : HardStopInv(r)'
  <1>1. Grows
    BY QuietGrows
  <1>2. ASSUME NEW r \in HardStopRequests PROVE HardStopInv(r)'
    <2>1. r \in Requests /\ HardStopInv(r)
      BY DEF GateInv, HardStopRequests
    <2>2. Kept(r)
      BY <1>1, <2>1, GrowsKept
    <2>3. CheckpointOnPath(r)'
      BY <2>1, <2>2, CheckpointFrame DEF HardStopInv
    <2>4. \A a \in Actors : RunOnPath(r, a)'
      BY <2>1, <2>2, RunFrame DEF HardStopInv
    <2>5. \A a \in Approvers : CallPosted(r, a)'
      BY <2>1, <2>2, CallFrame DEF HardStopInv
    <2>6. Logged(r, "WORKFLOW_COMPLETED")' => Settled(r)'
      BY <2>1, <2>2, SettledFrame DEF HardStopInv, Logged
    <2>7. QED
      BY <2>3, <2>4, <2>5, <2>6 DEF HardStopInv
  <1>3. QED
    BY <1>1, <1>2

LEMMA BrokerStep ==
    ASSUME TypeInv, GateInv, NEW m \in Messages, Ingest(m) \/ PublishDirect(m) \/ Expire(m)
    PROVE  Grows /\ \A r \in HardStopRequests : HardStopInv(r)'
  <1>1. UNCHANGED <<run, ckpt, api, audit, notified, posted>>
    BY DEF Ingest, PublishDirect, Expire
  <1>2. msg[m].status = "new" \/ msg' = [msg EXCEPT ![m].status = "visible"]
    BY DEF Ingest, PublishDirect, Expire
  <1>3. \A q \in Messages \ {m} : msg'[q] = msg[q]
    BY DEF Ingest, PublishDirect, Expire, TypeInv, TypeOK
  <1>4. msg' = [msg EXCEPT ![m].status = "visible"] =>
           msg'[m].status = "visible" /\ msg'[m].body = msg[m].body
    BY DEF TypeInv, TypeOK, BrokerMessage
  <1>5. MsgKept
    BY <1>2, <1>3, <1>4 DEF MsgKept
  <1>6. QED
    BY <1>1, <1>5, QuietStep

LEMMA HandOutKeeps ==
    ASSUME TypeInv, NEW S \in SUBSET Messages, HandOut(S)
    PROVE  MsgKept
  <1>1. ASSUME NEW m \in Messages
        PROVE  LET got == [msg[m] EXCEPT !.status = "inflight", !.deliveries = @ + 1]
               IN  got.status = "inflight" /\ got.body = msg[m].body
    BY DEF TypeInv, TypeOK, BrokerMessage
  <1>2. ASSUME NEW m \in Messages
        PROVE  msg'[m] \in {msg[m], [msg[m] EXCEPT !.status = "inflight",
                                                   !.deliveries = @ + 1]}
    BY DEF HandOut
  <1>3. QED
    BY <1>1, <1>2 DEF MsgKept

LEMMA DeleteKeeps ==
    ASSUME TypeInv, NEW m \in Messages, msg' \in {msg, [msg EXCEPT ![m].status = "deleted"]}
    PROVE  MsgKept
  <1>1. msg' = [msg EXCEPT ![m].status = "deleted"] =>
           msg'[m].status = "deleted" /\ msg'[m].body = msg[m].body
    BY DEF TypeInv, TypeOK, BrokerMessage
  <1>2. \A q \in Messages \ {m} : msg'[q] = msg[q]
    BY DEF TypeInv, TypeOK
  <1>3. QED
    BY <1>1, <1>2 DEF MsgKept

LEMMA PullHandsOut ==
    ASSUME NEW w \in Workers, Pull(w) \/ PullRaises(w)
    PROVE  \E S \in SUBSET Messages : HandOut(S)
  <1>1. CASE PullRaises(w)
    BY <1>1 DEF PullRaises
  <1>2. CASE Pull(w)
    <2>1. \E n \in 1..BatchSize : \E s \in [1..n -> Messages] : HandOut({s[i] : i \in 1..n})
      BY <1>2, Zenon DEF Pull
    <2>2. ASSUME NEW n \in 1..BatchSize, NEW s \in [1..n -> Messages]
          PROVE  {s[i] : i \in 1..n} \in SUBSET Messages
      OBVIOUS
    <2>3. QED
      BY <2>1, <2>2, Zenon
  <1>3. QED
    BY <1>1, <1>2

LEMMA PullStep ==
    ASSUME TypeInv, GateInv, NEW w \in Workers, Pull(w) \/ PullRaises(w)
    PROVE  Grows /\ \A r \in HardStopRequests : HardStopInv(r)'
  <1>1. UNCHANGED <<run, ckpt, api, audit, notified, posted>>
    BY DEF Pull, PullRaises, Stop
  <1>2. PICK S \in SUBSET Messages : HandOut(S)
    BY PullHandsOut
  <1>3. QED
    BY <1>1, <1>2, HandOutKeeps, QuietStep

LEMMA AckStep ==
    ASSUME TypeInv, GateInv, NEW w \in Workers, Ack(w) \/ AckRaises(w)
    PROVE  Grows /\ \A r \in HardStopRequests : HardStopInv(r)'
  <1>1. UNCHANGED <<run, ckpt, api, audit, notified, posted>> /\ worker[w].pc = "ack"
    BY DEF Ack, AckRaises, Stop
  <1>2. PICK m \in Messages : msg' \in {msg, [msg EXCEPT ![m].status = "deleted"]}
    BY <1>1, CurrentTyped DEF Ack, AckRaises
  <1>3. QED
    BY <1>1, <1>2, DeleteKeeps, QuietStep

\* A worker takes up a message of an obliged request: its body is one Module B stops.
LEMMA ProcessStep ==
    ASSUME TypeInv, GateInv, NEW w \in Workers, Process(w)
    PROVE  Grows /\ \A r \in HardStopRequests : HardStopInv(r)'
  <1> DEFINE m == Current(w).message
             q == RidOf[m]
             v == [ckpt[q].vals EXCEPT !.request = msg[m].body]
  <1>1. /\ worker[w].pc = "handle"
        /\ UNCHANGED <<msg, api, audit, notified, posted>>
    BY DEF Process
  <1>2. Grows
    BY <1>1, QuietGrows DEF MsgKept
  <1>3. /\ m \in Messages /\ q \in Requests /\ w \in Actors
        /\ msg[m].status # "new"
    BY <1>1, CurrentTyped, ServiceAssumption DEF Actors
  <1>4. CASE msg[m].body = None
    BY <1>1, <1>4, QuietStep DEF Process, MsgKept
  <1>5. CASE msg[m].body # None
    <2>1. /\ run' = [run EXCEPT ![w] = [rid |-> q, node |-> "entry", vals |-> v]]
          /\ ckpt' = [ckpt EXCEPT ![q] = [next |-> "entry", vals |-> v]]
      BY <1>5 DEF Process
    <2>2. v.request = msg[m].body
      BY <1>3 DEF TypeInv, TypeOK, Checkpoint, WorkflowState
    <2>3. ASSUME NEW r \in HardStopRequests PROVE HardStopInv(r)'
      <3>1. r \in Requests /\ HardStopInv(r)
        BY DEF GateInv, HardStopRequests
      <3>2. Kept(r)
        BY <1>2, <3>1, GrowsKept
      <3>3. q = r => v.request \in HardStopBodies
        BY <1>3, <2>2 DEF HardStopRequests
      <3> HIDE DEF m, q, v
      <3>4. CheckpointOnPath(r)'
        <4>1. CASE q = r
          <5>1. ckpt'[r].next = "entry" /\ ckpt'[r].vals = v
            BY <1>3, <2>1, <4>1 DEF TypeInv, TypeOK
          <5>2. QED
            BY <3>3, <4>1, <5>1 DEF CheckpointOnPath, OnPath, HardStopNodes
        <4>2. CASE q # r
          <5>1. ckpt'[r] = ckpt[r]
            BY <2>1, <3>1, <4>2 DEF TypeInv, TypeOK
          <5>2. QED
            BY <3>1, <3>2, <5>1, CheckpointFrame DEF HardStopInv
        <4>3. QED
          BY <4>1, <4>2
      <3>5. ASSUME NEW a \in Actors PROVE RunOnPath(r, a)'
        <4>1. CASE a = w
          <5>1. run'[a].rid = q /\ run'[a].node = "entry" /\ run'[a].vals = v
            BY <2>1, <4>1 DEF TypeInv, TypeOK
          <5>2. QED
            BY <3>3, <5>1 DEF RunOnPath, OnPath, HardStopNodes
        <4>2. CASE a # w
          <5>1. run'[a] = run[a]
            BY <2>1, <4>2 DEF TypeInv, TypeOK
          <5>2. QED
            BY <3>1, <3>2, <5>1, RunFrame DEF HardStopInv
        <4>3. QED
          BY <4>1, <4>2
      <3>6. \A a \in Approvers : CallPosted(r, a)'
        BY <1>1, <3>1, <3>2, CallFrame DEF HardStopInv
      <3>7. Logged(r, "WORKFLOW_COMPLETED")' => Settled(r)'
        BY <1>1, <3>1, <3>2, SettledFrame DEF HardStopInv, Logged
      <3>8. QED
        BY <3>4, <3>5, <3>6, <3>7 DEF HardStopInv
    <2>4. QED
      BY <1>2, <2>3
  <1>6. QED
    BY <1>4, <1>5

----------------------------------------------------------------------------
(* A step of a run.                                                        *)

\* The entries a step of the run on r appends are those of log.
Appends(r, log) ==
    /\ Extends(audit'[r], audit[r])
    /\ \A event : (\E i \in DOMAIN audit'[r] : audit'[r][i].event = event) <=>
           Logged(r, event) \/ \E i \in DOMAIN log : log[i].event = event

LEMMA AppendsLog ==
    ASSUME TypeInv, NEW r \in Requests, NEW mid \in Seq(AuditEntry), NEW log \in Seq(AuditEntry),
           Len(mid) = Len(audit[r]),
           \A j \in 1..Len(audit[r]) : mid[j].event = audit[r][j].event,
           audit' = [audit EXCEPT ![r] = mid \o log]
    PROVE  Appends(r, log)
  <1>1. audit[r] \in Seq(AuditEntry) /\ audit'[r] = mid \o log
    BY DEF TypeInv, TypeOK
  <1>2. Extends(audit'[r], audit[r])
    BY <1>1, AppendExtends
  <1>3. ASSUME NEW event
        PROVE  (\E i \in DOMAIN audit'[r] : audit'[r][i].event = event) <=>
                  Logged(r, event) \/ \E i \in DOMAIN log : log[i].event = event
    <2> DEFINE new == audit'[r]
               old == audit[r]
    <2>1. /\ old \in Seq(AuditEntry) /\ new = mid \o log /\ Len(mid) = Len(old)
          /\ \A j \in 1..Len(old) : mid[j].event = old[j].event
      BY <1>1
    <2> HIDE DEF new, old
    <2>2. \A i \in DOMAIN old : i \in DOMAIN new /\ new[i].event = old[i].event
      BY <2>1
    <2>3. \A i \in DOMAIN log : Len(mid) + i \in DOMAIN new /\ new[Len(mid) + i] = log[i]
      BY <2>1
    <2>4. ASSUME NEW i \in DOMAIN new, i \notin DOMAIN old
          PROVE  i - Len(mid) \in DOMAIN log /\ new[i] = log[i - Len(mid)]
      BY <2>1, <2>4
    <2>5. (\E i \in DOMAIN new : new[i].event = event)
             <=> \/ \E i \in DOMAIN old : old[i].event = event
                 \/ \E i \in DOMAIN log : log[i].event = event
      BY <2>2, <2>3, <2>4
    <2>6. QED
      BY <2>5, Zenon DEF Logged, new, old
  <1>4. QED
    BY <1>2, <1>3 DEF Appends

\* What Step(a) does when its node has outcome o, in terms of the invariant.
Effect(a, o) ==
    LET r  == run[a].rid
        n  == run[a].node
        nx == NextNode(n, o.vals)
    IN  /\ r \in Requests /\ n \in Nodes /\ run[a].vals \in WorkflowState
        /\ \E id \in Nat : o \in RunNode(n, run[a].vals, id)
        /\ o.vals \in WorkflowState
        /\ Appends(r, o.log)
        /\ notified'[r] = IF o.notify THEN notified[r] \cup {o.vals.final.agent}
                          ELSE notified[r]
        /\ ckpt'[r].next = nx /\ ckpt'[r].vals = o.vals
        /\ \A q \in Requests \ {r} : /\ audit'[q] = audit[q]
                                     /\ notified'[q] = notified[q]
                                     /\ ckpt'[q] = ckpt[q]
        /\ IF nx = "end" \/ n \in InterruptAfter
           THEN run'[a].node = "none"
           ELSE run'[a].rid = r /\ run'[a].node = nx /\ run'[a].vals = o.vals
        /\ \A b \in Actors \ {a} : run'[b] = run[b]
        /\ \A b \in Approvers : api'[b] = api[b] \/ api'[b].pc = "done"
        /\ UNCHANGED <<msg, posted>>

LEMMA StepEffect ==
    ASSUME TypeInv, NEW a \in Actors, Step(a)
    PROVE  \E o : Effect(a, o)
  <1> DEFINE r == run[a].rid
             n == run[a].node
             v == run[a].vals
             trail == Stamp(audit[r], Provenance(n, v), v.approval)
  <1>1. n # "none" /\ UNCHANGED <<msg, posted, mishaps>>
    BY DEF Step
  <1>2. r \in Requests /\ n \in Nodes /\ v \in WorkflowState /\ v.request \in Payloads
    BY <1>1 DEF TypeInv, TypeOK, Wired, RunWired, GraphRun
  <1>3. PICK o \in RunNode(n, v, Len(trail) + 1) :
          LET nx == NextNode(n, o.vals) IN
          /\ audit' = [audit EXCEPT ![r] = trail \o o.log]
          /\ notified' = [notified EXCEPT ![r] =
                             IF o.notify THEN @ \cup {o.vals.final.agent} ELSE @]
          /\ ckpt' = [ckpt EXCEPT ![r] = [next |-> nx, vals |-> o.vals]]
          /\ IF nx = "end" \/ n \in InterruptAfter
             THEN /\ run' = [run EXCEPT ![a] = NoRun]
                  /\ Return(a)
             ELSE /\ run' = [run EXCEPT ![a] = [@ EXCEPT !.node = nx, !.vals = o.vals]]
                  /\ UNCHANGED <<worker, api>>
    BY Zenon DEF Step
  <1> DEFINE nx == NextNode(n, o.vals)
             told == IF o.notify THEN notified[r] \cup {o.vals.final.agent} ELSE notified[r]
  <1>4. /\ trail \in Seq(AuditEntry) /\ Len(trail) = Len(audit[r])
        /\ \A j \in 1..Len(audit[r]) : trail[j].event = audit[r][j].event
    <2>1. audit[r] \in Seq(AuditEntry)
      BY <1>2 DEF TypeInv, TypeOK
    <2>2. Provenance(n, v) \in Nat /\ v.approval \in Approvers \cup {None}
      BY <1>2, ProvenanceTyped
    <2> HIDE DEF r, n, v
    <2>3. QED
      BY <2>1, <2>2, StampTyped, Zenon
  <1>5. audit' = [audit EXCEPT ![r] = trail \o o.log]
    BY <1>3
  <1>6. notified' = [notified EXCEPT ![r] = told]
    BY <1>3
  <1>7. ckpt' = [ckpt EXCEPT ![r] = [next |-> nx, vals |-> o.vals]]
    BY <1>3
  <1>8. IF nx = "end" \/ n \in InterruptAfter
        THEN run' = [run EXCEPT ![a] = NoRun] /\ Return(a)
        ELSE /\ run' = [run EXCEPT ![a] = [@ EXCEPT !.node = nx, !.vals = o.vals]]
             /\ UNCHANGED <<worker, api>>
    BY <1>3
  <1> HIDE DEF trail
  <1>9. Len(trail) + 1 \in Nat
    BY <1>4
  <1>10. Typed(o)
    BY <1>2, <1>9, NodeTyped
  <1>11. Appends(r, o.log)
    <2>1. o.log \in Seq(AuditEntry)
      BY <1>10 DEF Typed
    <2> HIDE DEF r, n, v
    <2>2. QED
      BY <1>2, <1>4, <1>5, <2>1, AppendsLog
  <1>12. \A b \in Approvers : api'[b] = api[b] \/ api'[b].pc = "done"
    <2>1. CASE UNCHANGED <<worker, api>>
      BY <2>1
    <2>2. CASE Return(a)
      BY <2>2 DEF Return, TypeInv, TypeOK, ApprovalCall
    <2>3. QED
      BY <1>8, <2>1, <2>2
  <1>13. IF nx = "end" \/ n \in InterruptAfter
         THEN run'[a].node = "none"
         ELSE run'[a].rid = r /\ run'[a].node = nx /\ run'[a].vals = o.vals
    <2>1. CASE nx = "end" \/ n \in InterruptAfter
      BY <1>8, <2>1 DEF TypeInv, TypeOK, NoRun
    <2>2. CASE ~(nx = "end" \/ n \in InterruptAfter)
      <3> DEFINE g == [run[a] EXCEPT !.node = nx, !.vals = o.vals]
      <3>1. run'[a] = g
        BY <1>8, <2>2 DEF TypeInv, TypeOK
      <3> HIDE DEF nx
      <3>2. g.rid = r /\ g.node = nx /\ g.vals = o.vals
        BY DEF TypeInv, TypeOK, GraphRun
      <3>3. QED
        BY <2>2, <3>1, <3>2
    <2>3. QED
      BY <2>1, <2>2
  <1>14. \A b \in Actors \ {a} : run'[b] = run[b]
    BY <1>8 DEF TypeInv, TypeOK
  <1>15. /\ notified'[r] = told
         /\ ckpt'[r].next = nx /\ ckpt'[r].vals = o.vals
         /\ \A q \in Requests \ {r} : /\ audit'[q] = audit[q]
                                      /\ notified'[q] = notified[q]
                                      /\ ckpt'[q] = ckpt[q]
    BY <1>2, <1>5, <1>6, <1>7 DEF TypeInv, TypeOK
  <1>16. o.vals \in WorkflowState
    BY <1>10 DEF Typed
  <1>17. \E id \in Nat : o \in RunNode(n, v, id)
    BY <1>9
  <1>18. Effect(a, o)
    BY <1>1, <1>2, <1>11, <1>12, <1>13, <1>14, <1>15, <1>16, <1>17, Zenon DEF Effect
  <1>19. QED
    BY <1>18

LEMMA EffectGrows ==
    ASSUME TypeInv, NEW a \in Actors, NEW o, Effect(a, o)
    PROVE  Grows
  <1>1. \A q \in Requests : notified[q] \subseteq notified'[q]
    BY DEF Effect
  <1>2. \A q \in Requests : Extends(audit'[q], audit[q])
    BY DEF Effect, Appends, Extends
  <1>3. QED
    BY <1>1, <1>2 DEF Grows, Effect

\* A step of a run on an obliged request keeps to the path: dispatch goes to
\* er_compliance or the gate, er_compliance informs the approver, the gate parks, and
\* only a run that was resumed by an approval is at finalize.
LEMMA StepStep ==
    ASSUME TypeInv, GateInv, NEW a \in Actors, Step(a)
    PROVE  Grows /\ \A r \in HardStopRequests : HardStopInv(r)'
  <1>1. PICK o : Effect(a, o)
    BY StepEffect
  <1>2. Grows
    BY <1>1, EffectGrows
  <1>3. ASSUME NEW r \in HardStopRequests PROVE HardStopInv(r)'
    <2> DEFINE n == run[a].node
               v == run[a].vals
    <2>0. PICK nx : nx = NextNode(n, o.vals)
      OBVIOUS
    <2>1. r \in Requests /\ HardStopInv(r)
      BY DEF GateInv, HardStopRequests
    <2>2. Kept(r)
      BY <1>2, <2>1, GrowsKept
    <2>3. \A b \in Approvers : CallPosted(r, b)'
      <3>1. \A b \in Approvers : api'[b] = api[b] \/ api'[b].pc = "done"
        BY <1>1 DEF Effect
      <3>2. ASSUME NEW b \in Approvers PROVE CallPosted(r, b)'
        <4>1. CallPosted(r, b)
          BY <2>1 DEF HardStopInv
        <4>2. QED
          BY <2>2, <3>1, <4>1, CallFrame
      <3>3. QED
        BY <3>2
    <2>4. CASE run[a].rid # r
      <3>1. audit'[r] = audit[r] /\ ckpt'[r] = ckpt[r]
        BY <1>1, <2>1, <2>4 DEF Effect
      <3>2. CheckpointOnPath(r)'
        BY <2>1, <2>2, <3>1, CheckpointFrame DEF HardStopInv
      <3>3. ASSUME NEW b \in Actors PROVE RunOnPath(r, b)'
        <4>1. CASE b = a
          <5>1. run'[a].node = "none" \/ run'[a].rid # r
            BY <1>1, <2>4 DEF Effect
          <5>2. QED
            BY <4>1, <5>1 DEF RunOnPath
        <4>2. CASE b # a
          BY <1>1, <2>1, <2>2, <4>2, RunFrame DEF Effect, HardStopInv
        <4>3. QED
          BY <4>1, <4>2
      <3>4. Logged(r, "WORKFLOW_COMPLETED")' => Settled(r)'
        BY <2>1, <2>2, <3>1, SettledFrame DEF HardStopInv, Logged
      <3>5. QED
        BY <2>3, <3>2, <3>3, <3>4 DEF HardStopInv
    <2>5. CASE run[a].rid = r
      <3>1. n # "none"
        BY DEF Step
      <3>2. OnPath(r, n, v) /\ (n = "finalize" => posted[r] # {})
        BY <2>1, <2>5, <3>1 DEF HardStopInv, RunOnPath
      <3>3. n \in Nodes /\ v \in WorkflowState /\ n \in HardStopNodes \ {"end"}
        BY <1>1, <3>2 DEF Effect, OnPath, Nodes, SimpleAgents, Domains, HardStopNodes
      <3>4. PICK id \in Nat : o \in RunNode(n, v, id)
        BY <1>1 DEF Effect
      <3>5. /\ v.request \in HardStopBodies
            /\ n \in {"dispatch", "er_compliance", "hitl_gate"} => ~v.error
            /\ n = "dispatch" /\ ~v.hitl => v.pending # <<>> /\ Head(v.pending) = "ER"
        BY <3>2 DEF OnPath
      <3> HIDE DEF n, v
      <3>6. /\ o.vals.request = v.request
            /\ n = "entry" => /\ nx = "dispatch" /\ ~o.vals.error /\ ~o.vals.hitl
                              /\ o.vals.pending # <<>> /\ Head(o.vals.pending) = "ER"
            /\ n = "dispatch" => /\ o.vals = v
                                 /\ nx = IF v.hitl THEN "hitl_gate" ELSE "er_compliance"
            /\ n = "er_compliance" => /\ nx = "dispatch" /\ ~o.vals.error /\ o.vals.hitl
                                      /\ o.notify /\ o.vals.final.agent = "ER"
            /\ n = "hitl_gate" => /\ nx = "finalize"
                                  /\ o.log = <<Entry("HITL_PENDING", v.final.agent)>>
            /\ n = "finalize" => nx = "end"
        BY <2>0, <3>3, <3>4, <3>5, HardStopNode
      <3>7. o.notify /\ o.vals.final.agent = "ER" => "ER" \in notified'[r]
        BY <1>1, <2>5 DEF Effect
      <3>8. n = "hitl_gate" => Logged(r, "HITL_PENDING")'
        <4>1. Logged(r, "HITL_PENDING")' <=>
                 \/ Logged(r, "HITL_PENDING")
                 \/ \E i \in DOMAIN o.log : o.log[i].event = "HITL_PENDING"
          <5>1. Appends(r, o.log)
            BY <1>1, <2>5 DEF Effect
          <5>2. QED
            BY <5>1 DEF Appends, Logged
        <4>2. n = "hitl_gate" => 1 \in DOMAIN o.log /\ o.log[1].event = "HITL_PENDING"
          BY <3>6 DEF Entry
        <4>3. QED
          BY <4>1, <4>2, Zenon
      <3>9. OnPath(r, nx, o.vals)'
        <4>1. CASE n = "entry"
          BY <3>5, <3>6, <4>1 DEF OnPath, HardStopNodes
        <4>2. CASE n = "dispatch"
          BY <2>2, <3>2, <3>5, <3>6, <4>2 DEF OnPath, HardStopNodes, Kept
        <4>3. CASE n = "er_compliance"
          BY <3>5, <3>6, <3>7, <4>3 DEF OnPath, HardStopNodes
        <4>4. CASE n = "hitl_gate"
          BY <2>2, <3>2, <3>5, <3>6, <3>8, <4>4 DEF OnPath, HardStopNodes, Kept
        <4>5. CASE n = "finalize"
          BY <2>2, <3>2, <3>5, <3>6, <4>5 DEF OnPath, HardStopNodes, Kept
        <4>6. QED
          BY <3>3, <4>1, <4>2, <4>3, <4>4, <4>5 DEF HardStopNodes
      <3>10. ckpt'[r].next = nx /\ ckpt'[r].vals = o.vals
        BY <1>1, <2>0, <2>5 DEF Effect, n
      <3>11. CheckpointOnPath(r)'
        BY <3>9, <3>10 DEF CheckpointOnPath, OnPath
      <3>12. ASSUME NEW b \in Actors PROVE RunOnPath(r, b)'
        <4>1. CASE b = a
          <5>1. CASE nx = "end" \/ n \in InterruptAfter
            <6>1. run'[a].node = "none"
              BY <1>1, <2>0, <5>1 DEF Effect, n
            <6>2. QED
              BY <4>1, <6>1 DEF RunOnPath
          <5>2. CASE ~(nx = "end" \/ n \in InterruptAfter)
            <6>1. run'[a].node = nx /\ run'[a].vals = o.vals
              BY <1>1, <2>0, <5>2 DEF Effect, n
            <6>2. nx # "finalize"
              BY <3>3, <3>6, <5>2 DEF InterruptAfter, HardStopNodes
            <6>3. QED
              BY <3>9, <4>1, <6>1, <6>2 DEF RunOnPath, OnPath
          <5>3. QED
            BY <5>1, <5>2
        <4>2. CASE b # a
          BY <1>1, <2>1, <2>2, <4>2, RunFrame DEF Effect, HardStopInv
        <4>3. QED
          BY <4>1, <4>2
      <3>13. Logged(r, "WORKFLOW_COMPLETED")' => Settled(r)'
        <4>1. Logged(r, "WORKFLOW_COMPLETED")' <=>
                 \/ Logged(r, "WORKFLOW_COMPLETED")
                 \/ \E i \in DOMAIN o.log : o.log[i].event = "WORKFLOW_COMPLETED"
          <5>1. Appends(r, o.log)
            BY <1>1, <2>5 DEF Effect
          <5>2. QED
            BY <5>1 DEF Appends, Logged
        <4>2. n # "finalize" =>
                 \A i \in DOMAIN o.log : o.log[i].event # "WORKFLOW_COMPLETED"
          BY <3>3, <3>4, NodeLog
        <4>3. n = "finalize" => Settled(r)
          BY <3>2 DEF OnPath, Settled
        <4>4. Logged(r, "WORKFLOW_COMPLETED") => Settled(r)
          BY <2>1 DEF HardStopInv
        <4>5. Logged(r, "WORKFLOW_COMPLETED")' => Settled(r)
          BY <4>1, <4>2, <4>3, <4>4, Zenon
        <4>6. QED
          BY <2>2, <4>5, SettledFrame
      <3>14. QED
        BY <2>3, <3>11, <3>12, <3>13 DEF HardStopInv
    <2>6. QED
      BY <2>4, <2>5
  <1>4. QED
    BY <1>2, <1>3

----------------------------------------------------------------------------
(* A step that raises, and one whose body the node's agent rejects.        *)

\* Entries log that node n may have appended: HITL_PENDING only from the gate,
\* WORKFLOW_COMPLETED only from finalize.
LogOf(n, log) ==
    /\ n # "hitl_gate" => \A i \in DOMAIN log : log[i].event # "HITL_PENDING"
    /\ n # "finalize" => \A i \in DOMAIN log : log[i].event # "WORKFLOW_COMPLETED"

Failure(a) ==
    LET r == run[a].rid
        n == run[a].node
    IN  /\ r \in Requests /\ n \in Nodes
        /\ \E log : Appends(r, log) /\ LogOf(n, log)
        /\ notified[r] \subseteq notified'[r]
        /\ "ER" \in notified'[r] => "ER" \in notified[r] \/ n = "er_compliance"
        /\ \A q \in Requests \ {r} : audit'[q] = audit[q] /\ notified'[q] = notified[q]
        /\ run'[a].node = "none"
        /\ \A b \in Actors \ {a} : run'[b] = run[b]
        /\ \A b \in Approvers : api'[b] = api[b] \/ api'[b].pc = "failed"
        /\ UNCHANGED <<msg, ckpt, posted>>

LEMMA RaiseActors ==
    ASSUME TypeInv, NEW a \in Actors, Raise(a)
    PROVE  /\ run'[a].node = "none"
           /\ \A b \in Actors \ {a} : run'[b] = run[b]
           /\ \A b \in Approvers : api'[b] = api[b] \/ api'[b].pc = "failed"
  <1>1. run'[a].node = "none" /\ \A b \in Actors \ {a} : run'[b] = run[b]
    BY DEF Raise, TypeInv, TypeOK, NoRun
  <1>2. \A b \in Approvers : api'[b] = api[b] \/ api'[b].pc = "failed"
    BY DEF Raise, TypeInv, TypeOK, ApprovalCall
  <1>3. QED
    BY <1>1, <1>2

\* Appending a log, after the stamp or not, to the trail of r alone.
LEMMA FailureLog ==
    ASSUME TypeInv, NEW r \in Requests, NEW n \in Nodes,
           NEW mid \in Seq(AuditEntry), NEW log \in Seq(AuditEntry), LogOf(n, log),
           Len(mid) = Len(audit[r]),
           \A j \in 1..Len(audit[r]) : mid[j].event = audit[r][j].event,
           audit' = [audit EXCEPT ![r] = mid \o log]
    PROVE  /\ \E l : Appends(r, l) /\ LogOf(n, l)
           /\ \A q \in Requests \ {r} : audit'[q] = audit[q]
  <1>1. Appends(r, log)
    BY AppendsLog
  <1>2. \A q \in Requests \ {r} : audit'[q] = audit[q]
    BY DEF TypeInv, TypeOK
  <1>3. QED
    BY <1>1, <1>2

LEMMA ErrorLogOf ==
    ASSUME NEW n \in Nodes, NEW log \in ErrorLogs(n)
    PROVE  log \in Seq(AuditEntry) /\ LogOf(n, log)
  BY ErrorLogsTyped, ErrorLogEvents DEF LogOf

LEMMA StepRejectsFails ==
    ASSUME TypeInv, NEW a \in Actors, StepRejects(a)
    PROVE  Failure(a)
  <1>1. /\ run[a].node # "none" /\ Raise(a)
        /\ audit' = [audit EXCEPT ![run[a].rid] = @ \o RejectLog(run[a].node)]
        /\ UNCHANGED <<msg, ckpt, notified, posted>>
    BY DEF StepRejects
  <1>2. PICK r \in Requests, n \in Nodes : r = run[a].rid /\ n = run[a].node
    BY <1>1 DEF TypeInv, TypeOK, Wired, RunWired, GraphRun
  <1>3. audit[r] \in Seq(AuditEntry) /\ audit' = [audit EXCEPT ![r] = audit[r] \o RejectLog(n)]
    BY <1>1, <1>2 DEF TypeInv, TypeOK
  <1>4. /\ \E l : Appends(r, l) /\ LogOf(n, l)
        /\ \A q \in Requests \ {r} : audit'[q] = audit[q]
    BY <1>3, ErrorLogOf, FailureLog DEF ErrorLogs
  <1>5. QED
    BY <1>1, <1>2, <1>4, RaiseActors DEF Failure

LEMMA StepRaisesFails ==
    ASSUME TypeInv, NEW a \in Actors, StepRaises(a)
    PROVE  Failure(a)
  <1> DEFINE r == run[a].rid
             n == run[a].node
             v == run[a].vals
             stamped == Stamp(audit[r], Provenance(n, v), v.approval)
  <1>1. n # "none" /\ Raise(a) /\ UNCHANGED <<msg, ckpt, posted>>
    BY Zenon DEF StepRaises
  <1>2. r \in Requests /\ n \in Nodes /\ v \in WorkflowState /\ v.request \in Payloads
    BY <1>1 DEF TypeInv, TypeOK, Wired, RunWired, GraphRun
  <1>3. \/ UNCHANGED <<audit, notified>>
        \/ /\ \E log \in ErrorLogs(n) : audit' = [audit EXCEPT ![r] = @ \o log]
           /\ UNCHANGED notified
        \/ \E o \in RunNode(n, v, Len(audit[r]) + 1) : \E k \in 0..Len(o.log) :
             \E sent \in {FALSE, o.notify /\ k = Len(o.log)} :
               /\ audit' = [audit EXCEPT ![r] = stamped \o SubSeq(o.log, 1, k)]
               /\ notified' = [notified EXCEPT ![r] =
                                  IF sent THEN @ \cup {o.vals.final.agent} ELSE @]
    BY Zenon DEF StepRaises
  <1>4. /\ audit[r] \in Seq(AuditEntry) /\ Len(audit[r]) + 1 \in Nat
        /\ stamped \in Seq(AuditEntry) /\ Len(stamped) = Len(audit[r])
        /\ \A j \in 1..Len(audit[r]) : stamped[j].event = audit[r][j].event
    <2>1. audit[r] \in Seq(AuditEntry) /\ Len(audit[r]) + 1 \in Nat
      BY <1>2 DEF TypeInv, TypeOK
    <2>2. Provenance(n, v) \in Nat /\ v.approval \in Approvers \cup {None}
      BY <1>2, ProvenanceTyped
    <2> HIDE DEF r, n, v
    <2>3. QED
      BY <2>1, <2>2, StampTyped, Zenon
  <1> HIDE DEF r, n, v, stamped
  <1>5. /\ \E l : Appends(r, l) /\ LogOf(n, l)
        /\ \A q \in Requests \ {r} : audit'[q] = audit[q] /\ notified'[q] = notified[q]
        /\ notified[r] \subseteq notified'[r]
        /\ "ER" \in notified'[r] => "ER" \in notified[r] \/ n = "er_compliance"
    <2>1. CASE UNCHANGED <<audit, notified>>
      <3>1. <<>> \in Seq(AuditEntry) /\ LogOf(n, <<>>)
        BY DEF LogOf
      <3>2. audit' = [audit EXCEPT ![r] = audit[r] \o <<>>]
        BY <1>4, <2>1 DEF TypeInv, TypeOK
      <3>3. QED
        BY <1>2, <1>4, <2>1, <3>1, <3>2, FailureLog
    <2>2. ASSUME NEW log \in ErrorLogs(n), audit' = [audit EXCEPT ![r] = @ \o log],
                 UNCHANGED notified
          PROVE  /\ \E l : Appends(r, l) /\ LogOf(n, l)
                 /\ \A q \in Requests \ {r} :
                       audit'[q] = audit[q] /\ notified'[q] = notified[q]
                 /\ notified[r] \subseteq notified'[r]
                 /\ "ER" \in notified'[r] => "ER" \in notified[r] \/ n = "er_compliance"
      BY <1>2, <1>4, <2>2, ErrorLogOf, FailureLog
    <2>3. ASSUME NEW o \in RunNode(n, v, Len(audit[r]) + 1), NEW k \in 0..Len(o.log),
                 NEW sent \in {FALSE, o.notify /\ k = Len(o.log)},
                 audit' = [audit EXCEPT ![r] = stamped \o SubSeq(o.log, 1, k)],
                 notified' = [notified EXCEPT ![r] =
                                 IF sent THEN @ \cup {o.vals.final.agent} ELSE @]
          PROVE  /\ \E l : Appends(r, l) /\ LogOf(n, l)
                 /\ \A q \in Requests \ {r} :
                       audit'[q] = audit[q] /\ notified'[q] = notified[q]
                 /\ notified[r] \subseteq notified'[r]
                 /\ "ER" \in notified'[r] => "ER" \in notified[r] \/ n = "er_compliance"
      <3>1. Typed(o)
        BY <1>2, <1>4, NodeTyped
      <3>2. LogOf(n, o.log) /\ (o.notify /\ o.vals.final.agent = "ER" => n = "er_compliance")
        BY <1>2, NodeLog DEF LogOf
      <3>3. SubSeq(o.log, 1, k) \in Seq(AuditEntry) /\ LogOf(n, SubSeq(o.log, 1, k))
        <4>1. /\ SubSeq(o.log, 1, k) \in Seq(AuditEntry)
              /\ \A i \in DOMAIN SubSeq(o.log, 1, k) :
                    i \in DOMAIN o.log /\ SubSeq(o.log, 1, k)[i] = o.log[i]
          BY <3>1 DEF Typed
        <4>2. QED
          BY <3>2, <4>1 DEF LogOf
      <3>4. /\ \E l : Appends(r, l) /\ LogOf(n, l)
            /\ \A q \in Requests \ {r} : audit'[q] = audit[q]
        BY <1>2, <1>4, <2>3, <3>3, FailureLog
      <3>5. /\ \A q \in Requests \ {r} : notified'[q] = notified[q]
            /\ notified'[r] = IF sent THEN notified[r] \cup {o.vals.final.agent}
                              ELSE notified[r]
        BY <1>2, <2>3 DEF TypeInv, TypeOK
      <3>6. sent => o.notify
        BY Zenon
      <3>7. QED
        BY <3>2, <3>4, <3>5, <3>6
    <2>4. QED
      BY <1>3, <2>1, <2>2, <2>3, Zenon
  <1>6. QED
    BY <1>1, <1>2, <1>5, RaiseActors DEF Failure, r, n

\* A step that fails leaves the checkpoint on the path, and logs a completion only where
\* a step that succeeds would have.
LEMMA FailureStep ==
    ASSUME TypeInv, GateInv, NEW a \in Actors, Failure(a)
    PROVE  Grows /\ \A r \in HardStopRequests : HardStopInv(r)'
  <1>1. Grows
    <2>1. \A q \in Requests : notified[q] \subseteq notified'[q]
      BY DEF Failure
    <2>2. \A q \in Requests : Extends(audit'[q], audit[q])
      BY DEF Failure, Appends, Extends
    <2>3. QED
      BY <2>1, <2>2 DEF Grows, Failure
  <1>2. ASSUME NEW r \in HardStopRequests PROVE HardStopInv(r)'
    <2>1. r \in Requests /\ HardStopInv(r)
      BY DEF GateInv, HardStopRequests
    <2>2. Kept(r)
      BY <1>1, <2>1, GrowsKept
    <2>3. CheckpointOnPath(r)'
      BY <2>1, <2>2, CheckpointFrame DEF Failure, HardStopInv
    <2>4. ASSUME NEW b \in Actors PROVE RunOnPath(r, b)'
      <3>1. run'[b] = run[b] \/ run'[b].node = "none"
        BY DEF Failure
      <3>2. QED
        BY <2>1, <2>2, <3>1, RunFrame DEF HardStopInv
    <2>5. ASSUME NEW b \in Approvers PROVE CallPosted(r, b)'
      <3>1. api'[b] = api[b] \/ api'[b].pc = "failed"
        BY DEF Failure
      <3>2. QED
        BY <2>1, <2>2, <3>1, CallFrame DEF HardStopInv
    <2>6. Logged(r, "WORKFLOW_COMPLETED")' => Settled(r)
      <3>1. CASE run[a].rid # r
        BY <2>1, <3>1 DEF Failure, HardStopInv, Logged
      <3>2. CASE run[a].rid = r
        <4>1. PICK log : Appends(r, log) /\ LogOf(run[a].node, log)
          BY <3>2 DEF Failure
        <4>2. Logged(r, "WORKFLOW_COMPLETED")' <=>
                 \/ Logged(r, "WORKFLOW_COMPLETED")
                 \/ \E i \in DOMAIN log : log[i].event = "WORKFLOW_COMPLETED"
          BY <4>1 DEF Appends, Logged
        <4>3. run[a].node # "finalize" =>
                 \A i \in DOMAIN log : log[i].event # "WORKFLOW_COMPLETED"
          BY <4>1 DEF LogOf
        <4>4. run[a].node = "finalize" => Settled(r)
          BY <2>1, <3>2 DEF HardStopInv, RunOnPath, OnPath, Settled
        <4>5. Logged(r, "WORKFLOW_COMPLETED") => Settled(r)
          BY <2>1 DEF HardStopInv
        <4>6. QED
          BY <4>2, <4>3, <4>4, <4>5, Zenon
      <3>3. QED
        BY <3>1, <3>2
    <2>7. QED
      BY <2>2, <2>3, <2>4, <2>5, <2>6, SettledFrame DEF HardStopInv
  <1>3. QED
    BY <1>1, <1>2

----------------------------------------------------------------------------
(* Approval calls and restarts.                                            *)

LEMMA ApproveCheckStep ==
    ASSUME TypeInv, GateInv, NEW a \in Approvers, NEW q \in Requests, ApproveCheck(a, q)
    PROVE  Grows /\ \A r \in HardStopRequests : HardStopInv(r)'
  <1>1. UNCHANGED <<msg, worker, run, ckpt, audit, notified, posted, mishaps>>
        /\ api' = [api EXCEPT ![a] = [pc |-> "checked", rid |-> q]]
    BY DEF ApproveCheck
  <1>2. Grows
    BY <1>1, QuietGrows DEF MsgKept
  <1>3. ASSUME NEW r \in HardStopRequests PROVE HardStopInv(r)'
    <2>1. r \in Requests /\ HardStopInv(r)
      BY DEF GateInv, HardStopRequests
    <2>2. Kept(r)
      BY <1>2, <2>1, GrowsKept
    <2>3. CheckpointOnPath(r)'
      BY <1>1, <2>1, <2>2, CheckpointFrame DEF HardStopInv
    <2>4. \A b \in Actors : RunOnPath(r, b)'
      BY <1>1, <2>1, <2>2, RunFrame DEF HardStopInv
    <2>5. ASSUME NEW b \in Approvers PROVE CallPosted(r, b)'
      <3>1. api'[b] = api[b] \/ api'[b].pc = "checked"
        BY <1>1 DEF TypeInv, TypeOK
      <3>2. QED
        BY <2>1, <2>2, <3>1, CallFrame DEF HardStopInv
    <2>6. Logged(r, "WORKFLOW_COMPLETED")' => Settled(r)'
      BY <1>1, <2>1, <2>2, SettledFrame DEF HardStopInv, Logged
    <2>7. QED
      BY <2>3, <2>4, <2>5, <2>6 DEF HardStopInv
  <1>4. QED
    BY <1>2, <1>3

LEMMA ApproveUpdateStep ==
    ASSUME TypeInv, GateInv, NEW a \in Approvers, ApproveUpdate(a)
    PROVE  Grows /\ \A r \in HardStopRequests : HardStopInv(r)'
  <1> DEFINE q == api[a].rid
  <1>1. /\ api[a].pc = "checked"
        /\ ckpt' = [ckpt EXCEPT ![q].vals.approval = a]
        /\ posted' = [posted EXCEPT ![q] = @ \cup {a}]
        /\ api' = [api EXCEPT ![a].pc = "updated"]
        /\ UNCHANGED <<msg, worker, run, audit, notified, mishaps>>
    BY DEF ApproveUpdate
  <1>2. q \in Requests
    BY <1>1 DEF TypeInv, Wired, CallWired
  <1>3. /\ \A r \in Requests : posted[r] \subseteq posted'[r]
        /\ posted'[q] # {}
    BY <1>1, <1>2 DEF TypeInv, TypeOK
  <1>4. Grows
    BY <1>1, <1>3, QuietGrows DEF MsgKept
  <1>5. ASSUME NEW r \in HardStopRequests PROVE HardStopInv(r)'
    <2>1. r \in Requests /\ HardStopInv(r)
      BY DEF GateInv, HardStopRequests
    <2>2. Kept(r)
      BY <1>4, <2>1, GrowsKept
    <2>3. CheckpointOnPath(r)'
      <3>1. /\ ckpt'[r].next = ckpt[r].next
            /\ ckpt'[r].vals.request = ckpt[r].vals.request
            /\ ckpt'[r].vals.error = ckpt[r].vals.error
            /\ ckpt'[r].vals.hitl = ckpt[r].vals.hitl
            /\ ckpt'[r].vals.pending = ckpt[r].vals.pending
        <4>1. CASE r # q
          BY <1>1, <2>1, <4>1 DEF TypeInv, TypeOK
        <4>2. CASE r = q
          <5>1. PICK c \in Checkpoint : c = ckpt[r]
            BY <2>1 DEF TypeInv, TypeOK
          <5>2. PICK u \in WorkflowState : u = c.vals
            BY DEF Checkpoint
          <5>3. ckpt'[r] = [c EXCEPT !.vals = [u EXCEPT !.approval = a]]
            BY <1>1, <4>2, <5>1, <5>2, <2>1 DEF TypeInv, TypeOK
          <5>4. [u EXCEPT !.approval = a].request = u.request
            BY DEF WorkflowState
          <5>5. [u EXCEPT !.approval = a].pending = u.pending
            BY DEF WorkflowState
          <5>6. /\ [u EXCEPT !.approval = a].error = u.error
                /\ [u EXCEPT !.approval = a].hitl = u.hitl
            BY Zenon DEF WorkflowState
          <5>7. ASSUME NEW w
                PROVE  /\ [c EXCEPT !.vals = w].next = c.next
                       /\ [c EXCEPT !.vals = w].vals = w
            BY DEF Checkpoint
          <5>8. /\ ckpt'[r].next = c.next
                /\ ckpt'[r].vals = [u EXCEPT !.approval = a]
            BY <5>3, <5>7, Zenon
          <5>9. QED
            BY <5>1, <5>2, <5>4, <5>5, <5>6, <5>8, Zenon
        <4>3. QED
          BY <4>1, <4>2
      <3>2. QED
        BY <2>1, <2>2, <3>1 DEF HardStopInv, CheckpointOnPath, OnPath, Kept
    <2>4. \A b \in Actors : RunOnPath(r, b)'
      BY <1>1, <2>1, <2>2, RunFrame DEF HardStopInv
    <2>5. ASSUME NEW b \in Approvers PROVE CallPosted(r, b)'
      <3>1. CASE b = a
        <4>1. api'[a].rid = q
          BY <1>1 DEF TypeInv, TypeOK, ApprovalCall
        <4>2. QED
          BY <1>3, <3>1, <4>1 DEF CallPosted
      <3>2. CASE b # a
        <4>1. api'[b] = api[b]
          BY <1>1, <3>2 DEF TypeInv, TypeOK
        <4>2. QED
          BY <2>1, <2>2, <4>1, CallFrame DEF HardStopInv
      <3>3. QED
        BY <3>1, <3>2
    <2>6. Logged(r, "WORKFLOW_COMPLETED")' => Settled(r)'
      BY <1>1, <2>1, <2>2, SettledFrame DEF HardStopInv, Logged
    <2>7. QED
      BY <2>3, <2>4, <2>5, <2>6 DEF HardStopInv
  <1>6. QED
    BY <1>4, <1>5

\* The approval call resumes at the checkpoint, after its approval was posted.
LEMMA ApproveInvokeStep ==
    ASSUME TypeInv, GateInv, NEW a \in Approvers, ApproveInvoke(a)
    PROVE  Grows /\ \A r \in HardStopRequests : HardStopInv(r)'
  <1> DEFINE q == api[a].rid
  <1>1. /\ api[a].pc = "updated"
        /\ UNCHANGED <<msg, worker, ckpt, audit, notified, posted, mishaps>>
    BY DEF ApproveInvoke
  <1>2. \/ /\ api' = [api EXCEPT ![a].pc = "done"]
           /\ UNCHANGED run
        \/ /\ api' = [api EXCEPT ![a].pc = "running"]
           /\ run' = [run EXCEPT ![a] = [rid |-> q, node |-> ckpt[q].next,
                                         vals |-> ckpt[q].vals]]
    BY DEF ApproveInvoke
  <1>3. Grows
    BY <1>1, QuietGrows DEF MsgKept
  <1>4. a \in Actors
    BY DEF Actors
  <1>5. ASSUME NEW r \in HardStopRequests PROVE HardStopInv(r)'
    <2>1. r \in Requests /\ HardStopInv(r)
      BY DEF GateInv, HardStopRequests
    <2>2. Kept(r)
      BY <1>3, <2>1, GrowsKept
    <2>3. CheckpointOnPath(r)'
      BY <1>1, <2>1, <2>2, CheckpointFrame DEF HardStopInv
    <2>4. q = r => posted[r] # {}
      BY <1>1, <2>1 DEF HardStopInv, CallPosted
    <2>5. ASSUME NEW b \in Actors PROVE RunOnPath(r, b)'
      <3>1. CASE run'[b] = run[b]
        BY <2>1, <2>2, <3>1, RunFrame DEF HardStopInv
      <3>2. CASE run'[b] # run[b]
        <4>1. /\ run'[b].rid = q /\ run'[b].node = ckpt[q].next
              /\ run'[b].vals = ckpt[q].vals
          BY <1>2, <1>4, <3>2 DEF TypeInv, TypeOK
        <4>2. CheckpointOnPath(r)
          BY <2>1 DEF HardStopInv
        <4>3. QED
          BY <2>2, <2>4, <4>1, <4>2 DEF RunOnPath, CheckpointOnPath, OnPath, Kept
      <3>3. QED
        BY <3>1, <3>2
    <2>6. ASSUME NEW b \in Approvers PROVE CallPosted(r, b)'
      <3>1. CASE b = a
        <4>1. api'[a].rid = q
          BY <1>2 DEF TypeInv, TypeOK, ApprovalCall
        <4>2. QED
          BY <2>2, <2>4, <3>1, <4>1 DEF CallPosted, Kept
      <3>2. CASE b # a
        <4>1. api'[b] = api[b]
          BY <1>2, <3>2 DEF TypeInv, TypeOK
        <4>2. QED
          BY <2>1, <2>2, <4>1, CallFrame DEF HardStopInv
      <3>3. QED
        BY <3>1, <3>2
    <2>7. Logged(r, "WORKFLOW_COMPLETED")' => Settled(r)'
      BY <1>1, <2>1, <2>2, SettledFrame DEF HardStopInv, Logged
    <2>8. QED
      BY <2>3, <2>5, <2>6, <2>7 DEF HardStopInv
  <1>6. QED
    BY <1>3, <1>5

LEMMA RestartStep ==
    ASSUME TypeInv, GateInv, NEW S \in Deployments, Restart(S)
    PROVE  Grows /\ \A r \in HardStopRequests : HardStopInv(r)'
  <1>1. /\ UNCHANGED <<msg, audit, notified, posted>>
        /\ \A a \in Actors : run'[a] = IF a \in S THEN NoRun ELSE run[a]
        /\ \A r \in Requests : ckpt'[r] = ckpt[r] \/ ckpt'[r] = NoCheckpoint
    BY DEF Restart
  <1>2. \A a \in Approvers : api'[a] = api[a] \/ api'[a].pc = "failed"
    BY DEF Restart, TypeInv, TypeOK, ApprovalCall
  <1>3. Grows
    BY <1>1, QuietGrows DEF MsgKept
  <1>4. ASSUME NEW r \in HardStopRequests PROVE HardStopInv(r)'
    <2>1. r \in Requests /\ HardStopInv(r)
      BY DEF GateInv, HardStopRequests
    <2>2. Kept(r)
      BY <1>3, <2>1, GrowsKept
    <2>3. CheckpointOnPath(r)'
      <3>1. CASE ckpt'[r] = ckpt[r]
        BY <2>1, <2>2, <3>1, CheckpointFrame DEF HardStopInv
      <3>2. CASE ckpt'[r] = NoCheckpoint
        BY <3>2 DEF CheckpointOnPath, NoCheckpoint
      <3>3. QED
        BY <1>1, <2>1, <3>1, <3>2
    <2>4. ASSUME NEW b \in Actors PROVE RunOnPath(r, b)'
      <3>1. run'[b] = run[b] \/ run'[b].node = "none"
        BY <1>1 DEF NoRun
      <3>2. QED
        BY <2>1, <2>2, <3>1, RunFrame DEF HardStopInv
    <2>5. ASSUME NEW b \in Approvers PROVE CallPosted(r, b)'
      BY <1>2, <2>1, <2>2, CallFrame DEF HardStopInv
    <2>6. Logged(r, "WORKFLOW_COMPLETED")' => Settled(r)'
      BY <1>1, <2>1, <2>2, SettledFrame DEF HardStopInv, Logged
    <2>7. QED
      BY <2>3, <2>4, <2>5, <2>6 DEF HardStopInv
  <1>5. QED
    BY <1>3, <1>4

----------------------------------------------------------------------------
(* The invariant and the theorem.                                          *)

LEMMA InitGate == Init => GateInv
  <1>1. SUFFICES ASSUME Init, NEW r \in HardStopRequests PROVE HardStopInv(r)
    BY DEF GateInv
  <1>2. r \in Requests
    BY DEF HardStopRequests
  <1>3. CheckpointOnPath(r)
    BY <1>1, <1>2 DEF Init, CheckpointOnPath, NoCheckpoint
  <1>4. \A a \in Actors : RunOnPath(r, a)
    BY <1>1 DEF Init, RunOnPath, NoRun
  <1>5. \A a \in Approvers : CallPosted(r, a)
    BY <1>1 DEF Init, CallPosted
  <1>6. ~Logged(r, "WORKFLOW_COMPLETED")
    BY <1>1, <1>2 DEF Init, Logged
  <1>7. QED
    BY <1>3, <1>4, <1>5, <1>6 DEF HardStopInv

LEMMA NextGate ==
    ASSUME TypeInv, GateInv, Next
    PROVE  Grows /\ \A r \in HardStopRequests : HardStopInv(r)'
  <1> DEFINE Goal == Grows /\ \A r \in HardStopRequests : HardStopInv(r)'
  <1>1. ASSUME NEW m \in Messages, Ingest(m) \/ PublishDirect(m) \/ Expire(m) PROVE Goal
    BY <1>1, BrokerStep
  <1>2. ASSUME NEW w \in Workers,
               Pull(w) \/ PullRaises(w) \/ Process(w) \/ Ack(w) \/ AckRaises(w)
        PROVE  Goal
    BY <1>2, PullStep, ProcessStep, AckStep
  <1>3. ASSUME NEW a \in Actors, Step(a) \/ StepRaises(a) \/ StepRejects(a) PROVE Goal
    BY <1>3, StepStep, StepRaisesFails, StepRejectsFails, FailureStep
  <1>4. ASSUME NEW a \in Approvers, NEW r \in Requests, ApproveCheck(a, r) PROVE Goal
    BY <1>4, ApproveCheckStep
  <1>5. ASSUME NEW a \in Approvers, ApproveUpdate(a) \/ ApproveInvoke(a) PROVE Goal
    BY <1>5, ApproveUpdateStep, ApproveInvokeStep
  <1>6. ASSUME NEW S \in Deployments, Restart(S) PROVE Goal
    BY <1>6, RestartStep
  <1> HIDE DEF Goal
  <1>7. Goal
    BY <1>1, <1>2, <1>3, <1>4, <1>5, <1>6, Zenon DEF Next
  <1>8. QED
    BY <1>7 DEF Goal

LEMMA GateInductive == TypeInv /\ GateInv /\ [Next]_vars => GateInv'
  <1>1. SUFFICES ASSUME TypeInv, GateInv, [Next]_vars PROVE GateInv'
    OBVIOUS
  <1>2. CASE Next
    <2>1. Grows /\ \A r \in HardStopRequests : HardStopInv(r)'
      BY <1>1, <1>2, NextGate
    <2>2. HardStopRequests' \subseteq HardStopRequests
      BY <1>1, <2>1, ObligedShrinks
    <2>3. \A r \in HardStopRequests' : HardStopInv(r)'
      BY <2>1, <2>2
    <2>4. QED
      BY <2>3 DEF GateInv
  <1>3. CASE UNCHANGED vars
    <2>1. UNCHANGED <<run, ckpt, api, audit, notified, posted>> /\ MsgKept
      BY <1>3 DEF vars, MsgKept
    <2>2. QED
      BY <1>1, <2>1, QuietStep, ObligedShrinks DEF GateInv
  <1>4. QED
    BY <1>1, <1>2, <1>3

\* Constraint: a request that Module B stops completes only after its approver was
\* notified, the pending approval was logged and somebody approved -- under every
\* interleaving of workers, redeliveries, failures, restarts and approval calls.
THEOREM HardStopGated == Spec => []HardStopNeedsApproval
  <1>1. Init => TypeInv /\ GateInv
    BY InitTyped, InitGate
  <1>2. TypeInv /\ GateInv /\ [Next]_vars => (TypeInv /\ GateInv)'
    BY NextTyped, GateInductive
  <1>3. TypeInv /\ GateInv => HardStopNeedsApproval
    BY DEF GateInv, HardStopInv, Settled, HardStopNeedsApproval
  <1>4. QED
    BY <1>1, <1>2, <1>3, PTL DEF Spec

----------------------------------------------------------------------------
(* HITLService implements HumanGate: every step of the service releases,   *)
(* informs, parks, approves or completes one request in the order          *)
(* HumanGate allows, or changes none of this.                              *)

GateStep == [Gate!Next]_(Gate!gateVars)

LEMMA GateInit == Init => Gate!Init
  <1>1. SUFFICES ASSUME Init PROVE Gate!Init
    OBVIOUS
  <1>2. HardStopRequests = Requests
    BY <1>1 DEF Init, HardStopRequests
  <1>3. Informed = {} /\ Approved = {}
    BY <1>1 DEF Init, Informed, Approved
  <1>4. Parked = {} /\ Completed = {}
    BY <1>1 DEF Init, Parked, Completed, Logged
  <1>5. QED
    BY <1>2, <1>3, <1>4 DEF Gate!Init

----------------------------------------------------------------------------
(* The steps of HumanGate.                                                 *)

LEMMA Stutters ==
    ASSUME UNCHANGED <<HardStopRequests, Informed, Parked, Approved, Completed>>
    PROVE  GateStep
  BY DEF GateStep, Gate!gateVars

LEMMA Releases ==
    ASSUME NEW r \in Requests, HardStopRequests' = HardStopRequests \ {r},
           UNCHANGED <<Informed, Parked, Approved, Completed>>
    PROVE  GateStep
  BY DEF GateStep, Gate!Next, Gate!Release

LEMMA Informs ==
    ASSUME NEW r \in Requests, Informed' = Informed \cup {r},
           UNCHANGED <<HardStopRequests, Parked, Approved, Completed>>
    PROVE  GateStep
  BY DEF GateStep, Gate!Next, Gate!Inform

LEMMA Parks ==
    ASSUME NEW r \in Requests, Parked' = Parked \cup {r},
           r \in HardStopRequests => r \in Informed,
           UNCHANGED <<HardStopRequests, Informed, Approved, Completed>>
    PROVE  GateStep
  BY DEF GateStep, Gate!Next, Gate!Park

LEMMA Approves ==
    ASSUME NEW r \in Requests, Approved' = Approved \cup {r},
           UNCHANGED <<HardStopRequests, Informed, Parked, Completed>>
    PROVE  GateStep
  BY DEF GateStep, Gate!Next, Gate!Approve

LEMMA Completes ==
    ASSUME NEW r \in Requests, Completed' = Completed \cup {r},
           r \in HardStopRequests => r \in Informed \cap Parked \cap Approved,
           UNCHANGED <<HardStopRequests, Informed, Parked, Approved>>
    PROVE  GateStep
  BY DEF GateStep, Gate!Next, Gate!Complete

----------------------------------------------------------------------------
(* The messages decide which requests are obliged.                         *)

\* What has been published, and with which body, stays as it is.
Published(m) ==
    /\ msg'[m].status # "new" <=> msg[m].status # "new"
    /\ msg[m].status # "new" => msg'[m].body = msg[m].body

LEMMA ObligedSame ==
    ASSUME \A m \in Messages : Published(m)
    PROVE  HardStopRequests' = HardStopRequests
  BY DEF Published, HardStopRequests, HardStopBodies

\* A publication under one request id concerns that request alone.
LEMMA ObligedButOne ==
    ASSUME NEW m \in Messages, \A q \in Messages \ {m} : Published(q), MsgKept
    PROVE  HardStopRequests' \in {HardStopRequests, HardStopRequests \ {RidOf[m]}}
  <1>1. HardStopRequests' \subseteq HardStopRequests
    BY DEF MsgKept, HardStopRequests, HardStopBodies
  <1>2. ASSUME NEW r \in HardStopRequests, r # RidOf[m]
        PROVE  r \in HardStopRequests'
    BY <1>2 DEF Published, HardStopRequests, HardStopBodies
  <1>3. QED
    BY <1>1, <1>2

\* A step that writes no log, no notification and no approval.
LEMMA QuietRefines ==
    ASSUME \A m \in Messages : Published(m), UNCHANGED <<audit, notified, posted>>
    PROVE  GateStep
  <1>1. HardStopRequests' = HardStopRequests
    BY ObligedSame
  <1>2. UNCHANGED <<Informed, Parked, Approved, Completed>>
    BY DEF Informed, Parked, Approved, Completed, Logged
  <1>3. QED
    BY <1>1, <1>2, Stutters

----------------------------------------------------------------------------
(* The steps of the service.                                               *)

LEMMA BrokerRefines ==
    ASSUME TypeInv, NEW m \in Messages, Ingest(m) \/ PublishDirect(m) \/ Expire(m)
    PROVE  GateStep
  <1>1. UNCHANGED <<audit, notified, posted>>
    BY DEF Ingest, PublishDirect, Expire
  <1>2. msg[m].status = "new" \/ msg' = [msg EXCEPT ![m].status = "visible"]
    BY DEF Ingest, PublishDirect, Expire
  <1>3. \A q \in Messages \ {m} : msg'[q] = msg[q]
    BY DEF Ingest, PublishDirect, Expire, TypeInv, TypeOK
  <1>4. msg' = [msg EXCEPT ![m].status = "visible"] =>
           msg'[m].status = "visible" /\ msg'[m].body = msg[m].body
    BY DEF TypeInv, TypeOK, BrokerMessage
  <1>5. MsgKept /\ \A q \in Messages \ {m} : Published(q)
    BY <1>2, <1>3, <1>4 DEF MsgKept, Published
  <1>6. HardStopRequests' \in {HardStopRequests, HardStopRequests \ {RidOf[m]}}
    BY <1>5, ObligedButOne
  <1>7. UNCHANGED <<Informed, Parked, Approved, Completed>>
    BY <1>1 DEF Informed, Parked, Approved, Completed, Logged
  <1>8. RidOf[m] \in Requests
    BY ServiceAssumption
  <1>9. QED
    BY <1>6, <1>7, <1>8, Stutters, Releases

LEMMA PullRefines ==
    ASSUME TypeInv, NEW w \in Workers, Pull(w) \/ PullRaises(w)
    PROVE  GateStep
  <1>1. UNCHANGED <<audit, notified, posted>>
    BY DEF Pull, PullRaises, Stop
  <1>2. PICK S \in SUBSET Messages : HandOut(S)
    BY PullHandsOut
  <1>3. ASSUME NEW m \in Messages
        PROVE  LET got == [msg[m] EXCEPT !.status = "inflight", !.deliveries = @ + 1]
               IN  got.status = "inflight" /\ got.body = msg[m].body
    BY DEF TypeInv, TypeOK, BrokerMessage
  <1>4. ASSUME NEW m \in Messages
        PROVE  \/ msg'[m] = msg[m]
               \/ /\ msg[m].status = "visible"
                  /\ msg'[m] = [msg[m] EXCEPT !.status = "inflight", !.deliveries = @ + 1]
    BY <1>2 DEF HandOut
  <1>5. \A m \in Messages : Published(m)
    BY <1>3, <1>4 DEF Published
  <1>6. QED
    BY <1>1, <1>5, QuietRefines

LEMMA AckRefines ==
    ASSUME TypeInv, NEW w \in Workers, Ack(w) \/ AckRaises(w)
    PROVE  GateStep
  <1>1. UNCHANGED <<audit, notified, posted>> /\ worker[w].pc = "ack"
    BY DEF Ack, AckRaises, Stop
  <1>2. PICK m \in Messages : /\ m = Current(w).message
                              /\ msg[m].status # "new"
    BY <1>1, CurrentTyped
  <1>3. msg' \in {msg, [msg EXCEPT ![m].status = "deleted"]}
    BY <1>2 DEF Ack, AckRaises
  <1>4. msg' = [msg EXCEPT ![m].status = "deleted"] =>
           msg'[m].status = "deleted" /\ msg'[m].body = msg[m].body
    BY DEF TypeInv, TypeOK, BrokerMessage
  <1>5. \A q \in Messages \ {m} : msg'[q] = msg[q]
    BY <1>3 DEF TypeInv, TypeOK
  <1>6. \A q \in Messages : Published(q)
    BY <1>2, <1>3, <1>4, <1>5 DEF Published
  <1>7. QED
    BY <1>1, <1>6, QuietRefines

\* What a step of a run does to the trails and the notifications, whether it succeeds or
\* fails: the node it is at logs its own entries for its own request.
RunLogs(a, r, n) ==
    /\ \E log : Appends(r, log) /\ LogOf(n, log)
    /\ notified[r] \subseteq notified'[r]
    /\ "ER" \in notified'[r] => "ER" \in notified[r] \/ n = "er_compliance"
    /\ \A q \in Requests \ {r} : audit'[q] = audit[q] /\ notified'[q] = notified[q]
    /\ UNCHANGED <<msg, posted>>

LEMMA StepLogs ==
    ASSUME TypeInv, NEW a \in Actors, Step(a) \/ StepRaises(a) \/ StepRejects(a)
    PROVE  \E r \in Requests, n \in Nodes :
               r = run[a].rid /\ n = run[a].node /\ RunLogs(a, r, n)
  <1>1. CASE StepRaises(a) \/ StepRejects(a)
    BY <1>1, StepRaisesFails, StepRejectsFails DEF Failure, RunLogs
  <1>2. CASE Step(a)
    <2>1. PICK o : Effect(a, o)
      BY <1>2, StepEffect
    <2>2. PICK r \in Requests, n \in Nodes : r = run[a].rid /\ n = run[a].node
      BY <2>1 DEF Effect
    <2>3. PICK id \in Nat : o \in RunNode(n, run[a].vals, id)
      BY <2>1, <2>2 DEF Effect
    <2>4. run[a].vals \in WorkflowState
      BY <2>1 DEF Effect
    <2>5. LogOf(n, o.log) /\ (o.notify /\ o.vals.final.agent = "ER" => n = "er_compliance")
      BY <2>3, <2>4, NodeLog DEF LogOf
    <2>6. /\ Appends(r, o.log)
          /\ notified'[r] = IF o.notify THEN notified[r] \cup {o.vals.final.agent}
                            ELSE notified[r]
          /\ \A q \in Requests \ {r} : audit'[q] = audit[q] /\ notified'[q] = notified[q]
          /\ UNCHANGED <<msg, posted>>
      BY <2>1, <2>2 DEF Effect
    <2>7. RunLogs(a, r, n)
      BY <2>5, <2>6 DEF RunLogs
    <2>8. QED
      BY <2>2, <2>7
  <1>3. QED
    BY <1>1, <1>2

LEMMA RunRefines ==
    ASSUME TypeInv, GateInv, NEW a \in Actors, run[a].node # "none",
           Step(a) \/ StepRaises(a) \/ StepRejects(a)
    PROVE  GateStep
  <1>1. PICK r \in Requests, n \in Nodes :
           r = run[a].rid /\ n = run[a].node /\ RunLogs(a, r, n)
    BY StepLogs
  <1>2. PICK log : Appends(r, log) /\ LogOf(n, log)
    BY <1>1 DEF RunLogs
  <1>3. ASSUME NEW event
        PROVE  /\ \A q \in Requests \ {r} : Logged(q, event)' <=> Logged(q, event)
               /\ Logged(r, event) => Logged(r, event)'
               /\ (\A i \in DOMAIN log : log[i].event # event)
                     => (Logged(r, event)' <=> Logged(r, event))
    BY <1>1, <1>2 DEF RunLogs, Appends, Logged
  <1>4. HardStopRequests' = HardStopRequests
    BY <1>1, ObligedSame DEF RunLogs, Published
  <1>5. Approved' = Approved
    BY <1>1 DEF RunLogs, Approved
  <1>6. /\ n # "hitl_gate" => Parked' = Parked
        /\ Parked' \in {Parked, Parked \cup {r}}
    BY <1>2, <1>3 DEF LogOf, Parked
  <1>7. /\ n # "finalize" => Completed' = Completed
        /\ Completed' \in {Completed, Completed \cup {r}}
    BY <1>2, <1>3 DEF LogOf, Completed
  <1>8. /\ n # "er_compliance" => Informed' = Informed
        /\ Informed' \in {Informed, Informed \cup {r}}
    BY <1>1 DEF RunLogs, Informed
  <1>9. r \in HardStopRequests => /\ n = "hitl_gate" => r \in Informed
                                  /\ n = "finalize" => r \in Informed \cap Parked \cap Approved
    BY <1>1 DEF GateInv, HardStopInv, RunOnPath, OnPath, Informed, Parked, Approved
  <1>10. CASE n = "er_compliance"
    BY <1>4, <1>5, <1>6, <1>7, <1>8, <1>10, Stutters, Informs
  <1>11. CASE n = "hitl_gate"
    BY <1>4, <1>5, <1>6, <1>7, <1>8, <1>9, <1>11, Stutters, Parks
  <1>12. CASE n = "finalize"
    BY <1>4, <1>5, <1>6, <1>7, <1>8, <1>9, <1>12, Stutters, Completes
  <1>13. CASE n \notin {"er_compliance", "hitl_gate", "finalize"}
    BY <1>4, <1>5, <1>6, <1>7, <1>8, <1>13, Stutters
  <1>14. QED
    BY <1>10, <1>11, <1>12, <1>13

LEMMA ApproveRefines ==
    ASSUME TypeInv, NEW a \in Approvers, ApproveUpdate(a)
    PROVE  GateStep
  <1>1. PICK r \in Requests : r = api[a].rid
    BY DEF ApproveUpdate, TypeInv, Wired, CallWired
  <1>2. UNCHANGED <<msg, audit, notified>> /\ posted' = [posted EXCEPT ![r] = @ \cup {a}]
    BY <1>1 DEF ApproveUpdate
  <1>3. Approved' = Approved \cup {r}
    BY <1>2 DEF Approved, TypeInv, TypeOK
  <1>4. HardStopRequests' = HardStopRequests
    BY <1>2, ObligedSame DEF Published
  <1>5. UNCHANGED <<Informed, Parked, Completed>>
    BY <1>2 DEF Informed, Parked, Completed, Logged
  <1>6. QED
    BY <1>3, <1>4, <1>5, Approves

LEMMA NextRefines == TypeInv /\ GateInv /\ [Next]_vars => GateStep
  <1> SUFFICES ASSUME TypeInv, GateInv, [Next]_vars PROVE GateStep
    OBVIOUS
  <1>1. ASSUME NEW m \in Messages, Ingest(m) \/ PublishDirect(m) \/ Expire(m)
        PROVE  GateStep
    BY <1>1, BrokerRefines
  <1>2. ASSUME NEW w \in Workers,
               Pull(w) \/ PullRaises(w) \/ Process(w) \/ Ack(w) \/ AckRaises(w)
        PROVE  GateStep
    <2>1. CASE Process(w)
      <3>1. UNCHANGED <<msg, audit, notified, posted>>
        BY <2>1 DEF Process
      <3>2. QED
        BY <3>1, QuietRefines DEF Published
    <2>2. QED
      BY <1>2, <2>1, PullRefines, AckRefines
  <1>3. ASSUME NEW a \in Actors, Step(a) \/ StepRaises(a) \/ StepRejects(a)
        PROVE  GateStep
    <2>1. run[a].node # "none"
      BY <1>3 DEF Step, StepRaises, StepRejects
    <2>2. QED
      BY <1>3, <2>1, RunRefines
  <1>4. ASSUME NEW a \in Approvers, NEW r \in Requests, ApproveCheck(a, r)
        PROVE  GateStep
    BY <1>4, QuietRefines DEF ApproveCheck, Published
  <1>5. ASSUME NEW a \in Approvers, ApproveUpdate(a)
        PROVE  GateStep
    BY <1>5, ApproveRefines
  <1>6. ASSUME NEW a \in Approvers, ApproveInvoke(a)
        PROVE  GateStep
    BY <1>6, QuietRefines DEF ApproveInvoke, Published
  <1>7. ASSUME NEW S \in Deployments, Restart(S)
        PROVE  GateStep
    BY <1>7, QuietRefines DEF Restart, Published
  <1>8. CASE UNCHANGED vars
    BY <1>8, QuietRefines DEF vars, Published
  <1>9. QED
    BY <1>1, <1>2, <1>3, <1>4, <1>5, <1>6, <1>7, <1>8, Zenon DEF Next

\* The service implements the abstract gate: for a request that Module B stops, whoever
\* watches only notifications, pending entries, approvals and completions sees them come
\* in the order HumanGate allows (er_compliance, hitl_gate, approve, finalize).
THEOREM GateImplemented == Spec => ImplementsHumanGate
  <1>1. Init => TypeInv /\ GateInv
    BY InitTyped, InitGate
  <1>2. TypeInv /\ GateInv /\ [Next]_vars => (TypeInv /\ GateInv)'
    BY NextTyped, GateInductive
  <1>3. TypeInv /\ GateInv /\ [Next]_vars => [Gate!Next]_(Gate!gateVars)
    BY NextRefines DEF GateStep
  <1>4. QED
    BY <1>1, <1>2, <1>3, GateInit, PTL DEF Spec, ImplementsHumanGate, Gate!Spec
=============================================================================
