---------------------------- MODULE HITLService ----------------------------
(***************************************************************************)
(* The running service: the ingestion and approval API (service/api.py),   *)
(* the queue and its workers (orchestration/worker.py), and the workflow   *)
(* threads they drive through the graph of WorkflowGraph.                  *)
(*                                                                         *)
(* A request id names a workflow thread.  A worker runs the graph on the   *)
(* thread of each message it pulls; an approval call resumes the thread.   *)
(* Both are actors with at most one run of the graph each, and every       *)
(* await of the code is a point where another actor may step: the pull,    *)
(* each node, the ack, and the three parts of an approval (read the        *)
(* snapshot, write the approval, resume).                                  *)
(*                                                                         *)
(* LangGraph is external and modelled from how the code uses it.  A run    *)
(* works on its own copy of the channels and saves copy and successor as   *)
(* the thread's checkpoint after each node; a run started with an input    *)
(* keeps the channels of the latest checkpoint, drops its pending node and *)
(* enters at "entry"; a run started with None goes on from the latest      *)
(* checkpoint; aupdate_state changes the channels and keeps the successor. *)
(***************************************************************************)
EXTENDS WorkflowGraph, FiniteSets

CONSTANTS
    Requests,        (* request ids, hence thread ids                        *)
    Messages,        (* messages published to the ingress topic              *)
    Direct,          (* those another publisher puts on the topic, past the  *)
                     (* API and its PII gate                                 *)
    RidOf,           (* the request id a message carries                     *)
    BodiesOf,        (* the bodies it may be published with; None is one     *)
                     (* that does not parse as an AgentRequest               *)
    Workers,         (* queue workers                                        *)
    BatchSize,       (* messages a pull may return                           *)
    Local,           (* the LOCAL queue adapter, whose broker never          *)
                     (* redelivers, instead of SQS or Pub/Sub                *)
    Durable,         (* the checkpointer survives a restart (Postgres)       *)
    Deployments,     (* sets of actors that share a process, hence a restart *)
    Mishaps,         (* which of "raise", "early", "stop", "restart" happen  *)
    MaxMishaps,      (* bound on mishaps                                     *)
    MaxDeliveries    (* bound on the deliveries of a message                 *)

Actors == Workers \cup Approvers

ASSUME ServiceAssumption ==
    /\ Direct \subseteq Messages
    /\ RidOf \in [Messages -> Requests]
    /\ BodiesOf \in [Messages -> SUBSET (Payloads \cup {None})]
    /\ Workers \cap Approvers = {}
    /\ None \notin Workers
    /\ BatchSize \in Nat \ {0}
    /\ Local \in BOOLEAN
    /\ Durable \in BOOLEAN
    /\ Deployments \subseteq SUBSET Actors
    /\ Local => Deployments = {}    \* nothing of a LOCAL process survives it
    /\ ~Durable => Deployments \subseteq {Actors}  \* MemorySaver: one process
    /\ Mishaps \subseteq {"raise", "early", "stop", "restart"}
    /\ MaxMishaps \in Nat
    /\ MaxDeliveries \in Nat

VARIABLES
    msg,       \* Messages -> status at the broker, number of deliveries, body
    worker,    \* Workers -> program counter of run_once and unfinished batch
    api,       \* Approvers -> program counter of approve() and its request
    run,       \* Actors -> the graph run the actor is in
    ckpt,      \* Requests -> latest checkpoint of the thread
    audit,     \* Requests -> audit trail, oldest first
    notified,  \* Requests -> agents whose MANDATORY result notified the approver
    posted,    \* Requests -> approvers whose approval was ever written (history)
    mishaps    \* mishaps so far

vars == <<msg, worker, api, run, ckpt, audit, notified, posted, mishaps>>

----------------------------------------------------------------------------
Statuses == {"new", "refused", "visible", "inflight", "deleted"}
Delivery == [message : Messages, receipt : Nat]
NoCheckpoint == [next |-> "none", vals |-> EmptyState]
NoRun == [rid |-> None, node |-> "none", vals |-> EmptyState]

BrokerMessage == [status : Statuses, deliveries : Nat, body : Payloads \cup {None}]
WorkerState == [pc : {"poll", "handle", "run", "ack", "stopped"}, batch : Seq(Delivery)]
ApprovalCall == [pc : {"idle", "checked", "updated", "running", "done", "failed"},
                 rid : Requests \cup {None}]
GraphRun == [rid : Requests \cup {None}, node : Nodes \cup {"none"}, vals : WorkflowState]
Checkpoint == [next : Nodes \cup {"end", "none"}, vals : WorkflowState]

TypeOK ==
    /\ msg \in [Messages -> BrokerMessage]
    /\ worker \in [Workers -> WorkerState]
    /\ api \in [Approvers -> ApprovalCall]
    /\ run \in [Actors -> GraphRun]
    /\ ckpt \in [Requests -> Checkpoint]
    /\ audit \in [Requests -> Seq(AuditEntry)]
    /\ notified \in [Requests -> SUBSET Domains]
    /\ posted \in [Requests -> SUBSET Approvers]
    /\ mishaps \in Nat

Init ==
    /\ msg = [m \in Messages |-> [status |-> "new", deliveries |-> 0, body |-> None]]
    /\ worker = [w \in Workers |-> [pc |-> "poll", batch |-> <<>>]]
    /\ api = [a \in Approvers |-> [pc |-> "idle", rid |-> None]]
    /\ run = [a \in Actors |-> NoRun]
    /\ ckpt = [r \in Requests |-> NoCheckpoint]
    /\ audit = [r \in Requests |-> <<>>]
    /\ notified = [r \in Requests |-> {}]
    /\ posted = [r \in Requests |-> {}]
    /\ mishaps = 0

Mishap(kind) ==
    /\ kind \in Mishaps
    /\ mishaps < MaxMishaps
    /\ mishaps' = mishaps + 1

----------------------------------------------------------------------------
(* Ingestion and the broker.                                               *)

\* POST /requests: a body that parses is refused with 422 by the PII gate, or published.
Ingest(m) ==
    /\ m \notin Direct
    /\ msg[m].status = "new"
    /\ \E body \in BodiesOf[m] \ {None} :
         msg' = [msg EXCEPT ![m].body = body,
                            ![m].status = IF body \in PIIPayloads
                                          THEN "refused" ELSE "visible"]
    /\ UNCHANGED <<worker, api, run, ckpt, audit, notified, posted, mishaps>>

PublishDirect(m) ==
    /\ m \in Direct
    /\ msg[m].status = "new"
    /\ \E body \in BodiesOf[m] :
         msg' = [msg EXCEPT ![m].body = body, ![m].status = "visible"]
    /\ UNCHANGED <<worker, api, run, ckpt, audit, notified, posted, mishaps>>

Held(m) ==
    \E w \in Workers : \E i \in DOMAIN worker[w].batch :
        worker[w].batch[i] = [message |-> m, receipt |-> msg[m].deliveries]

\* The visibility timeout (SQS) or ack deadline (Pub/Sub) passes.  It is a mishap
\* when the worker that holds the delivery is still at work on its batch.
Expire(m) ==
    /\ ~Local
    /\ msg[m].status = "inflight"
    /\ msg' = [msg EXCEPT ![m].status = "visible"]
    /\ IF Held(m) THEN Mishap("early") ELSE UNCHANGED mishaps
    /\ UNCHANGED <<worker, api, run, ckpt, audit, notified, posted>>

----------------------------------------------------------------------------
(* Workers.                                                                *)

\* The broker hands out the messages of S.
HandOut(S) ==
    /\ \A m \in S : msg[m].status = "visible" /\ msg[m].deliveries < MaxDeliveries
    /\ msg' = [m \in Messages |->
         IF m \in S THEN [msg[m] EXCEPT !.status = "inflight", !.deliveries = @ + 1]
                    ELSE msg[m]]

\* run_once pulls a batch; an empty pull changes nothing.
Pull(w) ==
    /\ worker[w].pc = "poll"
    /\ \E n \in 1..BatchSize : \E s \in [1..n -> Messages] :
         /\ \A i, j \in 1..n : s[i] = s[j] => i = j
         /\ HandOut({s[i] : i \in 1..n})
         /\ worker' = [worker EXCEPT ![w] =
              [pc |-> "handle",
               batch |-> [i \in 1..n |-> [message |-> s[i],
                                          receipt |-> msg[s[i]].deliveries + 1]]]]
    /\ UNCHANGED <<api, run, ckpt, audit, notified, posted, mishaps>>

\* The queue raises in run_once, outside its try: run_forever ends, and nothing runs the
\* worker again before its process restarts.
Stop(w) ==
    /\ ~Local
    /\ Mishap("stop")
    /\ worker' = [worker EXCEPT ![w] = [pc |-> "stopped", batch |-> <<>>]]
    /\ UNCHANGED <<api, run, ckpt, audit, notified, posted>>

\* pull fails, before or after the broker handed messages out (a lost answer, or a body
\* that is not a JSON object).
PullRaises(w) ==
    /\ worker[w].pc = "poll"
    /\ \E S \in SUBSET Messages : Cardinality(S) <= BatchSize /\ HandOut(S)
    /\ Stop(w)

Current(w) == Head(worker[w].batch)

\* After the current message: the next one of the batch, or poll again.
Advance(w) ==
    LET rest == Tail(worker[w].batch)
    IN  [pc |-> IF rest = <<>> THEN "poll" ELSE "handle", batch |-> rest]

\* _process: a body that does not parse is INVALID, to be acked and dropped; any
\* other starts run_workflow on the thread of its request id.
Process(w) ==
    /\ worker[w].pc = "handle"
    /\ LET m == Current(w).message
           r == RidOf[m]
           v == [ckpt[r].vals EXCEPT !.request = msg[m].body]
       IN  IF msg[m].body = None
           THEN /\ worker' = [worker EXCEPT ![w].pc = "ack"]
                /\ UNCHANGED <<run, ckpt>>
           ELSE /\ worker' = [worker EXCEPT ![w].pc = "run"]
                /\ run' = [run EXCEPT ![w] = [rid |-> r, node |-> "entry", vals |-> v]]
                /\ ckpt' = [ckpt EXCEPT ![r] = [next |-> "entry", vals |-> v]]
    /\ UNCHANGED <<msg, api, audit, notified, posted, mishaps>>

\* The broker deletes the delivery it knows by the receipt.  A receipt the broker
\* has taken back by then may or may not still delete the message.
Ack(w) ==
    /\ worker[w].pc = "ack"
    /\ LET d == Current(w)
           m == d.message
           valid == msg[m].status = "inflight" /\ msg[m].deliveries = d.receipt
       IN  \/ msg' = [msg EXCEPT ![m].status = "deleted"]
           \/ ~valid /\ UNCHANGED msg
    /\ worker' = [worker EXCEPT ![w] = Advance(w)]
    /\ UNCHANGED <<api, run, ckpt, audit, notified, posted, mishaps>>

\* The deletion fails, or its answer is lost.
AckRaises(w) ==
    /\ worker[w].pc = "ack"
    /\ \/ msg' = [msg EXCEPT ![Current(w).message].status = "deleted"]
       \/ UNCHANGED msg
    /\ Stop(w)

----------------------------------------------------------------------------
(* Runs of the graph.                                                      *)

\* record_approval: attach the approver to the entry at position i.
Stamp(trail, i, approver) ==
    IF i \in DOMAIN trail THEN [trail EXCEPT ![i].approver = approver] ELSE trail

\* Faulty: the worker goes on to the next message without an ack.
ReturnUnacked(a) ==
    /\ worker' = IF a \in Workers THEN [worker EXCEPT ![a] = Advance(a)] ELSE worker
    /\ api' = IF a \in Approvers THEN [api EXCEPT ![a].pc = "done"] ELSE api

\* The graph call of actor a returns: a worker acks (HITL_PENDING and COMPLETED
\* alike), an approval call answers COMPLETED.
Return(a) ==
    /\ worker' = IF a \in Workers THEN [worker EXCEPT ![a].pc = "ack"] ELSE worker
    /\ api' = IF a \in Approvers THEN [api EXCEPT ![a].pc = "done"] ELSE api

\* Faulty: the worker acks a message whose run raised.
RaiseAcks(a) ==
    /\ worker' = IF a \in Workers THEN [worker EXCEPT ![a].pc = "ack"] ELSE worker
    /\ api' = IF a \in Approvers THEN [api EXCEPT ![a].pc = "failed"] ELSE api
    /\ run' = [run EXCEPT ![a] = NoRun]

\* The graph call of actor a raises: a worker goes on without an ack, an approval
\* call answers 500.
Raise(a) ==
    /\ worker' = IF a \in Workers THEN [worker EXCEPT ![a] = Advance(a)] ELSE worker
    /\ api' = IF a \in Approvers THEN [api EXCEPT ![a].pc = "failed"] ELSE api
    /\ run' = [run EXCEPT ![a] = NoRun]

\* A node runs to its end and the checkpoint after it is saved.
Step(a) ==
    /\ run[a].node # "none"
    /\ LET r == run[a].rid
           n == run[a].node
           v == run[a].vals
           trail == Stamp(audit[r], Provenance(n, v), v.approval)
       IN  \E o \in RunNode(n, v, Len(trail) + 1) :
             LET nx == NextNode(n, o.vals) IN
             /\ audit' = [audit EXCEPT ![r] = trail \o o.log]
             /\ notified' = [notified EXCEPT ![r] =
                                IF o.notify THEN @ \cup {o.vals.final.agent} ELSE @]
             /\ ckpt' = [ckpt EXCEPT ![r] = [next |-> nx, vals |-> o.vals]]
             /\ IF nx = "end" \/ n \in InterruptAfter
                THEN /\ run' = [run EXCEPT ![a] = NoRun]
                     /\ Return(a)
                ELSE /\ run' = [run EXCEPT ![a] = [@ EXCEPT !.node = nx, !.vals = o.vals]]
                     /\ UNCHANGED <<worker, api>>
    /\ UNCHANGED <<msg, posted, mishaps>>

\* A node raises after some of its effects: an append, the notification, or the
\* checkpoint save itself fails.  The checkpoint stays at this node.
StepRaises(a) ==
    /\ run[a].node # "none"
    /\ LET r == run[a].rid
           n == run[a].node
           v == run[a].vals
           stamped == Stamp(audit[r], Provenance(n, v), v.approval)
       IN  \/ /\ UNCHANGED <<audit, notified>>
           \/ /\ \E log \in ErrorLogs(n) : audit' = [audit EXCEPT ![r] = @ \o log]
              /\ UNCHANGED notified
           \/ \E o \in RunNode(n, v, Len(audit[r]) + 1) : \E k \in 0..Len(o.log) :
                \E sent \in {FALSE, o.notify /\ k = Len(o.log)} :
                  /\ audit' = [audit EXCEPT ![r] = stamped \o SubSeq(o.log, 1, k)]
                  /\ notified' = [notified EXCEPT ![r] =
                                     IF sent THEN @ \cup {o.vals.final.agent} ELSE @]
    /\ Raise(a)
    /\ Mishap("raise")
    /\ UNCHANGED <<msg, ckpt, posted>>

\* A body that fails its agent's schema raises on every run, through handle()'s
\* error entry when the agent is driven by handle().
StepRejects(a) ==
    /\ run[a].node # "none"
    /\ LET r == run[a].rid
           n == run[a].node
       IN  /\ RunNode(n, run[a].vals, Len(audit[r]) + 1) = {}
           /\ audit' = [audit EXCEPT ![r] = @ \o RejectLog(n)]
    /\ Raise(a)
    /\ UNCHANGED <<msg, ckpt, notified, posted, mishaps>>

----------------------------------------------------------------------------
(* POST /requests/{id}/approve.                                            *)

\* 404 without a checkpoint, 409 without a successor; otherwise go on.
ApproveCheck(a, r) ==
    /\ api[a].pc = "idle"
    /\ ckpt[r].next \notin {"none", "end"}
    /\ api' = [api EXCEPT ![a] = [pc |-> "checked", rid |-> r]]
    /\ UNCHANGED <<msg, worker, run, ckpt, audit, notified, posted, mishaps>>

\* resume_with_approval, first half: aupdate_state.
ApproveUpdate(a) ==
    /\ api[a].pc = "checked"
    /\ ckpt' = [ckpt EXCEPT ![api[a].rid].vals.approval = a]
    /\ posted' = [posted EXCEPT ![api[a].rid] = @ \cup {a}]
    /\ api' = [api EXCEPT ![a].pc = "updated"]
    /\ UNCHANGED <<msg, worker, run, audit, notified, mishaps>>

\* Faulty: takes a thread that has its approval for one that was resumed already.
ApproveInvokeOnce(a) ==
    /\ api[a].pc = "updated"
    /\ ckpt[api[a].rid].vals.approval # None
    /\ api' = [api EXCEPT ![a].pc = "done"]
    /\ UNCHANGED <<msg, worker, run, ckpt, audit, notified, posted, mishaps>>

\* Second half: ainvoke(None), which returns at once on a finished thread.
ApproveInvoke(a) ==
    /\ api[a].pc = "updated"
    /\ LET r == api[a].rid IN
       IF ckpt[r].next = "end"
       THEN /\ api' = [api EXCEPT ![a].pc = "done"]
            /\ UNCHANGED run
       ELSE /\ api' = [api EXCEPT ![a].pc = "running"]
            /\ run' = [run EXCEPT ![a] = [rid |-> r, node |-> ckpt[r].next,
                                          vals |-> ckpt[r].vals]]
    /\ UNCHANGED <<msg, worker, ckpt, audit, notified, posted, mishaps>>

----------------------------------------------------------------------------
(* Restart of the process the actors in S share.  Their runs are gone; the *)
(* in-process checkpointer goes with them.                                 *)
Restart(S) ==
    /\ Mishap("restart")
    /\ run' = [a \in Actors |-> IF a \in S THEN NoRun ELSE run[a]]
    /\ worker' = [w \in Workers |->
                    IF w \in S THEN [pc |-> "poll", batch |-> <<>>] ELSE worker[w]]
    /\ api' = [a \in Approvers |->
                 IF a \in S /\ api[a].pc \in {"checked", "updated", "running"}
                 THEN [api[a] EXCEPT !.pc = "failed"] ELSE api[a]]
    /\ ckpt' = IF Durable THEN ckpt ELSE [r \in Requests |-> NoCheckpoint]
    /\ UNCHANGED <<msg, audit, notified, posted>>

----------------------------------------------------------------------------
Next ==
    \/ \E m \in Messages : Ingest(m) \/ PublishDirect(m) \/ Expire(m)
    \/ \E w \in Workers : \/ Pull(w) \/ PullRaises(w) \/ Process(w)
                          \/ Ack(w) \/ AckRaises(w)
    \/ \E a \in Actors : Step(a) \/ StepRaises(a) \/ StepRejects(a)
    \/ \E a \in Approvers : \/ \E r \in Requests : ApproveCheck(a, r)
                            \/ ApproveUpdate(a)
                            \/ ApproveInvoke(a)
    \/ \E S \in Deployments : Restart(S)

Spec == Init /\ [][Next]_vars

(***************************************************************************)
(* The event loop runs every coroutine that is ready, and the broker makes *)
(* an unacknowledged message visible again.  Nothing obliges a client to   *)
(* send a request or an approval.                                          *)
(***************************************************************************)
Fairness ==
    /\ \A w \in Workers : WF_vars(Pull(w)) /\ WF_vars(Process(w)) /\ WF_vars(Ack(w))
    /\ \A a \in Actors : WF_vars(Step(a)) /\ WF_vars(StepRejects(a))
    /\ \A a \in Approvers : WF_vars(ApproveUpdate(a)) /\ WF_vars(ApproveInvoke(a))
    /\ \A m \in Messages : WF_vars(Expire(m) /\ ~Held(m))

FairSpec == Spec /\ Fairness
=============================================================================
