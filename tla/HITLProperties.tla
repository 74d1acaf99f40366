--------------------------- MODULE HITLProperties ---------------------------
(***************************************************************************)
(* What HITLService must guarantee, and what the repository's texts say it *)
(* guarantees although the code does not.                                  *)
(***************************************************************************)
EXTENDS HITLService

Logged(r, event) == \E i \in DOMAIN audit[r] : audit[r][i].event = event

\* The copies of request r's channels, each with the node scheduled on them: the
\* latest checkpoint's and those of the runs in progress.
Copies(r) ==
    {ckpt[r]} \cup {[next |-> run[a].node, vals |-> run[a].vals]
                        : a \in {b \in Actors : run[b].rid = r}}

\* Requests every message published for which is an ER case that Module B stops.
HardStopBodies ==
    {p \in HardStops \ PIIPayloads : \A plan \in PlansOf[p] : Head(plan) = "ER"}
HardStopRequests ==
    {r \in Requests : \A m \in Messages :
        RidOf[m] = r /\ msg[m].status # "new" => msg[m].body \in HardStopBodies}

\* A run stopped by Module B completes only after the approver was notified, the gate
\* has logged the pending approval, and an approval was posted (graph.py er_compliance,
\* hitl_gate, interrupt_after) -- whatever is redelivered, restarted or raced.
HardStopNeedsApproval ==
    \A r \in HardStopRequests : Logged(r, "WORKFLOW_COMPLETED") =>
        /\ "ER" \in notified[r]
        /\ Logged(r, "HITL_PENDING")
        /\ posted[r] # {}

Informed == {r \in Requests : "ER" \in notified[r]}
Parked == {r \in Requests : Logged(r, "HITL_PENDING")}
Approved == {r \in Requests : posted[r] # {}}
Completed == {r \in Requests : Logged(r, "WORKFLOW_COMPLETED")}

\* The gate as its users see it: each step of the service is a step of HumanGate, or
\* none.  Notification, parking, approval and completion of a stopped request come in
\* this order, except that an approval may be posted before the request is parked.
Gate == INSTANCE HumanGate WITH
    obliged   <- HardStopRequests,
    informed  <- Informed,
    parked    <- Parked,
    approved  <- Approved,
    completed <- Completed
ImplementsHumanGate == Gate!Spec

\* Constraint #4: Module A is scheduled, or has answered, only on a body Module B found
\* CLEAR, and that verdict is in the audit trail -- er_clear survives from one run of a
\* thread to the next, so a request id reused for another body must not inherit it.
ModuleAOnlyOnClear ==
    \A r \in Requests : \A c \in Copies(r) :
        \/ c.next = "er_reason"
        \/ \E i \in DOMAIN c.vals.responses :
               c.vals.responses[i] = [agent |-> "ER", tier |-> "RECOMMENDED"]
        => c.next = "entry" \/ (c.vals.request \notin HardStops /\ Logged(r, "ER_CLEAR"))

\* A thread that waits at, or passed, the gate holds the entry its approval belongs to:
\* the HITL_PENDING entry of the agent whose MANDATORY result suspended it, and that
\* agent's result reached the approver (hitl_gate, finalize, _notify_hitl).
GateEntryIsTheResult ==
    \A r \in Requests : \A c \in Copies(r) :
        c.next \in {"finalize", "end"} /\ c.vals.hitl =>
            /\ c.vals.entry \in DOMAIN audit[r]
            /\ audit[r][c.vals.entry].event = "HITL_PENDING"
            /\ audit[r][c.vals.entry].agent = c.vals.final.agent
            /\ c.vals.final.tier = "MANDATORY"
            /\ c.vals.final.agent \in notified[r]

\* Constraint #5: provenance is only ever on a HITL_PENDING entry, and names somebody
\* who posted an approval for that very request (finalize, record_approval).
StampsAreHuman ==
    \A r \in Requests : \A i \in DOMAIN audit[r] :
        audit[r][i].approver # None =>
            /\ audit[r][i].event = "HITL_PENDING"
            /\ audit[r][i].approver \in posted[r]

\* While a run is neither stopped nor in error, the agents that have answered followed
\* by the domains still pending are the plan the Director chose; so a run that ends
\* this way has run its whole plan, ER before LEGAL.
PlanConserved ==
    \A r \in Requests : \A c \in Copies(r) :
        LET v == c.vals
            answered == [i \in DOMAIN v.responses |-> v.responses[i].agent]
        IN  c.next \notin {"none", "entry"} /\ ~v.error /\ ~v.hitl =>
                /\ answered \o v.pending \in PlansOf[v.request]
                /\ c.next \in {"finalize", "end"} => v.pending = <<>>

\* A body with Zone 1 data reaches no agent: after entry its run only goes to finalize,
\* with the Director's refusal as its one response, whatever an earlier run left behind.
PIIHaltsRun ==
    \A r \in Requests : \A c \in Copies(r) :
        c.vals.request \in PIIPayloads /\ c.next # "entry" =>
            /\ c.next \in {"dispatch", "finalize", "end"}
            /\ c.vals.responses = <<[agent |-> "DIRECTOR", tier |-> "MANDATORY"]>>
            /\ c.vals.pending = <<>>

\* worker.py: a message that parses is acknowledged only once its request is finished or
\* parked at the gate; an error, a restart or a late ack never loses it.
AckedNotLost ==
    \A m \in Messages : msg[m].status = "deleted" /\ msg[m].body # None =>
        Logged(RidOf[m], "WORKFLOW_COMPLETED") \/ Logged(RidOf[m], "HITL_PENDING")

\* Every message the broker holds is settled in the end: redelivery after an error
\* (run_once leaves it unacknowledged) gets it through, unless its body fails every time.
EveryMessageSettled ==
    \A m \in Messages :
        (msg[m].status = "visible" /\ msg[m].body \notin Rejected)
            ~> (msg[m].status = "deleted")

\* No actor but a is in a run or an approval call on request r.
Suspended(r) == ckpt[r].next = "finalize" /\ ckpt[r].vals.hitl
Undisturbed(a, r) ==
    /\ \A b \in Actors \ {a} : run[b].rid # r
    /\ \A b \in Approvers \ {a} :
           ~(api[b].rid = r /\ api[b].pc \in {"checked", "updated", "running"})

\* An approval written to a suspended thread leads to its completion, unless the call
\* fails or another run or call takes up the thread meanwhile (a second run's next
\* checkpoint overwrites the approval).
ApprovalCompletes ==
    \A a \in Approvers : \A r \in Requests :
        (api[a].pc = "updated" /\ api[a].rid = r /\ Suspended(r) /\ Undisturbed(a, r))
            ~> \/ Logged(r, "WORKFLOW_COMPLETED")
               \/ api[a].pc = "failed"
               \/ ~Undisturbed(a, r)

----------------------------------------------------------------------------
(* What the texts say and the code does not do.                            *)

\* graph.py: "The workflow resumes only when the external workflow system posts an
\* approval": a request that was parked at the gate has completed only if an approval
\* was posted.
ParkedNeedsApproval ==
    \A r \in Requests : \A i, j \in DOMAIN audit[r] :
        i < j /\ audit[r][i].event = "HITL_PENDING"
              /\ audit[r][j].event = "WORKFLOW_COMPLETED" => posted[r] # {}

\* graph.py: "Any MANDATORY result (..., a PII boundary violation) routes to the HITL gate".
MandatoryReachesGate ==
    \A r \in Requests : \A c \in Copies(r) :
        c.next = "end" /\ c.vals.final.tier = "MANDATORY" => Logged(r, "HITL_PENDING")

\* DEPLOYMENT.md: approve "resumes a HITL-suspended run (404 unknown, 409 not awaiting
\* approval)": a call that is let through finds the thread suspended.
ApproveOnlySuspended ==
    [][\A a \in Approvers : api[a].pc # "checked" /\ api'[a].pc = "checked" =>
           Suspended(api'[a].rid)]_vars

\* audit_log.py: "A single immutable audit-trail record": an approver, once recorded, is
\* not replaced.
ApproverNotReplaced ==
    [][\A r \in Requests : \A i \in DOMAIN audit[r] :
           audit[r][i].approver # None =>
               audit'[r][i].approver = audit[r][i].approver]_vars

\* worker.py: on ERROR "the message is NOT acked, so the broker redelivers it": a pulled
\* message is acknowledged or comes back.
UnackedComesBack ==
    \A m \in Messages : (msg[m].status = "inflight") ~> (msg[m].status \in {"visible", "deleted"})

\* worker.py run_forever: "Poll-process until stop_event is set": every worker gets back
\* to polling, whatever the queue answers.
PollsUntilStopped == \A w \in Workers : []<>(worker[w].pc = "poll")
=============================================================================
