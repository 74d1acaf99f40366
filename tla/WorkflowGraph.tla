--------------------------- MODULE WorkflowGraph ---------------------------
(***************************************************************************)
(* The orchestration graph of orchestration/graph.py as a pure transition  *)
(* relation: the channels of one workflow thread, the nodes, and the edges *)
(* between them.  A node is an operator that, given the channels it reads, *)
(* returns the set of outcomes it may have.  HITLService runs the nodes.   *)
(*                                                                         *)
(* Abstractions.  A request body is one of the model values in Payloads;   *)
(* what the code computes from a body alone is a set of payloads below.    *)
(* Texts, identifiers and the stored outputs are left out.  The channel    *)
(* "routing" is written once and read by nobody, so it is left out too.    *)
(***************************************************************************)
EXTENDS Naturals, Sequences

CONSTANTS
    Payloads,        (* request bodies (AgentRequest.payload)                *)
    Approvers,       (* approver ids, one per call of the approval endpoint  *)
    None,            (* "no request" / "no approver"                         *)
    PIIPayloads,     (* bodies in which PIIDetector.scan finds Zone 1 data   *)
    HardStops,       (* bodies on which ERComplianceModule.check stops       *)
    LowPayloads,     (* bodies for which Legal confidence is LOW whatever    *)
                     (* the model answers: unsupported or multi-jurisdiction *)
    Rejected,        (* bodies that no sub-agent's payload schema validates  *)
    PlansOf          (* the domain sequences the Director may choose: one    *)
                     (* when keywords decide, several when the LLM decides   *)

Domains == {"ER", "LEGAL", "CB", "LD", "HRBP", "HR_OPS", "TA", "ANALYTICS"}

\* build_routing_decision: one domain, or the sequential pair ER -> LEGAL.
Plans == {<<d>> : d \in Domains} \cup {<<"ER", "LEGAL">>}

ASSUME PayloadAssumption ==
    /\ None \notin Payloads
    /\ None \notin Approvers
    /\ PIIPayloads \subseteq Payloads
    /\ HardStops \subseteq Payloads
    /\ LowPayloads \subseteq Payloads
    /\ Rejected \subseteq Payloads
    /\ PlansOf \in [Payloads -> SUBSET Plans]

----------------------------------------------------------------------------
(* Channels, responses, audit entries.                                     *)

Tiers == {"MANDATORY", "REQUIRED", "RECOMMENDED", "NONE"}
Response == [agent : Domains \cup {"DIRECTOR", "NONE"}, tier : Tiers]
NoResponse == [agent |-> "NONE", tier |-> "NONE"]

\* "entry" is hitl_entry_id: a position in the request's audit trail, 0 for None.
WorkflowState ==
    [request   : Payloads \cup {None},
     pending   : Plans \cup {<<>>},
     responses : Seq(Response),
     final     : Response,
     error     : BOOLEAN,
     hitl      : BOOLEAN,
     entry     : Nat,
     clear     : BOOLEAN,
     approval  : Approvers \cup {None}]

\* The channels of a thread nobody has written: every .get() of the code is falsy.
EmptyState ==
    [request |-> None, pending |-> <<>>, responses |-> <<>>, final |-> NoResponse,
     error |-> FALSE, hitl |-> FALSE, entry |-> 0, clear |-> FALSE, approval |-> None]

SimpleAgents == Domains \ {"ER"}
Nodes == {"entry", "dispatch", "er_compliance", "er_reason", "hitl_gate", "finalize"}
             \cup SimpleAgents

Events == {"PII_BOUNDARY_VIOLATION", "WORKFLOW_ROUTED", "ER_HARD_STOP", "ER_CLEAR",
           "REQUEST_RECEIVED", "AGENT_RECORD", "RESPONSE_GENERATED",
           "PROCESSING_ERROR", "HITL_PENDING", "WORKFLOW_COMPLETED"}

\* AuditEntry.  ER_COMPLIANCE_CHECK is split by the verdict its detail carries, and
\* AGENT_RECORD stands for the entry of each agent's own: LEGAL_OPINION, CB_OFFER_RANGE,
\* LD_LEARNING_PATH, HRBP_RECOMMENDATION, HR_OPS_OBLIGATIONS_DERIVED, ...
AuditEntry == [event    : Events,
               agent    : Domains \cup {"DIRECTOR", "NONE"},
               approver : Approvers \cup {None}]

Entry(event, agent) == [event |-> event, agent |-> agent, approver |-> None]

(***************************************************************************)
(* An outcome of a node: the channels after it, the audit entries it       *)
(* appends in order, and whether it then notifies the designated approver. *)
(***************************************************************************)
Outcome(v, log, notify) == [vals |-> v, log |-> log, notify |-> notify]

----------------------------------------------------------------------------
(* Nodes.                                                                  *)

\* Faulty: the plan goes after what an earlier run left pending, as a reducer channel would.
EntryAppendsPlan(v) ==
    {Outcome([v EXCEPT !.pending = @ \o p, !.responses = <<>>, !.error = FALSE,
                       !.hitl = FALSE],
             <<Entry("WORKFLOW_ROUTED", "DIRECTOR")>>, FALSE) : p \in PlansOf[v.request]}

\* Faulty: the refusal is added to the responses of the thread instead of replacing them.
EntryAppendsRefusal(v) ==
    LET r == [agent |-> "DIRECTOR", tier |-> "MANDATORY"] IN
    IF v.request \in PIIPayloads
    THEN {Outcome([v EXCEPT !.error = TRUE, !.final = r, !.responses = Append(@, r),
                            !.pending = <<>>, !.hitl = FALSE],
                  <<Entry("PII_BOUNDARY_VIOLATION", "DIRECTOR")>>, FALSE)}
    ELSE {Outcome([v EXCEPT !.pending = p, !.responses = <<>>, !.error = FALSE,
                            !.hitl = FALSE],
                  <<Entry("WORKFLOW_ROUTED", "DIRECTOR")>>, FALSE) : p \in PlansOf[v.request]}

\* PII gate, then Director routing.  Writes neither approval, hitl_entry_id, er_clear
\* nor (without PII) final: a second run on a thread starts with the first one's.
EntryNode(v) ==
    IF v.request \in PIIPayloads
    THEN LET r == [agent |-> "DIRECTOR", tier |-> "MANDATORY"]
         IN  {Outcome([v EXCEPT !.error = TRUE, !.final = r, !.responses = <<r>>,
                                !.pending = <<>>, !.hitl = FALSE],
                      <<Entry("PII_BOUNDARY_VIOLATION", "DIRECTOR")>>, FALSE)}
    ELSE {Outcome([v EXCEPT !.pending = p, !.responses = <<>>, !.error = FALSE,
                            !.hitl = FALSE],
                  <<Entry("WORKFLOW_ROUTED", "DIRECTOR")>>, FALSE)
              : p \in PlansOf[v.request]}

DispatchNode(v) == {Outcome(v, <<>>, FALSE)}

\* Faulty: a hard stop that does not notify the designated approver.
ERComplianceSilent(v) ==
    LET r == [agent |-> "ER", tier |-> "MANDATORY"] IN
    IF v.request \in HardStops
    THEN {Outcome([v EXCEPT !.responses = Append(@, r), !.final = r, !.pending = <<>>,
                            !.clear = FALSE, !.hitl = TRUE, !.entry = 0],
                  <<Entry("ER_HARD_STOP", "ER")>>, FALSE)}
    ELSE {Outcome([v EXCEPT !.clear = TRUE], <<Entry("ER_CLEAR", "ER")>>, FALSE)}

\* Faulty: a hard stop leaves er_clear as the thread's last run left it.
ERComplianceKeepsClear(v) ==
    LET r == [agent |-> "ER", tier |-> "MANDATORY"] IN
    IF v.request \in HardStops
    THEN {Outcome([v EXCEPT !.responses = Append(@, r), !.final = r, !.pending = <<>>,
                            !.hitl = TRUE, !.entry = 0],
                  <<Entry("ER_HARD_STOP", "ER")>>, TRUE)}
    ELSE {Outcome([v EXCEPT !.clear = TRUE], <<Entry("ER_CLEAR", "ER")>>, FALSE)}

\* Module B.  A payload the ER schema rejects raises before anything is written.
ERComplianceNode(v) ==
    LET r == [agent |-> "ER", tier |-> "MANDATORY"] IN
    CASE v.request \in Rejected -> {}
      [] v.request \in HardStops \ Rejected ->
           {Outcome([v EXCEPT !.responses = Append(@, r), !.final = r, !.pending = <<>>,
                              !.clear = FALSE, !.hitl = TRUE, !.entry = 0],
                    <<Entry("ER_HARD_STOP", "ER")>>, TRUE)}
      [] OTHER -> {Outcome([v EXCEPT !.clear = TRUE], <<Entry("ER_CLEAR", "ER")>>, FALSE)}

\* Faulty: whatever else is pending is dropped too.
WithoutRest(pending, d) == <<>>

\* A plan names a domain once and dispatch runs the first one, so dropping every
\* occurrence of d from pending drops its head.
Without(pending, d) ==
    IF pending # <<>> /\ Head(pending) = d THEN Tail(pending) ELSE pending

\* Module A: called directly, not through BaseAgent.handle, so it appends no entry.
ERReasonNode(v) ==
    LET r == [agent |-> "ER", tier |-> "RECOMMENDED"]
    IN  {Outcome([v EXCEPT !.responses = Append(@, r), !.final = r,
                           !.pending = Without(@, "ER")], <<>>, FALSE)}

\* The tier each agent's process() answers with; Legal's depends on its confidence.
TiersOf(d, payload) ==
    CASE d = "LEGAL" -> IF payload \in LowPayloads
                        THEN {"MANDATORY"} ELSE {"MANDATORY", "REQUIRED"}
      [] d \in {"CB", "LD", "HRBP", "HR_OPS"} -> {"RECOMMENDED"}
      [] OTHER -> {"NONE"}

\* What process() appends on its own account; ANALYTICS only for a suppressed cohort.
ProcessLogs(d) ==
    {<<Entry("AGENT_RECORD", d)>>} \cup (IF d = "ANALYTICS" THEN {<<>>} ELSE {})

\* Agent d, driven by BaseAgent.handle, answers with tier t and logs own on the way.
Answers(d, v, t, own) ==
    LET r == [agent |-> d, tier |-> t]
        mandatory == t = "MANDATORY"
    IN  Outcome([v EXCEPT !.responses = Append(@, r), !.final = r,
                          !.pending = IF mandatory THEN <<>> ELSE Without(@, d),
                          !.hitl = @ \/ mandatory],
                <<Entry("REQUEST_RECEIVED", d)>> \o own
                    \o <<Entry("RESPONSE_GENERATED", d)>>, mandatory)

\* A sub-agent node (entry has already passed its PII gate).
AgentNode(d, v) ==
    IF v.request \in Rejected THEN {}
    ELSE {Answers(d, v, t, own) : t \in TiersOf(d, v.request), own \in ProcessLogs(d)}

\* Faulty: the gate keeps the position of the entry before its own.
HITLGateOffByOne(v, id) ==
    {Outcome([v EXCEPT !.entry = id - 1, !.hitl = TRUE],
             <<Entry("HITL_PENDING", v.final.agent)>>, FALSE)}

\* Faulty: a thread that already has a pending entry keeps it.
HITLGateKeepsEntry(v, id) ==
    {Outcome([v EXCEPT !.entry = IF @ = 0 THEN id ELSE @, !.hitl = TRUE],
             <<Entry("HITL_PENDING", v.final.agent)>>, FALSE)}

\* id: the identifier under which the audit log stores the entry.
HITLGateNode(v, id) ==
    {Outcome([v EXCEPT !.entry = id, !.hitl = TRUE],
             <<Entry("HITL_PENDING", v.final.agent)>>, FALSE)}

\* Stamps provenance() on the trail first, then appends; returns no channel.
FinalizeNode(v) == {Outcome(v, <<Entry("WORKFLOW_COMPLETED", "NONE")>>, FALSE)}

RunNode(n, v, id) ==
    CASE n = "entry"         -> EntryNode(v)
      [] n = "dispatch"      -> DispatchNode(v)
      [] n = "er_compliance" -> ERComplianceNode(v)
      [] n = "er_reason"     -> ERReasonNode(v)
      [] n = "hitl_gate"     -> HITLGateNode(v, id)
      [] n = "finalize"      -> FinalizeNode(v)
      [] OTHER               -> AgentNode(n, v)

\* The entry finalize stamps with the approver before it appends (0: none).
Provenance(n, v) ==
    IF n = "finalize" /\ v.approval # None THEN v.entry ELSE 0

\* What a node leaves behind when its payload does not validate: handle() logs the
\* error and re-raises; Module B has logged nothing yet.
RejectLog(n) ==
    IF n \in SimpleAgents
    THEN <<Entry("REQUEST_RECEIVED", n), Entry("PROCESSING_ERROR", n)>> ELSE <<>>

\* The same when process() raises later on, before or after its own entry.
ErrorLogs(n) ==
    {RejectLog(n)} \cup
    (IF n \in SimpleAgents
     THEN {<<Entry("REQUEST_RECEIVED", n), Entry("AGENT_RECORD", n),
             Entry("PROCESSING_ERROR", n)>>}
     ELSE {})

----------------------------------------------------------------------------
(* Edges.                                                                  *)

NodeForDomain(d) == IF d = "ER" THEN "er_compliance" ELSE d

\* Faulty: asks whether agents are pending before it asks for the gate.
RoutePendingFirst(v) ==
    CASE v.error \/ v.pending = <<>> -> "finalize"
      [] ~v.error /\ v.pending # <<>> /\ v.hitl -> "hitl_gate"
      [] OTHER -> NodeForDomain(Head(v.pending))

RouteNext(v) ==
    CASE v.error -> "finalize"
      [] ~v.error /\ v.hitl -> "hitl_gate"
      [] ~v.error /\ ~v.hitl /\ v.pending = <<>> -> "finalize"
      [] OTHER -> NodeForDomain(Head(v.pending))

ERBranch(v) == IF v.clear THEN "er_reason" ELSE "dispatch"

\* The node scheduled after n when the channels are v; END is "end".
NextNode(n, v) ==
    CASE n = "dispatch"      -> RouteNext(v)
      [] n = "er_compliance" -> ERBranch(v)
      [] n = "hitl_gate"     -> "finalize"
      [] n = "finalize"      -> "end"
      [] OTHER               -> "dispatch"

\* Faulty: the graph compiled without its interrupt.
NoInterrupt == {}

InterruptAfter == {"hitl_gate"}
=============================================================================
