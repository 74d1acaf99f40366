--------------------------- MODULE AgentHandling ----------------------------
(***************************************************************************)
(* BaseAgent.handle and the process of the nine agents, down to the writes *)
(* of the audit log, storage and notification adapters.                    *)
(*                                                                         *)
(* One request is handled by several runs: the Director first, then the    *)
(* agent it names, and again both when the request is delivered again.  A  *)
(* run is a list of operations still to do; each step performs one.        *)
(*                                                                         *)
(* Abstractions.  An audit entry is <<run, event>>: its id is fresh and a  *)
(* run writes each event once.  The request is a record of what the        *)
(* agents' decisions look at.  A stored object is the run that wrote it    *)
(* last.                                                                   *)
(***************************************************************************)
EXTENDS Naturals, Sequences, FiniteSets

CONSTANTS Runs,
          Requests,       \* records [agent, pii, valid, er, jurisdiction, mentions,
                          \*          cohort, text]
          MinimumCohortSize, \* the setting MINIMUM_COHORT_SIZE, which no agent reads
          MaxFaults       \* bound: failing calls and runs that vanish

ASSUME HandlingAssumption == MaxFaults \in Nat

ASSUME SettingAssumption == MinimumCohortSize \in Nat

ASSUME RunsAssumption == "nobody" \notin Runs

VARIABLES target,         \* the CLOUD_TARGET
          request,
          run,            \* per run [at, agent, todo, tier]
          entries,        \* audit entries written
          markers,        \* by_request markers written
          objects,        \* storage: key -> the run that wrote it
          acts,           \* <<run, op>>: calls that took effect
          faults

handlingVars == <<target, request, run, entries, markers, objects, acts, faults>>

Decide == INSTANCE AgentDecisions
Routing == INSTANCE Director

Agents == {"LEGAL", "ER", "CB", "LD", "HRBP", "HR_OPS", "TA", "ANALYTICS"}
Targets == {"LOCAL", "GCP", "AWS"}

\* A request is routed to ER or to one of graph.py's _SIMPLE_AGENTS.
ASSUME RequestsAssumption == \A q \in Requests : q.agent \in Agents

Keys == {"routing.json", "legal.txt", "legal.meta.json", "er.txt", "cb.json", "ld.json",
         "hrbp.txt", "hr_ops.txt", "ta.json", "analytics.json"}

----------------------------------------------------------------------------
(* The scripts.                                                            *)

Op(op, what) == [op |-> op, what |-> what]

\* audit_log.append.  LOCAL: one row, under the lock.
AppendLocal(event) == <<Op("row", event)>>

\* GCP: the entry, then the marker that query lists.
AppendGCP(event) == <<Op("entry", event), Op("marker", event)>>

\* AWS: the same, and the entry is emitted to CloudWatch.
AppendAWS(event) == AppendGCP(event) \o <<Op("log", event)>>

\* Faulty: the marker goes first.
AppendMarkerFirst(event) ==
    CASE target = "LOCAL" -> AppendLocal(event)
      [] target = "GCP"   -> <<Op("marker", event), Op("entry", event)>>
      [] target = "AWS"   -> <<Op("marker", event), Op("entry", event), Op("log", event)>>

\* The append of the configured audit log.
AuditAppend(event) ==
    CASE target = "LOCAL" -> AppendLocal(event)
      [] target = "GCP"   -> AppendGCP(event)
      [] target = "AWS"   -> AppendAWS(event)

Llm == <<Op("llm", "llm")>>
Fetch(system) == <<Op("fetch", system)>>
Put(key) == <<Op("put", key)>>
Notify == <<Op("notify", "human")>>

\* Module B of the ER agent.
ErVerdict(q) == Decide!Check(q.er)

\* Faulty: the verdict is noted after the reasoning.
ErScriptLateNote(q) ==
    IF ErVerdict(q).result = "HARD_STOP" THEN AuditAppend("ER_COMPLIANCE_CHECK")
    ELSE Llm \o AuditAppend("ER_COMPLIANCE_CHECK") \o Put("er.txt")

\* Faulty: a hard stop that needs no legal agent goes on to Module A.
ErScriptLegalOnly(q) ==
    AuditAppend("ER_COMPLIANCE_CHECK")
      \o (IF ErVerdict(q).legal THEN <<>> ELSE Llm \o Put("er.txt"))

\* ERAgent.process: Module B, its audit entry, and Module A only on CLEAR.
ErScript(q) ==
    AuditAppend("ER_COMPLIANCE_CHECK")
      \o (IF ErVerdict(q).result = "HARD_STOP" THEN <<>> ELSE Llm \o Put("er.txt"))

\* HRLegalAgent.process.
LegalScript ==
    Llm \o Put("legal.txt") \o Put("legal.meta.json") \o AuditAppend("LEGAL_OPINION")

CbScript == Put("cb.json") \o AuditAppend("CB_OFFER_RANGE")

LdScript == Fetch("lms") \o Put("ld.json") \o AuditAppend("LD_LEARNING_PATH")

HrbpScript == Llm \o Put("hrbp.txt") \o AuditAppend("HRBP_RECOMMENDATION")

HrOpsScript == AuditAppend("HR_OPS_OBLIGATIONS_DERIVED") \o Llm \o Put("hr_ops.txt")

TaScript == Fetch("greenhouse") \o Fetch("goodtime") \o Put("ta.json")
              \o AuditAppend("TA_PIPELINE_SUMMARY")

\* The floor of the analytics agent: build_registry hands it adapters only, so it keeps
\* its default whatever the setting says.
MinimumCohort == Decide!DefaultMinimumCohort

\* Faulty: the metric is fetched before the privacy floor is looked at.
AnalyticsScriptFetchFirst(q) ==
    Fetch("panalyt")
      \o (IF Decide!Suppressed(q.cohort, MinimumCohort)
          THEN AuditAppend("ANALYTICS_SUPPRESSED") ELSE <<>>)
      \o Put("analytics.json")

\* PeopleAnalyticsAgent.process and _respond.
AnalyticsScript(q) ==
    (IF Decide!Suppressed(q.cohort, MinimumCohort) THEN AuditAppend("ANALYTICS_SUPPRESSED")
     ELSE Fetch("panalyt"))
      \o Put("analytics.json")

\* DirectorAgent.process.
DirectorScript(q) ==
    (IF Routing!Unsure(q.text) THEN Llm ELSE <<>>)
      \o Put("routing.json") \o AuditAppend("ROUTING_DECISION")

\* process of each agent; a body its payload schema refuses raises first (the Director
\* has no schema to parse it with).
Process(agent, q) ==
    IF ~q.valid /\ agent # "DIRECTOR" THEN <<Op("raise", "invalid")>>
    ELSE CASE agent = "ER" -> ErScript(q)
           [] agent = "LEGAL" -> LegalScript
           [] agent = "CB" -> CbScript
           [] agent = "LD" -> LdScript
           [] agent = "HRBP" -> HrbpScript
           [] agent = "HR_OPS" -> HrOpsScript
           [] agent = "TA" -> TaScript
           [] agent = "ANALYTICS" -> AnalyticsScript(q)
           [] agent = "DIRECTOR" -> DirectorScript(q)

\* The HITL tier of the answer; LEGAL's depends on the answer's confidence.
Tier(agent, q, confidence) ==
    CASE agent = "ER" -> IF ErVerdict(q).result = "HARD_STOP" THEN "MANDATORY"
                         ELSE "RECOMMENDED"
      [] agent = "LEGAL" -> IF confidence = "LOW" THEN "MANDATORY" ELSE "REQUIRED"
      [] agent \in {"TA", "ANALYTICS", "DIRECTOR"} -> "NONE"
      [] OTHER -> "RECOMMENDED"

\* What _derive_confidence makes of the model's answer.
Confidence(q, hint) ==
    Decide!DeriveConfidence(Decide!Route(q.jurisdiction, q.mentions), hint)

----------------------------------------------------------------------------
(* handle: what follows when the operations of a phase are done, or one    *)
(* of them raises.                                                         *)

\* Faulty: the human is told before the response is on record.
ConclusionTellsFirst(state) ==
    (IF state.tier = "MANDATORY" THEN Notify ELSE <<>>) \o AuditAppend("RESPONSE_GENERATED")

\* Faulty: only the legal agent's escalations are sent.
ConclusionLegalOnly(state) ==
    AuditAppend("RESPONSE_GENERATED")
      \o (IF state.agent = "LEGAL" /\ state.tier = "MANDATORY" THEN Notify ELSE <<>>)

\* Steps 4 and 5 of handle.
Conclusion(state) ==
    AuditAppend("RESPONSE_GENERATED")
      \o (IF state.tier = "MANDATORY" THEN Notify ELSE <<>>)

After(state) ==
    CASE state.at = "admit"   -> [state EXCEPT !.at = "process",
                                               !.todo = Process(state.agent, request)]
      [] state.at = "process" -> [state EXCEPT !.at = "conclude", !.todo = Conclusion(state)]
      [] state.at = "except"  -> [state EXCEPT !.at = "raised"]
      [] OTHER                -> [state EXCEPT !.at = "returned"]

\* Faulty: a failing first append is logged as a processing error and the run goes on.
RaisedGoesOn(state) ==
    CASE state.at = "admit"   -> After([state EXCEPT !.todo = <<>>])
      [] state.at = "process" -> [state EXCEPT !.at = "except",
                                               !.todo = AuditAppend("PROCESSING_ERROR")]
      [] state.at = "gone"    -> [state EXCEPT !.todo = <<>>]
      [] OTHER                -> [state EXCEPT !.at = "raised", !.todo = <<>>]

\* Faulty: the second append is inside the try.
RaisedWideTry(state) ==
    CASE state.at \in {"process", "conclude"} ->
                                 [state EXCEPT !.at = "except",
                                               !.todo = AuditAppend("PROCESSING_ERROR")]
      [] state.at = "gone"    -> [state EXCEPT !.todo = <<>>]
      [] OTHER                -> [state EXCEPT !.at = "raised", !.todo = <<>>]

\* Faulty: the operations after the failing one are still to do.
RaisedKeepsRest(state) ==
    CASE state.at = "process" -> [state EXCEPT !.at = "except",
                                               !.todo = AuditAppend("PROCESSING_ERROR")]
      [] state.at = "gone"    -> [state EXCEPT !.todo = <<>>]
      [] OTHER                -> [state EXCEPT !.at = "raised", !.todo = Tail(@)]

\* Only process is inside the try: its exception is logged, then raised again.  The
\* thread of a run that is gone has nobody to raise to.
Raised(state) ==
    CASE state.at = "process" -> [state EXCEPT !.at = "except",
                                               !.todo = AuditAppend("PROCESSING_ERROR")]
      [] state.at = "gone"    -> [state EXCEPT !.todo = <<>>]
      [] OTHER                -> [state EXCEPT !.at = "raised", !.todo = <<>>]

\* The operation at the head is done.
Done(state) ==
    LET rest == [state EXCEPT !.todo = Tail(@)]
    IN  IF rest.todo = <<>> /\ state.at # "gone" THEN After(rest) ELSE rest

Running == {"refuse", "admit", "process", "except", "conclude"}
Busy(r) == run[r].todo # <<>>
NextOp(r) == Head(run[r].todo)

----------------------------------------------------------------------------
(* Actions.                                                                *)

Init ==
    /\ target \in Targets
    /\ request \in Requests
    /\ run = [r \in Runs |-> [at |-> "idle", agent |-> "DIRECTOR", todo |-> <<>>,
                              tier |-> "NONE"]]
    /\ entries = {} /\ markers = {}
    /\ objects = [k \in Keys |-> "nobody"]
    /\ acts = {}
    /\ faults = 0

\* handle is called: the PII gate, then the first append.
Call(r, agent) ==
    /\ run[r].at = "idle"
    /\ run' = [run EXCEPT ![r] =
         [at    |-> IF request.pii THEN "refuse" ELSE "admit",
          agent |-> agent,
          todo  |-> AuditAppend(IF request.pii THEN "PII_BOUNDARY_VIOLATION"
                                ELSE "REQUEST_RECEIVED"),
          tier  |-> IF request.pii THEN "MANDATORY" ELSE Tier(agent, request, "HIGH")]]
    /\ UNCHANGED <<target, request, entries, markers, objects, acts, faults>>

\* What an operation does to the trail, the store and the world.
Effect(r, op) ==
    /\ entries' = IF op.op \in {"row", "entry"} THEN entries \cup {<<r, op.what>>} ELSE entries
    /\ markers' = IF op.op \in {"row", "marker"} THEN markers \cup {<<r, op.what>>} ELSE markers
    /\ objects' = IF op.op = "put" THEN [objects EXCEPT ![op.what] = r] ELSE objects
    /\ acts' = IF op.op \in {"llm", "fetch", "put", "notify"} THEN acts \cup {<<r, op.op>>}
               ELSE acts

\* A call succeeds.
Perform(r) ==
    /\ Busy(r)
    /\ NextOp(r).op \notin {"raise", "llm"}
    /\ Effect(r, NextOp(r))
    /\ run' = [run EXCEPT ![r] = Done(@)]
    /\ UNCHANGED <<target, request, faults>>

\* The model answers; the legal agent reads its confidence out of the answer.
Answer(r, hint) ==
    /\ Busy(r)
    /\ NextOp(r).op = "llm"
    /\ run[r].agent # "LEGAL" => hint = "NONE"
    /\ Effect(r, NextOp(r))
    /\ run' = [run EXCEPT ![r] =
                 Done([@ EXCEPT !.tier = Tier(run[r].agent, request, Confidence(request, hint))])]
    /\ UNCHANGED <<target, request, faults>>

\* The body does not fit the agent's payload schema.
RejectPayload(r) ==
    /\ Busy(r)
    /\ NextOp(r).op = "raise"
    /\ run' = [run EXCEPT ![r] = Raised(@)]
    /\ UNCHANGED <<target, request, entries, markers, objects, acts, faults>>

\* A call to a service fails, without its effect, or with it when only the reply is lost.
\* The stubs that are fetched from, LOCAL's lock and LOCAL's send do not fail.
CallFails(r) ==
    /\ Busy(r)
    /\ faults < MaxFaults
    /\ NextOp(r).op \notin {"raise", "fetch", "row"}
    /\ ~(target = "LOCAL" /\ NextOp(r).op = "notify")
    /\ \/ UNCHANGED <<entries, markers, objects, acts>>
       \/ NextOp(r).op # "llm" /\ Effect(r, NextOp(r))
    /\ run' = [run EXCEPT ![r] = Raised(@)]
    /\ faults' = faults + 1
    /\ UNCHANGED <<target, request>>

\* The first k operations are writes of one adapter call.
OneCall(todo, k) == \A i \in 1..k : todo[i].what = Head(todo).what

\* What may still be done of the adapter call that is under way: its writes share one
\* thread (LOCAL has none).
Threaded(todo) ==
    IF target = "LOCAL" \/ Head(todo).op \in {"llm", "raise", "fetch"} THEN {<<>>}
    ELSE {SubSeq(todo, 1, k) : k \in {n \in 0..Len(todo) : OneCall(todo, n)}}

\* The process dies, or the task is cancelled: CancelledError is no Exception, so nothing
\* is logged, and the adapter's thread may go on.
Vanish(r) ==
    /\ run[r].at \in Running
    /\ faults < MaxFaults
    /\ \E rest \in Threaded(run[r].todo) :
          run' = [run EXCEPT ![r].at = "gone", ![r].todo = rest]
    /\ faults' = faults + 1
    /\ UNCHANGED <<target, request, entries, markers, objects, acts>>

Next ==
    \E r \in Runs :
        \/ \E agent \in {"DIRECTOR", request.agent} : Call(r, agent)
        \/ Perform(r)
        \/ \E hint \in Decide!Hints : Answer(r, hint)
        \/ RejectPayload(r)
        \/ CallFails(r)
        \/ Vanish(r)

Spec == Init /\ [][Next]_handlingVars

\* query answers with the entries whose marker it finds.
Trail == entries \cap markers

----------------------------------------------------------------------------
(* Properties.                                                             *)

OnTrail(r, event) == <<r, event>> \in Trail
Acted(r, op) == <<r, op>> \in acts
IsRun(r, agent) == run[r].at # "idle" /\ run[r].agent = agent

\* The variables have their types; a run that still has something to do is inside handle
\* or is the adapter thread of one that is gone.
HandlingTypeOK ==
    /\ target \in Targets /\ request \in Requests /\ faults \in 0..MaxFaults
    /\ objects \in [Keys -> Runs \cup {"nobody"}]
    /\ \A r \in Runs : /\ run[r].at \in Running => Busy(r)
                      /\ Busy(r) => run[r].at \in Running \cup {"gone"}

\* Nothing is asked of the model, fetched, stored or sent for a run that the trail does
\* not show as received: not after a failing append, a lost reply or a partial write
\* (Constraint #3, base/agent.py:101-110).
ActedOnRecord ==
    \A r \in Runs, op \in {"llm", "fetch", "put", "notify"} :
        Acted(r, op) => OnTrail(r, "REQUEST_RECEIVED")

\* A verdict is on record before what it permits: the ER agent reasons after its
\* compliance check, HR operations after the obligations (er/agent.py:66, hr_ops:73).
VerdictBeforeReasoning ==
    \A r \in Runs : Acted(r, "llm") =>
        /\ IsRun(r, "ER") => OnTrail(r, "ER_COMPLIANCE_CHECK")
        /\ IsRun(r, "HR_OPS") => OnTrail(r, "HR_OPS_OBLIGATIONS_DERIVED")

\* A case Module B stops is never reasoned about nor stored by the ER agent, whichever of
\* the rules stopped it (Constraint #4, er/agent.py:84).
StoppedNeverReasoned ==
    \A r \in Runs : (IsRun(r, "ER") /\ ErVerdict(request).result = "HARD_STOP") =>
        ~Acted(r, "llm") /\ ~Acted(r, "put")

\* An answer that must have a human has one: when handle returns a MANDATORY answer that
\* is no refusal, the approver was told (base/agent.py:130).
MandatoryReachesHuman ==
    \A r \in Runs :
        (run[r].at = "returned" /\ run[r].tier = "MANDATORY" /\ ~request.pii) =>
            Acted(r, "notify")

\* Whoever is told finds what the message speaks of: the response is on the trail and the
\* output it refers to is in the store (base/agent.py:186-204).
NotifiedKnowsWhat ==
    \A r \in Runs : Acted(r, "notify") =>
        /\ OnTrail(r, "RESPONSE_GENERATED")
        /\ IsRun(r, "LEGAL") => \A k \in {"legal.txt", "legal.meta.json"} : objects[k] # "nobody"

\* What was suppressed was not fetched, by no run of the request, and an answer about a
\* cohort is stored only for data fetched or a suppression on record: "suppressed *before*
\* any data is fetched or returned" (analytics/agent.py:4, analytics/agent.py:46).
SuppressedOnRecord ==
    \A r, s \in Runs : IsRun(r, "ANALYTICS") =>
        /\ OnTrail(s, "ANALYTICS_SUPPRESSED") => ~Acted(r, "fetch")
        /\ Acted(r, "put") => Acted(r, "fetch") \/ OnTrail(r, "ANALYTICS_SUPPRESSED")

\* The privacy floor is the one that is configured: a cohort below MINIMUM_COHORT_SIZE is
\* never fetched (DEPLOYMENT.md:221, config/settings.py:42).
FloorAsConfigured ==
    \A r \in Runs : (IsRun(r, "ANALYTICS") /\ request.cohort < MinimumCohortSize) =>
        ~Acted(r, "fetch")

\* query finds the entry of every marker it lists, at every moment of an append: AWS has
\* no guard for a missing one and would fail for the whole request (aws/audit_log.py:114).
QueryServes == markers \subseteq entries

Abstract == INSTANCE HandlingTrail
               WITH trail <- Trail,
                    Notes <- {"ER_COMPLIANCE_CHECK", "LEGAL_OPINION", "CB_OFFER_RANGE",
                              "LD_LEARNING_PATH", "HRBP_RECOMMENDATION",
                              "HR_OPS_OBLIGATIONS_DERIVED", "TA_PIPELINE_SUMMARY",
                              "ANALYTICS_SUPPRESSED", "ROUTING_DECISION"}

\* The trail tells one story of each run: refused, or admitted, noted and concluded at
\* most once with nothing after, under every failure of the writes behind it.
TrailTellsOneStory == Abstract!Spec
=============================================================================
