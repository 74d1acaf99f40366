# Formal model of the AI HR agent service

TLA+ specifications of the running service of this repository: the API that takes
requests in, the queue and the workers that process them, the LangGraph workflow each
request runs through, and the human-in-the-loop (HITL) gate at which a request waits for
an approval. TLC checks them on small instances; TLAPS proves the theorems for every
value of the constants, every safety and action property the passing runs check
among them.

Around that core stand models of what one agent does with one request, call by call, of
the decisions the agents take without the model, and of the queue adapters, the PII
detector and gateway, and the start of the containers.

The question behind the project: the service promises that some results (an ER hard stop,
a LOW-confidence legal opinion) never take effect without a human. The promise has to
survive at-least-once delivery, several workers, approvals posted at any moment, errors
half way through a step, and restarts. Unit tests run one request at a time through one
graph; the models run everything else.

## The system

| Component | Source | State it keeps | Operations | Talks to |
|---|---|---|---|---|
| API | `service/api.py` | none (the thread's checkpoint) | `ingest`, `get_status`, `approve` | queue, graph, PII detector, audit log |
| Queue worker | `orchestration/worker.py` | position in its batch | `run_once`, `_process`, `run_forever` | queue, graph |
| Graph | `orchestration/graph.py` | channels of each thread, in the checkpointer | nodes, `run_workflow`, `resume_with_approval` | agents, audit log, notification |
| Agents | `agents/*/agent.py` | none | `handle` / `process`; ER: Module B, then Module A | audit log, storage, notification, LLM |
| Director | `agents/director/*` | routing heap | `route`, `RoutingQueue` | LLM |
| ER compliance | `agents/er/compliance_module.py` | none | `check` | - |
| PII detector, gateway | `pii_gateway/*` | the gateway's vault, per process | `scan`, `tokenize`, `seed_from_connector`, `resolve` | HRIS connectors |
| Queue adapters | `adapters/*/queue.py` | receipts; LOCAL: deques | `publish`, `pull`, `ack` | SQS, Pub/Sub |
| Audit log adapters | `adapters/*/audit_log.py` | entries | `append`, `query`, `record_approval` | S3, GCS |
| Scheduler adapters, calendar | `adapters/*/scheduler.py`, `config/japan_statutory_calendar.py` | the schedule | `create_job`, seeding | EventBridge, Cloud Scheduler |
| Storage, vector, secrets, notification adapters | `adapters/*` | cloud resources | thin wrappers | cloud clients |
| Context, factory, settings, entry point | `service/context.py`, `adapters/factory.py`, `config`, `main.py` | singletons | wiring | environment |

How they interact: `ingest` scans the body for Zone 1 data and publishes it; a worker pulls
a batch, runs each message on the workflow thread named by its `request_id`, and acks it
when the run finished *or* was suspended at the gate. A run that raises is not acked, and
the broker hands the message out again. `approve` reads the thread's snapshot, writes the
approval into it and resumes it. Every node appends to the audit log; a mandatory result
notifies the approver. The checkpointer is shared by the API and its workers.

What is hard: nothing orders two runs on one thread (a redelivery that overlaps its first
run, two messages with the same request id, a resume that overlaps either); a rerun starts
from the channels the earlier one left, and `entry` resets only some of them (not
`approval`, `hitl_entry_id`, `er_clear`, `final`); `approve` checks and then acts; each node
has several effects and may fail between them; the last checkpoint saved wins.
`PROJECT.json` lists these hazards, each at its line, with the properties that cover it.

What makes each component correct: the API and the graph never let a stopped request
complete unapproved, and attach each approval to the entry it belongs to; the worker never
acks what is neither finished nor parked, and settles every message that can be settled;
the graph runs the Director's plan, all of it and in order, Module A only after CLEAR, and
no agent on a body with Zone 1 data; the audit trail names only people who approved. An
agent acts on nothing that is not on record, and tells one story of each run whatever write
fails; Module B and the router err on the strict side; the queue adapters forget no message
nobody handled; the gateway's contexts are of the employee the ref was issued for and hold
no Zone 1 data; a container that is up has the statutory calendar of its release.

## Modules

| Module | Content |
|---|---|
| `WorkflowGraph` | `graph.py` as pure operators: one operator per node, from the channels it reads to the set of outcomes it may have (new channels, entries appended in order, notification); the edges `RouteNext`, `ERBranch`, `NextNode`; `InterruptAfter` |
| `HITLService` | the state machine: broker, workers, runs of the graph, checkpoints, audit trail, approval calls, mishaps. Composes `WorkflowGraph` with `worker.py`, `api.py` and the queue and audit log adapters |
| `HumanGate` | the abstract specification: what the gate promises about requests that must not be finished without a human |
| `HITLProperties` | the properties, the refinement mapping to `HumanGate`, and the statements of the docs the code does not keep |
| `MCHITLService` | instances for TLC: the bodies, which plans they may get, which message carries which body |
| `AgentHandling` | `BaseAgent.handle` and the `process` of the nine agents as lists of calls, performed one by one, down to the single writes of the audit log adapters |
| `HandlingTrail` | the abstract specification: the story the trail tells of each run |
| `MCAgentHandling` | its requests: one or two for every branch of every agent |
| `AgentDecisions` | Module B's rules, the legal jurisdiction router and confidence, the privacy floor, the offer ranges |
| `Director` | the keyword classifier, the model's second opinion, priorities, the routing decision |
| `RoutingQueue`, `PriorityBands` | the Director's heap; the bands it should serve like |
| `QueueAdapter`, `AtLeastOnce` | the three queue adapters with their ticket tables; what they promise |
| `PIIScan` | the detector's walk over a payload, and a reference definition of what its module says it finds |
| `PIIGateway` | vaults, refs and contexts of several processes; the bands |
| `Startup` | configuration, adapters, the seeding of the calendar, the health port and the run modes, for several containers |
| `MCPlatform` | extends `QueueAdapter`, `PIIGateway` and `Startup`, instantiates `RoutingQueue` and the pure modules, and puts the questions to the decisions |
| `HITLProofs` | type correctness, with the strengthening the steps' types depend on |
| `HardStopProofs` | `HardStopNeedsApproval`; `HITLService` implements `HumanGate` |
| `RunProofs` | what a run's channels and the trail look like at each node: `PIIHaltsRun`, `ModuleAOnlyOnClear`, `GateEntryIsTheResult`, `StampsAreHuman`, `PlanConserved`, `AckedNotLost` |
| `AgentHandlingProofs` | every property of `AgentHandling`, and that its trail refines `HandlingTrail` |
| `QueueAdapterProofs` | `NoTicketMeansDone`; `QueueAdapter` implements `AtLeastOnce` |
| `RoutingQueueProofs` | the heap implements `PriorityBands` |
| `PlatformProofs` | the decisions, the bands and the detector for every input; the routing queue in the composition; `ContextsAreClean` |
| `StartupProofs` | `StartedMeansCalendar`, `CalendarOnlyGrows` |

### State and actions

| Variable | In the code |
|---|---|
| `msg` | the broker's message: status, number of deliveries, body |
| `worker` | where `run_once` of each worker is, and what is left of its batch; a delivery keeps the receipt it came with |
| `run` | the `ainvoke` a worker or an approval call is in: thread, node, the run's own channels |
| `ckpt` | the checkpointer: channels and successor node of each thread |
| `api` | where each approval call is |
| `audit` | the audit trail of each request; a position in it plays the role of `entry_id` |
| `notified` | agents whose mandatory result reached the approver (`_notify_hitl`) |
| `posted` | history: who ever wrote an approval for a request |
| `mishaps` | how many failures happened; bounded by `MaxMishaps` |

| Action | In the code |
|---|---|
| `Ingest`, `PublishDirect` | `ingest` with its PII gate; a publisher on the topic that does not go through it |
| `Pull`, `PullRaises` | `pull` of `run_once`; the exception that ends `run_forever` |
| `Process` | `_process` up to the start of `run_workflow`; a poison body goes straight to the ack |
| `Step` | one node, its appends and notification, and the checkpoint after it; at the end or the interrupt, the caller's continuation (`Return`) |
| `StepRaises` | the node fails after any prefix of its effects, or the save of the checkpoint does; the caller's `except` (`Raise`) |
| `StepRejects` | the payload fails its agent's schema |
| `Ack`, `AckRaises` | `ack`, with a receipt that may be stale; its failure |
| `Expire` | visibility timeout (SQS) or ack deadline (Pub/Sub), both 60 s in `infra/` |
| `ApproveCheck`, `ApproveUpdate`, `ApproveInvoke` | `approve`: snapshot and 404/409, `aupdate_state`, `ainvoke(None)` |
| `Restart` | the end of a process: its runs, batches and calls are gone; so is a `MemorySaver` |

A step is what happens between two awaits another actor can observe: a node is one step
because its intermediate effects go to logs that are only appended to, and the prefixes a
failure leaves behind are outcomes of `StepRaises`.

`AgentHandling` looks into the step that `HITLService` takes for one agent. A run is its
phase (`refuse`, `admit`, `process`, `except`, `conclude`) and the calls still to do:

| `AgentHandling` | In the code |
|---|---|
| `Call` | `handle` is entered: the PII gate decides between the two first appends |
| `Perform`, `Answer` | one write, fetch or send; the model's answer, from which the legal agent reads a confidence |
| `CallFails`, `RejectPayload` | a call raises, before or after its effect; the body does not fit. Only `process` is inside the `try` |
| `Vanish` | the process dies, or the task is cancelled while the adapter's thread goes on |
| `entries`, `markers`, `Trail` | `entries/` and `by_request/` of the object stores; what `query` finds |
| `AppendLocal`, `AppendGCP`, `AppendAWS` | the writes of one `append` |

| `QueueAdapter`, `PIIGateway`, `Startup`, `RoutingQueue` | In the code |
|---|---|
| `tickets` | `_receipts`, `_ack_ids`, LOCAL's `_inflight` |
| `Publish`, `Pull`, `AckLocal`, `AckCloud` then `Deleted` or `NotDeleted` | the adapters' calls; in a cloud the ticket leaves the table before it is sent |
| `vault`, `Tokenize`, `Seed`, `Resolve` | `PIIGateway`; `issued` and `contexts` are history |
| `Configure`, `Create`, `Update`, `CallFails` | `startup`, and `create_job` as its two calls |
| `Listen`, `Shutdown`, `UvicornBind` | `main` after startup |
| `Enqueue`, `Dequeue` | `RoutingQueue`, which no other code of the repository uses yet |

LangGraph and the brokers are external; they are modelled by what the code relies on: a
run works on its own copy of the channels and saves them after each node; a run with an
input restarts the thread at `entry` on the channels of the last checkpoint; a run without
one continues from it; `aupdate_state` changes channels and keeps the successor.

Abstractions: a body is a model value; the constants `PIIPayloads`, `HardStops`,
`LowPayloads`, `Rejected` and `PlansOf` say what the code computes from it. Stored outputs,
texts, ids and the channel `routing` (written, never read) are left out.

## Runs

| Run | Instance | Checks |
|---|---|---|
| `hitl_race` | 1 request, 1 message, 2 workers, 1 approver, one mishap of any kind, 3 deliveries, durable checkpointer | the type invariant, `HardStopNeedsApproval`, `GateEntryIsTheResult`, `StampsAreHuman`, `AckedNotLost`, and that the service implements `HumanGate`; about 600 000 states |
| `hitl_reuse` | 1 request id, 2 messages with any two of three bodies, one past the API's gate, 1 worker, in-process checkpointer lost by a restart | nothing leaks from one run of a thread to the next: `ModuleAOnlyOnClear`, `PlanConserved`, `PIIHaltsRun`, `GateEntryIsTheResult`, `HardStopNeedsApproval` |
| `hitl_live` | 1 message with any of five bodies (one unparseable, one rejected by its agent), 1 worker, 1 approver, one run that raises; fair | `EveryMessageSettled`, `ApprovalCompletes` |
| `agents` | 2 runs (any pairing of the Director and the agent of the request), 17 requests, 3 cloud targets, up to 2 faults | the type invariant, `ActedOnRecord`, `VerdictBeforeReasoning`, `StoppedNeverReasoned`, `MandatoryReachesHuman`, `NotifiedKnowsWhat`, `SuppressedOnRecord`, `QueryServes`, and that the trail refines `HandlingTrail` (`TrailTellsOneStory`); about 660 000 states |
| `platform` | one part at a time (`focus`): 19 000 questions to the decisions and the detector; 5 decisions in the routing queue; 2 messages, 2 processes and 2 deliveries in the adapters; 2 processes and 3 ids in the gateway; 2 containers, a calendar of 2 jobs and 2 faults at start | Module B (`StricterInCalifornia`), the Director (`NeverDowngraded`, `SafetyWinsTies`), Legal (`ConfidentOnlyInOne`), compensation (`OffersFollowLevels`), the detector against its reference (`ScanMissesOnlyBelowExempt`), the gateway (`AgeBandHoldsAge`, `ContextsAreClean`), the adapters (`NoTicketMeansDone`, `ImplementsAtLeastOnce`), the routing queue (`ServesLikeBands`), the calendar (`StartedMeansCalendar`, `CalendarOnlyGrows`) |

Bounds. One request is enough for the properties, which speak of one request at a time;
requests interact only through a worker's batch, and a delivery may expire at any moment
of its stay there. Two runs on one thread are the smallest overlap, and an approver makes a
third actor. Three deliveries (two in `hitl_live`, where at most one run raises) let a
message be redelivered to a worker, overlap, fail, and be delivered again; `MaxMishaps = 1` keeps the race run within minutes while each kind of
failure still meets every interleaving. In `agents`, two runs are what a redelivery
or the Director and its agent make; two faults let a call fail and the logging of that
failure fail too. In `platform`, head counts are taken around both WARN thresholds, texts
hold up to three keywords (enough for every tie), payloads have up to three nodes under the
root (a text in a list in a dict is the deepest case the walk treats differently), and two
deliveries let one ticket replace another. The proofs do not depend on any of these bounds.

`CHECK_DEADLOCK FALSE` everywhere: the service is finished when every message is settled
and no approval is outstanding; an agent when its runs are over; a decision when it is made.

Fairness (`FairSpec`). Weak fairness of a worker's `Pull`, `Process`, `Ack`, of every run's
`Step` and of an approval call once it is let through: the event loop resumes every ready
coroutine, and `run_forever` polls again after each batch. Weak fairness of `Expire` for a
delivery no worker holds: the broker's timers. No fairness for clients (`Ingest`,
`ApproveCheck`) or mishaps. `EveryMessageSettled` excludes bodies that fail their schema
every time: the queues have no dead-letter policy, so these come back until the broker's
retention ends.

### Where the code and its texts disagree

Each of these runs checks one statement of the repository and finds it violated.

| Run | Statement | What happens |
|---|---|---|
| `hitl_parked` | `graph.py:15-16`: a suspended workflow "resumes only when the external workflow system posts an approval" | the message is redelivered before its ack; the first run parks the request on a LOW opinion, the second gets a MEDIUM one and completes it, unapproved |
| `hitl_pii_gate` | `graph.py:13-14`: a PII boundary violation "routes to the HITL gate" | `entry` sets `error`, `route_next` finalizes: never parked, nobody notified |
| `hitl_approve` | `DEPLOYMENT.md:259-260`, `api.py:88`: `409` unless the run awaits approval | a thread that is being run has a successor too, so the call is let through |
| `hitl_local` | `worker.py:13-14`, `test_worker.py:162`: an unacked message is redelivered | the LOCAL queue has no way back from `_inflight` |
| `hitl_stopped` | `worker.py:156`: polls "until `stop_event` is set" | `pull` and `ack` are outside the `try`: one failure ends the worker |
| `hitl_approver` | `audit_log.py:34`: an "immutable audit-trail record" | two concurrent approvals: the second replaces the recorded approver |
| `agents_floor` | `DEPLOYMENT.md:221`, `settings.py:42`, `schemas/analytics.py:3-4`: `MINIMUM_COHORT_SIZE` is the privacy floor | `build_registry` (`graph.py:76`) hands the agent adapters only, and nobody reads the setting: with 25 configured a cohort of 15 is fetched and answered |

Seen while modelling, against a text of the repository, but with no run of its own:

* `main.py:133` stops the health server since "uvicorn binds $PORT itself". `shutdown()` ends
  its loop and leaves the socket open, so uvicorn finds the address in use and exits;
  `infra/` deploys this mode. `Startup` has it (`Shutdown`, `UvicornBind`): every start in
  mode `api` ends there.
* The detector's exempt keys are "exempt from value scanning" (`detector.py:27`), and any key
  with a Zone 1 name is a finding (`detector.py:11`); `_walk` skips the whole subtree
  (177-178), so `{"source": {"salary": 1}}` passes. `PIIScan` has what the texts say
  (`Expected`) and what of it is missed (`Overlooked`); the run and the theorem show that
  nothing else is.
* A PII refusal is MANDATORY, and "a MANDATORY result notifies the designated approver"
  (`base/agent.py:10`, `graph.py:13-15`), but `handle` returns it before the notification.
  `hitl_pii_gate` shows the graph's side of it; `MandatoryReachesHuman` leaves refusals out.
* The REQUIRED tier reads "Human notified" (`schemas/common.py:47`); `handle` notifies of
  MANDATORY results only (`base/agent.py:130`).

And with no text on the other side: Module B looks for "termination" only, while the
Director's critical hints also name "terminate", "dismissal" and "解雇"; its `except`
(`compliance_module.py:160`) is never entered, since no rule can raise on the typed context
`check` builds; a context's manager ref is unknown to the gateway until somebody tokenizes
the manager; on a birthday the age band may still be the last decade's (hence `since` from 1
in `AgeQuestions`); an unknown job level gets the L3 range; `to_eventbridge_cron` wraps an
expression that is already `cron(...)` once more.

## Proofs

All constants are arbitrary: any number of requests, messages, workers, approvers and
bodies, any batch size, any bound on mishaps and deliveries, durable checkpointer or not;
any number of processes, ids, containers, jobs, runs, faults and decisions. The assumptions
are few, and TLC evaluates each on a run:

* of the service, `PayloadAssumption` and `ServiceAssumption` type the constants and tie a
  LOCAL queue or an in-process checkpointer to a single process;
* of `AgentHandling`, `HandlingAssumption` (the bound on faults is a number),
  `RunsAssumption` (no run has the name that stands for "no run"), `RequestsAssumption`
  (a request is for one of the nine agents) and `SettingAssumption` (`MINIMUM_COHORT_SIZE` is
  a number);
* of `Startup`, `CalendarAssumption` (the calendar is a non-empty list) and
  `ModesAssumption` (`RUN_MODE` is one of the four modes);
* the gateway's and the adapters' theorems assume nothing. That of the routing queue has a
  hypothesis, `RanksGiven`: every decision's priority has a number, as `_PRIORITY_RANK`
  gives it one.

Every safety and every action property of the passing runs has its theorem.

* `TypeCorrect` (`HITLProofs`): `Spec => []TypeOK`. `TypeOK` alone is not inductive: whether
  `Process` starts a typed run depends on the message having been published, whether
  `Advance` takes the tail of a sequence on the batch being non-empty, whether `ApproveInvoke`
  resumes a typed run on the checkpoint carrying a request. `TypeInv` adds exactly these
  links between program counters, batches, runs and checkpoints (`Wired`). One lemma per
  node types its outcomes, one per action shows it preserves `TypeInv`.
* `HardStopGated` (`HardStopProofs`): `Spec => []HardStopNeedsApproval`. The state property
  says nothing about runs in progress; `GateInv` does: every copy of a stopped request's
  channels, in a checkpoint or in a run, is on the path `entry, dispatch, er_compliance,
  dispatch, hitl_gate, finalize` with the facts that hold at each point of it (`OnPath`);
  a run is at `finalize` only if an approval was posted, because a worker's run stops after
  the gate and an approval call resumes only after it posted. It is preserved although
  checkpoints overwrite one another since every copy satisfies it on its own, and the logs
  it refers to only grow (`Grows`).
* `GateImplemented` (`HardStopProofs`): `Spec => Gate!Spec`. Each action maps to
  `Release`, `Inform`, `Park`, `Approve`, `Complete` or a stutter of `HumanGate`; `GateInv`
  provides the guards of `Park` and `Complete`.
* `PIIHalts`, `ModuleAGated`, `GateEntryRight`, `StampsHuman`, `PlanKept` (`RunProofs`). The
  properties speak of moments (what is parked, what is appended); `RunInv` says of *every*
  copy of a request's channels, saved or in a run, that its node may find it so (`CopyOK`):
  halted on Zone 1 data, on its plan, cleared before Module A, at the gate with the entry of
  its own result, carrying an approval somebody posted. A copy is judged on its own, by the
  node scheduled on it and by records that only grow (trail, notifications, approvers), so
  it stays right whatever other runs of the thread save over it, and however late it is
  resumed. One lemma per node says what the node makes of such channels; the actions only
  say who runs it and how much of it happens.
* `AckedIsSettled` (`RunProofs`): a message is deleted on what a worker believes of a run
  that is over. `DeliveryInv` ties a worker that is about to ack to what the trail shows of
  that request (`Delivered`), and a worker that waits to the thread of its own message.
* `HandlingTypes`, `RecordFirst`, `VerdictFirst`, `StopHolds`, `HumanTold`,
  `ToldOfWhatIsThere`, `FloorKept`, `EveryMarkerServed` (`AgentHandlingProofs`) all follow
  from one invariant, `HandlingInv`. What a run did is explained by the calls it still had
  to do at the time, so the invariant is about these: each needs something of the records
  (the opening entry, the verdict, the stored opinion, the marker's own entry) that is there
  already or that a call before it puts there (`Ready`); what is done was in order
  (`Accountable`); and each phase of `handle` keeps what the next relies on (`InPhase`). It
  holds for every tail of a script, which is what a call that fails or a cancelled task
  leaves behind, and for the one call the adapter's thread may still make. For the privacy
  floor it also says what an analytics answer is about: data fetched, or a suppression on
  record, or the call that makes one of them comes first (`Sourced`).
* `TrailRefines` (`AgentHandlingProofs`): `AgentHandling` implements `HandlingTrail`. A new
  marker is one the story allows next (`MayMark`), since openings come first and a concluded
  run has no marker left to write; every other step is a stutter.
* `SilentAcks`, `AdaptersKeepThePromise` (`QueueAdapterProofs`): a deletion is allowed
  because of what its job says, so the invariant is about jobs (`JobsInv`): one past its
  work is of a handled message, and of one that was published. With it each deletion maps
  to `AtLeastOnce`'s step for a handled message, every lost or stale ticket to a stutter.
* `ContextsStayClean` (`PlatformProofs`): a vault holds nothing but what was issued
  (`VaultInv`), and what leaves `resolve` passed the detector. That no two employees have
  one ref is an abstraction: digests do not collide.
* `StartSeedsTheCalendar`, `SeedingRemovesNothing` (`StartupProofs`): while a container
  seeds, every job is registered or still to do (`SeedInv`); no container undoes a
  registration, so a sibling's progress or failure can only help.
* `HeapServesLikeBands` (`RoutingQueueProofs`): the mapping reads each band off the heap by
  insertion number (`OldestFirst`). No two entries have the same number and all are below
  the counter (`HeapInv`), so what is enqueued goes behind its band, and the least entry is
  the head of the most urgent band that has one. `RoutingServesLikeBands` (`PlatformProofs`) applies
  this to the queue inside `MCPlatform`, whose other steps leave the heap alone.
* The decisions (`PlatformProofs`). Each theorem has two conjuncts: the promise for every
  input, and the run's invariant. `CaliforniaAlwaysStricter` (any case and head
  count), `NeverDowngradedAtAll` (any classification), `SafetyAlwaysWinsTies` (any text and answer), `ConfidentInOneAtMost`,
  `OffersAlwaysFollowLevels`, `AgeBandAlwaysHolds` (any age: over y years and d days the
  quarter days exceed 1461 y by less than 1461).
* `ScanAlwaysMissesOnlyBelowExempt` (`PlatformProofs`): payloads of any size. The walk and its
  reference are recursive functions down the tree; `DownTheTree` shows that such functions
  exist, and a node of least number at which walk and reference differ would need its
  parent to be one. Induction is used in this form throughout (`LeastNat`, `SetInduction`):
  the library's induction theorems take an operator as parameter.

Only model-checked: `EveryMessageSettled` and `ApprovalCompletes`. They are liveness
properties under fairness, and rest on `ENABLED`, which is out of the prover's reach. That a
run of the violated kind refutes its statement is TLC's word, by a counterexample.

## Not modelled

The HRIS connectors and the integrations are stubs that make up figures: their records are
constants, their calls cannot fail. Of storage only `put`, of notification only `send`, of
the schedulers only `create_job` is called by the code that is modelled; `get`, `exists`,
`delete`, `list`, the vector databases and the secrets are thin wrappers around cloud
clients that no agent calls. Cron expressions, prompts and response texts are data no
property is about. `record_approval` is one step, although the object stores read and write
inside it. Configuration values, payload schemas, infrastructure, scripts and CI are
declarations; that a body may fail its schema is modelled. The approval call's answer,
`get_status` and health checks change no state. `PROJECT.json` says so component by
component.

## Plan

Order of the work, most important behaviour first.

1. Done: `WorkflowGraph`, `HITLService`, `HumanGate`, their runs and first theorems.
2. Processes and checkpointers: `build_default_worker` gives each worker container a
   `MemorySaver` of its own (`worker.py:182-183`), so what it parks is unknown to the
   approval API; shutdown of the lifespan (stop event, five seconds, cancel).
3. Done: `AgentHandling` and the audit log's single writes; open: `record_approval` as its
   read and its write.
4. Done: `QueueAdapter` against `AtLeastOnce`, which `HITLService`'s broker stands for.
5. Done: `Director`, `RoutingQueue`, `AgentDecisions`, `PIIScan`, `PIIGateway`, `Startup`.
6. Done: theorems for every safety and action property of the passing runs. Open: what 2
   and 3 add.
