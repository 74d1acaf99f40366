----------------------------- MODULE RunProofs -----------------------------
(***************************************************************************)
(* What the channels of a request can look like at each node, and what its *)
(* audit trail then holds, whichever worker or approval call works on them *)
(* and however often a run of the thread was redelivered, interrupted,     *)
(* restarted or resumed; and, from that, when a message is acknowledged.   *)
(*                                                                         *)
(* A copy of the channels is judged by the node scheduled on it and by the *)
(* records nobody takes back: the trail, the agents that notified the      *)
(* approver and the approvers who posted.  The predicates take those as    *)
(* arguments, so that the lemmas about nodes speak of no variable.         *)
(***************************************************************************)
EXTENDS HardStopProofs

Refusal == [agent |-> "DIRECTOR", tier |-> "MANDATORY"]
Reasoned == [agent |-> "ER", tier |-> "RECOMMENDED"]
Answered(v) == [i \in DOMAIN v.responses |-> v.responses[i].agent]
Has(trail, event) == \E i \in DOMAIN trail : trail[i].event = event

\* The parts of the invariant, about channels v before node n: trail is the request's
\* audit trail, told the agents that notified, given the approvers who posted.
Unstarted(n, v) == n = "none" => v.request = None /\ v.responses = <<>>

PIIHalted(n, v) ==
    v.request \in PIIPayloads /\ n # "entry" =>
        /\ n \in {"dispatch", "finalize", "end"}
        /\ v.error
        /\ v.responses = <<Refusal>>
        /\ v.pending = <<>>

GateHeld(trail, told, n, v) ==
    n \notin {"none", "entry"} =>
        /\ v.error => ~v.hitl /\ n \in {"dispatch", "finalize", "end"}
        /\ v.hitl => /\ n \in {"dispatch", "hitl_gate", "finalize", "end"}
                     /\ v.final.tier = "MANDATORY"
                     /\ v.final.agent \in told
        /\ n = "hitl_gate" => v.hitl
        /\ v.hitl /\ n \in {"finalize", "end"} =>
               /\ v.entry \in DOMAIN trail
               /\ trail[v.entry].event = "HITL_PENDING"
               /\ trail[v.entry].agent = v.final.agent

ClearHeld(trail, n, v) ==
    n = "er_reason" \/ (\E i \in DOMAIN v.responses : v.responses[i] = Reasoned) =>
        n = "entry" \/ (v.request \notin HardStops /\ Has(trail, "ER_CLEAR"))

ApprovalHeld(trail, given, v) ==
    /\ v.approval \in given \cup {None}
    /\ v.entry # 0 => v.entry \in DOMAIN trail /\ trail[v.entry].event = "HITL_PENDING"

PlanHeld(n, v) ==
    n \notin {"none", "entry"} /\ ~v.error /\ ~v.hitl =>
        /\ Answered(v) \o v.pending \in PlansOf[v.request]
        /\ n \in {"er_compliance", "er_reason"} => v.pending # <<>> /\ Head(v.pending) = "ER"
        /\ n \in SimpleAgents => v.pending # <<>> /\ Head(v.pending) = n
        /\ n \in {"finalize", "end"} => v.pending = <<>>

CopyOK(trail, told, given, n, v) ==
    /\ Unstarted(n, v)
    /\ PIIHalted(n, v)
    /\ GateHeld(trail, told, n, v)
    /\ ClearHeld(trail, n, v)
    /\ ApprovalHeld(trail, given, v)
    /\ PlanHeld(n, v)

\* The approver of an entry: on gate entries only, and somebody who posted.
TrailOK(trail, given) ==
    \A i \in DOMAIN trail : trail[i].approver # None =>
        trail[i].event = "HITL_PENDING" /\ trail[i].approver \in given

\* The inductive invariant: every copy of a request's channels, saved or being worked on,
\* is one its node may find.
RunInv ==
    \A r \in Requests :
        /\ TrailOK(audit[r], posted[r])
        /\ CopyOK(audit[r], notified[r], posted[r], ckpt[r].next, ckpt[r].vals)
        /\ \A a \in Actors : run[a].rid = r =>
              CopyOK(audit[r], notified[r], posted[r], run[a].node, run[a].vals)

----------------------------------------------------------------------------
(* Records only grow.                                                      *)

\* A trail that goes on: no entry changes its event or its agent.
GoesOn(new, old) ==
    /\ DOMAIN old \subseteq DOMAIN new
    /\ \A i \in DOMAIN old : new[i].event = old[i].event /\ new[i].agent = old[i].agent

\* A copy nobody touches stays one its node may find.
LEMMA CopyKept ==
    ASSUME NEW old, NEW new, GoesOn(new, old), NEW told, NEW told2, told \subseteq told2,
           NEW given, NEW given2, given \subseteq given2,
           NEW n, NEW v, CopyOK(old, told, given, n, v)
    PROVE  CopyOK(new, told2, given2, n, v)
  <1>1. \A i \in DOMAIN old : /\ i \in DOMAIN new /\ new[i].event = old[i].event
                              /\ new[i].agent = old[i].agent
    BY DEF GoesOn
  <1>2. Has(old, "ER_CLEAR") => Has(new, "ER_CLEAR")
    BY <1>1 DEF Has
  <1>3. GateHeld(new, told2, n, v)
    BY <1>1 DEF CopyOK, GateHeld
  <1>4. ClearHeld(new, n, v)
    BY <1>2 DEF CopyOK, ClearHeld
  <1>5. ApprovalHeld(new, given2, v)
    BY <1>1 DEF CopyOK, ApprovalHeld
  <1>6. QED
    BY <1>3, <1>4, <1>5 DEF CopyOK

LEMMA EmptyCopyOK ==
    ASSUME NEW trail, NEW told, NEW given
    PROVE  CopyOK(trail, told, given, "none", EmptyState)
  <1>1. /\ EmptyState.request = None /\ EmptyState.responses = <<>>
        /\ EmptyState.approval = None /\ EmptyState.entry = 0
    BY DEF EmptyState
  <1>2. None \notin PIIPayloads
    BY PayloadAssumption
  <1>3. DOMAIN EmptyState.responses = {}
    BY <1>1
  <1>4. Unstarted("none", EmptyState) /\ PIIHalted("none", EmptyState)
    BY <1>1, <1>2 DEF Unstarted, PIIHalted
  <1>5. ClearHeld(trail, "none", EmptyState)
    BY <1>3 DEF ClearHeld
  <1>6. ApprovalHeld(trail, given, EmptyState)
    BY <1>1 DEF ApprovalHeld
  <1>7. QED
    BY <1>4, <1>5, <1>6 DEF CopyOK, GateHeld, PlanHeld

LEMMA ConcatDomain ==
    ASSUME NEW S, NEW s \in Seq(S), NEW t \in Seq(S)
    PROVE  DOMAIN (s \o t) = 1..(Len(s) + Len(t))
  <1>1. Len(s \o t) = Len(s) + Len(t)
    OBVIOUS
  <1>2. s \o t \in Seq(S)
    OBVIOUS
  <1>3. QED
    BY <1>1, <1>2

\* The entries of log come after those of the trail.
Appended(new, old, log) ==
    /\ GoesOn(new, old)
    /\ \A k \in DOMAIN log : Len(old) + k \in DOMAIN new /\ new[Len(old) + k] = log[k]

\* Appending log to a trail, after the entry at i was stamped with approver or (i not a
\* position of it) none was.
LEMMA StampedLog ==
    ASSUME NEW old \in Seq(AuditEntry), NEW log \in Seq(AuditEntry), NEW i \in Nat,
           NEW approver \in Approvers \cup {None}
    PROVE  LET new == Stamp(old, i, approver) \o log IN
           /\ Appended(new, old, log)
           /\ \A j \in DOMAIN new :
                \/ j \in DOMAIN old /\ new[j].event = old[j].event
                     /\ (new[j].approver = old[j].approver
                            \/ (j = i /\ new[j].approver = approver))
                \/ \E k \in DOMAIN log : new[j] = log[k]
  <1> DEFINE mid == Stamp(old, i, approver)
  <1>1. /\ mid \in Seq(AuditEntry) /\ Len(mid) = Len(old)
        /\ \A j \in 1..Len(old) :
              /\ mid[j].event = old[j].event /\ mid[j].agent = old[j].agent
              /\ mid[j].approver = old[j].approver \/ (j = i /\ mid[j].approver = approver)
    <2>1. mid \in Seq(AuditEntry) /\ Len(mid) = Len(old)
      BY StampTyped
    <2>2. CASE i \notin DOMAIN old
      BY <2>1, <2>2 DEF Stamp
    <2>3. CASE i \in DOMAIN old
      <3> DEFINE e == [old[i] EXCEPT !.approver = approver]
      <3>1. old[i] \in AuditEntry
        BY <2>3
      <3>2. /\ e.event = old[i].event /\ e.agent = old[i].agent /\ e.approver = approver
        BY <3>1 DEF AuditEntry
      <3>3. mid = [old EXCEPT ![i] = e]
        BY <2>3 DEF Stamp
      <3> HIDE DEF e, mid
      <3>4. QED
        BY <2>1, <2>3, <3>2, <3>3
    <2>4. QED
      BY <2>2, <2>3
  <1> DEFINE new == mid \o log
  <1> HIDE DEF mid
  <1>2. /\ DOMAIN old = 1..Len(old) /\ Len(old) \in Nat
        /\ DOMAIN log = 1..Len(log) /\ Len(log) \in Nat
    OBVIOUS
  <1>3. /\ DOMAIN new = 1..(Len(old) + Len(log))
        /\ \A j \in 1..Len(old) : new[j] = mid[j]
        /\ \A k \in 1..Len(log) : new[Len(old) + k] = log[k]
    <2>1. DOMAIN new = 1..(Len(old) + Len(log))
      BY <1>1, ConcatDomain
    <2>2. \A j \in 1..Len(old) : new[j] = mid[j]
      BY <1>1
    <2>3. \A k \in 1..Len(log) : new[Len(old) + k] = log[k]
      BY <1>1
    <2>4. QED
      BY <2>1, <2>2, <2>3
  <1>4. \A j \in 1..(Len(old) + Len(log)) :
          j \in 1..Len(old) \/ (j - Len(old) \in 1..Len(log) /\ j = Len(old) + (j - Len(old)))
    BY <1>2
  <1> HIDE DEF new
  <1>5. GoesOn(new, old)
    BY <1>1, <1>2, <1>3 DEF GoesOn
  <1>6. \A k \in DOMAIN log : Len(old) + k \in DOMAIN new /\ new[Len(old) + k] = log[k]
    BY <1>2, <1>3
  <1>7. \A j \in DOMAIN new :
           \/ j \in DOMAIN old /\ new[j].event = old[j].event
                /\ (new[j].approver = old[j].approver \/ (j = i /\ new[j].approver = approver))
           \/ \E k \in DOMAIN log : new[j] = log[k]
    <2>1. SUFFICES ASSUME NEW j \in 1..(Len(old) + Len(log))
                   PROVE  \/ j \in DOMAIN old /\ new[j].event = old[j].event
                               /\ (new[j].approver = old[j].approver
                                      \/ (j = i /\ new[j].approver = approver))
                          \/ \E k \in DOMAIN log : new[j] = log[k]
      BY <1>3
    <2>2. CASE j \in 1..Len(old)
      BY <1>1, <1>2, <1>3, <2>2
    <2>3. CASE j - Len(old) \in 1..Len(log) /\ j = Len(old) + (j - Len(old))
      <3>1. new[j] = log[j - Len(old)]
        BY <1>3, <2>3
      <3>2. QED
        BY <1>2, <2>3, <3>1
    <2>4. QED
      BY <1>4, <2>2, <2>3
  <1>8. QED
    BY <1>5, <1>6, <1>7 DEF Appended, new, mid

\* No entry a node appends names an approver.
Unsigned(log) == \A k \in DOMAIN log : log[k].approver = None

----------------------------------------------------------------------------
(* What each node makes of the channels.                                   *)

\* The channels every node but entry and the gate hands on.
Same(u, v) == u.request = v.request /\ u.approval = v.approval

LEMMA EntryShape ==
    ASSUME NEW v \in WorkflowState, NEW o \in EntryNode(v)
    PROVE  /\ Same(o.vals, v)
           /\ o.vals.entry = v.entry
           /\ o.vals.hitl = FALSE
           /\ o.notify = FALSE
           /\ v.request \in PIIPayloads =>
                /\ o.vals.error = TRUE
                /\ o.vals.responses = <<Refusal>>
                /\ o.vals.pending = <<>>
           /\ v.request \notin PIIPayloads =>
                /\ o.vals.error = FALSE
                /\ o.vals.responses = <<>>
                /\ o.vals.pending \in PlansOf[v.request]
           /\ Unsigned(o.log)
  <1>1. CASE v.request \in PIIPayloads
    <2> DEFINE u == [v EXCEPT !.error = TRUE, !.final = Refusal, !.responses = <<Refusal>>,
                              !.pending = <<>>, !.hitl = FALSE]
    <2>1. o = Outcome(u, <<Entry("PII_BOUNDARY_VIOLATION", "DIRECTOR")>>, FALSE)
      BY <1>1 DEF EntryNode, Refusal
    <2>2. o.vals = u /\ o.notify = FALSE /\ Unsigned(o.log)
      BY <2>1 DEF Outcome, Unsigned, Entry
    <2>3. /\ u.request = v.request /\ u.approval = v.approval /\ u.entry = v.entry
          /\ u.hitl = FALSE /\ u.error = TRUE /\ u.responses = <<Refusal>> /\ u.pending = <<>>
      BY DEF WorkflowState
    <2>4. QED
      BY <1>1, <2>2, <2>3 DEF Same
  <1>2. CASE v.request \notin PIIPayloads
    <2>1. PICK p \in PlansOf[v.request] :
            o = Outcome([v EXCEPT !.pending = p, !.responses = <<>>, !.error = FALSE,
                                  !.hitl = FALSE],
                        <<Entry("WORKFLOW_ROUTED", "DIRECTOR")>>, FALSE)
      BY <1>2 DEF EntryNode
    <2> DEFINE u == [v EXCEPT !.pending = p, !.responses = <<>>, !.error = FALSE,
                              !.hitl = FALSE]
    <2>2. o.vals = u /\ o.notify = FALSE /\ Unsigned(o.log)
      BY <2>1 DEF Outcome, Unsigned, Entry
    <2>3. /\ u.request = v.request /\ u.approval = v.approval /\ u.entry = v.entry
          /\ u.hitl = FALSE /\ u.error = FALSE /\ u.responses = <<>> /\ u.pending = p
      BY DEF WorkflowState
    <2>4. QED
      BY <1>2, <2>2, <2>3 DEF Same
  <1>3. QED
    BY <1>1, <1>2

LEMMA ComplianceShape ==
    ASSUME NEW v \in WorkflowState, NEW o \in ERComplianceNode(v)
    PROVE  /\ Same(o.vals, v)
           /\ o.vals.error = v.error
           /\ \/ /\ v.request \in HardStops
                 /\ o.vals.responses = Append(v.responses, [agent |-> "ER", tier |-> "MANDATORY"])
                 /\ o.vals.final = [agent |-> "ER", tier |-> "MANDATORY"]
                 /\ o.vals.pending = <<>>
                 /\ o.vals.clear = FALSE
                 /\ o.vals.hitl = TRUE
                 /\ o.vals.entry = 0
                 /\ o.notify = TRUE
              \/ /\ v.request \notin HardStops
                 /\ o.vals.responses = v.responses
                 /\ o.vals.final = v.final
                 /\ o.vals.pending = v.pending
                 /\ o.vals.clear = TRUE
                 /\ o.vals.hitl = v.hitl
                 /\ o.vals.entry = v.entry
                 /\ o.notify = FALSE
                 /\ o.log = <<Entry("ER_CLEAR", "ER")>>
           /\ Unsigned(o.log)
  <1> DEFINE r == [agent |-> "ER", tier |-> "MANDATORY"]
  <1>0. v.request \notin Rejected
    BY DEF ERComplianceNode
  <1>1. CASE v.request \in HardStops
    <2> DEFINE u == [v EXCEPT !.responses = Append(@, r), !.final = r, !.pending = <<>>,
                              !.clear = FALSE, !.hitl = TRUE, !.entry = 0]
    <2>1. o = Outcome(u, <<Entry("ER_HARD_STOP", "ER")>>, TRUE)
      BY <1>0, <1>1 DEF ERComplianceNode
    <2>2. o.vals = u /\ o.notify = TRUE /\ Unsigned(o.log)
      BY <2>1 DEF Outcome, Unsigned, Entry
    <2>3. /\ u.request = v.request /\ u.approval = v.approval /\ u.error = v.error
          /\ u.responses = Append(v.responses, r) /\ u.final = r /\ u.pending = <<>>
          /\ u.clear = FALSE /\ u.hitl = TRUE /\ u.entry = 0
      BY DEF WorkflowState
    <2>4. QED
      BY <1>1, <2>2, <2>3 DEF Same
  <1>2. CASE v.request \notin HardStops
    <2> DEFINE u == [v EXCEPT !.clear = TRUE]
    <2>1. o = Outcome(u, <<Entry("ER_CLEAR", "ER")>>, FALSE)
      BY <1>0, <1>2 DEF ERComplianceNode
    <2>2. o.vals = u /\ o.notify = FALSE /\ Unsigned(o.log)
          /\ o.log = <<Entry("ER_CLEAR", "ER")>>
      BY <2>1 DEF Outcome, Unsigned, Entry
    <2>3. /\ u.request = v.request /\ u.approval = v.approval /\ u.error = v.error
          /\ u.responses = v.responses /\ u.final = v.final /\ u.pending = v.pending
          /\ u.clear = TRUE /\ u.hitl = v.hitl /\ u.entry = v.entry
      BY DEF WorkflowState
    <2>4. QED
      BY <1>2, <2>2, <2>3 DEF Same
  <1>3. QED
    BY <1>1, <1>2

LEMMA ReasonShape ==
    ASSUME NEW v \in WorkflowState, NEW o \in ERReasonNode(v)
    PROVE  /\ Same(o.vals, v)
           /\ o.vals.error = v.error
           /\ o.vals.hitl = v.hitl
           /\ o.vals.entry = v.entry
           /\ o.vals.responses = Append(v.responses, Reasoned)
           /\ o.vals.pending = Without(v.pending, "ER")
           /\ o.notify = FALSE
           /\ Unsigned(o.log)
  <1> DEFINE u == [v EXCEPT !.responses = Append(@, Reasoned), !.final = Reasoned,
                            !.pending = Without(@, "ER")]
  <1>1. o = Outcome(u, <<>>, FALSE)
    BY DEF ERReasonNode, Reasoned
  <1>2. o.vals = u /\ o.notify = FALSE /\ Unsigned(o.log)
    BY <1>1 DEF Outcome, Unsigned
  <1>3. /\ u.request = v.request /\ u.approval = v.approval /\ u.error = v.error
        /\ u.hitl = v.hitl /\ u.entry = v.entry
        /\ u.responses = Append(v.responses, Reasoned)
        /\ u.pending = Without(v.pending, "ER")
    BY DEF WorkflowState
  <1>4. QED
    BY <1>2, <1>3 DEF Same

\* What sub-agent d makes of v when it answers with tier t.
AnswersWith(d, v, o, t) ==
    /\ Same(o.vals, v)
    /\ o.vals.error = v.error
    /\ o.vals.entry = v.entry
    /\ o.vals.responses = Append(v.responses, [agent |-> d, tier |-> t])
    /\ o.vals.final = [agent |-> d, tier |-> t]
    /\ t = "MANDATORY" => /\ o.vals.hitl = TRUE
                          /\ o.vals.pending = <<>>
                          /\ o.notify = TRUE
    /\ t # "MANDATORY" => /\ o.vals.hitl = v.hitl
                          /\ o.vals.pending = Without(v.pending, d)
                          /\ o.notify = FALSE
    /\ Unsigned(o.log)

LEMMA AgentShape ==
    ASSUME NEW v \in WorkflowState, NEW d \in SimpleAgents, NEW o \in AgentNode(d, v)
    PROVE  \E t \in Tiers : AnswersWith(d, v, o, t)
  <1>1. PICK t \in TiersOf(d, v.request), own \in ProcessLogs(d) : o = Answers(d, v, t, own)
    BY DEF AgentNode
  <1>2. t \in Tiers
    BY DEF TiersOf, Tiers
  <1> DEFINE r == [agent |-> d, tier |-> t]
             u == [v EXCEPT !.responses = Append(@, r), !.final = r,
                            !.pending = IF t = "MANDATORY" THEN <<>> ELSE Without(@, d),
                            !.hitl = @ \/ t = "MANDATORY"]
             log == <<Entry("REQUEST_RECEIVED", d)>> \o own
                        \o <<Entry("RESPONSE_GENERATED", d)>>
  <1>3. o = Outcome(u, log, t = "MANDATORY")
    BY <1>1 DEF Answers
  <1>4. o.vals = u /\ o.log = log /\ o.notify = (t = "MANDATORY")
    BY <1>3, Zenon DEF Outcome
  <1>5. Unsigned(log)
    <2>1. own = <<>> \/ own = <<Entry("AGENT_RECORD", d)>>
      BY DEF ProcessLogs
    <2>2. CASE own = <<>>
      BY <2>2 DEF Unsigned, Entry
    <2>3. CASE own = <<Entry("AGENT_RECORD", d)>>
      BY <2>3 DEF Unsigned, Entry
    <2>4. QED
      BY <2>1, <2>2, <2>3
  <1>6. /\ u.request = v.request /\ u.approval = v.approval /\ u.error = v.error
        /\ u.entry = v.entry /\ u.responses = Append(v.responses, r) /\ u.final = r
        /\ u.pending = IF t = "MANDATORY" THEN <<>> ELSE Without(v.pending, d)
    BY DEF WorkflowState
  <1>7. u.hitl = (v.hitl \/ t = "MANDATORY") /\ v.hitl \in BOOLEAN
    BY Zenon DEF WorkflowState
  <1> HIDE DEF r, u, log
  <1>8. CASE t = "MANDATORY"
    <2>1. u.hitl = TRUE /\ (t = "MANDATORY") = TRUE
      BY <1>7, <1>8, Zenon
    <2>2. QED
      BY <1>2, <1>4, <1>5, <1>6, <1>8, <2>1, Zenon DEF AnswersWith, Same, r
  <1>9. CASE t # "MANDATORY"
    <2>1. u.hitl = v.hitl /\ (t = "MANDATORY") = FALSE
      BY <1>7, <1>9, Zenon
    <2>2. QED
      BY <1>2, <1>4, <1>5, <1>6, <1>9, <2>1, Zenon DEF AnswersWith, Same, r
  <1>10. QED
    BY <1>8, <1>9

LEMMA GateShape ==
    ASSUME NEW v \in WorkflowState, NEW id \in Nat, NEW o \in HITLGateNode(v, id)
    PROVE  /\ Same(o.vals, v)
           /\ o.vals.error = v.error
           /\ o.vals.responses = v.responses
           /\ o.vals.final = v.final
           /\ o.vals.pending = v.pending
           /\ o.vals.hitl = TRUE
           /\ o.vals.entry = id
           /\ o.notify = FALSE
           /\ o.log = <<Entry("HITL_PENDING", v.final.agent)>>
           /\ Unsigned(o.log)
  <1> DEFINE u == [v EXCEPT !.entry = id, !.hitl = TRUE]
  <1>1. o = Outcome(u, <<Entry("HITL_PENDING", v.final.agent)>>, FALSE)
    BY DEF HITLGateNode
  <1>2. /\ o.vals = u /\ o.notify = FALSE /\ Unsigned(o.log)
        /\ o.log = <<Entry("HITL_PENDING", v.final.agent)>>
    BY <1>1 DEF Outcome, Unsigned, Entry
  <1>3. /\ u.request = v.request /\ u.approval = v.approval /\ u.error = v.error
        /\ u.responses = v.responses /\ u.final = v.final /\ u.pending = v.pending
        /\ u.hitl = TRUE /\ u.entry = id
    BY DEF WorkflowState
  <1>4. QED
    BY <1>2, <1>3 DEF Same

\* dispatch and finalize hand the channels on.
LEMMA PassingShape ==
    ASSUME NEW v \in WorkflowState, NEW o \in DispatchNode(v) \cup FinalizeNode(v)
    PROVE  o.vals = v /\ o.notify = FALSE /\ Unsigned(o.log)
  BY DEF DispatchNode, FinalizeNode, Outcome, Unsigned, Entry

\* The node that ran and the one the edges schedule next.
LEMMA WhichNode ==
    ASSUME NEW n \in Nodes, NEW v, NEW id, NEW o \in RunNode(n, v, id)
    PROVE  LET nx == NextNode(n, o.vals) IN
           \/ n = "entry" /\ o \in EntryNode(v) /\ nx = "dispatch"
           \/ n = "dispatch" /\ o \in DispatchNode(v) /\ nx = RouteNext(o.vals)
           \/ /\ n = "er_compliance" /\ o \in ERComplianceNode(v)
              /\ nx = IF o.vals.clear THEN "er_reason" ELSE "dispatch"
           \/ n = "er_reason" /\ o \in ERReasonNode(v) /\ nx = "dispatch"
           \/ n = "hitl_gate" /\ o \in HITLGateNode(v, id) /\ nx = "finalize"
           \/ n = "finalize" /\ o \in FinalizeNode(v) /\ nx = "end"
           \/ /\ n \in SimpleAgents /\ o \in AgentNode(n, v) /\ nx = "dispatch"
              /\ n \notin {"none", "entry", "dispatch", "er_compliance", "er_reason",
                           "hitl_gate", "finalize", "end", "ER", "DIRECTOR"}
  BY DEF RunNode, NextNode, ERBranch, Nodes, SimpleAgents, Domains

LEMMA NodeShape ==
    ASSUME NEW n \in Nodes, NEW v \in WorkflowState, NEW id \in Nat,
           NEW o \in RunNode(n, v, id)
    PROVE  /\ Same(o.vals, v) /\ Unsigned(o.log)
           /\ o.vals.entry \in {0, v.entry} \/ o \in HITLGateNode(v, id)
           /\ \/ n \in {"entry", "er_compliance", "er_reason"}
              \/ o.vals.responses = v.responses
              \/ \E d \in SimpleAgents, t \in Tiers :
                    o.vals.responses = Append(v.responses, [agent |-> d, tier |-> t])
  <1>1. CASE n = "entry" /\ o \in EntryNode(v)
    BY <1>1, EntryShape
  <1>2. CASE n = "er_compliance" /\ o \in ERComplianceNode(v)
    BY <1>2, ComplianceShape
  <1>3. CASE n = "er_reason" /\ o \in ERReasonNode(v)
    BY <1>3, ReasonShape
  <1>4. CASE o \in HITLGateNode(v, id)
    BY <1>4, GateShape
  <1>5. CASE o \in DispatchNode(v) \cup FinalizeNode(v)
    BY <1>5, PassingShape DEF Same
  <1>6. CASE n \in SimpleAgents /\ o \in AgentNode(n, v)
    <2>1. PICK t \in Tiers : AnswersWith(n, v, o, t)
      BY <1>6, AgentShape
    <2>2. QED
      BY <1>6, <2>1 DEF AnswersWith
  <1>7. QED
    BY <1>1, <1>2, <1>3, <1>4, <1>5, <1>6, WhichNode

LEMMA RouteCases ==
    ASSUME NEW v \in WorkflowState
    PROVE  \/ v.error /\ RouteNext(v) = "finalize"
           \/ ~v.error /\ v.hitl /\ RouteNext(v) = "hitl_gate"
           \/ ~v.error /\ ~v.hitl /\ v.pending = <<>> /\ RouteNext(v) = "finalize"
           \/ /\ ~v.error /\ ~v.hitl /\ v.pending # <<>> /\ Head(v.pending) = "ER"
              /\ RouteNext(v) = "er_compliance"
           \/ /\ ~v.error /\ ~v.hitl /\ v.pending # <<>>
              /\ RouteNext(v) = Head(v.pending) /\ RouteNext(v) \in SimpleAgents
              /\ RouteNext(v) \notin {"none", "entry", "dispatch", "er_compliance", "er_reason",
                                      "hitl_gate", "finalize", "end", "ER", "DIRECTOR"}
  <1>1. v.pending # <<>> => Head(v.pending) \in Domains
    BY PlanFacts DEF WorkflowState
  <1>2. QED
    BY <1>1 DEF RouteNext, NodeForDomain, SimpleAgents, Domains

----------------------------------------------------------------------------
(* What a node keeps, one part of the invariant at a time.                 *)

LEMMA PIIStep ==
    ASSUME NEW n \in Nodes, NEW v \in WorkflowState, NEW id \in Nat,
           NEW o \in RunNode(n, v, id), PIIHalted(n, v)
    PROVE  PIIHalted(NextNode(n, o.vals), o.vals)
  <1>1. CASE v.request \notin PIIPayloads
    <2>1. Same(o.vals, v)
      BY NodeShape
    <2>2. QED
      BY <1>1, <2>1 DEF Same, PIIHalted
  <1>2. CASE v.request \in PIIPayloads
    <2>1. n \in {"entry", "dispatch", "finalize", "end"}
      BY <1>2 DEF PIIHalted
    <2>2. CASE n = "entry"
      BY <1>2, <2>2, WhichNode, EntryShape DEF PIIHalted, SimpleAgents, Domains
    <2>3. CASE n = "dispatch"
      <3>1. o.vals = v /\ NextNode(n, o.vals) = RouteNext(v)
        BY <2>3, WhichNode, PassingShape DEF SimpleAgents, Domains
      <3>2. QED
        BY <1>2, <2>3, <3>1, RouteCases DEF PIIHalted
    <2>4. CASE n = "finalize"
      BY <1>2, <2>4, WhichNode, PassingShape DEF PIIHalted, SimpleAgents, Domains
    <2>5. QED
      BY <2>1, <2>2, <2>3, <2>4 DEF Nodes, SimpleAgents, Domains
  <1>3. QED
    BY <1>1, <1>2

LEMMA ApprovalStep ==
    ASSUME NEW n \in Nodes, NEW v \in WorkflowState,
           NEW old \in Seq(AuditEntry), NEW o \in RunNode(n, v, Len(old) + 1),
           NEW new, Appended(new, old, o.log), NEW given, ApprovalHeld(old, given, v)
    PROVE  ApprovalHeld(new, given, o.vals)
  <1>1. Len(old) + 1 \in Nat
    OBVIOUS
  <1>2. Same(o.vals, v)
    BY <1>1, NodeShape
  <1>3. \A i \in DOMAIN old : i \in DOMAIN new /\ new[i].event = old[i].event
    BY DEF Appended, GoesOn
  <1>4. CASE o.vals.entry \in {0, v.entry}
    BY <1>2, <1>3, <1>4 DEF ApprovalHeld, Same
  <1>5. CASE o.vals.entry \notin {0, v.entry}
    <2>1. o \in HITLGateNode(v, Len(old) + 1)
      BY <1>1, <1>5, NodeShape
    <2>2. o.vals.entry = Len(old) + 1 /\ o.log = <<Entry("HITL_PENDING", v.final.agent)>>
      BY <1>1, <2>1, GateShape
    <2>3. 1 \in DOMAIN o.log /\ o.log[1].event = "HITL_PENDING"
      BY <2>2 DEF Entry
    <2>4. o.vals.entry \in DOMAIN new /\ new[o.vals.entry].event = "HITL_PENDING"
      BY <2>2, <2>3 DEF Appended
    <2>5. QED
      BY <1>2, <2>4 DEF ApprovalHeld, Same
  <1>6. QED
    BY <1>4, <1>5

\* Module A is reached only through a verdict CLEAR that Module B logs as it gives it.
LEMMA ClearStep ==
    ASSUME NEW n \in Nodes, NEW v \in WorkflowState,
           NEW old \in Seq(AuditEntry), NEW o \in RunNode(n, v, Len(old) + 1),
           NEW new, Appended(new, old, o.log), ClearHeld(old, n, v)
    PROVE  ClearHeld(new, NextNode(n, o.vals), o.vals)
  <1> DEFINE nx == NextNode(n, o.vals)
             OK == v.request \notin HardStops /\ Has(new, "ER_CLEAR")
  <1>1. Len(old) + 1 \in Nat
    OBVIOUS
  <1>2. o.vals.request = v.request
    BY <1>1, NodeShape DEF Same
  <1>3. v.responses \in Seq(Response)
    BY DEF WorkflowState
  <1>4. Has(old, "ER_CLEAR") => Has(new, "ER_CLEAR")
    BY DEF Appended, GoesOn, Has
  <1>5. n # "entry" /\ (n = "er_reason" \/ \E i \in DOMAIN v.responses : v.responses[i] = Reasoned)
           => OK
    BY <1>4 DEF ClearHeld
  <1>6. SUFFICES ASSUME nx = "er_reason" \/ \E i \in DOMAIN o.vals.responses :
                                               o.vals.responses[i] = Reasoned
                 PROVE  OK
    BY <1>2 DEF ClearHeld
  <1>7. CASE n = "entry"
    <2>1. nx = "dispatch" /\ o.vals.responses \in {<<>>, <<Refusal>>}
      BY <1>7, WhichNode, EntryShape DEF SimpleAgents, Domains
    <2>2. \A i \in DOMAIN o.vals.responses : o.vals.responses[i] # Reasoned
      BY <2>1 DEF Refusal, Reasoned
    <2>3. QED
      BY <1>6, <2>1, <2>2
  <1>8. CASE n = "er_compliance"
    <2>1. o \in ERComplianceNode(v) /\ nx = IF o.vals.clear THEN "er_reason" ELSE "dispatch"
      BY <1>8, WhichNode DEF SimpleAgents, Domains
    <2>2. CASE v.request \in HardStops
      <3>1. /\ nx = "dispatch"
            /\ o.vals.responses = Append(v.responses, [agent |-> "ER", tier |-> "MANDATORY"])
        BY <2>1, <2>2, ComplianceShape
      <3>2. \E i \in DOMAIN v.responses : v.responses[i] = Reasoned
        BY <1>3, <1>6, <3>1 DEF Reasoned
      <3>3. QED
        BY <1>5, <1>8, <3>2
    <2>3. CASE v.request \notin HardStops
      <3>1. o.log = <<Entry("ER_CLEAR", "ER")>>
        BY <2>1, <2>3, ComplianceShape
      <3>2. 1 \in DOMAIN o.log /\ o.log[1].event = "ER_CLEAR"
        BY <3>1 DEF Entry
      <3>3. Has(new, "ER_CLEAR")
        BY <3>2 DEF Appended, Has
      <3>4. QED
        BY <2>3, <3>3
    <2>4. QED
      BY <2>2, <2>3
  <1>9. CASE n = "er_reason"
    BY <1>5, <1>9
  <1>10. CASE n \notin {"entry", "er_compliance", "er_reason"}
    <2>1. nx # "er_reason"
      BY <1>10, WhichNode, PassingShape, RouteCases
    <2>2. \/ o.vals.responses = v.responses
          \/ \E d \in SimpleAgents, t \in Tiers :
                o.vals.responses = Append(v.responses, [agent |-> d, tier |-> t])
      BY <1>1, <1>10, NodeShape
    <2>3. \E i \in DOMAIN v.responses : v.responses[i] = Reasoned
      <3>1. CASE o.vals.responses = v.responses
        BY <1>6, <2>1, <3>1
      <3>2. ASSUME NEW d \in SimpleAgents, NEW t \in Tiers,
                   o.vals.responses = Append(v.responses, [agent |-> d, tier |-> t])
            PROVE  \E i \in DOMAIN v.responses : v.responses[i] = Reasoned
        <4>1. [agent |-> d, tier |-> t] # Reasoned
          BY DEF SimpleAgents, Reasoned
        <4>2. PICK i \in DOMAIN o.vals.responses : o.vals.responses[i] = Reasoned
          BY <1>6, <2>1
        <4> DEFINE x == [agent |-> d, tier |-> t]
        <4> HIDE DEF x
        <4>3. o.vals.responses = Append(v.responses, x) /\ x # Reasoned
          BY <3>2, <4>1 DEF x
        <4>4. i \in DOMAIN v.responses /\ v.responses[i] = Reasoned
          BY <1>3, <4>2, <4>3
        <4>5. QED
          BY <4>4
      <3>3. QED
        BY <2>2, <3>1, <3>2
    <2>4. QED
      BY <1>5, <1>10, <2>3
  <1>11. QED
    BY <1>7, <1>8, <1>9, <1>10

\* A MANDATORY result suspends the run, notifies, and is the one the gate logs; the
\* entry the gate keeps is its own, also on a thread that was at the gate before.
LEMMA SuspensionStep ==
    ASSUME NEW n \in Nodes, NEW v \in WorkflowState,
           NEW old \in Seq(AuditEntry), NEW o \in RunNode(n, v, Len(old) + 1),
           NEW new, Appended(new, old, o.log), NEW told, GateHeld(old, told, n, v)
    PROVE  GateHeld(new, IF o.notify THEN told \cup {o.vals.final.agent} ELSE told,
                    NextNode(n, o.vals), o.vals)
  <1> DEFINE nx == NextNode(n, o.vals)
             told2 == IF o.notify THEN told \cup {o.vals.final.agent} ELSE told
  <1>1. Len(old) + 1 \in Nat
    OBVIOUS
  <1>2. /\ told \subseteq told2
        /\ o.notify => o.vals.final.agent \in told2
    OBVIOUS
  <1> SUFFICES GateHeld(new, told2, nx, o.vals)
    OBVIOUS
  <1> HIDE DEF nx, told2
  <1>3. \A i \in DOMAIN old : /\ i \in DOMAIN new /\ new[i].event = old[i].event
                              /\ new[i].agent = old[i].agent
    BY DEF Appended, GoesOn
  <1>4. /\ v.error \in BOOLEAN /\ v.hitl \in BOOLEAN
    BY DEF WorkflowState
  <1>5. CASE n = "entry"
    <2>1. o.vals.hitl = FALSE /\ nx = "dispatch"
      BY <1>5, WhichNode, EntryShape DEF SimpleAgents, Domains, nx
    <2>2. QED
      BY <2>1 DEF GateHeld
  <1>6. CASE n = "dispatch"
    <2>1. o.vals = v /\ nx = RouteNext(v)
      BY <1>6, WhichNode, PassingShape DEF SimpleAgents, Domains, nx
    <2>2. /\ v.error => ~v.hitl
          /\ v.hitl => v.final.tier = "MANDATORY" /\ v.final.agent \in told2
      BY <1>2, <1>6 DEF GateHeld
    <2>3. /\ nx = "hitl_gate" => v.hitl
          /\ v.error => nx = "finalize"
          /\ v.hitl /\ ~v.error => nx = "hitl_gate"
      BY <2>1, RouteCases
    <2>4. QED
      BY <2>1, <2>2, <2>3 DEF GateHeld
  <1>7. CASE n = "er_compliance"
    <2>1. o \in ERComplianceNode(v) /\ nx = IF o.vals.clear THEN "er_reason" ELSE "dispatch"
      BY <1>7, WhichNode DEF SimpleAgents, Domains, nx
    <2>2. ~v.error /\ ~v.hitl
      BY <1>4, <1>7 DEF GateHeld
    <2>3. CASE v.request \in HardStops
      <3>1. /\ o.vals.error = v.error /\ o.vals.clear = FALSE /\ o.notify = TRUE
            /\ o.vals.final = [agent |-> "ER", tier |-> "MANDATORY"]
        BY <2>1, <2>3, ComplianceShape
      <3>2. o.vals.final.tier = "MANDATORY" /\ nx = "dispatch"
        BY <2>1, <3>1
      <3>3. QED
        BY <1>2, <2>2, <3>1, <3>2 DEF GateHeld
    <2>4. CASE v.request \notin HardStops
      <3>1. o.vals.error = v.error /\ o.vals.hitl = v.hitl /\ nx = "er_reason"
        BY <2>1, <2>4, ComplianceShape
      <3>2. QED
        BY <2>2, <3>1 DEF GateHeld
    <2>5. QED
      BY <2>3, <2>4
  <1>8. CASE n = "er_reason"
    <2>1. o \in ERReasonNode(v) /\ nx = "dispatch"
      BY <1>8, WhichNode DEF SimpleAgents, Domains, nx
    <2>2. ~v.error /\ ~v.hitl
      BY <1>4, <1>8 DEF GateHeld
    <2>3. o.vals.error = v.error /\ o.vals.hitl = v.hitl
      BY <2>1, ReasonShape
    <2>4. QED
      BY <2>1, <2>2, <2>3 DEF GateHeld
  <1>9. CASE n = "hitl_gate"
    <2>1. o \in HITLGateNode(v, Len(old) + 1) /\ nx = "finalize"
      BY <1>9, WhichNode DEF SimpleAgents, Domains, nx
    <2>2. ~v.error /\ v.final.tier = "MANDATORY" /\ v.final.agent \in told2
      BY <1>2, <1>4, <1>9 DEF GateHeld
    <2>3. /\ o.vals.error = v.error /\ o.vals.final = v.final
          /\ o.vals.entry = Len(old) + 1 /\ o.log = <<Entry("HITL_PENDING", v.final.agent)>>
      BY ZenonT(60), <1>1, <2>1, GateShape
    <2>4. 1 \in DOMAIN o.log /\ o.log[1].event = "HITL_PENDING"
          /\ o.log[1].agent = v.final.agent
      BY <2>3 DEF Entry
    <2>5. /\ o.vals.entry \in DOMAIN new /\ new[o.vals.entry].event = "HITL_PENDING"
          /\ new[o.vals.entry].agent = o.vals.final.agent
      BY <2>3, <2>4 DEF Appended
    <2>6. o.vals.hitl = TRUE
      BY <1>1, <2>1, GateShape
    <2>7. QED
      BY <2>1, <2>2, <2>3, <2>5, <2>6 DEF GateHeld
  <1>10. CASE n = "finalize"
    <2>1. o.vals = v /\ nx = "end"
      BY <1>10, WhichNode, PassingShape DEF SimpleAgents, Domains, nx
    <2>2. QED
      BY <1>2, <1>3, <1>10, <2>1 DEF GateHeld
  <1>11. CASE n \in SimpleAgents
    <2>1. /\ o \in AgentNode(n, v) /\ nx = "dispatch"
          /\ n \notin {"none", "entry", "dispatch", "hitl_gate", "finalize", "end"}
      BY <1>11, WhichNode DEF SimpleAgents, Domains, nx
    <2>2. ~v.error /\ ~v.hitl
      BY <1>4, <2>1 DEF GateHeld
    <2>3. PICK t \in Tiers : AnswersWith(n, v, o, t)
      BY <1>11, <2>1, AgentShape
    <2>4. o.vals.hitl => o.vals.final.tier = "MANDATORY" /\ o.notify
      <3>1. CASE t = "MANDATORY"
        <4>1. o.vals.final = [agent |-> n, tier |-> t] /\ o.notify = TRUE
          BY <2>3, <3>1 DEF AnswersWith
        <4>2. QED
          BY <3>1, <4>1
      <3>2. CASE t # "MANDATORY"
        BY <2>2, <2>3, <3>2 DEF AnswersWith
      <3>3. QED
        BY <3>1, <3>2
    <2>5. ~o.vals.error
      BY <2>2, <2>3 DEF AnswersWith
    <2>6. QED
      BY <1>2, <2>1, <2>4, <2>5 DEF GateHeld
  <1>12. QED
    BY <1>5, <1>6, <1>7, <1>8, <1>9, <1>10, <1>11 DEF Nodes

LEMMA PlanSeq ==
    ASSUME NEW p \in Plans
    PROVE  p \in Seq(Domains)
  <1>1. ASSUME NEW d \in Domains, p = <<d>> PROVE p \in Seq(Domains)
    BY <1>1
  <1>2. <<"ER", "LEGAL">> \in Seq(Domains)
    BY DEF Domains
  <1>3. QED
    BY <1>1, <1>2 DEF Plans

\* Answering takes the domain that answers from the head of the plan's rest.
LEMMA AnswerConserves ==
    ASSUME NEW rs \in Seq(Response), NEW p \in Plans, NEW x \in Response,
           Head(p) = x.agent
    PROVE  LET agents(s) == [i \in DOMAIN s |-> s[i].agent] IN
           agents(Append(rs, x)) \o Without(p, x.agent) = agents(rs) \o p
  <1> DEFINE agents(s) == [i \in DOMAIN s |-> s[i].agent]
             A == Domains \cup {"DIRECTOR", "NONE"}
             a == agents(rs)
             b == agents(Append(rs, x))
  <1>0. DOMAIN rs = 1..Len(rs) /\ \A i \in DOMAIN rs : rs[i] \in Response
    OBVIOUS
  <1>1. p # <<>> /\ p \in Seq(A) /\ Tail(p) \in Seq(A)
    <2>1. p # <<>> /\ p \in Seq(A)
      BY PlanFacts, PlanSeq
    <2>2. QED
      BY <2>1
  <1>2. Without(p, x.agent) = Tail(p)
    BY <1>1 DEF Without
  <1>3. a \in Seq(A) /\ Len(a) = Len(rs) /\ b \in Seq(A) /\ Len(b) = Len(rs) + 1
        /\ b[Len(rs) + 1] = x.agent /\ \A i \in 1..Len(rs) : a[i] = b[i]
    <2>1. \A i \in DOMAIN rs : rs[i].agent \in A
      BY <1>0 DEF Response
    <2>2. Append(rs, x) \in Seq(Response) /\ Len(Append(rs, x)) = Len(rs) + 1
      OBVIOUS
    <2>3. \A i \in 1..Len(rs) : Append(rs, x)[i] = rs[i]
      OBVIOUS
    <2>4. Append(rs, x)[Len(rs) + 1] = x
      OBVIOUS
    <2>5. x.agent \in A
      BY DEF Response
    <2> DEFINE ys == Append(rs, x)
    <2> HIDE DEF ys, A
    <2>6. DOMAIN ys = 1..(Len(rs) + 1) /\ DOMAIN rs = 1..Len(rs) /\ Len(rs) \in Nat
      BY <2>2 DEF ys
    <2>7. \A i \in 1..(Len(rs) + 1) : ys[i].agent \in A
      BY <2>1, <2>3, <2>4, <2>5, <2>6 DEF ys
    <2>8. a \in Seq(A) /\ Len(a) = Len(rs)
      BY <2>1, <2>6
    <2>9. b \in Seq(A) /\ Len(b) = Len(rs) + 1
      BY <2>6, <2>7 DEF ys
    <2>10. QED
      BY <2>3, <2>4, <2>6, <2>8, <2>9 DEF ys
  <1>4. Len(p) \in Nat \ {0} /\ Len(Tail(p)) = Len(p) - 1 /\ p[1] = x.agent
        /\ \A i \in 1..(Len(p) - 1) : Tail(p)[i] = p[i + 1]
    BY <1>1
  <1> HIDE DEF agents, a, b, A
  <1>5. b \o Tail(p) = a \o p
    <2> DEFINE l == b \o Tail(p)
               m == a \o p
    <2>1. l \in Seq(A) /\ m \in Seq(A)
      BY <1>1, <1>3
    <2>2. Len(l) = Len(rs) + Len(p) /\ Len(m) = Len(rs) + Len(p) /\ Len(rs) \in Nat
      <3>1. Len(rs) \in Nat
        OBVIOUS
      <3>2. Len(l) = Len(b) + Len(Tail(p))
        BY <1>1, <1>3
      <3>3. Len(m) = Len(a) + Len(p)
        BY SMTT(30), <1>1, <1>3
      <3>4. QED
        BY <1>3, <1>4, <3>1, <3>2, <3>3
    <2>3. ASSUME NEW i \in 1..(Len(rs) + Len(p)) PROVE l[i] = m[i]
      <3>1. CASE i \in 1..Len(rs)
        BY <1>1, <1>3, <1>4, <3>1
      <3>2. CASE i = Len(rs) + 1
        BY <1>1, <1>3, <1>4, <3>2
      <3>3. CASE i > Len(rs) + 1
        BY <1>1, <1>3, <1>4, <2>2, <3>3
      <3>4. QED
        BY <2>2, <3>1, <3>2, <3>3
    <2> HIDE DEF l, m
    <2>4. l = m
      BY <2>1, <2>2, <2>3
    <2>5. QED
      BY <2>4 DEF l, m
  <1>6. QED
    BY <1>2, <1>5 DEF a, b, agents

\* Until a run is suspended or in error, who has answered and who is pending is its plan.
LEMMA PlanStep ==
    ASSUME NEW n \in Nodes, NEW v \in WorkflowState, v.request \in Payloads, NEW id \in Nat,
           NEW o \in RunNode(n, v, id), PlanHeld(n, v)
    PROVE  PlanHeld(NextNode(n, o.vals), o.vals)
  <1> DEFINE nx == NextNode(n, o.vals)
             plans == PlansOf[v.request]
  <1>1. /\ v.responses \in Seq(Response) /\ v.pending \in Plans \cup {<<>>}
        /\ v.error \in BOOLEAN /\ v.hitl \in BOOLEAN
    BY DEF WorkflowState
  <1>2. o.vals.request = v.request
    BY NodeShape DEF Same
  <1> SUFFICES ASSUME ~o.vals.error, ~o.vals.hitl
               PROVE  /\ Answered(o.vals) \o o.vals.pending \in plans
                      /\ nx \in {"er_compliance", "er_reason"} =>
                            o.vals.pending # <<>> /\ Head(o.vals.pending) = "ER"
                      /\ nx \in SimpleAgents =>
                            o.vals.pending # <<>> /\ Head(o.vals.pending) = nx
                      /\ nx \in {"finalize", "end"} => o.vals.pending = <<>>
    BY <1>2 DEF PlanHeld
  <1> HIDE DEF nx, plans
  <1>3. ASSUME NEW d \in Domains, NEW t \in Tiers, ~v.error, ~v.hitl, n \notin {"none", "entry"},
               v.pending # <<>>, Head(v.pending) = d,
               o.vals.responses = Append(v.responses, [agent |-> d, tier |-> t]),
               o.vals.pending = Without(v.pending, d)
        PROVE  Answered(o.vals) \o o.vals.pending \in plans
    <2> DEFINE x == [agent |-> d, tier |-> t]
    <2>1. x \in Response /\ x.agent = d
      BY DEF Response
    <2>2. Answered(v) \o v.pending \in plans
      BY <1>3 DEF PlanHeld, plans
    <2> HIDE DEF x
    <2>3. [i \in DOMAIN Append(v.responses, x) |-> Append(v.responses, x)[i].agent]
             \o Without(v.pending, x.agent)
             = [i \in DOMAIN v.responses |-> v.responses[i].agent] \o v.pending
      BY <1>1, <1>3, <2>1, AnswerConserves
    <2>4. o.vals.responses = Append(v.responses, x)
      BY <1>3 DEF x
    <2>5. QED
      BY <1>3, <2>1, <2>2, <2>3, <2>4 DEF Answered
  <1>4. CASE n = "entry"
    <2>1. o \in EntryNode(v) /\ nx = "dispatch"
      BY <1>4, WhichNode DEF SimpleAgents, Domains, nx
    <2>2. v.request \notin PIIPayloads
      BY <2>1, EntryShape
    <2>3. o.vals.responses = <<>> /\ o.vals.pending \in plans
      BY <2>1, <2>2, EntryShape DEF plans
    <2>4. o.vals.pending \in Plans
      BY <2>3, PayloadAssumption DEF plans
    <2>5. Answered(o.vals) = <<>>
      BY <2>3 DEF Answered
    <2>6. o.vals.pending \in Seq(Domains)
      BY <2>4, PlanSeq
    <2>7. Answered(o.vals) \o o.vals.pending = o.vals.pending
      BY <2>5, <2>6
    <2>8. QED
      BY <2>1, <2>3, <2>7 DEF SimpleAgents, Domains
  <1>5. CASE n = "dispatch"
    <2>1. o.vals = v /\ nx = RouteNext(v)
      BY <1>5, WhichNode, PassingShape DEF SimpleAgents, Domains, nx
    <2>2. Answered(v) \o v.pending \in plans
      BY <1>5, <2>1 DEF PlanHeld, plans
    <2>3. QED
      BY <2>1, <2>2, RouteCases DEF SimpleAgents, Domains
  <1>6. CASE n = "er_compliance"
    <2>1. o \in ERComplianceNode(v) /\ nx = IF o.vals.clear THEN "er_reason" ELSE "dispatch"
      BY <1>6, WhichNode DEF SimpleAgents, Domains, nx
    <2>2. v.request \notin HardStops
      BY <2>1, ComplianceShape
    <2>3. /\ o.vals.error = v.error /\ o.vals.hitl = v.hitl /\ o.vals.responses = v.responses
          /\ o.vals.pending = v.pending /\ nx = "er_reason"
      BY <2>1, <2>2, ComplianceShape
    <2>4. /\ Answered(v) \o v.pending \in plans
          /\ v.pending # <<>> /\ Head(v.pending) = "ER"
      BY <1>6, <2>3 DEF PlanHeld, plans
    <2>5. QED
      BY <2>3, <2>4 DEF Answered, SimpleAgents, Domains
  <1>7. CASE n = "er_reason"
    <2>1. o \in ERReasonNode(v) /\ nx = "dispatch"
      BY <1>7, WhichNode DEF SimpleAgents, Domains, nx
    <2>2. /\ o.vals.error = v.error /\ o.vals.hitl = v.hitl
          /\ o.vals.responses = Append(v.responses, Reasoned)
          /\ o.vals.pending = Without(v.pending, "ER")
      BY <2>1, ReasonShape
    <2>3. v.pending # <<>> /\ Head(v.pending) = "ER"
      BY <1>7, <2>2 DEF PlanHeld
    <2>4. "ER" \in Domains /\ "RECOMMENDED" \in Tiers
      BY DEF Domains, Tiers
    <2>5. Answered(o.vals) \o o.vals.pending \in plans
      BY <1>3, <1>7, <2>2, <2>3, <2>4 DEF Reasoned
    <2>6. QED
      BY <2>1, <2>5 DEF SimpleAgents, Domains
  <1>8. CASE n = "hitl_gate"
    BY <1>8, WhichNode, GateShape DEF SimpleAgents, Domains
  <1>9. CASE n = "finalize"
    <2>1. o.vals = v /\ nx = "end"
      BY <1>9, WhichNode, PassingShape DEF SimpleAgents, Domains, nx
    <2>2. Answered(v) \o v.pending \in plans /\ v.pending = <<>>
      BY <1>9, <2>1 DEF PlanHeld, plans
    <2>3. QED
      BY <2>1, <2>2 DEF SimpleAgents, Domains
  <1>10. CASE n \in SimpleAgents
    <2>1. /\ o \in AgentNode(n, v) /\ nx = "dispatch"
          /\ n \notin {"none", "entry", "dispatch", "hitl_gate", "finalize", "end"}
      BY <1>10, WhichNode DEF SimpleAgents, Domains, nx
    <2>2. PICK t \in Tiers : AnswersWith(n, v, o, t)
      BY <1>10, <2>1, AgentShape
    <2>3. t # "MANDATORY"
      BY <2>2 DEF AnswersWith
    <2>4. /\ o.vals.error = v.error /\ o.vals.hitl = v.hitl
          /\ o.vals.responses = Append(v.responses, [agent |-> n, tier |-> t])
          /\ o.vals.pending = Without(v.pending, n)
      BY <2>2, <2>3 DEF AnswersWith
    <2>5. v.pending # <<>> /\ Head(v.pending) = n
      BY <1>10, <2>1, <2>4 DEF PlanHeld
    <2>6. n \in Domains
      BY <1>10 DEF SimpleAgents
    <2>7. Answered(o.vals) \o o.vals.pending \in plans
      BY <1>3, <2>1, <2>4, <2>5, <2>6
    <2>8. QED
      BY <2>1, <2>7 DEF SimpleAgents, Domains
  <1>11. QED
    BY <1>4, <1>5, <1>6, <1>7, <1>8, <1>9, <1>10 DEF Nodes

LEMMA NodeKeepsCopy ==
    ASSUME NEW n \in Nodes, NEW v \in WorkflowState, v.request \in Payloads,
           NEW old \in Seq(AuditEntry), NEW o \in RunNode(n, v, Len(old) + 1),
           NEW new, Appended(new, old, o.log), NEW told, NEW given,
           CopyOK(old, told, given, n, v)
    PROVE  CopyOK(new, IF o.notify THEN told \cup {o.vals.final.agent} ELSE told, given,
                  NextNode(n, o.vals), o.vals)
  <1>1. Len(old) + 1 \in Nat
    OBVIOUS
  <1>2. NextNode(n, o.vals) # "none"
    <2>1. o.vals \in WorkflowState
      BY <1>1, NodeTyped DEF Typed
    <2>2. QED
      BY <2>1, NextNodeType DEF Nodes, SimpleAgents, Domains
  <1>3. Unstarted(NextNode(n, o.vals), o.vals)
    BY <1>2 DEF Unstarted
  <1>4. PIIHalted(NextNode(n, o.vals), o.vals)
    BY <1>1, PIIStep DEF CopyOK
  <1>5. GateHeld(new, IF o.notify THEN told \cup {o.vals.final.agent} ELSE told,
                 NextNode(n, o.vals), o.vals)
    BY SuspensionStep DEF CopyOK
  <1>6. ClearHeld(new, NextNode(n, o.vals), o.vals)
    BY ClearStep DEF CopyOK
  <1>7. ApprovalHeld(new, given, o.vals)
    BY ApprovalStep DEF CopyOK
  <1>8. PlanHeld(NextNode(n, o.vals), o.vals)
    BY <1>1, PlanStep DEF CopyOK
  <1>9. QED
    BY <1>3, <1>4, <1>5, <1>6, <1>7, <1>8 DEF CopyOK

\* Only the gate entry a run keeps is stamped, and with an approver who posted.
LEMMA StampKeepsTrail ==
    ASSUME NEW old \in Seq(AuditEntry), NEW log \in Seq(AuditEntry), Unsigned(log),
           NEW given, TrailOK(old, given), NEW v \in WorkflowState,
           ApprovalHeld(old, given, v), NEW i \in {0, v.entry}
    PROVE  LET new == Stamp(old, i, v.approval) \o log IN
           GoesOn(new, old) /\ Appended(new, old, log) /\ TrailOK(new, given)
  <1> DEFINE new == Stamp(old, i, v.approval) \o log
  <1>1. i \in Nat /\ v.approval \in Approvers \cup {None}
    BY DEF WorkflowState
  <1>2. /\ Appended(new, old, log)
        /\ \A j \in DOMAIN new :
             \/ j \in DOMAIN old /\ new[j].event = old[j].event
                  /\ (new[j].approver = old[j].approver
                         \/ (j = i /\ new[j].approver = v.approval))
             \/ \E k \in DOMAIN log : new[j] = log[k]
    BY <1>1, StampedLog
  <1> HIDE DEF new
  <1>3. 0 \notin DOMAIN old
    OBVIOUS
  <1>4. ASSUME NEW j \in DOMAIN new, new[j].approver # None
        PROVE  new[j].event = "HITL_PENDING" /\ new[j].approver \in given
    <2>1. CASE \E k \in DOMAIN log : new[j] = log[k]
      BY <1>4, <2>1 DEF Unsigned
    <2>2. CASE j \in DOMAIN old /\ new[j].event = old[j].event
                 /\ new[j].approver = old[j].approver
      BY <1>4, <2>2 DEF TrailOK
    <2>3. CASE j \in DOMAIN old /\ new[j].event = old[j].event
                 /\ j = i /\ new[j].approver = v.approval
      <3>1. v.entry # 0 /\ j = v.entry
        BY <1>3, <2>3
      <3>2. QED
        BY <1>4, <2>3, <3>1 DEF ApprovalHeld
    <2>4. QED
      BY <1>2, <2>1, <2>2, <2>3
  <1>5. TrailOK(new, given)
    BY <1>4 DEF TrailOK
  <1>6. GoesOn(new, old)
    BY <1>2 DEF Appended
  <1>7. QED
    BY <1>2, <1>5, <1>6 DEF new

----------------------------------------------------------------------------
(* What steps of the service do to trails, checkpoints and runs.           *)

\* The records of every request go on, and their trails stay signed by who posted.
RecordsGrow ==
    \A r \in Requests :
        /\ GoesOn(audit'[r], audit[r])
        /\ notified[r] \subseteq notified'[r]
        /\ posted[r] \subseteq posted'[r]
        /\ TrailOK(audit'[r], posted'[r])

\* It is enough to look at the checkpoints and the runs a step writes.
LEMMA RunInvKept ==
    ASSUME RunInv, RecordsGrow,
           \A r \in Requests :
               \/ ckpt'[r] \in {ckpt[r], NoCheckpoint}
               \/ CopyOK(audit'[r], notified'[r], posted'[r], ckpt'[r].next, ckpt'[r].vals),
           \A a \in Actors :
               \/ run'[a] \in {run[a], NoRun}
               \/ \A r \in Requests : run'[a].rid = r =>
                    CopyOK(audit'[r], notified'[r], posted'[r], run'[a].node, run'[a].vals)
    PROVE  RunInv'
  <1>1. SUFFICES ASSUME NEW r \in Requests
                 PROVE  /\ TrailOK(audit'[r], posted'[r])
                        /\ CopyOK(audit'[r], notified'[r], posted'[r], ckpt'[r].next,
                                  ckpt'[r].vals)
                        /\ \A a \in Actors : run'[a].rid = r =>
                              CopyOK(audit'[r], notified'[r], posted'[r], run'[a].node,
                                     run'[a].vals)
    BY DEF RunInv
  <1>2. /\ GoesOn(audit'[r], audit[r]) /\ notified[r] \subseteq notified'[r]
        /\ posted[r] \subseteq posted'[r] /\ TrailOK(audit'[r], posted'[r])
    BY DEF RecordsGrow
  <1>3. ASSUME NEW n, NEW v, CopyOK(audit[r], notified[r], posted[r], n, v)
        PROVE  CopyOK(audit'[r], notified'[r], posted'[r], n, v)
    BY <1>2, <1>3, CopyKept
  <1>4. CopyOK(audit'[r], notified'[r], posted'[r], "none", EmptyState)
    BY EmptyCopyOK
  <1>5. CopyOK(audit'[r], notified'[r], posted'[r], ckpt'[r].next, ckpt'[r].vals)
    <2>1. CASE ckpt'[r] = ckpt[r]
      BY <1>3, <2>1 DEF RunInv
    <2>2. CASE ckpt'[r] = NoCheckpoint
      BY <1>4, <2>2 DEF NoCheckpoint
    <2>3. QED
      BY <2>1, <2>2
  <1>6. ASSUME NEW a \in Actors, run'[a].rid = r
        PROVE  CopyOK(audit'[r], notified'[r], posted'[r], run'[a].node, run'[a].vals)
    <2>1. CASE run'[a] = run[a]
      BY <1>3, <1>6, <2>1 DEF RunInv
    <2>2. CASE run'[a] = NoRun
      BY <1>4, <2>2 DEF NoRun
    <2>3. QED
      BY <1>6, <2>1, <2>2
  <1>7. QED
    BY <1>2, <1>5, <1>6

LEMMA QuietRecords ==
    ASSUME RunInv, UNCHANGED <<audit, notified>>,
           \A r \in Requests : posted[r] \subseteq posted'[r]
    PROVE  RecordsGrow
  BY DEF RunInv, TrailOK, RecordsGrow, GoesOn

\* What Step(a) does when its node has outcome o.
Does(a, o) ==
    LET r  == run[a].rid
        n  == run[a].node
        v  == run[a].vals
        nx == NextNode(n, o.vals)
    IN  /\ r \in Requests /\ n \in Nodes /\ v \in WorkflowState /\ v.request \in Payloads
        /\ o \in RunNode(n, v, Len(audit[r]) + 1)
        /\ o.log \in Seq(AuditEntry)
        /\ audit' = [audit EXCEPT ![r] = Stamp(audit[r], Provenance(n, v), v.approval) \o o.log]
        /\ notified' = [notified EXCEPT ![r] = IF o.notify THEN @ \cup {o.vals.final.agent}
                                               ELSE @]
        /\ ckpt' = [ckpt EXCEPT ![r] = [next |-> nx, vals |-> o.vals]]
        /\ IF nx = "end" \/ n \in InterruptAfter
           THEN run' = [run EXCEPT ![a] = NoRun] /\ Return(a)
           ELSE /\ run' = [run EXCEPT ![a] = [@ EXCEPT !.node = nx, !.vals = o.vals]]
                /\ UNCHANGED <<worker, api>>
        /\ UNCHANGED <<msg, posted>>

LEMMA StepDoes ==
    ASSUME TypeInv, NEW a \in Actors, Step(a)
    PROVE  \E o : Does(a, o)
  <1> DEFINE r == run[a].rid
             n == run[a].node
             v == run[a].vals
             trail == Stamp(audit[r], Provenance(n, v), v.approval)
  <1>1. n # "none" /\ UNCHANGED <<msg, posted>>
    BY DEF Step
  <1>2. r \in Requests /\ n \in Nodes /\ v \in WorkflowState /\ v.request \in Payloads
    BY <1>1 DEF TypeInv, TypeOK, Wired, RunWired, GraphRun
  <1>3. PICK o \in RunNode(n, v, Len(trail) + 1) :
          LET nx == NextNode(n, o.vals) IN
          /\ audit' = [audit EXCEPT ![r] = trail \o o.log]
          /\ notified' = [notified EXCEPT ![r] =
                             IF o.notify THEN @ \cup {o.vals.final.agent} ELSE @]
          /\ ckpt' = [ckpt EXCEPT ![r] = [next |-> nx, vals |-> o.vals]]
          /\ IF nx = "end" \/ n \in InterruptAfter
             THEN /\ run' = [run EXCEPT ![a] = NoRun]
                  /\ Return(a)
             ELSE /\ run' = [run EXCEPT ![a] = [@ EXCEPT !.node = nx, !.vals = o.vals]]
                  /\ UNCHANGED <<worker, api>>
    BY Zenon DEF Step
  <1>4. Len(trail) = Len(audit[r]) /\ Len(audit[r]) + 1 \in Nat
    <2>1. audit[r] \in Seq(AuditEntry)
      BY <1>2 DEF TypeInv, TypeOK
    <2>2. Provenance(n, v) \in Nat /\ v.approval \in Approvers \cup {None}
      BY <1>2, ProvenanceTyped
    <2> HIDE DEF r, n, v
    <2>3. Len(trail) = Len(audit[r])
      BY <2>1, <2>2, StampTyped
    <2>4. QED
      BY <2>1, <2>3
  <1>5. o \in RunNode(n, v, Len(audit[r]) + 1)
    BY <1>3, <1>4
  <1>6. o.log \in Seq(AuditEntry)
    BY <1>2, <1>4, <1>5, NodeTyped DEF Typed
  <1>7. Does(a, o)
    BY <1>1, <1>2, <1>3, <1>5, <1>6, Zenon DEF Does
  <1>8. QED
    BY <1>7

\* What a step that raises, or whose body is rejected, does: it leaves a part of its log.
Fails(a) ==
    LET r == run[a].rid
        v == run[a].vals
    IN  /\ r \in Requests /\ v \in WorkflowState
        /\ \E log \in Seq(AuditEntry), i \in {0, v.entry} :
              /\ Unsigned(log)
              /\ audit' = [audit EXCEPT ![r] = Stamp(audit[r], i, v.approval) \o log]
        /\ \A q \in Requests : notified[q] \subseteq notified'[q]
        /\ Raise(a)
        /\ UNCHANGED <<msg, ckpt, posted>>

LEMMA ErrorLogsUnsigned ==
    ASSUME NEW n, NEW log \in ErrorLogs(n)
    PROVE  Unsigned(log)
  BY DEF ErrorLogs, RejectLog, Entry, Unsigned

LEMMA StampNone ==
    ASSUME NEW trail \in Seq(AuditEntry), NEW approver
    PROVE  Stamp(trail, 0, approver) = trail
  <1>1. 0 \notin DOMAIN trail
    OBVIOUS
  <1>2. QED
    BY <1>1 DEF Stamp

LEMMA StepRejectsDoes ==
    ASSUME TypeInv, NEW a \in Actors, StepRejects(a)
    PROVE  Fails(a)
  <1> DEFINE r == run[a].rid
             n == run[a].node
             v == run[a].vals
             log == RejectLog(n)
  <1>1. /\ n # "none" /\ Raise(a)
        /\ audit' = [audit EXCEPT ![r] = @ \o log]
        /\ UNCHANGED <<msg, ckpt, notified, posted>>
    BY DEF StepRejects
  <1>2. r \in Requests /\ n \in Nodes /\ v \in WorkflowState
    BY <1>1 DEF TypeInv, TypeOK, Wired, RunWired, GraphRun
  <1>3. audit[r] \in Seq(AuditEntry) /\ audit' = [audit EXCEPT ![r] = audit[r] \o log]
    BY <1>1, <1>2 DEF TypeInv, TypeOK
  <1>4. log \in ErrorLogs(n)
    BY DEF ErrorLogs
  <1> HIDE DEF log
  <1>5. log \in Seq(AuditEntry) /\ Unsigned(log)
    BY <1>2, <1>4, ErrorLogsTyped, ErrorLogsUnsigned
  <1>6. audit' = [audit EXCEPT ![r] = Stamp(audit[r], 0, v.approval) \o log]
    BY <1>3, StampNone
  <1>7. \E l \in Seq(AuditEntry), i \in {0, v.entry} :
           /\ Unsigned(l) /\ audit' = [audit EXCEPT ![r] = Stamp(audit[r], i, v.approval) \o l]
    BY <1>5, <1>6
  <1>8. QED
    BY <1>1, <1>2, <1>7 DEF Fails

LEMMA StepRaisesDoes ==
    ASSUME TypeInv, NEW a \in Actors, StepRaises(a)
    PROVE  Fails(a)
  <1> DEFINE r == run[a].rid
             n == run[a].node
             v == run[a].vals
             pos == Provenance(n, v)
             Kept2 == \A q \in Requests : notified[q] \subseteq notified'[q]
             Logs(log, i) == /\ Unsigned(log)
                             /\ audit' = [audit EXCEPT ![r] =
                                            Stamp(audit[r], i, v.approval) \o log]
  <1>1. n # "none" /\ Raise(a) /\ UNCHANGED <<msg, ckpt, posted>>
    BY Zenon DEF StepRaises
  <1>2. r \in Requests /\ n \in Nodes /\ v \in WorkflowState /\ v.request \in Payloads
    BY <1>1 DEF TypeInv, TypeOK, Wired, RunWired, GraphRun
  <1>3. \/ UNCHANGED <<audit, notified>>
        \/ /\ \E log \in ErrorLogs(n) : audit' = [audit EXCEPT ![r] = @ \o log]
           /\ UNCHANGED notified
        \/ \E o \in RunNode(n, v, Len(audit[r]) + 1) : \E k \in 0..Len(o.log) :
             \E sent \in {FALSE, o.notify /\ k = Len(o.log)} :
               /\ audit' = [audit EXCEPT ![r] = Stamp(audit[r], pos, v.approval)
                                                   \o SubSeq(o.log, 1, k)]
               /\ notified' = [notified EXCEPT ![r] =
                                  IF sent THEN @ \cup {o.vals.final.agent} ELSE @]
    BY Zenon DEF StepRaises
  <1>4. /\ audit[r] \in Seq(AuditEntry) /\ Len(audit[r]) + 1 \in Nat
        /\ pos \in {0, v.entry}
    BY <1>2 DEF TypeInv, TypeOK, Provenance
  <1> HIDE DEF r, n, v, pos
  <1>5. Kept2 /\ \E log \in Seq(AuditEntry), i \in {0, v.entry} : Logs(log, i)
    <2>1. CASE UNCHANGED <<audit, notified>>
      <3>1. <<>> \in Seq(AuditEntry) /\ Unsigned(<<>>) /\ audit[r] \o <<>> = audit[r]
        BY <1>4 DEF Unsigned
      <3>2. audit' = [audit EXCEPT ![r] = Stamp(audit[r], 0, v.approval) \o <<>>]
        BY <1>4, <2>1, <3>1, StampNone DEF TypeInv, TypeOK
      <3>3. QED
        BY <2>1, <3>1, <3>2
    <2>2. ASSUME NEW log \in ErrorLogs(n), audit' = [audit EXCEPT ![r] = @ \o log],
                 UNCHANGED notified
          PROVE  Kept2 /\ \E l \in Seq(AuditEntry), i \in {0, v.entry} : Logs(l, i)
      <3>1. log \in Seq(AuditEntry) /\ Unsigned(log)
        BY <1>2, ErrorLogsTyped, ErrorLogsUnsigned
      <3>2. audit' = [audit EXCEPT ![r] = Stamp(audit[r], 0, v.approval) \o log]
        BY <1>2, <1>4, <2>2, StampNone DEF TypeInv, TypeOK
      <3>3. QED
        BY <2>2, <3>1, <3>2
    <2>3. ASSUME NEW o \in RunNode(n, v, Len(audit[r]) + 1), NEW k \in 0..Len(o.log),
                 NEW sent \in {FALSE, o.notify /\ k = Len(o.log)},
                 audit' = [audit EXCEPT ![r] = Stamp(audit[r], pos, v.approval)
                                                  \o SubSeq(o.log, 1, k)],
                 notified' = [notified EXCEPT ![r] =
                                 IF sent THEN @ \cup {o.vals.final.agent} ELSE @]
          PROVE  Kept2 /\ \E l \in Seq(AuditEntry), i \in {0, v.entry} : Logs(l, i)
      <3>1. o.log \in Seq(AuditEntry) /\ Unsigned(o.log)
        BY <1>2, <1>4, NodeTyped, NodeShape DEF Typed
      <3>2. /\ SubSeq(o.log, 1, k) \in Seq(AuditEntry)
            /\ \A i \in DOMAIN SubSeq(o.log, 1, k) :
                  i \in DOMAIN o.log /\ SubSeq(o.log, 1, k)[i] = o.log[i]
        BY <3>1
      <3>3. Unsigned(SubSeq(o.log, 1, k))
        BY <3>1, <3>2 DEF Unsigned
      <3>4. Kept2
        BY <2>3, <1>2 DEF TypeInv, TypeOK
      <3>5. Logs(SubSeq(o.log, 1, k), pos)
        BY <2>3, <3>3
      <3>6. QED
        BY <1>4, <3>2, <3>4, <3>5
    <2> HIDE DEF Kept2, Logs
    <2>4. QED
      BY <1>3, <2>1, <2>2, <2>3, Zenon
  <1>6. QED
    BY <1>1, <1>2, <1>5 DEF Fails, r, v

----------------------------------------------------------------------------
(* RunInv is inductive.                                                    *)

LEMMA RunStep ==
    ASSUME TypeInv, RunInv, NEW a \in Actors, Step(a)
    PROVE  RunInv'
  <1>1. PICK o : Does(a, o)
    BY StepDoes
  <1>a. PICK r \in Requests, n \in Nodes, v \in WorkflowState :
          r = run[a].rid /\ n = run[a].node /\ v = run[a].vals
    BY <1>1 DEF Does
  <1>b. PICK nx : nx = NextNode(n, o.vals)
    OBVIOUS
  <1>2. /\ r = run[a].rid /\ n = run[a].node /\ v = run[a].vals
        /\ nx = NextNode(n, o.vals)
    BY <1>a, <1>b
  <1>3. PICK told : told = IF o.notify THEN notified[r] \cup {o.vals.final.agent}
                           ELSE notified[r]
    OBVIOUS
  <1>4. /\ v.request \in Payloads
        /\ o \in RunNode(n, v, Len(audit[r]) + 1)
        /\ o.log \in Seq(AuditEntry)
        /\ audit' = [audit EXCEPT ![r] = Stamp(audit[r], Provenance(n, v), v.approval) \o o.log]
        /\ notified' = [notified EXCEPT ![r] = told]
        /\ ckpt' = [ckpt EXCEPT ![r] = [next |-> nx, vals |-> o.vals]]
        /\ \/ run' = [run EXCEPT ![a] = NoRun]
           \/ run' = [run EXCEPT ![a] = [@ EXCEPT !.node = nx, !.vals = o.vals]]
        /\ UNCHANGED <<msg, posted>>
    BY <1>1, <1>2, <1>3 DEF Does
  <1>5. /\ audit[r] \in Seq(AuditEntry)
        /\ CopyOK(audit[r], notified[r], posted[r], n, v)
        /\ TrailOK(audit[r], posted[r])
    BY <1>2 DEF TypeInv, TypeOK, RunInv
  <1>6. PICK i \in {0, v.entry} : i = Provenance(n, v)
    BY DEF Provenance
  <1>7. Len(audit[r]) + 1 \in Nat
    BY <1>5
  <1>8. Unsigned(o.log)
    BY <1>4, <1>7, NodeShape
  <1>9. /\ GoesOn(audit'[r], audit[r])
        /\ Appended(audit'[r], audit[r], o.log)
        /\ TrailOK(audit'[r], posted[r])
    <2>1. audit'[r] = Stamp(audit[r], i, v.approval) \o o.log
      BY <1>4, <1>6 DEF TypeInv, TypeOK
    <2>2. ApprovalHeld(audit[r], posted[r], v)
      BY <1>5 DEF CopyOK
    <2>3. PICK log : log = o.log
      OBVIOUS
    <2>4. log \in Seq(AuditEntry) /\ Unsigned(log)
      BY <1>4, <1>8, <2>3
    <2>5. LET new == Stamp(audit[r], i, v.approval) \o log IN
          GoesOn(new, audit[r]) /\ Appended(new, audit[r], log) /\ TrailOK(new, posted[r])
      BY <1>5, <2>2, <2>4, StampKeepsTrail
    <2>6. QED
      BY <2>1, <2>3, <2>5
  <1>10. CopyOK(audit'[r], told, posted[r], nx, o.vals)
    <2>1. PICK new, t, g : new = audit'[r] /\ t = notified[r] /\ g = posted[r]
      OBVIOUS
    <2>a. PICK old \in Seq(AuditEntry) : old = audit[r]
      BY <1>5
    <2>2. /\ o \in RunNode(n, v, Len(old) + 1) /\ Appended(new, old, o.log)
          /\ CopyOK(old, t, g, n, v)
      BY <1>4, <1>5, <1>9, <2>1, <2>a
    <2>3. CopyOK(new, IF o.notify THEN t \cup {o.vals.final.agent} ELSE t, g,
                 NextNode(n, o.vals), o.vals)
      BY <1>4, <2>2, NodeKeepsCopy
    <2>4. QED
      BY <1>2, <1>3, <2>1, <2>a, <2>3
  <1>11. RecordsGrow
    <2>1. ASSUME NEW q \in Requests
          PROVE  /\ GoesOn(audit'[q], audit[q])
                 /\ notified[q] \subseteq notified'[q]
                 /\ posted[q] \subseteq posted'[q]
                 /\ TrailOK(audit'[q], posted'[q])
      <3>1. CASE q = r
        BY <1>3, <1>4, <1>9, <3>1 DEF TypeInv, TypeOK
      <3>2. CASE q # r
        <4>1. audit'[q] = audit[q] /\ notified'[q] = notified[q] /\ posted'[q] = posted[q]
          BY <1>4, <3>2 DEF TypeInv, TypeOK
        <4>2. QED
          BY <4>1 DEF RunInv, GoesOn
      <3>3. QED
        BY <3>1, <3>2
    <2>2. QED
      BY <2>1 DEF RecordsGrow
  <1>12. CopyOK(audit'[r], notified'[r], posted'[r], nx, o.vals)
    <2>1. notified'[r] = told /\ posted'[r] = posted[r]
      BY <1>4 DEF TypeInv, TypeOK
    <2>2. QED
      BY <1>10, <2>1
  <1>13. ASSUME NEW q \in Requests
         PROVE  \/ ckpt'[q] \in {ckpt[q], NoCheckpoint}
                \/ CopyOK(audit'[q], notified'[q], posted'[q], ckpt'[q].next, ckpt'[q].vals)
    <2>1. CASE q = r
      <3>1. ckpt'[r].next = nx /\ ckpt'[r].vals = o.vals
        BY <1>4 DEF TypeInv, TypeOK
      <3>2. QED
        BY <1>12, <2>1, <3>1
    <2>2. CASE q # r
      BY <1>4, <2>2 DEF TypeInv, TypeOK
    <2>3. QED
      BY <2>1, <2>2
  <1>14. ASSUME NEW b \in Actors
         PROVE  \/ run'[b] \in {run[b], NoRun}
                \/ \A q \in Requests : run'[b].rid = q =>
                     CopyOK(audit'[q], notified'[q], posted'[q], run'[b].node, run'[b].vals)
    <2>1. CASE b # a \/ run' = [run EXCEPT ![a] = NoRun]
      BY <1>4, <2>1 DEF TypeInv, TypeOK
    <2>2. CASE b = a /\ run' = [run EXCEPT ![a] = [@ EXCEPT !.node = nx, !.vals = o.vals]]
      <3> DEFINE g == [run[a] EXCEPT !.node = nx, !.vals = o.vals]
      <3>1. run'[a] = g
        BY <2>2 DEF TypeInv, TypeOK
      <3>2. g.rid = r /\ g.node = nx /\ g.vals = o.vals
        BY <1>2 DEF TypeInv, TypeOK, GraphRun
      <3>3. QED
        BY <1>12, <2>2, <3>1, <3>2
    <2>3. QED
      BY <1>4, <2>1, <2>2
  <1>15. QED
    BY <1>11, <1>13, <1>14, RunInvKept

LEMMA RunFailure ==
    ASSUME TypeInv, RunInv, NEW a \in Actors, Fails(a)
    PROVE  RunInv'
  <1>1. PICK r \in Requests, v \in WorkflowState : r = run[a].rid /\ v = run[a].vals
    BY DEF Fails
  <1>2. PICK log \in Seq(AuditEntry), i \in {0, v.entry} :
          /\ Unsigned(log)
          /\ audit' = [audit EXCEPT ![r] = Stamp(audit[r], i, v.approval) \o log]
    BY <1>1 DEF Fails
  <1>3. /\ \A q \in Requests : notified[q] \subseteq notified'[q]
        /\ Raise(a) /\ UNCHANGED <<msg, ckpt, posted>>
    BY DEF Fails
  <1>4. /\ audit[r] \in Seq(AuditEntry) /\ TrailOK(audit[r], posted[r])
        /\ ApprovalHeld(audit[r], posted[r], v)
    BY <1>1 DEF TypeInv, TypeOK, RunInv, CopyOK
  <1>5. audit'[r] = Stamp(audit[r], i, v.approval) \o log
    BY <1>2 DEF TypeInv, TypeOK
  <1>6. GoesOn(audit'[r], audit[r]) /\ TrailOK(audit'[r], posted[r])
    BY <1>2, <1>4, <1>5, StampKeepsTrail
  <1>7. ASSUME NEW q \in Requests
        PROVE  GoesOn(audit'[q], audit[q]) /\ TrailOK(audit'[q], posted[q])
    <2>1. CASE q = r
      BY <1>6, <2>1
    <2>2. CASE q # r
      <3>1. audit'[q] = audit[q]
        BY <1>2, <2>2 DEF TypeInv, TypeOK
      <3>2. QED
        BY <3>1 DEF RunInv, GoesOn
    <2>3. QED
      BY <2>1, <2>2
  <1>8. RecordsGrow
    BY <1>3, <1>7 DEF RecordsGrow
  <1>9. \A b \in Actors : run'[b] \in {run[b], NoRun}
    BY <1>3 DEF Raise, TypeInv, TypeOK
  <1>10. QED
    BY <1>3, <1>8, <1>9, RunInvKept

\* A worker enters the graph with the channels of the thread's checkpoint and its own
\* message's body: the approval and the entry of an earlier run go with it.
LEMMA RunProcess ==
    ASSUME TypeInv, RunInv, NEW w \in Workers, Process(w)
    PROVE  RunInv'
  <1> DEFINE m == Current(w).message
             r == RidOf[m]
             v == [ckpt[r].vals EXCEPT !.request = msg[m].body]
  <1>1. worker[w].pc = "handle" /\ UNCHANGED <<msg, api, audit, notified, posted>>
    BY DEF Process
  <1>2. RecordsGrow
    BY <1>1, QuietRecords
  <1>3. m \in Messages /\ r \in Requests /\ w \in Actors
    BY <1>1, CurrentTyped, ServiceAssumption DEF Actors
  <1>4. CASE UNCHANGED <<run, ckpt>>
    BY <1>2, <1>4, RunInvKept
  <1>5. CASE /\ run' = [run EXCEPT ![w] = [rid |-> r, node |-> "entry", vals |-> v]]
             /\ ckpt' = [ckpt EXCEPT ![r] = [next |-> "entry", vals |-> v]]
    <2>1. v.approval = ckpt[r].vals.approval /\ v.entry = ckpt[r].vals.entry
      <3>1. ckpt[r].vals \in WorkflowState
        BY <1>3 DEF TypeInv, TypeOK, Checkpoint
      <3> HIDE DEF r, m
      <3>2. QED
        BY <3>1 DEF WorkflowState
    <2> HIDE DEF m, v
    <2>2. ApprovalHeld(audit[r], posted[r], ckpt[r].vals)
      BY <1>3 DEF RunInv, CopyOK
    <2>3. ApprovalHeld(audit[r], posted[r], v)
      BY <2>1, <2>2 DEF ApprovalHeld
    <2> HIDE DEF r
    <2>4. CopyOK(audit[r], notified[r], posted[r], "entry", v)
      BY <2>3 DEF CopyOK, Unstarted, PIIHalted, GateHeld, ClearHeld, PlanHeld, SimpleAgents,
                  Domains
    <2>5. CopyOK(audit'[r], notified'[r], posted'[r], "entry", v)
      BY <1>1, <2>4
    <2>6. \A q \in Requests : ckpt'[q] = IF q = r THEN [next |-> "entry", vals |-> v] ELSE ckpt[q]
      BY <1>5 DEF TypeInv, TypeOK
    <2>7. \A b \in Actors : run'[b] = IF b = w THEN [rid |-> r, node |-> "entry", vals |-> v]
                                      ELSE run[b]
      BY <1>5 DEF TypeInv, TypeOK
    <2>8. \A q \in Requests :
               \/ ckpt'[q] \in {ckpt[q], NoCheckpoint}
               \/ CopyOK(audit'[q], notified'[q], posted'[q], ckpt'[q].next, ckpt'[q].vals)
      BY <2>5, <2>6
    <2>9. \A b \in Actors :
               \/ run'[b] \in {run[b], NoRun}
               \/ \A q \in Requests : run'[b].rid = q =>
                    CopyOK(audit'[q], notified'[q], posted'[q], run'[b].node, run'[b].vals)
      BY <2>5, <2>7
    <2>10. QED
      BY <1>2, <2>8, <2>9, RunInvKept
  <1>6. QED
    BY <1>4, <1>5 DEF Process

LEMMA RunApproveUpdate ==
    ASSUME TypeInv, RunInv, NEW a \in Approvers, ApproveUpdate(a)
    PROVE  RunInv'
  <1> DEFINE r == api[a].rid
             c == ckpt[r]
             u == c.vals
  <1>1. /\ api[a].pc = "checked"
        /\ ckpt' = [ckpt EXCEPT ![r].vals.approval = a]
        /\ posted' = [posted EXCEPT ![r] = @ \cup {a}]
        /\ UNCHANGED <<run, audit, notified>>
    BY DEF ApproveUpdate
  <1>2. r \in Requests /\ c \in Checkpoint /\ u \in WorkflowState
    BY <1>1 DEF TypeInv, TypeOK, Wired, CallWired, Checkpoint
  <1>3. \A q \in Requests : posted[q] \subseteq posted'[q]
    BY <1>1, <1>2 DEF TypeInv, TypeOK
  <1>4. a \in posted'[r]
    BY <1>1, <1>2 DEF TypeInv, TypeOK
  <1>5. RecordsGrow
    BY <1>1, <1>3, QuietRecords
  <1> DEFINE w == [u EXCEPT !.approval = a]
  <1>6. ckpt' = [ckpt EXCEPT ![r] = [c EXCEPT !.vals = w]]
    BY <1>1
  <1>7. /\ w.request = u.request /\ w.pending = u.pending /\ w.responses = u.responses
        /\ w.final = u.final /\ w.entry = u.entry /\ w.clear = u.clear /\ w.approval = a
        /\ w.error = u.error /\ w.hitl = u.hitl
    <2> HIDE DEF u
    <2>1. QED
      BY <1>2 DEF WorkflowState
  <1>8. CopyOK(audit[r], notified[r], posted[r], c.next, u)
    BY <1>2 DEF RunInv
  <1> HIDE DEF r, c, u, w
  <1>9. ApprovalHeld(audit[r], posted'[r], w)
    BY <1>4, <1>7, <1>8 DEF CopyOK, ApprovalHeld
  <1>10. /\ Unstarted(c.next, w) /\ PIIHalted(c.next, w) /\ ClearHeld(audit[r], c.next, w)
         /\ GateHeld(audit[r], notified[r], c.next, w)
    BY <1>7, <1>8 DEF CopyOK, Unstarted, PIIHalted, ClearHeld, GateHeld
  <1>11. PlanHeld(c.next, w)
    BY <1>7, <1>8 DEF CopyOK, PlanHeld, Answered
  <1>12. CopyOK(audit'[r], notified'[r], posted'[r], c.next, w)
    BY <1>1, <1>9, <1>10, <1>11 DEF CopyOK
  <1>13. [c EXCEPT !.vals = w].next = c.next /\ [c EXCEPT !.vals = w].vals = w
    BY <1>2 DEF Checkpoint
  <1>14. ASSUME NEW q \in Requests
         PROVE  \/ ckpt'[q] \in {ckpt[q], NoCheckpoint}
                \/ CopyOK(audit'[q], notified'[q], posted'[q], ckpt'[q].next, ckpt'[q].vals)
    <2>1. CASE q = r
      <3>1. ckpt'[r] = [c EXCEPT !.vals = w]
        BY <1>2, <1>6 DEF TypeInv, TypeOK
      <3>2. QED
        BY <1>12, <1>13, <2>1, <3>1
    <2>2. CASE q # r
      BY <1>6, <2>2 DEF TypeInv, TypeOK
    <2>3. QED
      BY <2>1, <2>2
  <1>15. QED
    BY <1>1, <1>5, <1>14, RunInvKept

LEMMA RunApproveInvoke ==
    ASSUME TypeInv, RunInv, NEW a \in Approvers, ApproveInvoke(a)
    PROVE  RunInv'
  <1>1. UNCHANGED <<ckpt, audit, notified, posted>>
    BY DEF ApproveInvoke
  <1>2. RecordsGrow
    BY <1>1, QuietRecords
  <1>3. PICK r \in Requests : r = api[a].rid
    BY DEF ApproveInvoke, TypeInv, Wired, CallWired
  <1>4. \/ UNCHANGED run
        \/ run' = [run EXCEPT ![a] = [rid |-> r, node |-> ckpt[r].next, vals |-> ckpt[r].vals]]
    BY <1>3 DEF ApproveInvoke
  <1>5. CopyOK(audit[r], notified[r], posted[r], ckpt[r].next, ckpt[r].vals)
    BY DEF RunInv
  <1>6. ASSUME NEW b \in Actors
        PROVE  \/ run'[b] \in {run[b], NoRun}
               \/ \A q \in Requests : run'[b].rid = q =>
                    CopyOK(audit'[q], notified'[q], posted'[q], run'[b].node, run'[b].vals)
    <2>1. CASE run'[b] = run[b]
      BY <2>1
    <2>2. CASE run'[b] # run[b]
      <3>1. run'[b] = [rid |-> r, node |-> ckpt[r].next, vals |-> ckpt[r].vals]
        BY <1>4, <2>2 DEF TypeInv, TypeOK
      <3>2. run'[b].rid = r /\ run'[b].node = ckpt[r].next /\ run'[b].vals = ckpt[r].vals
        BY <3>1
      <3>3. QED
        BY <1>1, <1>5, <3>2
    <2>3. QED
      BY <2>1, <2>2
  <1>7. QED
    BY <1>1, <1>2, <1>6, RunInvKept

\* The other steps of the service touch neither channels nor records.
LEMMA RunQuiet ==
    ASSUME RunInv, UNCHANGED <<run, ckpt, audit, notified, posted>>
    PROVE  RunInv'
  <1>1. RecordsGrow
    BY QuietRecords
  <1>2. QED
    BY <1>1, RunInvKept

\* A restart only makes runs, and with MemorySaver threads, disappear.
LEMMA RunRestart ==
    ASSUME RunInv, NEW S \in Deployments, Restart(S)
    PROVE  RunInv'
  <1>1. /\ UNCHANGED <<audit, notified, posted>>
        /\ run' = [a \in Actors |-> IF a \in S THEN NoRun ELSE run[a]]
        /\ ckpt' = IF Durable THEN ckpt ELSE [r \in Requests |-> NoCheckpoint]
    BY DEF Restart
  <1>2. RecordsGrow
    BY <1>1, QuietRecords
  <1>3. \A r \in Requests : ckpt'[r] \in {ckpt[r], NoCheckpoint}
    BY <1>1
  <1>4. \A a \in Actors : run'[a] \in {run[a], NoRun}
    BY <1>1
  <1>5. QED
    BY <1>2, <1>3, <1>4, RunInvKept

LEMMA InitRun == Init => RunInv
  <1>1. SUFFICES ASSUME Init, NEW r \in Requests
                 PROVE  /\ TrailOK(audit[r], posted[r])
                        /\ CopyOK(audit[r], notified[r], posted[r], ckpt[r].next, ckpt[r].vals)
                        /\ \A a \in Actors : run[a].rid = r =>
                              CopyOK(audit[r], notified[r], posted[r], run[a].node, run[a].vals)
    BY DEF RunInv
  <1>2. TrailOK(audit[r], posted[r])
    BY <1>1 DEF Init, TrailOK
  <1>3. CopyOK(audit[r], notified[r], posted[r], "none", EmptyState)
    BY EmptyCopyOK
  <1>4. ckpt[r].next = "none" /\ ckpt[r].vals = EmptyState
    BY <1>1 DEF Init, NoCheckpoint
  <1>5. \A a \in Actors : run[a].node = "none" /\ run[a].vals = EmptyState
    BY <1>1 DEF Init, NoRun
  <1>6. QED
    BY <1>2, <1>3, <1>4, <1>5

LEMMA NextRun == TypeInv /\ RunInv /\ [Next]_vars => RunInv'
  <1> SUFFICES ASSUME TypeInv, RunInv, [Next]_vars PROVE RunInv'
    OBVIOUS
  <1>1. ASSUME NEW m \in Messages, Ingest(m) \/ PublishDirect(m) \/ Expire(m) PROVE RunInv'
    BY <1>1, RunQuiet DEF Ingest, PublishDirect, Expire
  <1>2. ASSUME NEW w \in Workers, Pull(w) \/ PullRaises(w) \/ Ack(w) \/ AckRaises(w)
        PROVE  RunInv'
    BY <1>2, RunQuiet DEF Pull, PullRaises, Ack, AckRaises, Stop
  <1>3. ASSUME NEW w \in Workers, Process(w) PROVE RunInv'
    BY <1>3, RunProcess
  <1>4. ASSUME NEW a \in Actors, Step(a) \/ StepRaises(a) \/ StepRejects(a) PROVE RunInv'
    BY <1>4, RunStep, StepRaisesDoes, StepRejectsDoes, RunFailure
  <1>5. ASSUME NEW a \in Approvers, NEW r \in Requests, ApproveCheck(a, r) PROVE RunInv'
    BY <1>5, RunQuiet DEF ApproveCheck
  <1>6. ASSUME NEW a \in Approvers, ApproveUpdate(a) \/ ApproveInvoke(a) PROVE RunInv'
    BY <1>6, RunApproveUpdate, RunApproveInvoke
  <1>7. ASSUME NEW S \in Deployments, Restart(S) PROVE RunInv'
    BY <1>7, RunRestart
  <1>8. CASE UNCHANGED vars
    BY <1>8, RunQuiet DEF vars
  <1>9. QED
    BY <1>1, <1>2, <1>3, <1>4, <1>5, <1>6, <1>7, <1>8 DEF Next

\* What RunInv says of the copies HITLProperties speaks of.
LEMMA CopiesOK ==
    ASSUME RunInv, NEW r \in Requests, NEW c \in Copies(r)
    PROVE  CopyOK(audit[r], notified[r], posted[r], c.next, c.vals)
  <1>1. CASE c = ckpt[r]
    BY <1>1 DEF RunInv
  <1>2. ASSUME NEW a \in Actors, run[a].rid = r,
               c = [next |-> run[a].node, vals |-> run[a].vals]
        PROVE  CopyOK(audit[r], notified[r], posted[r], c.next, c.vals)
    <2>1. c.next = run[a].node /\ c.vals = run[a].vals
      BY <1>2
    <2>2. QED
      BY <1>2, <2>1 DEF RunInv
  <1>3. QED
    BY <1>1, <1>2 DEF Copies

\* Every copy a run of the service ever holds is one its node may find.
LEMMA RunInvariant == Spec => [](TypeInv /\ RunInv)
  <1>1. Init => TypeInv /\ RunInv
    BY InitTyped, InitRun
  <1>2. TypeInv /\ RunInv /\ [Next]_vars => (TypeInv /\ RunInv)'
    BY NextTyped, NextRun
  <1>3. QED
    BY <1>1, <1>2, PTL DEF Spec

\* A body with Zone 1 data is seen by no agent: from the entry node its run goes to
\* finalize with the Director's refusal as its one response (entry_node, route_next).
THEOREM PIIHalts == Spec => []PIIHaltsRun
  <1>1. ASSUME RunInv, NEW r \in Requests, NEW c \in Copies(r),
               c.vals.request \in PIIPayloads, c.next # "entry"
        PROVE  /\ c.next \in {"dispatch", "finalize", "end"}
               /\ c.vals.responses = <<[agent |-> "DIRECTOR", tier |-> "MANDATORY"]>>
               /\ c.vals.pending = <<>>
    BY <1>1, CopiesOK DEF CopyOK, PIIHalted, Refusal
  <1>2. RunInv => PIIHaltsRun
    BY <1>1 DEF PIIHaltsRun
  <1>3. QED
    BY <1>2, RunInvariant, PTL

\* Constraint #4: Module A is scheduled, or has answered, only on a body that Module B
\* does not stop, with the CLEAR verdict in the audit trail (er_compliance, er_branch);
\* the er_clear channel of an earlier run of the thread never lets another body through.
THEOREM ModuleAGated == Spec => []ModuleAOnlyOnClear
  <1>1. ASSUME RunInv, NEW r \in Requests, NEW c \in Copies(r),
               \/ c.next = "er_reason"
               \/ \E i \in DOMAIN c.vals.responses :
                     c.vals.responses[i] = [agent |-> "ER", tier |-> "RECOMMENDED"]
        PROVE  c.next = "entry" \/ (c.vals.request \notin HardStops /\ Logged(r, "ER_CLEAR"))
    BY <1>1, CopiesOK DEF CopyOK, ClearHeld, Reasoned, Has, Logged
  <1>2. RunInv => ModuleAOnlyOnClear
    BY <1>1 DEF ModuleAOnlyOnClear
  <1>3. QED
    BY <1>2, RunInvariant, PTL

\* A thread past the gate holds the HITL_PENDING entry of the agent whose MANDATORY
\* result suspended it, and that result reached the approver (hitl_gate, _notify_hitl).
THEOREM GateEntryRight == Spec => []GateEntryIsTheResult
  <1>1. ASSUME RunInv, NEW r \in Requests, NEW c \in Copies(r),
               c.next \in {"finalize", "end"}, c.vals.hitl
        PROVE  /\ c.vals.entry \in DOMAIN audit[r]
               /\ audit[r][c.vals.entry].event = "HITL_PENDING"
               /\ audit[r][c.vals.entry].agent = c.vals.final.agent
               /\ c.vals.final.tier = "MANDATORY"
               /\ c.vals.final.agent \in notified[r]
    BY <1>1, CopiesOK DEF CopyOK, GateHeld
  <1>2. RunInv => GateEntryIsTheResult
    BY <1>1 DEF GateEntryIsTheResult
  <1>3. QED
    BY <1>2, RunInvariant, PTL

\* Constraint #5: an approver is recorded only on a HITL_PENDING entry, and is somebody
\* who posted an approval for that very request (finalize, record_approval).
THEOREM StampsHuman == Spec => []StampsAreHuman
  <1>1. RunInv => StampsAreHuman
    BY DEF RunInv, TrailOK, StampsAreHuman
  <1>2. QED
    BY <1>1, RunInvariant, PTL

\* Until a run stops or fails, the agents that answered followed by the pending domains
\* are the plan the Director chose, and at finalize nothing is pending: no agent is
\* skipped, run twice or run out of order (dispatch, _run_agent_node, er_reason).
THEOREM PlanKept == Spec => []PlanConserved
  <1>1. ASSUME RunInv, NEW r \in Requests, NEW c \in Copies(r),
               c.next \notin {"none", "entry"}, ~c.vals.error, ~c.vals.hitl
        PROVE  /\ [i \in DOMAIN c.vals.responses |-> c.vals.responses[i].agent]
                      \o c.vals.pending \in PlansOf[c.vals.request]
               /\ c.next \in {"finalize", "end"} => c.vals.pending = <<>>
    BY <1>1, CopiesOK DEF CopyOK, PlanHeld, Answered
  <1>2. RunInv => PlanConserved
    BY <1>1 DEF PlanConserved
  <1>3. QED
    BY <1>2, RunInvariant, PTL

----------------------------------------------------------------------------
(* Delivery: a message is acknowledged only after its run got to the gate  *)
(* or to the end.  The worker's run is on the request of the message it    *)
(* holds, and what the trail shows when the run returns it shows for good. *)

Delivered(m) ==
    msg[m].body # None =>
        Logged(RidOf[m], "WORKFLOW_COMPLETED") \/ Logged(RidOf[m], "HITL_PENDING")

WorkerDelivers(w) ==
    /\ worker[w].pc = "run" => run[w].rid = RidOf[Current(w).message]
    /\ worker[w].pc = "ack" => Delivered(Current(w).message)

DeliveryInv ==
    /\ \A m \in Messages : msg[m].status = "deleted" => Delivered(m)
    /\ \A w \in Workers : WorkerDelivers(w)

LEMMA DeliveredKept ==
    ASSUME Grows, NEW m \in Messages, msg[m].status # "new", Delivered(m)
    PROVE  Delivered(m)'
  <1>1. msg'[m].body = msg[m].body
    BY DEF Grows
  <1>2. RidOf[m] \in Requests
    BY ServiceAssumption
  <1>3. Extends(audit'[RidOf[m]], audit[RidOf[m]])
    BY <1>2 DEF Grows
  <1>4. \A event : Logged(RidOf[m], event) => Logged(RidOf[m], event)'
    BY <1>3, LoggedKept
  <1>5. QED
    BY <1>1, <1>4 DEF Delivered

\* It is enough to look at the messages a step deletes and the worker it moves.
LEMMA DeliveryKept ==
    ASSUME TypeInv, DeliveryInv, Grows,
           \A m \in Messages : msg'[m].status = "deleted" =>
               msg[m].status # "new" /\ Delivered(m),
           \A w \in Workers :
               \/ /\ worker'[w] = worker[w]
                  /\ worker[w].pc = "run" => run'[w].rid = run[w].rid
               \/ worker'[w].pc \notin {"run", "ack"}
               \/ WorkerDelivers(w)'
    PROVE  DeliveryInv'
  <1>1. \A m \in Messages : msg'[m].status = "deleted" => Delivered(m)'
    BY DeliveredKept
  <1>2. ASSUME NEW w \in Workers, worker'[w] = worker[w],
               worker[w].pc = "run" => run'[w].rid = run[w].rid
        PROVE  WorkerDelivers(w)'
    <2>1. WorkerDelivers(w) /\ Current(w)' = Current(w)
      BY <1>2 DEF DeliveryInv, Current
    <2>2. CASE worker[w].pc = "run"
      BY <1>2, <2>1, <2>2 DEF WorkerDelivers
    <2>3. CASE worker[w].pc = "ack"
      <3>1. Current(w).message \in Messages /\ msg[Current(w).message].status # "new"
        BY <2>3, CurrentTyped
      <3>2. Delivered(Current(w).message)
        BY <2>1, <2>3 DEF WorkerDelivers
      <3>3. PICK m \in Messages : m = Current(w).message
        BY <3>1
      <3>4. Delivered(m)'
        BY <3>1, <3>2, <3>3, DeliveredKept
      <3>5. Current(w)'.message = m
        BY <2>1, <3>3
      <3>6. QED
        BY <1>2, <2>3, <3>4, <3>5 DEF WorkerDelivers, Delivered
    <2>4. QED
      BY <1>2, <2>2, <2>3 DEF WorkerDelivers
  <1>3. \A w \in Workers : WorkerDelivers(w)'
    BY <1>2 DEF WorkerDelivers
  <1>4. QED
    BY <1>1, <1>3 DEF DeliveryInv

\* Steps that leave the broker and the workers alone.
LEMMA DeliveryElsewhere ==
    ASSUME TypeInv, DeliveryInv, Grows, UNCHANGED <<msg, worker>>,
           \A w \in Workers : worker[w].pc = "run" => run'[w].rid = run[w].rid
    PROVE  DeliveryInv'
  <1>1. \A m \in Messages : msg'[m].status = "deleted" =>
            msg[m].status # "new" /\ Delivered(m)
    BY DEF DeliveryInv
  <1>2. QED
    BY <1>1, DeliveryKept

LEMMA DeliveryPublish ==
    ASSUME TypeInv, DeliveryInv, Grows, NEW m \in Messages,
           Ingest(m) \/ PublishDirect(m) \/ Expire(m)
    PROVE  DeliveryInv'
  <1>1. UNCHANGED <<worker, run>>
    BY DEF Ingest, PublishDirect, Expire
  <1>2. msg'[m].status # "deleted"
    <2>1. ASSUME NEW body, NEW s \in {"refused", "visible"},
                 msg' = [msg EXCEPT ![m].body = body, ![m].status = s]
          PROVE  msg'[m].status # "deleted"
      <3> DEFINE e == [msg[m] EXCEPT !.body = body, !.status = s]
      <3>1. msg' = [msg EXCEPT ![m] = e]
        BY <2>1 DEF TypeInv, TypeOK
      <3>2. e.status = s
        BY DEF TypeInv, TypeOK, BrokerMessage
      <3> HIDE DEF e
      <3>3. QED
        BY <3>1, <3>2 DEF TypeInv, TypeOK
    <2>2. ASSUME msg' = [msg EXCEPT ![m].status = "visible"]
          PROVE  msg'[m].status # "deleted"
      BY <2>2 DEF TypeInv, TypeOK, BrokerMessage
    <2>3. \/ \E body : \E s \in {"refused", "visible"} :
                 msg' = [msg EXCEPT ![m].body = body, ![m].status = s]
          \/ msg' = [msg EXCEPT ![m].status = "visible"]
      <3>1. CASE Ingest(m)
        <4>1. PICK body \in BodiesOf[m] \ {None} :
                 msg' = [msg EXCEPT ![m].body = body,
                                    ![m].status = IF body \in PIIPayloads
                                                  THEN "refused" ELSE "visible"]
          BY <3>1 DEF Ingest
        <4>2. QED
          BY <4>1
      <3>2. CASE PublishDirect(m)
        <4>1. PICK body \in BodiesOf[m] :
                 msg' = [msg EXCEPT ![m].body = body, ![m].status = "visible"]
          BY <3>2 DEF PublishDirect
        <4>2. QED
          BY <4>1
      <3>3. CASE Expire(m)
        BY <3>3 DEF Expire
      <3>4. QED
        BY <3>1, <3>2, <3>3
    <2>4. QED
      BY <2>1, <2>2, <2>3, Zenon
  <1>3. \A q \in Messages \ {m} : msg'[q] = msg[q]
    BY DEF Ingest, PublishDirect, Expire, TypeInv, TypeOK
  <1>4. \A q \in Messages : msg'[q].status = "deleted" =>
            msg[q].status # "new" /\ Delivered(q)
    BY <1>2, <1>3 DEF DeliveryInv
  <1>5. QED
    BY <1>1, <1>4, DeliveryKept

LEMMA DeliveryPull ==
    ASSUME TypeInv, DeliveryInv, Grows, NEW w \in Workers, Pull(w) \/ PullRaises(w)
    PROVE  DeliveryInv'
  <1>1. PICK S \in SUBSET Messages : HandOut(S)
    BY PullHandsOut
  <1>2. ASSUME NEW q \in Messages, msg'[q].status = "deleted"
        PROVE  msg[q].status # "new" /\ Delivered(q)
    <2>1. q \notin S
      <3>1. [msg[q] EXCEPT !.status = "inflight", !.deliveries = @ + 1].status = "inflight"
        BY DEF TypeInv, TypeOK, BrokerMessage
      <3>2. q \in S => msg'[q].status = "inflight"
        BY <1>1, <3>1 DEF HandOut
      <3>3. QED
        BY <1>2, <3>2
    <2>2. msg'[q] = msg[q]
      BY <1>1, <2>1 DEF HandOut
    <2>3. QED
      BY <1>2, <2>2 DEF DeliveryInv
  <1>3. run' = run /\ \E x : worker' = [worker EXCEPT ![w] = x] /\ x.pc \notin {"run", "ack"}
    <2>1. CASE Pull(w)
      <3>1. PICK n \in 1..BatchSize : \E s \in [1..n -> Messages] :
              worker' = [worker EXCEPT ![w] =
                [pc |-> "handle",
                 batch |-> [i \in 1..n |-> [message |-> s[i],
                                            receipt |-> msg[s[i]].deliveries + 1]]]]
        BY <2>1, Zenon DEF Pull
      <3>2. PICK s \in [1..n -> Messages] :
              worker' = [worker EXCEPT ![w] =
                [pc |-> "handle",
                 batch |-> [i \in 1..n |-> [message |-> s[i],
                                            receipt |-> msg[s[i]].deliveries + 1]]]]
        BY <3>1
      <3> DEFINE x == [pc |-> "handle",
                       batch |-> [i \in 1..n |-> [message |-> s[i],
                                                  receipt |-> msg[s[i]].deliveries + 1]]]
      <3>3. worker' = [worker EXCEPT ![w] = x] /\ x.pc = "handle"
        BY <3>2
      <3> HIDE DEF x
      <3>4. QED
        BY <2>1, <3>3 DEF Pull
    <2>2. CASE PullRaises(w)
      <3> DEFINE x == [pc |-> "stopped", batch |-> <<>>]
      <3>1. worker' = [worker EXCEPT ![w] = x] /\ x.pc = "stopped" /\ run' = run
        BY <2>2 DEF PullRaises, Stop
      <3> HIDE DEF x
      <3>2. QED
        BY <3>1
    <2>3. QED
      BY <2>1, <2>2
  <1>4. ASSUME NEW u \in Workers
        PROVE  worker'[u] = worker[u] \/ worker'[u].pc \notin {"run", "ack"}
    BY <1>3 DEF TypeInv, TypeOK
  <1>5. QED
    BY <1>2, <1>3, <1>4, DeliveryKept

\* A worker acknowledges only the message it is done with.
LEMMA DeliveryAck ==
    ASSUME TypeInv, DeliveryInv, Grows, NEW w \in Workers, Ack(w) \/ AckRaises(w)
    PROVE  DeliveryInv'
  <1>1. worker[w].pc = "ack" /\ run' = run
    BY DEF Ack, AckRaises, Stop
  <1>2. PICK m \in Messages : m = Current(w).message /\ msg[m].status # "new"
    BY <1>1, CurrentTyped
  <1>3. msg' \in {msg, [msg EXCEPT ![m].status = "deleted"]}
    BY <1>2 DEF Ack, AckRaises
  <1>4. Delivered(m)
    BY <1>1, <1>2 DEF DeliveryInv, WorkerDelivers
  <1>5. \A q \in Messages : msg'[q].status = "deleted" =>
            msg[q].status # "new" /\ Delivered(q)
    <2>1. \A q \in Messages \ {m} : msg'[q] = msg[q]
      BY <1>3 DEF TypeInv, TypeOK
    <2>2. QED
      BY <1>2, <1>4, <2>1 DEF DeliveryInv
  <1>6. \A u \in Workers : worker'[u] = worker[u] \/ worker'[u].pc \notin {"run", "ack"}
    BY DEF Ack, AckRaises, Stop, Advance, TypeInv, TypeOK
  <1>7. QED
    BY <1>1, <1>5, <1>6, DeliveryKept

\* The run a worker starts is on the request of the message it holds; a body that does
\* not parse is nobody's loss.
LEMMA DeliveryProcess ==
    ASSUME TypeInv, DeliveryInv, Grows, NEW w \in Workers, Process(w)
    PROVE  DeliveryInv'
  <1> DEFINE m == Current(w).message
             v == [ckpt[RidOf[m]].vals EXCEPT !.request = msg[m].body]
  <1>1. worker[w].pc = "handle" /\ msg' = msg
    BY DEF Process
  <1>2. m \in Messages /\ w \in Actors
    BY <1>1, CurrentTyped DEF Actors
  <1>3. /\ \A u \in Workers \ {w} : worker'[u] = worker[u] /\ run'[u] = run[u]
        /\ worker'[w].batch = worker[w].batch
    <2>1. \E pc : worker' = [worker EXCEPT ![w].pc = pc]
      BY DEF Process
    <2>2. \/ run' = run
          \/ run' = [run EXCEPT ![w] = [rid |-> RidOf[m], node |-> "entry", vals |-> v]]
      BY DEF Process
    <2> HIDE DEF v, m
    <2>3. \A u \in Workers \ {w} : run'[u] = run[u]
      BY <1>2, <2>2 DEF TypeInv, TypeOK, Actors
    <2>4. QED
      BY <2>1, <2>3 DEF TypeInv, TypeOK, WorkerState
  <1>4. Current(w)' = Current(w)
    BY <1>3 DEF Current
  <1>5. \/ msg[m].body = None /\ worker'[w].pc = "ack"
        \/ worker'[w].pc = "run" /\ run'[w].rid = RidOf[m]
    <2>1. CASE msg[m].body = None
      BY <2>1 DEF Process, TypeInv, TypeOK, WorkerState
    <2>2. CASE msg[m].body # None
      <3>1. /\ worker' = [worker EXCEPT ![w].pc = "run"]
            /\ run' = [run EXCEPT ![w] = [rid |-> RidOf[m], node |-> "entry", vals |-> v]]
        BY <2>2 DEF Process
      <3> HIDE DEF v, m
      <3>2. QED
        BY <1>2, <3>1 DEF TypeInv, TypeOK, WorkerState
    <2>3. QED
      BY <2>1, <2>2
  <1>6. WorkerDelivers(w)'
    <2>1. msg'[m].body = msg[m].body
      BY <1>1
    <2> HIDE DEF v
    <2>2. Current(w)'.message = m
      BY <1>4
    <2> HIDE DEF m
    <2>3. QED
      BY <1>5, <2>1, <2>2 DEF WorkerDelivers, Delivered
  <1>7. \A q \in Messages : msg'[q].status = "deleted" =>
            msg[q].status # "new" /\ Delivered(q)
    BY <1>1 DEF DeliveryInv
  <1> HIDE DEF v, m
  <1>8. QED
    BY <1>3, <1>6, <1>7, DeliveryKept

\* The graph call of a run returns only after the gate or the last node, whose entry it
\* has just logged.
LEMMA ReturnLogged ==
    ASSUME TypeInv, NEW a \in Actors, NEW o, Does(a, o),
           NextNode(run[a].node, o.vals) = "end" \/ run[a].node \in InterruptAfter
    PROVE  \/ Has(audit'[run[a].rid], "WORKFLOW_COMPLETED")
           \/ Has(audit'[run[a].rid], "HITL_PENDING")
  <1>1. PICK r \in Requests, n \in Nodes, v \in WorkflowState :
          r = run[a].rid /\ n = run[a].node /\ v = run[a].vals
    BY DEF Does
  <1>2. /\ o \in RunNode(n, v, Len(audit[r]) + 1)
        /\ o.log \in Seq(AuditEntry)
        /\ audit' = [audit EXCEPT ![r] = Stamp(audit[r], Provenance(n, v), v.approval) \o o.log]
    BY <1>1 DEF Does
  <1>3. PICK old \in Seq(AuditEntry), i \in Nat, log \in Seq(AuditEntry) :
          old = audit[r] /\ i = Provenance(n, v) /\ log = o.log
    BY <1>1, <1>2 DEF TypeInv, TypeOK, Provenance, WorkflowState
  <1>4. audit'[r] = Stamp(old, i, v.approval) \o log
    BY <1>2, <1>3 DEF TypeInv, TypeOK
  <1>5. v.approval \in Approvers \cup {None}
    BY DEF WorkflowState
  <1>6. Appended(audit'[r], old, log)
    BY <1>4, <1>5, StampedLog
  <1>7. \/ n = "finalize" /\ o \in FinalizeNode(v)
        \/ n = "hitl_gate" /\ o \in HITLGateNode(v, Len(audit[r]) + 1)
    <2>1. CASE n \in InterruptAfter
      BY <1>2, <2>1 DEF InterruptAfter, RunNode
    <2>2. CASE NextNode(n, o.vals) = "end"
      <3>1. n = "finalize"
        <4>1. o.vals \in WorkflowState
          <5>1. Len(audit[r]) + 1 \in Nat
            BY <1>3
          <5>2. v.request \in Payloads
            BY <1>1 DEF Does
          <5>3. QED
            BY <1>2, <5>1, <5>2, NodeTyped DEF Typed
        <4>2. QED
          <5>1. RouteNext(o.vals) # "end"
            BY <4>1, RouteType DEF Nodes, SimpleAgents, Domains
          <5>2. QED
            BY <1>2, <2>2, <5>1, WhichNode
      <3>2. QED
        BY <1>2, <3>1 DEF RunNode
    <2>3. QED
      BY <1>1, <2>1, <2>2
  <1>8. \E e \in {"WORKFLOW_COMPLETED", "HITL_PENDING"} : 1 \in DOMAIN log /\ log[1].event = e
    BY <1>3, <1>7 DEF FinalizeNode, HITLGateNode, Outcome, Entry
  <1>9. Len(old) + 1 \in DOMAIN audit'[r] /\ audit'[r][Len(old) + 1] = log[1]
    BY <1>6, <1>8 DEF Appended
  <1>10. QED
    BY <1>1, <1>8, <1>9 DEF Has

LEMMA DeliveryStep ==
    ASSUME TypeInv, DeliveryInv, Grows, NEW a \in Actors, Step(a)
    PROVE  DeliveryInv'
  <1>1. PICK o : Does(a, o)
    BY StepDoes
  <1> DEFINE nx == NextNode(run[a].node, o.vals)
  <1>2. run[a].node # "none" /\ RunWired(a)
    BY DEF Step, TypeInv, Wired
  <1>3. msg' = msg
    BY <1>1 DEF Does
  <1> HIDE DEF nx
  <1>4. CASE /\ run' = [run EXCEPT ![a] = [@ EXCEPT !.node = nx, !.vals = o.vals]]
             /\ UNCHANGED worker
    <2>1. [run[a] EXCEPT !.node = nx, !.vals = o.vals].rid = run[a].rid
      BY DEF TypeInv, TypeOK, GraphRun
    <2>2. \A w \in Actors : run'[w].rid = run[w].rid
      BY <1>4, <2>1 DEF TypeInv, TypeOK
    <2>3. QED
      BY <1>3, <1>4, <2>2, DeliveryElsewhere DEF Actors
  <1>5. CASE /\ nx = "end" \/ run[a].node \in InterruptAfter
             /\ run' = [run EXCEPT ![a] = NoRun]
             /\ Return(a)
    <2>1. \/ Has(audit'[run[a].rid], "WORKFLOW_COMPLETED")
          \/ Has(audit'[run[a].rid], "HITL_PENDING")
      BY <1>1, <1>5, ReturnLogged DEF nx
    <2>2. \A w \in Workers \ {a} : worker'[w] = worker[w] /\ run'[w] = run[w]
      BY <1>5 DEF Return, TypeInv, TypeOK, Actors
    <2>3. ASSUME a \in Workers
          PROVE  WorkerDelivers(a)'
      <3>1. worker[a].pc = "run"
        BY <1>2, <2>3 DEF RunWired
      <3>2. run[a].rid = RidOf[Current(a).message]
        BY <2>3, <3>1 DEF DeliveryInv, WorkerDelivers
      <3>3. worker'[a].pc = "ack" /\ worker'[a].batch = worker[a].batch
        BY <1>5, <2>3 DEF Return, TypeInv, TypeOK, WorkerState
      <3>4. PICK m : m = Current(a).message
        OBVIOUS
      <3>5. Current(a)'.message = m
        BY <3>3, <3>4 DEF Current
      <3>6. Delivered(m)'
        BY <2>1, <3>2, <3>4 DEF Delivered, Logged, Has
      <3>7. QED
        BY <3>3, <3>5, <3>6 DEF WorkerDelivers, Delivered
    <2>4. \A m \in Messages : msg'[m].status = "deleted" =>
            msg[m].status # "new" /\ Delivered(m)
      BY <1>3 DEF DeliveryInv
    <2>5. QED
      BY <2>2, <2>3, <2>4, DeliveryKept
  <1>6. QED
    BY <1>1, <1>4, <1>5 DEF Does, nx

\* A run that raises leaves its message for the broker to deliver again.
LEMMA DeliveryFailure ==
    ASSUME TypeInv, DeliveryInv, Grows, NEW a \in Actors, Fails(a)
    PROVE  DeliveryInv'
  <1>1. msg' = msg /\ run' = [run EXCEPT ![a] = NoRun]
        /\ worker' = IF a \in Workers THEN [worker EXCEPT ![a] = Advance(a)] ELSE worker
    BY DEF Fails, Raise
  <1>2. \A w \in Workers \ {a} : worker'[w] = worker[w] /\ run'[w] = run[w]
    BY <1>1 DEF TypeInv, TypeOK, Actors
  <1>3. a \in Workers => worker'[a].pc \notin {"run", "ack"}
    BY <1>1 DEF Advance, TypeInv, TypeOK
  <1>4. \A m \in Messages : msg'[m].status = "deleted" =>
          msg[m].status # "new" /\ Delivered(m)
    BY <1>1 DEF DeliveryInv
  <1>5. QED
    BY <1>2, <1>3, <1>4, DeliveryKept

LEMMA DeliveryCall ==
    ASSUME TypeInv, DeliveryInv, Grows, NEW a \in Approvers,
           \/ \E r \in Requests : ApproveCheck(a, r)
           \/ ApproveUpdate(a)
           \/ ApproveInvoke(a)
    PROVE  DeliveryInv'
  <1>1. UNCHANGED <<msg, worker>> /\ (run' = run \/ \E g : run' = [run EXCEPT ![a] = g])
    BY DEF ApproveCheck, ApproveUpdate, ApproveInvoke
  <1>2. \A w \in Workers : run'[w] = run[w]
    BY <1>1, ServiceAssumption DEF TypeInv, TypeOK, Actors
  <1>3. QED
    BY <1>1, <1>2, DeliveryElsewhere

LEMMA DeliveryRestart ==
    ASSUME TypeInv, DeliveryInv, Grows, NEW S \in Deployments, Restart(S)
    PROVE  DeliveryInv'
  <1>1. /\ msg' = msg
        /\ run' = [a \in Actors |-> IF a \in S THEN NoRun ELSE run[a]]
        /\ worker' = [w \in Workers |->
                        IF w \in S THEN [pc |-> "poll", batch |-> <<>>] ELSE worker[w]]
    BY DEF Restart
  <1>2. \A m \in Messages : msg'[m].status = "deleted" =>
          msg[m].status # "new" /\ Delivered(m)
    BY <1>1 DEF DeliveryInv
  <1>3. \A w \in Workers : \/ worker'[w] = worker[w] /\ run'[w] = run[w]
                           \/ worker'[w].pc = "poll"
    BY <1>1 DEF Actors
  <1>4. QED
    BY <1>2, <1>3, DeliveryKept

LEMMA NextDelivery == TypeInv /\ GateInv /\ DeliveryInv /\ [Next]_vars => DeliveryInv'
  <1> SUFFICES ASSUME TypeInv, GateInv, DeliveryInv, [Next]_vars PROVE DeliveryInv'
    OBVIOUS
  <1>1. CASE UNCHANGED vars
    BY <1>1 DEF vars, DeliveryInv, WorkerDelivers, Delivered, Logged, Current
  <1>2. CASE Next
    <2> Grows
      BY <1>2, NextGate
    <2>1. ASSUME NEW m \in Messages, Ingest(m) \/ PublishDirect(m) \/ Expire(m)
          PROVE  DeliveryInv'
      BY <2>1, DeliveryPublish
    <2>2. ASSUME NEW w \in Workers,
                 Pull(w) \/ PullRaises(w) \/ Process(w) \/ Ack(w) \/ AckRaises(w)
          PROVE  DeliveryInv'
      BY <2>2, DeliveryPull, DeliveryProcess, DeliveryAck
    <2>3. ASSUME NEW a \in Actors, Step(a) \/ StepRaises(a) \/ StepRejects(a)
          PROVE  DeliveryInv'
      BY <2>3, DeliveryStep, StepRaisesDoes, StepRejectsDoes, DeliveryFailure
    <2>4. ASSUME NEW a \in Approvers, \/ \E r \in Requests : ApproveCheck(a, r)
                                      \/ ApproveUpdate(a)
                                      \/ ApproveInvoke(a)
          PROVE  DeliveryInv'
      BY <2>4, DeliveryCall
    <2>5. ASSUME NEW S \in Deployments, Restart(S) PROVE DeliveryInv'
      BY <2>5, DeliveryRestart
    <2>6. QED
      BY <1>2, <2>1, <2>2, <2>3, <2>4, <2>5, Zenon DEF Next
  <1>3. QED
    BY <1>1, <1>2

\* worker.py, run_once: a message that parses is acknowledged only once its request is
\* completed or parked at the gate, however its run was interrupted, however often it was
\* delivered, and whichever of its receipts the ack names.
THEOREM AckedIsSettled == Spec => []AckedNotLost
  <1>1. Init => TypeInv /\ GateInv /\ DeliveryInv
    <2>1. Init => DeliveryInv
      BY DEF Init, DeliveryInv, WorkerDelivers
    <2>2. QED
      BY <2>1, InitTyped, InitGate
  <1>2. TypeInv /\ GateInv /\ DeliveryInv /\ [Next]_vars => (TypeInv /\ GateInv /\ DeliveryInv)'
    BY NextTyped, GateInductive, NextDelivery
  <1>3. TypeInv /\ GateInv /\ DeliveryInv => AckedNotLost
    BY DEF DeliveryInv, Delivered, AckedNotLost
  <1>4. QED
    BY <1>1, <1>2, <1>3, PTL DEF Spec
=============================================================================
