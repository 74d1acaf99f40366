----------------------------- MODULE MCPlatform -----------------------------
(***************************************************************************)
(* The parts around the service, each on an instance of its own.  A        *)
(* behaviour looks at one of them, its focus: only that part moves, or,    *)
(* for a pure decision, one question is put to it.                         *)
(***************************************************************************)
EXTENDS QueueAdapter, PIIGateway, Startup

CONSTANTS d1, d2, d3, e1, e2, MaxEnqueued

VARIABLES focus, question, heap, counter, served

Decide == INSTANCE AgentDecisions
Dir == INSTANCE Director
Scan == INSTANCE PIIScan

\* d1 and d2 share a band, d3 is more urgent.
MCRankOf(d) == IF d = d3 THEN 0 ELSE 2
RQ == INSTANCE RoutingQueue
         WITH Decisions <- {d1, d2, d3}, Ranks <- 0..3, RankOf <- MCRankOf

\* e1 reports to e2, whose department is a text the detector objects to.
MCRecord == [e \in {e1, e2} |->
               [manager |-> IF e = e1 THEN e2 ELSE "nobody",
                department |-> IF e = e1 THEN "plain" ELSE "mail address",
                days |-> 365, age |-> 12000, salary |-> 6000, currency |-> "JPY"]]

MCCalendar == <<"renewal", "santei kiso">>

queueState == <<heap, counter, served>>
vars == <<focus, question, queueState, adapterVars, gatewayVars, startupVars>>

----------------------------------------------------------------------------
(* The questions.                                                          *)

ErQuestions ==
    [facts : {{}, {"termination"}, {"mass layoff"}, {"union demand", "whistleblower"},
              {"data breach"}, {"data breach", "employee"}, {"collective"}},
     jurisdiction : Decide!Jurisdictions, employees : {0, 49, 50, 99, 100, 101},
     works_council : BOOLEAN]

DirectorQuestions ==
    [text : {t \in Dir!Texts : Cardinality(t) <= 3}, requested : Dir!Priorities,
     exact : {"NONE", "LEGAL"}, codes : {{}, {"LD", "LEGAL"}, {"ER"}}]

LegalQuestions ==
    [jurisdiction : Decide!Jurisdictions, mentions : SUBSET Decide!Frameworks,
     hint : Decide!Hints]

OfferQuestions ==
    [level : DOMAIN Decide!BaseBands \cup DOMAIN Decide!Upper \cup {"L7"},
     jurisdiction : Decide!Jurisdictions]

\* Completed years, a leap day more among them than years \div 4 or not, days since the
\* birthday: the running year has 366 days only when there is no such day more.
AgeQuestions == {q \in [years : 15..75, leap : {0, 1}, since : {1, 2, 180, 364, 365}] :
                    /\ q.years % 4 # 0 \/ q.leap = 0
                    /\ q.leap + q.since <= 365}

Child(i) == [parent : 1..(i - 1), kind : Scan!Kinds, key : Scan!KeyClasses, pattern : BOOLEAN]
RootNode == [parent |-> 0, kind |-> "dict", key |-> "plain", pattern |-> FALSE]
PayloadQuestions ==
    {t \in {<<RootNode, a, b, c>> : a \in Child(2), b \in Child(3), c \in Child(4)} :
        Scan!WellFormed(t)}

----------------------------------------------------------------------------
Asked ==
    \/ focus = "er" /\ question \in ErQuestions
    \/ focus = "director" /\ question \in DirectorQuestions
    \/ focus = "legal" /\ question \in LegalQuestions
    \/ focus = "offer" /\ question \in OfferQuestions
    \/ focus = "age" /\ question \in AgeQuestions
    \/ focus = "payload" /\ question \in PayloadQuestions
    \/ focus \in {"routing", "queue", "gateway", "startup"} /\ question = "none"

\* One of the initial states of Startup.
StartupOff ==
    /\ target = "LOCAL" /\ japan = FALSE /\ configured = FALSE
    /\ mode = [c \in Containers |-> "check"]
    /\ schedule = [s \in Containers \cup {"cloud"} |-> [j \in Jobs |-> "none"]]

Init ==
    /\ Asked
    /\ focus # "startup" => StartupOff
    /\ focus # "queue" => cloud = "LOCAL"
    /\ RQ!Init /\ GatewayInit /\ AdapterInit /\ StartupInit

RoutingStep(A) == /\ focus = "routing" /\ A
                  /\ UNCHANGED <<focus, question, adapterVars, gatewayVars, startupVars>>
QueueStep(A) == /\ focus = "queue" /\ A
                /\ UNCHANGED <<focus, question, queueState, gatewayVars, startupVars>>
GatewayStep(A) == /\ focus = "gateway" /\ A
                  /\ UNCHANGED <<focus, question, queueState, adapterVars, startupVars>>
StartupStep(A) == /\ focus = "startup" /\ A
                  /\ UNCHANGED <<focus, question, queueState, adapterVars, gatewayVars>>

\* The next-state relations of the four parts, action by action.
Next ==
    \/ \E d \in {d1, d2, d3} : RoutingStep(RQ!Enqueue(d))
    \/ \E x \in heap : RoutingStep(RQ!Dequeue(x))
    \/ \E m \in Messages : QueueStep(Publish(m)) \/ QueueStep(Expire(m))
    \/ \E p \in Processes, m \in Messages : QueueStep(Pull(p, m))
    \/ \E j \in jobs : \/ QueueStep(Handle(j)) \/ QueueStep(Fail(j))
                       \/ QueueStep(AckLocal(j)) \/ QueueStep(AckCloud(j))
                       \/ QueueStep(Deleted(j)) \/ QueueStep(NotDeleted(j))
    \/ \E p \in Processes : QueueStep(AdapterRestart(p))
    \/ \E p \in Gateways : \/ GatewayStep(Seed(p)) \/ GatewayStep(GatewayRestart(p))
                          \/ \E e \in Ids : GatewayStep(Tokenize(p, e))
                          \/ \E ref \in Refs : GatewayStep(Resolve(p, ref))
    \/ \E c \in Containers : \/ StartupStep(Configure(c)) \/ StartupStep(Create(c))
                            \/ StartupStep(Update(c)) \/ StartupStep(CallFails(c))
                            \/ StartupStep(Listen(c)) \/ StartupStep(Shutdown(c))
                            \/ StartupStep(UvicornBind(c)) \/ StartupStep(Crash(c))
                            \/ StartupStep(Restart(c))

Spec == Init /\ [][Next]_vars

----------------------------------------------------------------------------
(* Properties of the decisions.                                            *)

\* California is the stricter jurisdiction: a case the federal rules stop is stopped
\* there too, at every head count (compliance_module.py:95).
StricterInCalifornia == focus = "er" => Decide!CaliforniaStops(question)

Decision(q) == Dir!BuildRoutingDecision(Dir!Route(q.text, q.exact, q.codes), q.requested)

\* Routed work is never less urgent than the requester asked for, nor than its domain
\* requires, and what goes to ER and then LEGAL is CRITICAL (router.py:129-141).
NeverDowngraded ==
    focus = "director" => Dir!KeepsUrgency(Decision(question), question.requested)

\* "Safety-critical domains (ER, LEGAL) win ties" (router.py:23).
SafetyWinsTies ==
    focus = "director" => Dir!SafetyFirst(question.text, Decision(question))

\* A legal opinion is never more than LOW when the matter spans jurisdictions, whatever
\* confidence the model claims for itself (legal/agent.py:64).
ConfidentOnlyInOne ==
    focus = "legal" =>
        Decide!ConfidentInOne(question.jurisdiction, question.mentions, question.hint)

\* A level gets the same range however it is spelled, and no less than the level below it.
OffersFollowLevels ==
    focus = "offer" => Decide!RangesFollowLevels(question.level, question.jurisdiction)

\* From the day after a birthday to the eve of the next, the age band holds the age: the
\* mean year of 365.25 days is wrong on the birthday only (gateway.py:70).
AgeBandHoldsAge ==
    focus = "age" => AgeBandHolds(question.years, question.leap, question.since)

\* Every text that matches and every field with a Zone 1 name is found at its place, in
\* dicts and lists of any nesting, and nothing else is, but for what lies below an exempt
\* key: there a field name escapes too, though such keys are exempt "from value scanning"
\* only (detector.py:27, detector.py:177).
ScanMissesOnlyBelowExempt ==
    focus = "payload" =>
        Scan!Findings(question) = Scan!Expected(question) \ Scan!Overlooked(question)

----------------------------------------------------------------------------
(* A property of a part; those of the others are stated in their modules.  *)

\* CRITICAL first, first in first out inside a band (RoutingQueue.tla).
ServesLikeBands == RQ!ServesLikeBands
=============================================================================
