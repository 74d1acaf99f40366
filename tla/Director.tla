------------------------------ MODULE Director ------------------------------
(***************************************************************************)
(* The Director: the keyword classifier, the routing decision, the model's *)
(* second opinion.                                                         *)
(*                                                                         *)
(* Abstractions.  A text is the set of keywords it contains.  KeywordTable *)
(* keeps, of each domain, keywords of every kind the code tells apart: in  *)
(* ER the critical and the other ones, and a keyword inside another.       *)
(***************************************************************************)
EXTENDS Naturals, Sequences, FiniteSets

\* DOMAIN_KEYWORDS: table order is the order of preference.
TableOrder == <<"ER", "LEGAL", "CB", "LD", "HR_OPS", "TA", "ANALYTICS", "HRBP">>
KeywordTable ==
    [ER        |-> {"termination", "layoff", "mass layoff", "discipline", "union"},
     LEGAL     |-> {"statute", "lawsuit"},
     CB        |-> {"bonus", "pay band"},
     LD        |-> {"training"},
     HR_OPS    |-> {"onboarding"},
     TA        |-> {"interview"},
     ANALYTICS |-> {"attrition"},
     HRBP      |-> {"engagement"}]

\* schemas.director.Domain, in the order of its members.
DomainOrder == <<"HRBP", "CB", "LD", "ER", "HR_OPS", "TA", "ANALYTICS", "LEGAL">>
Domains == {TableOrder[i] : i \in DOMAIN TableOrder}

\* A text that holds a keyword holds the keywords inside it.
Texts == {t \in SUBSET UNION {KeywordTable[d] : d \in Domains} :
            "mass layoff" \in t => "layoff" \in t}

CriticalHints == {"termination", "mass layoff"}

\* The first element of order that is in S, or other when none is.
FirstIn(order, S, other) ==
    IF \E i \in DOMAIN order : order[i] \in S
    THEN order[CHOOSE i \in DOMAIN order :
                   order[i] \in S /\ \A j \in 1..(i - 1) : order[j] \notin S]
    ELSE other

----------------------------------------------------------------------------
(* Classification.                                                         *)

Matched(text, d) == text \cap KeywordTable[d]
Score(text, d) == Cardinality(Matched(text, d))
Leaders(text) ==
    {d \in Domains : /\ Score(text, d) > 0
                     /\ \A e \in Domains : Score(text, e) <= Score(text, d)}

\* Faulty: the order of the enumeration breaks a tie.
ClassifyByEnum(text) ==
    [domain     |-> FirstIn(DomainOrder, Leaders(text), "NONE"),
     confidence |-> CASE Leaders(text) = {} -> "LOW"
                      [] Cardinality(Leaders(text)) = 1 -> "HIGH"
                      [] OTHER -> "MEDIUM",
     matched    |-> Matched(text, FirstIn(DomainOrder, Leaders(text), "HRBP"))]

\* DomainClassifier.classify.
Classify(text) ==
    LET winner == FirstIn(TableOrder, Leaders(text), "NONE")
    IN  [domain     |-> winner,
         confidence |-> CASE winner = "NONE" -> "LOW"
                          [] Cardinality(Leaders(text)) = 1 -> "HIGH"
                          [] OTHER -> "MEDIUM",
         matched    |-> IF winner = "NONE" THEN {} ELSE Matched(text, winner)]

\* route asks the model when the classifier has no domain or is not sure.
Unsure(text) == Classify(text).domain = "NONE" \/ Classify(text).confidence = "LOW"

\* _parse_domain.  An answer is the set of domain codes that occur in it; exact is the
\* code it is equal to, or "NONE".
ParseDomain(exact, codes) ==
    IF exact # "NONE" THEN exact ELSE FirstIn(DomainOrder, codes, "HRBP")

\* DirectorAgent.route, up to the decision.
Route(text, exact, codes) ==
    IF Unsure(text)
    THEN [domain |-> ParseDomain(exact, codes), confidence |-> "MEDIUM", matched |-> {}]
    ELSE Classify(text)

----------------------------------------------------------------------------
(* The routing decision.                                                   *)

PriorityOrder == <<"CRITICAL", "HIGH", "STANDARD", "ASYNC">>
Priorities == {PriorityOrder[i] : i \in DOMAIN PriorityOrder}
\* _PRIORITY_RANK.
Rank(p) == CHOOSE i \in DOMAIN PriorityOrder : PriorityOrder[i] = p

IsCritical(c) == c.domain = "ER" /\ c.matched \cap CriticalHints # {}

\* derive_priority: the most urgent of the request, the domain's floor and the escalation.
DerivePriority(c, requested) ==
    FirstIn(PriorityOrder,
            {requested} \cup (IF c.domain \in {"ER", "LEGAL"} THEN {"HIGH"} ELSE {})
                        \cup (IF IsCritical(c) THEN {"CRITICAL"} ELSE {}),
            requested)

\* Faulty: the domain's floor replaces what the requester asked for.
BuildRoutingDecisionFloored(c, requested) ==
    [domain     |-> c.domain,
     priority   |-> IF IsCritical(c) THEN "CRITICAL"
                    ELSE IF c.domain \in {"ER", "LEGAL"} THEN "HIGH" ELSE requested,
     sequential |-> IsCritical(c),
     sequence   |-> IF IsCritical(c) THEN <<"ER", "LEGAL">> ELSE <<>>]

\* build_routing_decision.
BuildRoutingDecision(c, requested) ==
    [domain     |-> IF c.domain = "NONE" THEN "HRBP" ELSE c.domain,
     priority   |-> DerivePriority(c, requested),
     sequential |-> IsCritical(c),
     sequence   |-> IF IsCritical(c) THEN <<"ER", "LEGAL">> ELSE <<>>]

----------------------------------------------------------------------------
(* What the Director promises, for one request.                            *)

\* The decision is no less urgent than requested, nor than its domain requires; only the
\* most urgent work goes to ER and then LEGAL.
KeepsUrgency(decision, requested) ==
    /\ Rank(decision.priority) <= Rank(requested)
    /\ decision.domain \in {"ER", "LEGAL"} => Rank(decision.priority) <= Rank("HIGH")
    /\ decision.sequential => decision.domain = "ER" /\ decision.priority = "CRITICAL"

\* Of the domains the text speaks of most, ER comes first and then LEGAL.
SafetyFirst(text, decision) ==
    /\ "ER" \in Leaders(text) => decision.domain = "ER"
    /\ "LEGAL" \in Leaders(text) /\ "ER" \notin Leaders(text) => decision.domain = "LEGAL"
=============================================================================
