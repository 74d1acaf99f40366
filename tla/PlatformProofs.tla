--------------------------- MODULE PlatformProofs ---------------------------
(***************************************************************************)
(* What the pure decisions and the detector promise, for every request     *)
(* body, record and payload and not only for the questions MCPlatform      *)
(* enumerates; and what the gateway keeps over any number of processes,    *)
(* restarts, ids and records.                                              *)
(***************************************************************************)
EXTENDS MCPlatform, FiniteSetTheorems, NaturalsInduction, WellFoundedInduction, TLAPS

----------------------------------------------------------------------------
(* The question stays the one that was put.                                *)

LEMMA StaysAsked == Asked /\ [Next]_vars => Asked'
  <1>1. Next => UNCHANGED <<focus, question>>
    BY DEF Next, RoutingStep, QueueStep, GatewayStep, StartupStep
  <1>2. UNCHANGED vars => UNCHANGED <<focus, question>>
    BY DEF vars
  <1>3. UNCHANGED <<focus, question>> /\ Asked => Asked'
    BY DEF Asked
  <1>4. QED
    BY <1>1, <1>2, <1>3

LEMMA AlwaysAsked == Spec => []Asked
  <1>1. Init => Asked
    BY DEF Init
  <1>2. QED
    BY <1>1, StaysAsked, PTL DEF Spec

----------------------------------------------------------------------------
(* The bands.                                                              *)

\* So many completed years and days since the birthday are that many years of 365.25
\* days, rounded down.
LEMMA CompletedYears ==
    ASSUME NEW y \in Nat, NEW leap \in {0, 1}, NEW since \in 1..365, leap + since <= 365
    PROVE  (4 * (365 * y + y \div 4 + leap + since)) \div 1461 = y
  <1>1. PICK k \in Nat, r \in 0..3 : y = 4 * k + r /\ y \div 4 = k
    OBVIOUS
  <1>2. DEFINE rest == 4 * leap + 4 * since - r
  <1>3. rest \in 1..1460
    BY <1>1
  <1>4. 4 * (365 * y + k + leap + since) = 1461 * y + rest
    BY <1>1
  <1>5. QED
    BY <1>1, <1>3, <1>4

\* Every age of y completed years is in its band, on every day but the birthday.
LEMMA AgeBandHeld ==
    ASSUME NEW y \in Nat, NEW leap \in {0, 1}, NEW since \in 1..365, leap + since <= 365
    PROVE  AgeBandHolds(y, leap, since)
  <1> DEFINE days == 365 * y + y \div 4 + leap + since
             decade == (y \div 10) * 10
  <1>1. (4 * days) \div 1461 = y
    BY CompletedYears
  <1>2. AgeBand(days) = IF decade < 20 THEN 20 ELSE decade
    BY <1>1 DEF AgeBand
  <1>3. decade \in Nat /\ decade <= y /\ y <= decade + 9
    OBVIOUS
  <1>4. CASE decade < 20
    BY <1>2, <1>3, <1>4 DEF AgeBandHolds
  <1>5. CASE decade >= 20
    BY <1>2, <1>3, <1>5 DEF AgeBandHolds
  <1>6. QED
    BY <1>3, <1>4, <1>5

\* From the day after a birthday to the eve of the next, the age band holds the age,
\* whatever the age (gateway.py:70).
THEOREM AgeBandAlwaysHolds ==
    /\ \A y \in Nat, leap \in {0, 1}, since \in 1..365 :
           leap + since <= 365 => AgeBandHolds(y, leap, since)
    /\ Spec => []AgeBandHoldsAge
  <1>1. \A y \in Nat, leap \in {0, 1}, since \in 1..365 :
           leap + since <= 365 => AgeBandHolds(y, leap, since)
    BY AgeBandHeld
  <1>2. Asked => AgeBandHoldsAge
    BY <1>1 DEF Asked, AgeBandHoldsAge, AgeQuestions
  <1>3. QED
    BY <1>1, <1>2, AlwaysAsked, PTL

----------------------------------------------------------------------------
(* Module B.                                                               *)

LEMMA ErQuestionsTyped == ErQuestions \subseteq Decide!RuleContext
  <1>1. \A f \in {{}, {"termination"}, {"mass layoff"}, {"union demand", "whistleblower"},
                 {"data breach"}, {"data breach", "employee"}, {"collective"}} :
            f \subseteq Decide!Signals
    BY DEF Decide!Signals
  <1>2. {0, 49, 50, 99, 100, 101} \subseteq Nat
    OBVIOUS
  <1>3. QED
    BY <1>1, <1>2, Zenon DEF ErQuestions, Decide!RuleContext

\* A case is stopped when some rule matches it.
LEMMA StopIsARule ==
    ASSUME NEW c
    PROVE  Decide!Check(c).result = "HARD_STOP" <=>
               \E r \in DOMAIN Decide!Matches(c) : Decide!Matches(c)[r]
  BY DEF Decide!Check, Decide!Triggered

LEMMA CaliforniaIsStricter ==
    ASSUME NEW c \in Decide!RuleContext
    PROVE  Decide!CaliforniaStops(c)
  <1> DEFINE fed == [c EXCEPT !.jurisdiction = "US-FED"]
             ca == [c EXCEPT !.jurisdiction = "US-CA"]
  <1>1. SUFFICES ASSUME NEW r \in DOMAIN Decide!Matches(fed), Decide!Matches(fed)[r]
                 PROVE  \E s \in DOMAIN Decide!Matches(ca) : Decide!Matches(ca)[s]
    BY StopIsARule DEF Decide!CaliforniaStops
  <1>2. /\ fed.facts = c.facts /\ ca.facts = c.facts
        /\ fed.works_council = c.works_council /\ ca.works_council = c.works_council
        /\ fed.employees = c.employees /\ ca.employees = c.employees
        /\ fed.jurisdiction = "US-FED" /\ ca.jurisdiction = "US-CA"
        /\ c.employees \in Nat
    BY DEF Decide!RuleContext
  <1> HIDE DEF fed, ca
  <1>3. CASE r = "WARN_TRIGGER_US"
    <2>1. c.employees >= 100
      BY <1>1, <1>2, <1>3 DEF Decide!Matches
    <2>2. /\ "CALWARN_TRIGGER" \in DOMAIN Decide!Matches(ca)
          /\ Decide!Matches(ca)["CALWARN_TRIGGER"] = (ca.employees >= 50 /\ ca.jurisdiction = "US-CA")
      BY DEF Decide!Matches
    <2>3. ca.employees >= 50 /\ ca.jurisdiction = "US-CA"
      BY <2>1, <1>2
    <2>4. QED
      BY <2>2, <2>3
  <1>4. CASE r # "WARN_TRIGGER_US"
    <2> DEFINE local == {"WARN_TRIGGER_US", "CALWARN_TRIGGER", "SEIRI_KAIKO_JP",
                         "EU_COLLECTIVE_DISMISSAL"}
    <2>1. DOMAIN Decide!Matches(fed) = DOMAIN Decide!Matches(ca)
      BY DEF Decide!Matches
    <2>2. r \notin local
      <3>1. ~Decide!Matches(fed)["CALWARN_TRIGGER"]
        BY <1>2 DEF Decide!Matches
      <3>2. ~Decide!Matches(fed)["SEIRI_KAIKO_JP"]
        BY <1>2 DEF Decide!Matches
      <3>3. ~Decide!Matches(fed)["EU_COLLECTIVE_DISMISSAL"]
        BY <1>2 DEF Decide!Matches
      <3>4. QED
        BY <3>1, <3>2, <3>3, <1>1, <1>4
    <2>3. Decide!Matches(ca)[r] = Decide!Matches(fed)[r]
      <3>1. \/ r = "TERMINATION" \/ r = "HARASSMENT_ALLEGATION" \/ r = "UNION_DEMAND"
            \/ r = "WORKS_COUNCIL" \/ r = "PROTECTED_LEAVE" \/ r = "WHISTLEBLOWER"
            \/ r = "DATA_BREACH_PII"
        BY <1>1, <2>2 DEF Decide!Matches
      <3>2. /\ Decide!Matches(ca).TERMINATION = Decide!Matches(fed).TERMINATION
            /\ Decide!Matches(ca).HARASSMENT_ALLEGATION = Decide!Matches(fed).HARASSMENT_ALLEGATION
            /\ Decide!Matches(ca).UNION_DEMAND = Decide!Matches(fed).UNION_DEMAND
            /\ Decide!Matches(ca).WORKS_COUNCIL = Decide!Matches(fed).WORKS_COUNCIL
            /\ Decide!Matches(ca).PROTECTED_LEAVE = Decide!Matches(fed).PROTECTED_LEAVE
            /\ Decide!Matches(ca).WHISTLEBLOWER = Decide!Matches(fed).WHISTLEBLOWER
            /\ Decide!Matches(ca).DATA_BREACH_PII = Decide!Matches(fed).DATA_BREACH_PII
        BY <1>2 DEF Decide!Matches
      <3>3. QED
        BY <3>1, <3>2
    <2>4. Decide!Matches(ca)[r] /\ r \in DOMAIN Decide!Matches(ca)
      BY <1>1, <2>1, <2>3
    <2>5. QED
      BY <2>4, <1>1
  <1>5. QED
    BY <1>3, <1>4

\* California is the stricter jurisdiction for every case, whatever its head count
\* (compliance_module.py:95).
THEOREM CaliforniaAlwaysStricter ==
    /\ \A c \in Decide!RuleContext : Decide!CaliforniaStops(c)
    /\ Spec => []StricterInCalifornia
  <1>1. \A c \in Decide!RuleContext : Decide!CaliforniaStops(c)
    BY CaliforniaIsStricter
  <1>2. Asked => StricterInCalifornia
    <2>1. SUFFICES ASSUME focus = "er", question \in ErQuestions
                   PROVE  Decide!CaliforniaStops(question)
      BY DEF Asked, StricterInCalifornia
    <2>2. QED
      BY <2>1, ErQuestionsTyped, CaliforniaIsStricter
  <1>3. QED
    BY <1>1, <1>2, AlwaysAsked, PTL

----------------------------------------------------------------------------
(* The Director.                                                           *)

LEMMA LeastNat ==
    ASSUME NEW T \in SUBSET Nat, T # {}
    PROVE  \E m \in T : \A k \in T : m <= k
  <1>1. PICK m \in T : \A k \in T : <<k, m>> \notin OpToRel(<, Nat)
    BY NatLessThanWellFounded, WFMin
  <1>2. \A k \in T : ~(k < m)
    BY <1>1 DEF OpToRel
  <1>3. QED
    BY <1>2

\* FirstIn finds the element of least index.
LEMMA FirstIsLeast ==
    ASSUME NEW order, \E n \in Nat : DOMAIN order = 1..n, NEW S, NEW other,
           NEW k \in DOMAIN order, order[k] \in S
    PROVE  \E i \in DOMAIN order : /\ Dir!FirstIn(order, S, other) = order[i]
                                   /\ order[i] \in S /\ i <= k
  <1> DEFINE In == {i \in DOMAIN order : order[i] \in S}
             Least(i) == order[i] \in S /\ \A j \in 1..(i - 1) : order[j] \notin S
  <1>1. PICK n \in Nat : DOMAIN order = 1..n
    OBVIOUS
  <1>2. PICK m \in In : \A i \in In : m <= i
    <2>1. In # {} /\ In \in SUBSET Nat
      BY <1>1
    <2>2. QED
      BY <2>1, LeastNat
  <1>3. Least(m)
    BY <1>1, <1>2
  <1>4. \A i, j \in 1..n : Least(i) /\ Least(j) => i = j
    BY SMT
  <1>5. (CHOOSE i \in DOMAIN order : Least(i)) = m
    BY <1>1, <1>2, <1>3, <1>4
  <1>6. Dir!FirstIn(order, S, other) = order[m]
    BY <1>5 DEF Dir!FirstIn
  <1>7. QED
    BY <1>2, <1>6

LEMMA RankIs ==
    /\ Dir!Priorities = {"CRITICAL", "HIGH", "STANDARD", "ASYNC"}
    /\ Dir!Rank("CRITICAL") = 1 /\ Dir!Rank("HIGH") = 2
    /\ Dir!Rank("STANDARD") = 3 /\ Dir!Rank("ASYNC") = 4
    /\ \A i \in 1..4 : Dir!Rank(Dir!PriorityOrder[i]) = i
    /\ \A p \in Dir!Priorities : Dir!Rank(p) \in 1..4 /\ Dir!PriorityOrder[Dir!Rank(p)] = p
  <1>1. /\ DOMAIN Dir!PriorityOrder = 1..4
        /\ Dir!PriorityOrder[1] = "CRITICAL" /\ Dir!PriorityOrder[2] = "HIGH"
        /\ Dir!PriorityOrder[3] = "STANDARD" /\ Dir!PriorityOrder[4] = "ASYNC"
    BY DEF Dir!PriorityOrder
  <1>2. Dir!Priorities = {"CRITICAL", "HIGH", "STANDARD", "ASYNC"}
    BY <1>1 DEF Dir!Priorities
  <1>3. \A i, j \in 1..4 : Dir!PriorityOrder[i] = Dir!PriorityOrder[j] => i = j
    BY <1>1
  <1>4. \A i \in 1..4 : Dir!Rank(Dir!PriorityOrder[i]) = i
    BY <1>1, <1>3 DEF Dir!Rank
  <1>5. QED
    BY <1>1, <1>2, <1>4

\* The first priority of some is the most urgent of them.
LEMMA MostUrgent ==
    ASSUME NEW S \in SUBSET Dir!Priorities, NEW s \in S, NEW other
    PROVE  LET p == Dir!FirstIn(Dir!PriorityOrder, S, other)
           IN  p \in Dir!Priorities /\ Dir!Rank(p) <= Dir!Rank(s)
  <1>1. DOMAIN Dir!PriorityOrder = 1..4 /\ \E n \in Nat : DOMAIN Dir!PriorityOrder = 1..n
    BY DEF Dir!PriorityOrder
  <1>2. PICK k \in 1..4 : Dir!Rank(s) = k /\ Dir!PriorityOrder[k] \in S
    BY RankIs
  <1>3. PICK i \in 1..4 : /\ Dir!FirstIn(Dir!PriorityOrder, S, other) = Dir!PriorityOrder[i]
                          /\ i <= k
    <2>1. k \in DOMAIN Dir!PriorityOrder
      BY <1>1
    <2>2. PICK i \in DOMAIN Dir!PriorityOrder :
             Dir!FirstIn(Dir!PriorityOrder, S, other) = Dir!PriorityOrder[i] /\ i <= k
      BY <1>1, <1>2, <2>1, FirstIsLeast
    <2>3. QED
      BY <1>1, <2>2
  <1>4. Dir!Rank(Dir!PriorityOrder[i]) = i /\ Dir!PriorityOrder[i] \in Dir!Priorities
    BY <1>1, RankIs DEF Dir!Priorities
  <1>5. QED
    BY <1>2, <1>3, <1>4

\* The derived priority is no less urgent than anything it is derived from.
LEMMA UrgencyKept ==
    ASSUME NEW c, NEW requested \in Dir!Priorities
    PROVE  Dir!KeepsUrgency(Dir!BuildRoutingDecision(c, requested), requested)
  <1> DEFINE asks == {requested} \cup (IF c.domain \in {"ER", "LEGAL"} THEN {"HIGH"} ELSE {})
                                 \cup (IF Dir!IsCritical(c) THEN {"CRITICAL"} ELSE {})
             p == Dir!DerivePriority(c, requested)
             d == Dir!BuildRoutingDecision(c, requested)
  <1>1. asks \in SUBSET Dir!Priorities /\ requested \in asks
        /\ (c.domain \in {"ER", "LEGAL"} => "HIGH" \in asks)
        /\ (Dir!IsCritical(c) => "CRITICAL" \in asks)
    BY RankIs
  <1>2. p = Dir!FirstIn(Dir!PriorityOrder, asks, requested)
    BY DEF Dir!DerivePriority
  <1> HIDE DEF asks
  <1>3. p \in Dir!Priorities /\ \A s \in asks : Dir!Rank(p) <= Dir!Rank(s)
    BY <1>1, <1>2, MostUrgent
  <1>4. /\ d.priority = p
        /\ d.domain \in {"ER", "LEGAL"} => c.domain = d.domain
        /\ c.domain \in {"ER", "LEGAL"} => c.domain = d.domain
        /\ d.sequential <=> Dir!IsCritical(c)
    BY DEF Dir!BuildRoutingDecision
  <1>5. SUFFICES Dir!KeepsUrgency(d, requested)
    OBVIOUS
  <1> HIDE DEF p, d
  <1>6. Dir!IsCritical(c) => p = "CRITICAL" /\ c.domain = "ER"
    BY <1>1, <1>3, RankIs DEF Dir!IsCritical
  <1>7. QED
    BY <1>1, <1>3, <1>4, <1>6, RankIs DEF Dir!KeepsUrgency

\* Whatever the classifier or the model answers and whatever is requested, the decision
\* is no less urgent than the request nor than its domain requires (router.py:129-141).
THEOREM NeverDowngradedAtAll ==
    /\ \A requested \in Dir!Priorities : \A c :
           Dir!KeepsUrgency(Dir!BuildRoutingDecision(c, requested), requested)
    /\ Spec => []NeverDowngraded
  <1>1. \A requested \in Dir!Priorities :
           \A c : Dir!KeepsUrgency(Dir!BuildRoutingDecision(c, requested), requested)
    BY UrgencyKept
  <1>2. Asked => NeverDowngraded
    BY UrgencyKept DEF Asked, NeverDowngraded, Decision, DirectorQuestions
  <1>3. QED
    BY <1>1, <1>2, AlwaysAsked, PTL

LEMMA SafetyFirstHolds ==
    ASSUME NEW text, NEW exact, NEW codes, NEW requested
    PROVE  Dir!SafetyFirst(text, Dir!BuildRoutingDecision(Dir!Route(text, exact, codes), requested))
  <1> DEFINE order == Dir!TableOrder
             most == Dir!Leaders(text)
             routed == Dir!Route(text, exact, codes)
             d == Dir!BuildRoutingDecision(routed, requested)
  <1>1. order[1] = "ER" /\ order[2] = "LEGAL" /\ DOMAIN order = 1..8
    BY DEF Dir!TableOrder
  <1> HIDE DEF order, most
  <1>2. "ER" \in most => Dir!FirstIn(order, most, "NONE") = "ER"
    <2>1. SUFFICES ASSUME "ER" \in most PROVE Dir!FirstIn(order, most, "NONE") = "ER"
      OBVIOUS
    <2> DEFINE Least(i) == order[i] \in most /\ \A j \in 1..(i - 1) : order[j] \notin most
    <2>2. Least(1) /\ \A i \in 1..8 : Least(i) => i = 1
      BY <1>1, <2>1
    <2>3. (CHOOSE i \in DOMAIN order : Least(i)) = 1
      BY <1>1, <2>2
    <2>4. QED
      BY <1>1, <2>1, <2>3 DEF Dir!FirstIn
  <1>3. "ER" \notin most /\ "LEGAL" \in most => Dir!FirstIn(order, most, "NONE") = "LEGAL"
    <2>1. SUFFICES ASSUME "ER" \notin most, "LEGAL" \in most
                   PROVE  Dir!FirstIn(order, most, "NONE") = "LEGAL"
      OBVIOUS
    <2> DEFINE Least(i) == order[i] \in most /\ \A j \in 1..(i - 1) : order[j] \notin most
    <2>2. Least(2) /\ \A i \in 1..8 : Least(i) => i = 2
      BY <1>1, <2>1
    <2>3. (CHOOSE i \in DOMAIN order : Least(i)) = 2
      BY <1>1, <2>2
    <2>4. QED
      BY <1>1, <2>1, <2>3 DEF Dir!FirstIn
  <1>4. Dir!Classify(text).domain = Dir!FirstIn(order, most, "NONE")
    BY DEF Dir!Classify, order, most
  <1>5. Dir!FirstIn(order, most, "NONE") # "NONE" => ~Dir!Unsure(text)
    BY DEF Dir!Unsure, Dir!Classify, order, most
  <1>6. Dir!FirstIn(order, most, "NONE") # "NONE" => d.domain = Dir!FirstIn(order, most, "NONE")
    BY <1>4, <1>5 DEF Dir!Route, Dir!BuildRoutingDecision
  <1>7. SUFFICES Dir!SafetyFirst(text, d)
    OBVIOUS
  <1> HIDE DEF d
  <1>8. QED
    BY <1>2, <1>3, <1>6 DEF Dir!SafetyFirst, most

\* Whatever the text, and whatever the model would answer: a domain that protects people
\* wins a tie (router.py:23).
THEOREM SafetyAlwaysWinsTies ==
    /\ \A text, exact, codes, requested :
           Dir!SafetyFirst(text,
               Dir!BuildRoutingDecision(Dir!Route(text, exact, codes), requested))
    /\ Spec => []SafetyWinsTies
  <1>1. \A text, exact, codes, requested :
           Dir!SafetyFirst(text,
               Dir!BuildRoutingDecision(Dir!Route(text, exact, codes), requested))
    BY SafetyFirstHolds
  <1>2. Asked => SafetyWinsTies
    BY SafetyFirstHolds DEF SafetyWinsTies, Decision
  <1>3. QED
    BY <1>1, <1>2, AlwaysAsked, PTL

----------------------------------------------------------------------------
(* Legal, compensation.                                                    *)

\* The instance's Cardinality is that of the library's theorems.
LEMMA DecideCardinality == \A S : Decide!Cardinality(S) = Cardinality(S)
  BY DEF Decide!Cardinality, Cardinality

LEMMA Pair ==
    ASSUME NEW x, NEW y
    PROVE  IsFiniteSet({x, y}) /\ (x # y => Cardinality({x, y}) = 2)
  <1>1. IsFiniteSet({x}) /\ Cardinality({x}) = 1
    BY FS_Singleton
  <1>2. /\ IsFiniteSet({x} \cup {y})
        /\ y \notin {x} => Cardinality({x} \cup {y}) = 2
    BY <1>1, FS_AddElement
  <1>3. {x} \cup {y} = {x, y}
    OBVIOUS
  <1>4. QED
    BY <1>2, <1>3

LEMMA FewJurisdictions ==
    ASSUME NEW mentions \in SUBSET Decide!Frameworks
    PROVE  /\ Decide!Cardinality(mentions) \in Nat
           /\ Decide!Cardinality(mentions) < 2 => \A i, j \in mentions : i = j
  <1>1. IsFiniteSet({"JP", "US-FED", "US-CA", "EU", "SG"})
    <2>1. IsFiniteSet({"JP", "US-FED"})
      BY Pair
    <2>2. IsFiniteSet({"JP", "US-FED"} \cup {"US-CA"})
      BY <2>1, FS_AddElement
    <2>3. IsFiniteSet({"EU", "SG"})
      BY Pair
    <2>4. IsFiniteSet(({"JP", "US-FED"} \cup {"US-CA"}) \cup {"EU", "SG"})
      BY <2>2, <2>3, FS_Union
    <2>5. ({"JP", "US-FED"} \cup {"US-CA"}) \cup {"EU", "SG"}
              = {"JP", "US-FED", "US-CA", "EU", "SG"}
      OBVIOUS
    <2>6. QED
      BY <2>4, <2>5
  <1>2. mentions \subseteq {"JP", "US-FED", "US-CA", "EU", "SG"}
    BY DEF Decide!Frameworks, Decide!Jurisdictions
  <1>3. IsFiniteSet(mentions) /\ Cardinality(mentions) \in Nat
    BY <1>1, <1>2, FS_Subset, FS_CardinalityType
  <1>4. ASSUME NEW i \in mentions, NEW j \in mentions, i # j
        PROVE  Cardinality(mentions) >= 2
    <2>1. Cardinality({i, j}) = 2
      BY <1>4, Pair
    <2>2. {i, j} \in SUBSET mentions
      OBVIOUS
    <2>3. QED
      BY <1>3, <2>1, <2>2, FS_Subset
  <1>5. QED
    BY <1>3, <1>4, DecideCardinality

LEMMA LowAcrossBorders ==
    ASSUME NEW jurisdiction, NEW mentions \in SUBSET Decide!Frameworks, NEW hint
    PROVE  Decide!ConfidentInOne(jurisdiction, mentions, hint)
  <1> DEFINE ctx == Decide!Route(jurisdiction, mentions)
  <1>1. SUFFICES ASSUME ctx.supported, ~ctx.multi
                 PROVE  jurisdiction # "MULTI" /\ \A i, j \in mentions : i = j
    BY DEF Decide!ConfidentInOne, Decide!DeriveConfidence
  <1>2. ~Decide!DetectMulti(jurisdiction, mentions)
    BY <1>1 DEF Decide!Route
  <1>3. QED
    BY <1>2, FewJurisdictions DEF Decide!DetectMulti

\* For every question and every answer of the model, whatever it claims of itself: an
\* opinion across borders is LOW (legal/agent.py:64).
THEOREM ConfidentInOneAtMost ==
    /\ \A jurisdiction, hint : \A mentions \in SUBSET Decide!Frameworks :
           Decide!ConfidentInOne(jurisdiction, mentions, hint)
    /\ Spec => []ConfidentOnlyInOne
  <1>1. \A jurisdiction, hint : \A mentions \in SUBSET Decide!Frameworks :
           Decide!ConfidentInOne(jurisdiction, mentions, hint)
    BY LowAcrossBorders
  <1>2. Asked => ConfidentOnlyInOne
    BY LowAcrossBorders DEF Asked, ConfidentOnlyInOne, LegalQuestions
  <1>3. QED
    BY <1>1, <1>2, AlwaysAsked, PTL

\* The range of a level rises with it, in every currency.
LEMMA RangesRise ==
    ASSUME NEW level, NEW jurisdiction \in Decide!Jurisdictions
    PROVE  Decide!RangesFollowLevels(level, jurisdiction)
  <1> DEFINE f == Decide!Factor[jurisdiction]
             offer(l) == Decide!OfferRange(l, jurisdiction)
             levels == <<"L1", "L2", "L3", "L4", "L5", "L6">>
  <1>1. f \in {10000, 75, 62, 90, 67}
    BY DEF Decide!Factor
  <1>2. /\ offer("L1") = [low |-> (3000 * f) \div 10, high |-> (4500 * f) \div 10]
        /\ offer("L2") = [low |-> (4000 * f) \div 10, high |-> (6000 * f) \div 10]
        /\ offer("L3") = [low |-> (5500 * f) \div 10, high |-> (8000 * f) \div 10]
        /\ offer("L4") = [low |-> (7500 * f) \div 10, high |-> (11000 * f) \div 10]
        /\ offer("L5") = [low |-> (10000 * f) \div 10, high |-> (15000 * f) \div 10]
        /\ offer("L6") = [low |-> (14000 * f) \div 10, high |-> (21000 * f) \div 10]
    BY DEF Decide!OfferRange, Decide!Band, Decide!UpperOf, Decide!Upper, Decide!BaseBands
  <1>3. Decide!UpperOf(Decide!UpperOf(level)) = Decide!UpperOf(level)
    BY DEF Decide!UpperOf, Decide!Upper
  <1>4. offer(level) = offer(Decide!UpperOf(level))
    BY <1>3 DEF Decide!OfferRange
  <1> HIDE DEF f, offer
  <1>5. \A i \in 1..5 : /\ offer(levels[i]).low < offer(levels[i + 1]).low
                        /\ offer(levels[i]).high < offer(levels[i + 1]).high
                        /\ offer(levels[i]).low < offer(levels[i]).high
    BY <1>1, <1>2
  <1>6. QED
    BY <1>4, <1>5 DEF Decide!RangesFollowLevels, offer

\* A level gets one range however it is spelled, and the ranges rise with the levels, in
\* every jurisdiction (cb/agent.py:43).
THEOREM OffersAlwaysFollowLevels ==
    /\ \A level : \A jurisdiction \in Decide!Jurisdictions :
           Decide!RangesFollowLevels(level, jurisdiction)
    /\ Spec => []OffersFollowLevels
  <1>1. \A level : \A jurisdiction \in Decide!Jurisdictions :
           Decide!RangesFollowLevels(level, jurisdiction)
    BY RangesRise
  <1>2. Asked => OffersFollowLevels
    BY RangesRise DEF Asked, OffersFollowLevels, OfferQuestions
  <1>3. QED
    BY <1>1, <1>2, AlwaysAsked, PTL

----------------------------------------------------------------------------
(* The detector.                                                           *)

Payloads == UNION {{t \in [1..n -> Scan!Nodes] : Scan!WellFormed(t)} : n \in Nat \ {0}}

\* What the proofs use of a payload of n nodes.
Tree(t, n) ==
    /\ DOMAIN t = 1..n
    /\ \A i \in 2..n : t[i].parent \in 1..n /\ t[i].parent < i
    /\ \A i \in 1..n : t[i].key \in Scan!KeyClasses
    /\ \A i \in 1..n : t[i].pattern => t[i].kind = "text"

LEMMA PayloadIsTree == \A t \in Payloads : \E n \in Nat \ {0} : Tree(t, n)
  <1> TAKE t \in Payloads
  <1>1. PICK n \in Nat \ {0} : t \in [1..n -> Scan!Nodes] /\ Scan!WellFormed(t)
    BY DEF Payloads
  <1>2. \A i \in 2..n : t[i].parent \in 1..(i - 1)
    BY <1>1 DEF Scan!WellFormed, Scan!Root
  <1>3. \A i \in 1..n : t[i].key \in Scan!KeyClasses
    BY <1>1 DEF Scan!Nodes
  <1>4. \A i \in 1..n : t[i].pattern => t[i].kind = "text"
    BY <1>1 DEF Scan!WellFormed
  <1>5. QED
    BY <1>1, <1>2, <1>3, <1>4 DEF Tree

\* value[1] is base, value[i] is derive[i] of the value of i's parent.
Climbs(n, parent) == parent \in [2..n -> 1..n] /\ \A i \in 2..n : parent[i] < i
Derives(n, V, base, derive) == base \in V /\ derive \in [2..n -> [V -> V]]
Solution(n, parent, V, base, derive, value) ==
    /\ value \in [1..n -> V]
    /\ \A i \in 1..n : value[i] = IF i = 1 THEN base ELSE derive[i][value[parent[i]]]

\* A function that is defined by its value at the parent exists.
LEMMA DownTheTree ==
    ASSUME NEW n \in Nat \ {0}, NEW parent, Climbs(n, parent),
           NEW V, NEW base, NEW derive, Derives(n, V, base, derive)
    PROVE  \E value : Solution(n, parent, V, base, derive, value)
  <1>0. /\ parent \in [2..n -> 1..n] /\ \A i \in 2..n : parent[i] < i
        /\ base \in V /\ derive \in [2..n -> [V -> V]]
    BY DEF Climbs, Derives
  <1> DEFINE Solves(f, m) ==
                 \A i \in 1..m : f[i] = IF i = 1 THEN base ELSE derive[i][f[parent[i]]]
             Solvable(m) == \E f \in [1..m -> V] : Solves(f, m)
             Bad == {m \in 1..n : ~Solvable(m)}
  <1>1. SUFFICES ASSUME Bad # {} PROVE FALSE
    <2>1. SUFFICES Solvable(n)
      BY DEF Solution
    <2> HIDE DEF Solvable
    <2>2. QED
      BY <1>1
  <1>2. PICK m \in Bad : \A k \in Bad : m <= k
    <2> HIDE DEF Solvable
    <2>1. Bad \in SUBSET Nat
      OBVIOUS
    <2>2. QED
      BY <1>1, <2>1, LeastNat
  <1>3. CASE m = 1
    <2>1. [i \in 1..1 |-> base] \in [1..1 -> V] /\ Solves([i \in 1..1 |-> base], 1)
      BY <1>0
    <2>2. QED
      BY <1>2, <1>3, <2>1
  <1>4. CASE m # 1
    <2>1. Solvable(m - 1)
      <3> HIDE DEF Solvable
      <3>1. m \in 1..n /\ \A k \in 1..n : k < m => Solvable(k)
        BY <1>2
      <3>2. m - 1 \in 1..n /\ m - 1 < m
        BY <3>1, <1>4
      <3>3. QED
        BY <3>1, <3>2
    <2>2. PICK f \in [1..(m - 1) -> V] : Solves(f, m - 1)
      BY <2>1
    <2> DEFINE g == [i \in 1..m |-> IF i = m THEN derive[m][f[parent[m]]] ELSE f[i]]
    <2>3. m \in 2..n /\ parent[m] \in 1..(m - 1)
      BY <1>0, <1>2, <1>4
    <2>4. g \in [1..m -> V]
      <3>1. derive[m][f[parent[m]]] \in V
        BY <1>0, <2>3
      <3>2. \A i \in 1..m : i # m => f[i] \in V
        BY <2>3
      <3>3. QED
        BY <3>1, <3>2
    <2>5. Solves(g, m)
      <3>1. TAKE i \in 1..m
      <3>2. i # 1 => parent[i] \in 1..(m - 1) /\ g[parent[i]] = f[parent[i]]
        BY <1>0, <2>3
      <3>3. CASE i = m
        BY <1>4, <3>2, <3>3
      <3>4. CASE i # m
        <4>1. i \in 1..(m - 1) /\ g[i] = f[i]
          BY <2>3, <3>4
        <4>2. QED
          BY <2>2, <3>2, <4>1
      <3>5. QED
        BY <3>3, <3>4
    <2>6. QED
      BY <1>2, <2>4, <2>5
  <1>5. QED
    BY <1>3, <1>4

LEMMA WalkedDownTheTree ==
    ASSUME NEW t, NEW n \in Nat \ {0}, Tree(t, n)
    PROVE  \A i \in 1..n : Scan!Walked(t)[i] <=>
               \/ i = 1
               \/ /\ Scan!Walked(t)[t[i].parent]
                  /\ Scan!InDict(t, i) => t[i].key # "exempt"
  <1> DEFINE parent == [i \in 2..n |-> t[i].parent]
             open == [i \in 2..n |-> (Scan!InDict(t, i) => t[i].key # "exempt")]
             derive == [i \in 2..n |-> [w \in BOOLEAN |-> w /\ open[i]]]
             Solved(f) == f = [i \in DOMAIN t |->
                                  i = Scan!Root \/ (/\ f[t[i].parent]
                                                    /\ Scan!InDict(t, i) => t[i].key # "exempt")]
  <1>1. parent \in [2..n -> 1..n] /\ \A i \in 2..n : parent[i] < i
    BY DEF Tree
  <1>2. TRUE \in BOOLEAN /\ derive \in [2..n -> [BOOLEAN -> BOOLEAN]]
    OBVIOUS
  <1>3. PICK f \in [1..n -> BOOLEAN] :
            \A i \in 1..n : f[i] = IF i = 1 THEN TRUE ELSE derive[i][f[parent[i]]]
    <2> DEFINE W == BOOLEAN
               root == TRUE
    <2>1. Derives(n, W, root, derive) /\ Climbs(n, parent)
      BY <1>1, <1>2 DEF Derives, Climbs
    <2> HIDE DEF parent, derive, W, root
    <2>2. PICK f : Solution(n, parent, W, root, derive, f)
      BY <2>1, DownTheTree
    <2>3. QED
      BY <2>2 DEF Solution, W, root
  <1>4. Solved(f)
    <2>1. ASSUME NEW i \in 1..n
          PROVE  f[i] = (i = Scan!Root \/ (/\ f[t[i].parent]
                                           /\ Scan!InDict(t, i) => t[i].key # "exempt"))
      <3>1. CASE i = 1
        BY <1>3, <3>1 DEF Scan!Root
      <3>2. CASE i # 1
        <4>1. i \in 2..n /\ parent[i] = t[i].parent /\ f[parent[i]] \in BOOLEAN
          BY <1>1, <1>3, <3>2
        <4>2. f[i] = derive[i][f[parent[i]]]
          BY <1>3, <3>2
        <4>3. f[i] = (f[parent[i]] /\ open[i])
          BY <4>1, <4>2
        <4>4. QED
          BY <3>2, <4>1, <4>3 DEF Scan!Root
      <3>3. QED
        BY <3>1, <3>2
    <2>2. DOMAIN t = 1..n
      BY DEF Tree
    <2>3. QED
      BY <1>3, <2>1, <2>2
  <1>5. Scan!Walked(t) = CHOOSE g : Solved(g)
    BY DEF Scan!Walked
  <1>6. Solved(Scan!Walked(t))
    <2> HIDE DEF Solved
    <2>1. QED
      BY <1>4, <1>5
  <1>7. QED
    BY <1>6 DEF Tree, Scan!Root

LEMMA KeysDownTheTree ==
    ASSUME NEW t, NEW n \in Nat \ {0}, Tree(t, n)
    PROVE  \A i \in 1..n : Scan!InheritedKey(t)[i] =
               IF i = 1 THEN "plain"
               ELSE IF Scan!InDict(t, i) THEN t[i].key ELSE Scan!InheritedKey(t)[t[i].parent]
  <1> DEFINE parent == [i \in 2..n |-> t[i].parent]
             derive == [i \in 2..n |-> [k \in Scan!KeyClasses |->
                           IF Scan!InDict(t, i) THEN t[i].key ELSE k]]
             Solved(f) == f = [i \in DOMAIN t |->
                                  IF i = Scan!Root THEN "plain"
                                  ELSE IF Scan!InDict(t, i) THEN t[i].key ELSE f[t[i].parent]]
  <1>1. parent \in [2..n -> 1..n] /\ \A i \in 2..n : parent[i] < i
    BY DEF Tree
  <1>2. /\ "plain" \in Scan!KeyClasses
        /\ derive \in [2..n -> [Scan!KeyClasses -> Scan!KeyClasses]]
    BY DEF Tree, Scan!KeyClasses
  <1>3. PICK f \in [1..n -> Scan!KeyClasses] :
            \A i \in 1..n : f[i] = IF i = 1 THEN "plain" ELSE derive[i][f[parent[i]]]
    <2> DEFINE W == Scan!KeyClasses
               root == "plain"
    <2>1. Derives(n, W, root, derive) /\ Climbs(n, parent)
      BY <1>1, <1>2 DEF Derives, Climbs
    <2> HIDE DEF parent, derive, W, root
    <2>2. PICK f : Solution(n, parent, W, root, derive, f)
      BY <2>1, DownTheTree
    <2>3. QED
      BY <2>2 DEF Solution, W, root
  <1>4. Solved(f)
    <2>1. ASSUME NEW i \in 1..n, i # 1
          PROVE  f[i] = IF Scan!InDict(t, i) THEN t[i].key ELSE f[t[i].parent]
      <3>1. i \in 2..n /\ parent[i] = t[i].parent /\ f[parent[i]] \in Scan!KeyClasses
        BY <1>1, <1>3, <2>1
      <3>2. QED
        BY <1>3, <2>1, <3>1
    <2>2. DOMAIN t = 1..n
      BY DEF Tree
    <2> HIDE DEF parent, derive
    <2>3. DOMAIN f = 1..n /\ 1 \in 1..n /\ f[1] = "plain"
      BY <1>3
    <2>4. QED
      BY <2>1, <2>2, <2>3 DEF Scan!Root
  <1>5. Scan!InheritedKey(t) = CHOOSE g : Solved(g)
    BY DEF Scan!InheritedKey
  <1>6. Solved(Scan!InheritedKey(t))
    <2> HIDE DEF Solved
    <2>1. QED
      BY <1>4, <1>5
  <1>7. QED
    BY <1>6 DEF Tree, Scan!Root

LEMMA PathsDownTheTree ==
    ASSUME NEW t, NEW n \in Nat \ {0}, Tree(t, n)
    PROVE  \A i \in 1..n : Scan!Path(t, i) =
               IF i = 1 THEN {1} ELSE {i} \cup Scan!Path(t, t[i].parent)
  <1> DEFINE parent == [i \in 2..n |-> t[i].parent]
             derive == [i \in 2..n |-> [u \in SUBSET (1..n) |-> {i} \cup u]]
             Solved(f) == f = [j \in DOMAIN t |->
                                  IF j = Scan!Root THEN {Scan!Root} ELSE {j} \cup f[t[j].parent]]
             up == CHOOSE g : Solved(g)
  <1>1. parent \in [2..n -> 1..n] /\ \A i \in 2..n : parent[i] < i
    BY DEF Tree
  <1>2. {1} \in SUBSET (1..n) /\ derive \in [2..n -> [SUBSET (1..n) -> SUBSET (1..n)]]
    OBVIOUS
  <1>3. PICK f \in [1..n -> SUBSET (1..n)] :
            \A i \in 1..n : f[i] = IF i = 1 THEN {1} ELSE derive[i][f[parent[i]]]
    <2> DEFINE W == SUBSET (1..n)
               root == {1}
    <2>1. Derives(n, W, root, derive) /\ Climbs(n, parent)
      BY <1>1, <1>2 DEF Derives, Climbs
    <2> HIDE DEF parent, derive, W, root
    <2>2. PICK f : Solution(n, parent, W, root, derive, f)
      BY <2>1, DownTheTree
    <2>3. QED
      BY <2>2 DEF Solution, W, root
  <1>4. Solved(f)
    <2>1. ASSUME NEW i \in 1..n, i # 1
          PROVE  f[i] = {i} \cup f[t[i].parent]
      <3>1. i \in 2..n /\ parent[i] = t[i].parent /\ f[parent[i]] \in SUBSET (1..n)
        BY <1>1, <1>3, <2>1
      <3>2. QED
        BY <1>3, <2>1, <3>1
    <2>2. DOMAIN t = 1..n
      BY DEF Tree
    <2> HIDE DEF parent, derive
    <2>3. DOMAIN f = 1..n /\ 1 \in 1..n /\ f[1] = {1}
      BY <1>3
    <2>4. QED
      BY <2>1, <2>2, <2>3 DEF Scan!Root
  <1>5. \A i : Scan!Path(t, i) = up[i]
    BY DEF Scan!Path
  <1>6. Solved(up)
    <2> HIDE DEF Solved
    <2>1. QED
      BY <1>4
  <1>7. \A i \in 1..n : up[i] = IF i = 1 THEN {1} ELSE {i} \cup up[t[i].parent]
    <2> HIDE DEF up, parent, derive
    <2>1. QED
      BY <1>6 DEF Tree, Scan!Root
  <1> HIDE DEF up
  <1>8. QED
    BY <1>5, <1>7

\* The walk reaches a node unless a key on the way to it is exempt, and a node it reaches
\* has no exempt key to inherit.
LEMMA WalkedUnlessExcused ==
    ASSUME NEW t, NEW n \in Nat \ {0}, Tree(t, n)
    PROVE  \A i \in 1..n : /\ Scan!Walked(t)[i] <=> ~Scan!Excused(t, i)
                           /\ Scan!Walked(t)[i] => Scan!InheritedKey(t)[i] # "exempt"
  <1> DEFINE Right(i) == /\ Scan!Walked(t)[i] <=> ~Scan!Excused(t, i)
                         /\ Scan!Walked(t)[i] => Scan!InheritedKey(t)[i] # "exempt"
             Wrong == {i \in 1..n : ~Right(i)}
  <1>1. Right(1)
    <2>1. 1 \in 1..n /\ ~Scan!InDict(t, 1)
      BY DEF Scan!InDict, Scan!Root
    <2>2. Scan!Walked(t)[1]
      BY <2>1, WalkedDownTheTree
    <2>3. Scan!InheritedKey(t)[1] = "plain"
      BY <2>1, KeysDownTheTree
    <2>4. Scan!Path(t, 1) = {1}
      BY <2>1, PathsDownTheTree
    <2>5. ~Scan!Excused(t, 1)
      BY <2>1, <2>4 DEF Scan!Excused
    <2>6. QED
      BY <2>2, <2>3, <2>5
  <1>2. ASSUME NEW i \in 2..n, Right(t[i].parent)
        PROVE  Right(i)
    <2> DEFINE p == t[i].parent
               barred == Scan!InDict(t, i) /\ t[i].key = "exempt"
    <2>1. i \in 1..n /\ i # 1
      OBVIOUS
    <2>2. Scan!Walked(t)[i] <=> Scan!Walked(t)[p] /\ ~barred
      BY <2>1, WalkedDownTheTree
    <2>3. Scan!InheritedKey(t)[i] = IF Scan!InDict(t, i) THEN t[i].key ELSE Scan!InheritedKey(t)[p]
      BY <2>1, KeysDownTheTree
    <2>4. Scan!Path(t, i) = {i} \cup Scan!Path(t, p)
      BY <2>1, PathsDownTheTree
    <2>5. Scan!Excused(t, i) <=> barred \/ Scan!Excused(t, p)
      BY <2>4 DEF Scan!Excused
    <2>6. QED
      BY <1>2, <2>2, <2>3, <2>5, Zenon
  <1>3. Wrong = {}
    <2> HIDE DEF Right
    <2>1. SUFFICES ASSUME Wrong # {} PROVE FALSE
      OBVIOUS
    <2>2. PICK m \in Wrong : \A k \in Wrong : m <= k
      <3>1. Wrong \in SUBSET Nat
        OBVIOUS
      <3>2. QED
        BY <2>1, <3>1, LeastNat
    <2>3. m \in 2..n
      BY <1>1, <2>2
    <2>4. t[m].parent \in 1..n /\ t[m].parent < m
      BY <2>3 DEF Tree
    <2>5. Right(t[m].parent)
      BY <2>2, <2>4
    <2>6. QED
      BY <1>2, <2>2, <2>3, <2>5
  <1>4. \A i \in 1..n : Right(i)
    <2> HIDE DEF Right
    <2>1. QED
      BY <1>3
  <1>5. QED
    BY <1>4

LEMMA MissesOnlyBelowExempt ==
    ASSUME NEW t \in Payloads
    PROVE  Scan!Findings(t) = Scan!Expected(t) \ Scan!Overlooked(t)
  <1>1. PICK n \in Nat \ {0} : Tree(t, n)
    BY PayloadIsTree
  <1>2. DOMAIN t = 1..n
    BY <1>1 DEF Tree
  <1> DEFINE named == {j \in 1..n : Scan!InDict(t, j) /\ t[j].key = "field"}
             valued == {j \in 1..n : t[j].pattern /\ ~Scan!Excused(t, j)}
             free == {j \in 1..n : ~Scan!Excused(t, j)}
  <1>3. {j \in 1..n : Scan!InDict(t, j) /\ Scan!Walked(t)[j] /\ t[j].key = "field"}
          = named \cap free
    <2>1. \A j \in 1..n : Scan!Walked(t)[j] <=> ~Scan!Excused(t, j)
      BY <1>1, WalkedUnlessExcused
    <2>2. QED
      BY <2>1
  <1>4. {j \in 1..n : Scan!Walked(t)[j] /\ t[j].kind = "text" /\ t[j].pattern
                         /\ Scan!InheritedKey(t)[j] # "exempt"}
          = valued
    <2>1. \A j \in 1..n : t[j].pattern => t[j].kind = "text"
      BY <1>1 DEF Tree
    <2>2. QED
      BY <1>1, <2>1, WalkedUnlessExcused
  <1>5. Scan!Findings(t) = {<<i, "FIELD_NAME">> : i \in named \cap free}
                             \cup {<<i, "VALUE">> : i \in valued}
    BY <1>2, <1>3, <1>4 DEF Scan!Findings
  <1>6. Scan!Expected(t) = {<<i, "FIELD_NAME">> : i \in named} \cup {<<i, "VALUE">> : i \in valued}
    BY <1>2 DEF Scan!Expected
  <1>7. Scan!Overlooked(t) = {x \in Scan!Expected(t) : Scan!Excused(t, x[1])}
    BY DEF Scan!Overlooked
  <1>8. \A x \in Scan!Expected(t) : x[1] \in 1..n
    BY <1>6
  <1>9. \A j \in 1..n : j \in free <=> ~Scan!Excused(t, j)
    OBVIOUS
  <1>10. valued \subseteq free /\ named \subseteq 1..n
    OBVIOUS
  <1> HIDE DEF named, valued, free
  <1>11. \A x \in Scan!Expected(t) : x \in Scan!Overlooked(t) <=> x[1] \notin free
    BY <1>7, <1>8, <1>9
  <1>12. QED
    BY <1>5, <1>6, <1>10, <1>11

\* In a payload of any size and any nesting, the detector reports nothing but what it
\* should, at its place, and all of it but the field names below an exempt key
\* (detector.py:165, detector.py:177).
THEOREM ScanAlwaysMissesOnlyBelowExempt ==
    /\ \A t \in Payloads : Scan!Findings(t) = Scan!Expected(t) \ Scan!Overlooked(t)
    /\ Spec => []ScanMissesOnlyBelowExempt
  <1>1. PayloadQuestions \subseteq Payloads
    <2>1. SUFFICES ASSUME NEW t \in PayloadQuestions PROVE t \in Payloads
      OBVIOUS
    <2>2. PICK a \in Child(2), b \in Child(3), c \in Child(4) : t = <<RootNode, a, b, c>>
      BY DEF PayloadQuestions
    <2>3. /\ a \in Scan!Nodes /\ b \in Scan!Nodes /\ c \in Scan!Nodes
          /\ RootNode \in Scan!Nodes
      BY <2>2 DEF Child, RootNode, Scan!Nodes, Scan!Kinds, Scan!KeyClasses
    <2>4. t \in [1..4 -> Scan!Nodes]
      BY <2>2, <2>3
    <2>5. Scan!WellFormed(t)
      BY DEF PayloadQuestions
    <2>6. QED
      BY <2>4, <2>5 DEF Payloads
  <1>2. Asked => ScanMissesOnlyBelowExempt
    BY <1>1, MissesOnlyBelowExempt DEF Asked, ScanMissesOnlyBelowExempt
  <1>3. \A t \in Payloads : Scan!Findings(t) = Scan!Expected(t) \ Scan!Overlooked(t)
    BY MissesOnlyBelowExempt
  <1>4. QED
    BY <1>2, <1>3, AlwaysAsked, PTL

----------------------------------------------------------------------------
(* The gateway.  The property is not inductive: that a context is of its   *)
(* ref's employee rests on the vault holding nothing but what was issued.  *)

\* A vault holds only what was issued.
VaultInv ==
    /\ vault \in [Gateways -> SUBSET (Refs \X Ids)]
    /\ \A p \in Gateways : \A v \in vault[p] : <<v[2], v[1]>> \in issued

GatewayInv == VaultInv /\ ContextsAreClean

\* No process has issued, stored or handed out anything.
LEMMA InitGateway == GatewayInit => GatewayInv
  BY DEF GatewayInit, GatewayInv, VaultInv, ContextsAreClean

\* Tokenizing keeps the vault inside what was issued.
LEMMA TokenizeKeeps ==
    ASSUME GatewayInv, NEW p \in Gateways, NEW e \in Ids, Tokenize(p, e)
    PROVE  GatewayInv'
  <1>1. RefFor(e) \in Refs
    BY DEF Refs
  <1>2. vault' \in [Gateways -> SUBSET (Refs \X Ids)]
    BY <1>1 DEF GatewayInv, VaultInv, Tokenize
  <1>3. ASSUME NEW q \in Gateways, NEW v \in vault'[q]
        PROVE  <<v[2], v[1]>> \in issued'
    <2>1. v \in vault[q] \/ v = <<RefFor(e), e>>
      BY DEF GatewayInv, VaultInv, Tokenize
    <2>2. CASE v \in vault[q]
      BY <2>2 DEF GatewayInv, VaultInv, Tokenize
    <2>3. CASE v = <<RefFor(e), e>>
      BY <2>3 DEF Tokenize
    <2> QED BY <2>1, <2>2, <2>3
  <1>4. ContextsAreClean'
    BY DEF GatewayInv, ContextsAreClean, Tokenize
  <1> QED BY <1>2, <1>3, <1>4 DEF GatewayInv, VaultInv

\* Seeding is tokenizing everybody the connector knows.
LEMMA SeedKeeps ==
    ASSUME GatewayInv, NEW p \in Gateways, Seed(p)
    PROVE  GatewayInv'
  <1>1. \A e \in Employees : RefFor(e) \in Refs /\ e \in Ids
    BY DEF Refs, Ids
  <1>2. vault' \in [Gateways -> SUBSET (Refs \X Ids)]
    BY <1>1 DEF GatewayInv, VaultInv, Seed
  <1>3. ASSUME NEW q \in Gateways, NEW v \in vault'[q]
        PROVE  <<v[2], v[1]>> \in issued'
    <2>1. v \in vault[q] \/ \E e \in Employees : v = <<RefFor(e), e>>
      BY DEF GatewayInv, VaultInv, Seed
    <2>2. CASE v \in vault[q]
      BY <2>2 DEF GatewayInv, VaultInv, Seed
    <2>3. ASSUME NEW e \in Employees, v = <<RefFor(e), e>>
          PROVE  <<v[2], v[1]>> \in issued'
      BY <2>3 DEF Seed
    <2> QED BY <2>1, <2>2, <2>3
  <1>4. ContextsAreClean'
    BY DEF GatewayInv, ContextsAreClean, Seed
  <1> QED BY <1>2, <1>3, <1>4 DEF GatewayInv, VaultInv

\* A context that passes the safety net is of an employee in the vault, whose ref was
\* therefore issued, by this process before its last restart or since.
LEMMA ResolveKeeps ==
    ASSUME GatewayInv, NEW p \in Gateways, NEW ref, Resolve(p, ref)
    PROVE  GatewayInv'
  <1>1. PICK e \in Employees :
            /\ <<ref, e>> \in vault[p]
            /\ Sanitize(ref, e).department = "plain"
            /\ contexts' = contexts \cup {[of |-> e, context |-> Sanitize(ref, e)]}
            /\ UNCHANGED <<vault, issued>>
    BY DEF Resolve
  <1>2. <<e, ref>> \in issued
    BY <1>1 DEF GatewayInv, VaultInv
  <1>3. Sanitize(ref, e).ref = ref
    BY DEF Sanitize
  <1>4. ASSUME NEW c \in contexts'
        PROVE  <<c.of, c.context.ref>> \in issued' /\ c.context.department = "plain"
    <2> DEFINE new == [of |-> e, context |-> Sanitize(ref, e)]
    <2>1. new.of = e /\ new.context.ref = ref /\ new.context.department = "plain"
      BY <1>1, <1>3
    <2>2. CASE c = new
      BY <2>1, <2>2, <1>1, <1>2
    <2>3. CASE c \in contexts
      BY <2>3, <1>1 DEF GatewayInv, ContextsAreClean
    <2> QED BY <2>2, <2>3, <1>1
  <1>5. VaultInv'
    BY <1>1 DEF GatewayInv, VaultInv
  <1> QED BY <1>4, <1>5 DEF GatewayInv, ContextsAreClean

\* A restart empties one vault; what was issued stays issued.
LEMMA RestartKeeps ==
    ASSUME GatewayInv, NEW p \in Gateways, GatewayRestart(p)
    PROVE  GatewayInv'
  BY DEF GatewayInv, VaultInv, ContextsAreClean, GatewayRestart

LEMMA GatewayInductive == GatewayInv /\ [GatewayNext]_gatewayVars => GatewayInv'
  <1> SUFFICES ASSUME GatewayInv, [GatewayNext]_gatewayVars
               PROVE  GatewayInv'
    OBVIOUS
  <1>1. ASSUME NEW p \in Gateways, NEW e \in Ids, Tokenize(p, e)
        PROVE  GatewayInv'
    BY <1>1, TokenizeKeeps
  <1>2. ASSUME NEW p \in Gateways, Seed(p)
        PROVE  GatewayInv'
    BY <1>2, SeedKeeps
  <1>3. ASSUME NEW p \in Gateways, NEW ref \in Refs, Resolve(p, ref)
        PROVE  GatewayInv'
    BY <1>3, ResolveKeeps
  <1>4. ASSUME NEW p \in Gateways, GatewayRestart(p)
        PROVE  GatewayInv'
    BY <1>4, RestartKeeps
  <1>5. CASE UNCHANGED gatewayVars
    BY <1>5 DEF GatewayInv, VaultInv, ContextsAreClean, gatewayVars
  <1> QED BY <1>1, <1>2, <1>3, <1>4, <1>5 DEF GatewayNext

\* Every context handed out is of the employee its ref was issued for, and none the
\* detector objects to is among them (gateway.py:126).
THEOREM ContextsStayClean == GatewaySpec => []ContextsAreClean
  <1>1. GatewaySpec => []GatewayInv
    BY InitGateway, GatewayInductive, PTL DEF GatewaySpec
  <1>2. GatewayInv => ContextsAreClean
    BY DEF GatewayInv
  <1> QED BY <1>1, <1>2, PTL

----------------------------------------------------------------------------
(* The routing queue.                                                      *)

Queue == INSTANCE RoutingQueueProofs
            WITH Decisions <- {d1, d2, d3}, Ranks <- 0..3, RankOf <- MCRankOf

LEMMA QueueRanks == Queue!RanksGiven
  BY DEF Queue!RanksGiven, MCRankOf

LEMMA QueueSteps == [Next]_vars => [Queue!Next]_(Queue!queueVars)
  BY DEF Next, RoutingStep, QueueStep, StartupStep, GatewayStep, RQ!Enqueue, RQ!Dequeue,
         RQ!Before, Queue!Next, Queue!Enqueue, Queue!Dequeue, Queue!Before,
         Queue!queueVars, queueState, vars

\* The service's routing queue serves as the bands do, next to everything else that runs:
\* CRITICAL first, first in first out inside a band (router.py:186).
THEOREM RoutingServesLikeBands == Spec => ServesLikeBands
  <1>1. Init => Queue!HeapInv /\ RQ!Bands!Init
    <2>1. Init => Queue!Init
      BY DEF Init, Queue!Init, RQ!Init
    <2>2. Queue!Bands!Init => RQ!Bands!Init
      BY DEF Queue!Bands!Init, RQ!Bands!Init, Queue!Waiting, RQ!Waiting,
             Queue!OldestFirst, RQ!OldestFirst, Queue!Numbered, RQ!Numbered
    <2>3. QED
      BY <2>1, <2>2, Queue!StartsLikeBands
  <1>2. Queue!HeapInv /\ [Next]_vars => Queue!HeapInv'
    BY QueueRanks, QueueSteps, Queue!HeapInvHolds
  <1>3. Queue!HeapInv /\ [Next]_vars => [RQ!Bands!Next]_(RQ!Bands!bandVars)
    <2>1. Queue!HeapInv /\ [Next]_vars => [Queue!Bands!Next]_(Queue!Bands!bandVars)
      BY QueueRanks, QueueSteps, Queue!StepsLikeBands
    <2>2. [Queue!Bands!Next]_(Queue!Bands!bandVars) => [RQ!Bands!Next]_(RQ!Bands!bandVars)
      BY DEF Queue!Bands!Next, RQ!Bands!Next, Queue!Bands!bandVars, RQ!Bands!bandVars,
             Queue!Bands!Arrive, RQ!Bands!Arrive, Queue!Bands!Serve, RQ!Bands!Serve,
             Queue!Waiting, RQ!Waiting, Queue!OldestFirst, RQ!OldestFirst,
             Queue!Numbered, RQ!Numbered
    <2>3. QED
      BY <2>1, <2>2
  <1>4. QED
    BY <1>1, <1>2, <1>3, PTL DEF Spec, ServesLikeBands, RQ!ServesLikeBands, RQ!Bands!Spec
=============================================================================
