--------------------------- MODULE AgentDecisions ---------------------------
(***************************************************************************)
(* What the sub-agents decide from a request body without asking the       *)
(* model: the ER compliance gate (Module B), the legal jurisdiction router *)
(* and the confidence derived from it, the analytics privacy floor and the *)
(* offer ranges.                                                           *)
(*                                                                         *)
(* Abstractions.  A text is the set of phrases found in it; a signal below *)
(* stands for all the spellings its rule accepts.  The rules that matched  *)
(* are a set: nothing depends on the order in which they are listed.       *)
(***************************************************************************)
EXTENDS Naturals, Sequences, FiniteSets

Jurisdictions == {"JP", "US-FED", "US-CA", "EU", "SG", "MULTI"}

----------------------------------------------------------------------------
(* ER: Module B.                                                           *)

Signals == {"termination", "harassment", "discrimination", "mass layoff", "collective",
            "union demand", "protected leave", "whistleblower", "data breach", "employee"}

\* _RuleContext: what a rule may look at.  union_present is a field no rule reads.
RuleContext == [facts         : SUBSET Signals,
                jurisdiction  : Jurisdictions,
                employees     : Nat,
                works_council : BOOLEAN]

\* Faulty: the federal threshold is applied in California too.
MatchesOneThreshold(c) ==
    [TERMINATION             |-> "termination" \in c.facts,
     HARASSMENT_ALLEGATION   |-> c.facts \cap {"harassment", "discrimination"} # {},
     WARN_TRIGGER_US         |-> c.employees >= 100 /\ c.jurisdiction = "US-FED",
     CALWARN_TRIGGER         |-> c.employees > 100 /\ c.jurisdiction = "US-CA",
     SEIRI_KAIKO_JP          |-> c.jurisdiction = "JP" /\ "mass layoff" \in c.facts,
     EU_COLLECTIVE_DISMISSAL |-> c.jurisdiction = "EU" /\ "collective" \in c.facts,
     UNION_DEMAND            |-> "union demand" \in c.facts,
     WORKS_COUNCIL           |-> c.works_council,
     PROTECTED_LEAVE         |-> "protected leave" \in c.facts,
     WHISTLEBLOWER           |-> "whistleblower" \in c.facts,
     DATA_BREACH_PII         |-> {"data breach", "employee"} \subseteq c.facts]

\* HARD_STOP_RULES: one predicate per rule.
Matches(c) ==
    [TERMINATION             |-> "termination" \in c.facts,
     HARASSMENT_ALLEGATION   |-> c.facts \cap {"harassment", "discrimination"} # {},
     WARN_TRIGGER_US         |-> c.employees >= 100 /\ c.jurisdiction = "US-FED",
     CALWARN_TRIGGER         |-> c.employees >= 50 /\ c.jurisdiction = "US-CA",
     SEIRI_KAIKO_JP          |-> c.jurisdiction = "JP" /\ "mass layoff" \in c.facts,
     EU_COLLECTIVE_DISMISSAL |-> c.jurisdiction = "EU" /\ "collective" \in c.facts,
     UNION_DEMAND            |-> "union demand" \in c.facts,
     WORKS_COUNCIL           |-> c.works_council,
     PROTECTED_LEAVE         |-> "protected leave" \in c.facts,
     WHISTLEBLOWER           |-> "whistleblower" \in c.facts,
     DATA_BREACH_PII         |-> {"data breach", "employee"} \subseteq c.facts]

LegalAgentRules == {"TERMINATION", "HARASSMENT_ALLEGATION", "SEIRI_KAIKO_JP", "UNION_DEMAND",
                    "EU_COLLECTIVE_DISMISSAL"}

\* The loop over the rules.  A predicate looks strings up and compares numbers of a typed
\* context, so none raises on one: the loop's except clause is never entered.
Triggered(c) == {r \in DOMAIN Matches(c) : Matches(c)[r]}

\* ERComplianceModule.check.
Check(c) ==
    LET t == Triggered(c)
    IN  [result    |-> IF t # {} THEN "HARD_STOP" ELSE "CLEAR",
         triggered |-> t,
         legal     |-> t \cap LegalAgentRules # {}]

\* The flags hard_stop_response puts on the answer.
HardStopFlags(verdict) ==
    verdict.triggered \cup (IF verdict.legal THEN {"LEGAL_AGENT_REQUIRED"} ELSE {})

----------------------------------------------------------------------------
(* Legal.                                                                  *)

Frameworks == Jurisdictions \ {"MULTI"}

\* _detect_multi: mentions is the set of jurisdictions whose tokens the question contains.
DetectMulti(jurisdiction, mentions) ==
    \/ jurisdiction = "MULTI"
    \/ Cardinality(mentions) >= 2

Route(jurisdiction, mentions) ==
    LET multi == DetectMulti(jurisdiction, mentions)
    IN  [supported |-> jurisdiction \in Frameworks /\ ~multi, multi |-> multi]

\* Faulty: the model's own confidence line wins over the router's verdict.
DeriveTrustsHint(ctx, hint) ==
    IF hint # "NONE" THEN hint ELSE IF ~ctx.supported \/ ctx.multi THEN "LOW" ELSE "MEDIUM"

\* _derive_confidence: the hint is the CONFIDENCE line of the answer, "NONE" without one.
DeriveConfidence(ctx, hint) ==
    IF ~ctx.supported \/ ctx.multi THEN "LOW"
    ELSE IF hint = "NONE" THEN "MEDIUM" ELSE hint

\* _parse_confidence_hint: the first match of the pattern, wherever the answer has it.
Hints == {"NONE", "HIGH", "MEDIUM", "LOW"}

----------------------------------------------------------------------------
(* Analytics, compensation.                                                *)

\* minimum_cohort_size of an agent that is built without one.
DefaultMinimumCohort == 10

\* The privacy floor, for the minimum the agent was built with.
Suppressed(cohort, minimum) == cohort < minimum

\* _BASE_BANDS_JPY, in thousands of yen.
BaseBands == [L1 |-> <<3000, 4500>>, L2 |-> <<4000, 6000>>, L3 |-> <<5500, 8000>>,
              L4 |-> <<7500, 11000>>, L5 |-> <<10000, 15000>>, L6 |-> <<14000, 21000>>]

\* str.upper over the spellings of a level.
Upper == [l1 |-> "L1", l2 |-> "L2", l3 |-> "L3", l4 |-> "L4", l5 |-> "L5", l6 |-> "L6"]
UpperOf(level) == IF level \in DOMAIN Upper THEN Upper[level] ELSE level

\* _JURISDICTION_CURRENCY: the factor, in ten-thousandths.
Factor == [j \in Jurisdictions |->
              CASE j = "JP" -> 10000 [] j = "US-CA" -> 75 [] j = "EU" -> 62
                [] j = "SG" -> 90 [] OTHER -> 67]

\* The band of a level, L3's for an unknown one, in units of the currency; every
\* product is a whole number, so the rounding never changes it.
Band(level, jurisdiction) ==
    LET band == IF level \in DOMAIN BaseBands THEN BaseBands[level] ELSE BaseBands["L3"]
    IN  [low |-> (band[1] * Factor[jurisdiction]) \div 10,
         high |-> (band[2] * Factor[jurisdiction]) \div 10]

\* Faulty: the level is looked up as written.
OfferRangeAsWritten(level, jurisdiction) == Band(level, jurisdiction)

\* compute_offer_range.
OfferRange(level, jurisdiction) == Band(UpperOf(level), jurisdiction)

----------------------------------------------------------------------------
(* What the decisions promise, for one question.                           *)

\* Case c, taken to California, is stopped there if the federal rules stop it.
CaliforniaStops(c) ==
    LET verdict(j) == Check([c EXCEPT !.jurisdiction = j])
    IN  verdict("US-FED").result = "HARD_STOP" => verdict("US-CA").result = "HARD_STOP"

\* An opinion on this question is more than LOW only inside one jurisdiction.
ConfidentInOne(jurisdiction, mentions, hint) ==
    DeriveConfidence(Route(jurisdiction, mentions), hint) # "LOW" =>
        jurisdiction # "MULTI" /\ \A i, j \in mentions : i = j

\* A level's range does not depend on its spelling, and the ranges rise with the levels.
RangesFollowLevels(level, jurisdiction) ==
    LET offer(l) == OfferRange(l, jurisdiction)
        levels == <<"L1", "L2", "L3", "L4", "L5", "L6">>
    IN  /\ offer(level) = offer(UpperOf(level))
        /\ \A i \in 1..5 : /\ offer(levels[i]).low < offer(levels[i + 1]).low
                           /\ offer(levels[i]).high < offer(levels[i + 1]).high
                           /\ offer(levels[i]).low < offer(levels[i]).high
=============================================================================
