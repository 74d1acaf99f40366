-------------------------- MODULE MCAgentHandling ---------------------------
(***************************************************************************)
(* Instances of AgentHandling: the requests, one or two for every branch   *)
(* an agent takes.                                                         *)
(***************************************************************************)
EXTENDS AgentHandling

Calm == [facts |-> {}, jurisdiction |-> "JP", employees |-> 0, works_council |-> FALSE]

\* A request to an agent that nothing special is known of.
Plain(agent) == [agent |-> agent, pii |-> FALSE, valid |-> TRUE, er |-> Calm,
                 jurisdiction |-> "JP", mentions |-> {}, cohort |-> 10,
                 text |-> {"training"}]

MCRequests ==
    {Plain(agent) : agent \in Agents}
      \cup {[Plain(agent) EXCEPT !.valid = FALSE] : agent \in {"CB", "ER"}}
      \cup {[Plain("ER") EXCEPT !.pii = TRUE],
            [Plain("ER") EXCEPT !.er.facts = {"termination"}],
            [Plain("ER") EXCEPT !.er.employees = 100, !.er.jurisdiction = "US-FED"],
            [Plain("LEGAL") EXCEPT !.mentions = {"JP", "EU"}],
            [Plain("ANALYTICS") EXCEPT !.cohort = 9],
            [Plain("ANALYTICS") EXCEPT !.cohort = 15],
            [Plain("HRBP") EXCEPT !.text = {}]}
=============================================================================
