----------------------------- MODULE PIIGateway -----------------------------
(***************************************************************************)
(* The PII gateway: anonymised refs for employees and Zone 2 contexts for  *)
(* refs.  Every process has a vault of its own, in memory, and all derive  *)
(* refs from the same salt.                                                *)
(*                                                                         *)
(* Abstractions.  A ref is its salt and its employee (the digest is taken  *)
(* to be injective).  A record is the facts the context is built from; its *)
(* department is "plain", or a text the detector would object to.          *)
(***************************************************************************)
EXTENDS Naturals, FiniteSets

CONSTANTS Gateways,       \* the processes, each with a PIIGateway of its own
          Employees,      \* the ids the HRIS connector knows
          Strangers,      \* ids it does not know
          Record          \* employee -> [manager, department, days, age, salary, currency]

Ids == Employees \cup Strangers

----------------------------------------------------------------------------
(* The bands.                                                              *)

\* _tenure_band: the year has 365.25 days, so the comparison is with 1461 quarter days.
TenureBand(days) ==
    CASE 4 * days < 1461      -> 1
      [] 4 * days < 3 * 1461  -> 2
      [] 4 * days < 5 * 1461  -> 3
      [] 4 * days < 10 * 1461 -> 4
      [] OTHER                -> 5

\* Faulty: the age is rounded to the nearest decade.
AgeBandRounded(days) ==
    LET decade == (((4 * days) \div 1461 + 5) \div 10) * 10
    IN  IF decade < 20 THEN 20 ELSE decade

\* _age_band: the first age of the decade, 20 at least.
AgeBand(days) ==
    LET decade == (((4 * days) \div 1461) \div 10) * 10
    IN  IF decade < 20 THEN 20 ELSE decade

\* The band of an age of so many completed years, with the leap days among them, and
\* days since the birthday.
AgeBandHolds(years, leap, since) ==
    LET band == AgeBand(365 * years + years \div 4 + leap + since)
    IN  years \in band..(band + 9) \/ (years < 20 /\ band = 20)

\* _pay_band: salary in thousands.
PayBand(salary, currency) ==
    LET factor == CASE currency = "USD" -> 150 [] currency = "EUR" -> 160
                    [] currency = "SGD" -> 110 [] OTHER -> 1
    IN  Cardinality({e \in {4000, 6000, 8000, 11000, 15000} : salary * factor >= e})

----------------------------------------------------------------------------
VARIABLES vault,          \* per process: ref -> employee, as a set of pairs
          issued,         \* every ref handed out: <<employee, ref>>
          contexts        \* contexts handed out, each with its employee

gatewayVars == <<vault, issued, contexts>>

GatewayInit ==
    /\ vault = [p \in Gateways |-> {}]
    /\ issued = {} /\ contexts = {}

\* _ref_for.
RefFor(e) == [salt |-> "PII_GATEWAY_SALT", employee |-> e]

Refs == {RefFor(e) : e \in Ids}

\* tokenize takes any id; it does not ask the connector.
Tokenize(p, e) ==
    /\ vault' = [vault EXCEPT ![p] = @ \cup {<<RefFor(e), e>>}]
    /\ issued' = issued \cup {<<e, RefFor(e)>>}
    /\ UNCHANGED contexts

\* seed_from_connector.
Seed(p) ==
    /\ vault' = [vault EXCEPT ![p] = @ \cup {<<RefFor(e), e>> : e \in Employees}]
    /\ issued' = issued \cup {<<e, RefFor(e)>> : e \in Employees}
    /\ UNCHANGED contexts

\* _sanitize: neither the id nor a Zone 1 field is in the context.
Sanitize(ref, e) ==
    [ref        |-> ref,
     department |-> Record[e].department,
     tenure     |-> TenureBand(Record[e].days),
     age        |-> AgeBand(Record[e].age),
     pay        |-> PayBand(Record[e].salary, Record[e].currency),
     manager    |-> IF Record[e].manager = "nobody" THEN "nobody"
                    ELSE RefFor(Record[e].manager)]

\* Faulty: the context is returned as it was built.
ResolveUnscanned(p, ref) ==
    \E e \in Employees :
        /\ <<ref, e>> \in vault[p]
        /\ contexts' = contexts \cup {[of |-> e, context |-> Sanitize(ref, e)]}
        /\ UNCHANGED <<vault, issued>>

\* resolve.  A ref this process has not issued, an employee the connector does not know
\* and a context the safety net objects to raise, and change nothing.
Resolve(p, ref) ==
    \E e \in Employees :
        /\ <<ref, e>> \in vault[p]
        /\ Sanitize(ref, e).department = "plain"
        /\ contexts' = contexts \cup {[of |-> e, context |-> Sanitize(ref, e)]}
        /\ UNCHANGED <<vault, issued>>

\* The vault is gone with its process.
GatewayRestart(p) ==
    /\ vault' = [vault EXCEPT ![p] = {}]
    /\ UNCHANGED <<issued, contexts>>

GatewayNext == \E p \in Gateways :
            \/ \E e \in Ids : Tokenize(p, e)
            \/ Seed(p)
            \/ \E ref \in Refs : Resolve(p, ref)
            \/ GatewayRestart(p)

GatewaySpec == GatewayInit /\ [][GatewayNext]_gatewayVars

----------------------------------------------------------------------------
\* A context is of the employee its ref was issued for, and none that the detector would
\* object to leaves the gateway (gateway.py:126).
ContextsAreClean ==
    \A c \in contexts : /\ <<c.of, c.context.ref>> \in issued
                        /\ c.context.department = "plain"
=============================================================================
