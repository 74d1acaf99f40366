------------------------------ MODULE PIIScan -------------------------------
(***************************************************************************)
(* PIIDetector.scan over one payload.                                      *)
(*                                                                         *)
(* Abstractions.  A payload is a tree of nodes 1..n, a parent before its   *)
(* children, node 1 the root: what kind of value a node is, what class its *)
(* key falls into after normalisation (for a member of a dict), and        *)
(* whether its text matches one of the value patterns.  A finding is its   *)
(* place and its category; the text itself is in no finding.               *)
(***************************************************************************)
EXTENDS Naturals, FiniteSets

Kinds == {"dict", "list", "text", "other"}
\* DEFAULT_EXEMPT_KEYS, PII_FIELD_NAMES and every other name.
KeyClasses == {"exempt", "field", "plain"}
Nodes == [parent : Nat, kind : Kinds, key : KeyClasses, pattern : BOOLEAN]

Root == 1

\* Only containers have children, only a member of a dict has a key of its own, only a
\* text can match.
WellFormed(t) ==
    \A i \in DOMAIN t :
        /\ IF i = Root THEN t[i].parent = 0 /\ t[i].kind = "dict"
           ELSE t[i].parent \in 1..(i - 1) /\ t[t[i].parent].kind \in {"dict", "list"}
        /\ (i = Root \/ t[t[i].parent].kind = "list") => t[i].key = "plain"
        /\ t[i].pattern => t[i].kind = "text"

InDict(t, i) == i # Root /\ t[t[i].parent].kind = "dict"

\* Faulty: a list is not descended into.
WalkedSkipsLists(t) ==
    LET walked[i \in DOMAIN t] ==
          i = Root \/ (/\ walked[t[i].parent]
                       /\ InDict(t, i) /\ t[i].key # "exempt")
    IN  walked

\* _walk reaches a member of a dict unless its key is exempt, and every item of a list.
Walked(t) ==
    LET walked[i \in DOMAIN t] ==
          i = Root \/ (/\ walked[t[i].parent]
                       /\ InDict(t, i) => t[i].key # "exempt")
    IN  walked

\* The key a text is judged by: a list hands its own key to its items.
InheritedKey(t) ==
    LET key[i \in DOMAIN t] ==
          IF i = Root THEN "plain" ELSE IF InDict(t, i) THEN t[i].key ELSE key[t[i].parent]
    IN  key

\* scan, the findings.
Findings(t) ==
    {<<i, "FIELD_NAME">> : i \in {j \in DOMAIN t :
        InDict(t, j) /\ Walked(t)[j] /\ t[j].key = "field"}}
      \cup
    {<<i, "VALUE">> : i \in {j \in DOMAIN t :
        Walked(t)[j] /\ t[j].kind = "text" /\ t[j].pattern /\ InheritedKey(t)[j] # "exempt"}}

Detected(t) == Findings(t) # {}

\* Reference: the nodes on the way from the root to i.
Path(t, i) ==
    LET up[j \in DOMAIN t] == IF j = Root THEN {Root} ELSE {j} \cup up[t[j].parent]
    IN  up[i]

Excused(t, i) == \E j \in Path(t, i) : InDict(t, j) /\ t[j].key = "exempt"

\* What the module says is found: a Zone 1 field name anywhere, and a value that matches
\* unless an exempt key excuses it; such keys are exempt from value scanning only.
Expected(t) ==
    {<<i, "FIELD_NAME">> : i \in {j \in DOMAIN t : InDict(t, j) /\ t[j].key = "field"}}
      \cup
    {<<i, "VALUE">> : i \in {j \in DOMAIN t : t[j].pattern /\ ~Excused(t, j)}}

\* What of it lies below an exempt key: field names, for no value is expected there.
Overlooked(t) == {x \in Expected(t) : Excused(t, x[1])}
=============================================================================
