--------------------------- MODULE HandlingTrail ----------------------------
(***************************************************************************)
(* What the audit trail shows of the runs that handle a request: a run is  *)
(* refused, or admitted before anything it notes; it is concluded once,    *)
(* and nothing follows its conclusion.                                     *)
(***************************************************************************)
CONSTANTS Runs, Notes

VARIABLE trail            \* set of <<run, event>>

Conclusions == {"RESPONSE_GENERATED", "PROCESSING_ERROR"}

Events(r) == {e[2] : e \in {t \in trail : t[1] = r}}

Init == trail = {}

Refuse(r) == /\ Events(r) = {}
             /\ trail' = trail \cup {<<r, "PII_BOUNDARY_VIOLATION">>}

Admit(r) == /\ Events(r) = {}
            /\ trail' = trail \cup {<<r, "REQUEST_RECEIVED">>}

Open(r) == /\ "REQUEST_RECEIVED" \in Events(r)
           /\ Events(r) \cap Conclusions = {}

Note(r) == /\ Open(r)
           /\ \E e \in Notes : trail' = trail \cup {<<r, e>>}

Conclude(r) == /\ Open(r)
               /\ \E e \in Conclusions : trail' = trail \cup {<<r, e>>}

Next == \E r \in Runs : Refuse(r) \/ Admit(r) \/ Note(r) \/ Conclude(r)

Spec == Init /\ [][Next]_trail
=============================================================================
