----------------------------- MODULE HumanGate -----------------------------
(***************************************************************************)
(* What the HITL gate promises about a request that must not be finished   *)
(* without a human (graph.py: er_compliance, hitl_gate, finalize;          *)
(* api.py: approve): the designated approver hears of it before it is      *)
(* parked, and it is completed only after it was parked and approved.      *)
(* How messages, workers, runs and checkpoints bring this about is left to *)
(* HITLService, which implements this specification.                       *)
(***************************************************************************)
CONSTANT Requests

VARIABLES
    obliged,     \* requests under the promise
    informed,    \* requests whose approver was notified
    parked,      \* requests for which a pending approval was logged
    approved,    \* requests for which somebody posted an approval
    completed    \* requests whose workflow was logged as completed

gateVars == <<obliged, informed, parked, approved, completed>>

Init ==
    /\ obliged = Requests
    /\ informed = {} /\ parked = {} /\ approved = {} /\ completed = {}

\* Another body arrives under the request's id: the promise no longer concerns it.
Release(r) ==
    /\ obliged' = obliged \ {r}
    /\ UNCHANGED <<informed, parked, approved, completed>>

Inform(r) ==
    /\ informed' = informed \cup {r}
    /\ UNCHANGED <<obliged, parked, approved, completed>>

Park(r) ==
    /\ r \in obliged => r \in informed
    /\ parked' = parked \cup {r}
    /\ UNCHANGED <<obliged, informed, approved, completed>>

Approve(r) ==
    /\ approved' = approved \cup {r}
    /\ UNCHANGED <<obliged, informed, parked, completed>>

Complete(r) ==
    /\ r \in obliged => r \in informed \cap parked \cap approved
    /\ completed' = completed \cup {r}
    /\ UNCHANGED <<obliged, informed, parked, approved>>

Next == \E r \in Requests :
            Release(r) \/ Inform(r) \/ Park(r) \/ Approve(r) \/ Complete(r)

Spec == Init /\ [][Next]_gateVars
=============================================================================
