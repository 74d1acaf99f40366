--------------------------- MODULE MCHITLService ---------------------------
(***************************************************************************)
(* Instances of HITLService for TLC: which bodies exist, which message     *)
(* carries which body to which request.                                    *)
(***************************************************************************)
EXTENDS HITLProperties, TLC

CONSTANTS hard, soft, legal, unclear, pii, broken,   \* bodies
          r1, m1, m2, w1, w2, a1, a2

MCPayloads == {hard, soft, legal, unclear, pii, broken}
MCPlansOf ==
    [p \in MCPayloads |->
        CASE p \in {hard, soft} -> {<<"ER", "LEGAL">>}
          [] p = legal -> {<<"LEGAL">>}
          [] p = unclear -> {<<"HRBP">>, <<"TA">>}
          [] OTHER -> {<<"CB">>}]

AllToR1 == [m \in Messages |-> r1]

RaceBodies == [m \in Messages |-> {hard, legal}]
ReuseBodies == [m \in Messages |-> {hard, soft, pii}]
LiveBodies == [m \in Messages |-> {hard, legal, unclear, broken, None}]
OnlyLegal == [m \in Messages |-> {legal}]
OnlyPII == [m \in Messages |-> {pii}]

OneProcess == {Actors}
WorkerAndAPI == {{w1}, Approvers}
=============================================================================
