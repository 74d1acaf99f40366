---------------------------- MODULE AtLeastOnce -----------------------------
(***************************************************************************)
(* What a queue adapter promises its consumers: a published message stays  *)
(* with the broker until a consumer has handled it.                        *)
(***************************************************************************)
CONSTANT Messages

VARIABLES pending,        \* published and not yet removed
          done            \* handled by some consumer at least once

deliveryVars == <<pending, done>>

Init == pending = {} /\ done = {}

Publish(m) == /\ pending' = pending \cup {m}
              /\ UNCHANGED done

Finish(m) == /\ done' = done \cup {m}
             /\ UNCHANGED pending

Remove(m) == /\ m \in pending \cap done
             /\ pending' = pending \ {m}
             /\ UNCHANGED done

Next == \E m \in Messages : Publish(m) \/ Finish(m) \/ Remove(m)

Spec == Init /\ [][Next]_deliveryVars
=============================================================================
