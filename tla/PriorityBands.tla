--------------------------- MODULE PriorityBands ----------------------------
(***************************************************************************)
(* What the RoutingQueue promises: one first-in first-out band for each    *)
(* priority, and the most urgent band that holds work is served first.     *)
(***************************************************************************)
EXTENDS Naturals, Sequences

CONSTANTS Bands,          \* 1..n, the most urgent first
          Items,
          BandOf(_)       \* the band of an item

VARIABLES band,           \* what waits in each band
          served          \* what was handed out, in order

bandVars == <<band, served>>

Init == /\ band = [b \in Bands |-> <<>>]
        /\ served = <<>>

Arrive(i) == /\ band' = [band EXCEPT ![BandOf(i)] = Append(@, i)]
             /\ UNCHANGED served

Serve(b) == /\ band[b] # <<>>
            /\ \A c \in Bands : c < b => band[c] = <<>>
            /\ band' = [band EXCEPT ![b] = Tail(@)]
            /\ served' = Append(served, Head(band[b]))

Next == (\E i \in Items : Arrive(i)) \/ (\E b \in Bands : Serve(b))

Spec == Init /\ [][Next]_bandVars
=============================================================================
