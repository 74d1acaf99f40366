---------------------------- MODULE RoutingQueue ----------------------------
(***************************************************************************)
(* The Director's RoutingQueue: a heap of (rank, insertion number,         *)
(* decision).  No run of the service uses it yet; it is the ordering that  *)
(* the Director's documentation promises for routed work.                  *)
(*                                                                         *)
(* The heap is the set of its entries: heapq hands out a least one, and    *)
(* the insertion numbers make the least one unique.                        *)
(***************************************************************************)
EXTENDS Naturals, Sequences, FiniteSets

CONSTANTS Decisions,      \* the routing decisions
          Ranks,          \* the values of _PRIORITY_RANK
          RankOf(_),      \* the rank of a decision's priority
          MaxEnqueued     \* bound: how many decisions are enqueued

VARIABLES heap,           \* set of [rank, seq, decision]
          counter,        \* itertools.count
          served          \* the decisions dequeued, in order

queueVars == <<heap, counter, served>>

Init == heap = {} /\ counter = 0 /\ served = <<>>

\* The order of the heap's tuples.
Before(x, y) == x.rank < y.rank \/ (x.rank = y.rank /\ x.seq < y.seq)

\* Faulty: the length of the heap numbers the entries.
EnqueueByLength(d) ==
    /\ counter < MaxEnqueued
    /\ heap' = heap \cup {[rank |-> RankOf(d), seq |-> Cardinality(heap), decision |-> d]}
    /\ counter' = counter + 1
    /\ UNCHANGED served

\* enqueue.
Enqueue(d) ==
    /\ counter < MaxEnqueued
    /\ heap' = heap \cup {[rank |-> RankOf(d), seq |-> counter, decision |-> d]}
    /\ counter' = counter + 1
    /\ UNCHANGED served

\* dequeue; on an empty heap it answers None and changes nothing.
Dequeue(x) ==
    /\ x \in heap
    /\ \A y \in heap : ~Before(y, x)
    /\ heap' = heap \ {x}
    /\ served' = Append(served, x.decision)
    /\ UNCHANGED counter

Next == (\E d \in Decisions : Enqueue(d)) \/ (\E x \in heap : Dequeue(x))

Spec == Init /\ [][Next]_queueVars

\* The entry of heap h with rank r and number k, as a set of at most one.
Numbered(h, r, k) == {x \in h : x.rank = r /\ x.seq = k}

\* The decisions of rank r among the first n numbers, oldest first.
OldestFirst(h, r, n) ==
    LET upTo[k \in 0..n] ==
          IF k = 0 THEN <<>>
          ELSE IF Numbered(h, r, k - 1) = {} THEN upTo[k - 1]
          ELSE Append(upTo[k - 1], (CHOOSE x \in Numbered(h, r, k - 1) : TRUE).decision)
    IN  upTo[n]

\* What waits with rank r, oldest first.
Waiting(r) == OldestFirst(heap, r, counter)

Bands == INSTANCE PriorityBands
            WITH Bands <- Ranks, Items <- Decisions, BandOf <- RankOf,
                 band <- [r \in Ranks |-> Waiting(r)]

\* The heap serves as the bands do: CRITICAL first, first in first out inside a band,
\* whatever the interleaving of enqueue and dequeue (router.py:186).
ServesLikeBands == Bands!Spec
=============================================================================
