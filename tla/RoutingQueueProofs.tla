------------------------- MODULE RoutingQueueProofs -------------------------
(***************************************************************************)
(* The RoutingQueue serves as the priority bands do, for every number of   *)
(* decisions and of priorities.                                            *)
(*                                                                         *)
(* The refinement rests on the insertion numbers: no two entries have the  *)
(* same, and all are below the counter, so what is enqueued goes behind    *)
(* everything of its band and the least entry is the head of its band.     *)
(***************************************************************************)
EXTENDS RoutingQueue, NaturalsInduction, WellFoundedInduction, TLAPS

\* _PRIORITY_RANK gives each priority a number.
RanksGiven == Ranks \subseteq Nat /\ \A d \in Decisions : RankOf(d) \in Ranks

HeapInv ==
    /\ counter \in Nat
    /\ heap \subseteq [rank : Ranks, seq : Nat, decision : Decisions]
    /\ \A x \in heap : x.seq < counter
    /\ \A x, y \in heap : x.seq = y.seq => x = y

----------------------------------------------------------------------------
(* OldestFirst.                                                            *)

LEMMA SetInduction ==
    ASSUME NEW T \in SUBSET Nat, 0 \in T, \A n \in T : n + 1 \in T
    PROVE  \A n \in Nat : n \in T
  <1>1. SUFFICES ASSUME Nat \ T # {} PROVE FALSE
    OBVIOUS
  <1>2. PICK m \in Nat \ T : \A k \in Nat \ T : <<k, m>> \notin OpToRel(<, Nat)
    <2>1. Nat \ T \subseteq Nat
      OBVIOUS
    <2>2. QED
      BY <1>1, <2>1, NatLessThanWellFounded, WFMin
  <1>3. m \in Nat /\ m \notin T /\ m # 0
    OBVIOUS
  <1>4. m - 1 \in Nat /\ m - 1 < m /\ (m - 1) + 1 = m
    BY <1>3
  <1>5. m - 1 \notin T
    BY <1>3, <1>4
  <1>6. <<m - 1, m>> \in OpToRel(<, Nat)
    BY <1>3, <1>4 DEF OpToRel
  <1>7. QED
    BY <1>2, <1>4, <1>5, <1>6

\* One more number.
Longer(h, r, k, q) ==
    IF Numbered(h, r, k) = {} THEN q
    ELSE Append(q, (CHOOSE x \in Numbered(h, r, k) : TRUE).decision)

\* f is the sequences of the first 0, 1, ... n numbers.
UpTo(h, r, n, f) == f = [k \in 0..n |-> IF k = 0 THEN <<>> ELSE Longer(h, r, k - 1, f[k - 1])]

LEMMA UpToExists == \A h, r : \A n \in Nat : \E f : UpTo(h, r, n, f)
  <1> TAKE h, r
  <1> DEFINE T == {n \in Nat : \E f : UpTo(h, r, n, f)}
  <1>1. 0 \in T
    <2>1. UpTo(h, r, 0, [k \in 0..0 |-> <<>>])
      BY DEF UpTo
    <2>2. QED
      BY <2>1
  <1>2. ASSUME NEW n \in T PROVE n + 1 \in T
    <2>1. PICK f : UpTo(h, r, n, f)
      OBVIOUS
    <2> DEFINE g == [k \in 0..(n + 1) |-> IF k <= n THEN f[k] ELSE Longer(h, r, n, f[n])]
    <2>2. ASSUME NEW k \in 0..(n + 1)
          PROVE  g[k] = IF k = 0 THEN <<>> ELSE Longer(h, r, k - 1, g[k - 1])
      <3>1. CASE k <= n
        <4>1. k \in 0..n /\ g[k] = f[k] /\ (k # 0 => g[k - 1] = f[k - 1])
          BY <3>1
        <4>2. f[k] = IF k = 0 THEN <<>> ELSE Longer(h, r, k - 1, f[k - 1])
          BY <2>1, <4>1 DEF UpTo
        <4>3. QED
          BY <4>1, <4>2
      <3>2. CASE k = n + 1
        BY <3>2
      <3>3. QED
        BY <3>1, <3>2
    <2>3. UpTo(h, r, n + 1, g)
      BY <2>2 DEF UpTo
    <2>4. QED
      BY <2>3
  <1>3. \A n \in Nat : n \in T
    <2>1. T \in SUBSET Nat
      OBVIOUS
    <2> HIDE DEF T
    <2>2. QED
      BY <1>1, <1>2, <2>1, SetInduction
  <1>4. QED
    BY <1>3

\* What the shorter says of a number, the longer says too.
LEMMA UpToAgree ==
    ASSUME NEW h, NEW r, NEW n \in Nat, NEW m \in Nat, n <= m,
           NEW f, NEW g, UpTo(h, r, n, f), UpTo(h, r, m, g)
    PROVE  \A k \in 0..n : f[k] = g[k]
  <1> DEFINE T == {k \in Nat : k <= n => f[k] = g[k]}
  <1>1. \A k \in 0..n : /\ f[k] = IF k = 0 THEN <<>> ELSE Longer(h, r, k - 1, f[k - 1])
                        /\ g[k] = IF k = 0 THEN <<>> ELSE Longer(h, r, k - 1, g[k - 1])
    BY DEF UpTo
  <1>2. 0 \in T
    BY <1>1
  <1>3. \A k \in T : k + 1 \in T
    BY <1>1
  <1>4. \A k \in Nat : k \in T
    <2>1. T \in SUBSET Nat
      OBVIOUS
    <2> HIDE DEF T
    <2>2. QED
      BY <1>2, <1>3, <2>1, SetInduction
  <1>5. QED
    BY <1>4

LEMMA OldestFirstSteps ==
    ASSUME NEW h, NEW r, NEW n \in Nat
    PROVE  /\ OldestFirst(h, r, 0) = <<>>
           /\ OldestFirst(h, r, n + 1) = Longer(h, r, n, OldestFirst(h, r, n))
  <1> DEFINE F(m) == CHOOSE f : UpTo(h, r, m, f)
  <1>1. \A m \in Nat : UpTo(h, r, m, F(m))
    BY UpToExists
  <1>2. \A m \in Nat : OldestFirst(h, r, m) = F(m)[m]
    BY DEF OldestFirst, UpTo, Longer
  <1> HIDE DEF F
  <1>3. F(0)[0] = <<>>
    BY <1>1 DEF UpTo
  <1>4. F(n + 1)[n + 1] = Longer(h, r, n, F(n + 1)[n])
    <2>1. n + 1 \in Nat /\ n + 1 \in 0..(n + 1) /\ (n + 1) - 1 = n /\ n + 1 # 0
      OBVIOUS
    <2>2. QED
      BY <1>1, <2>1 DEF UpTo
  <1>5. F(n)[n] = F(n + 1)[n]
    <2>1. n + 1 \in Nat /\ n <= n + 1 /\ n \in 0..n
      OBVIOUS
    <2>2. QED
      BY <1>1, <2>1, UpToAgree
  <1>6. QED
    BY <1>2, <1>3, <1>4, <1>5

\* An entry that is not among the numbers looked at makes no difference.
LEMMA OldestFirstFrame ==
    ASSUME NEW h, NEW g, NEW r, NEW n \in Nat,
           \A k \in 0..(n - 1) : Numbered(h, r, k) = Numbered(g, r, k)
    PROVE  OldestFirst(h, r, n) = OldestFirst(g, r, n)
  <1> DEFINE T == {k \in Nat : k <= n => OldestFirst(h, r, k) = OldestFirst(g, r, k)}
  <1>1. 0 \in T
    BY OldestFirstSteps
  <1>2. ASSUME NEW k \in T PROVE k + 1 \in T
    <2>1. SUFFICES ASSUME k + 1 <= n PROVE OldestFirst(h, r, k + 1) = OldestFirst(g, r, k + 1)
      OBVIOUS
    <2>2. k \in Nat /\ OldestFirst(h, r, k) = OldestFirst(g, r, k)
      BY <2>1
    <2>3. k \in 0..(n - 1)
      BY <2>1, <2>2
    <2>4. Numbered(h, r, k) = Numbered(g, r, k)
      BY <2>3
    <2>5. /\ OldestFirst(h, r, k + 1) = Longer(h, r, k, OldestFirst(h, r, k))
          /\ OldestFirst(g, r, k + 1) = Longer(g, r, k, OldestFirst(g, r, k))
      BY <2>2, OldestFirstSteps
    <2>6. QED
      BY <2>2, <2>4, <2>5 DEF Longer
  <1>3. n \in T
    <2>1. T \in SUBSET Nat
      OBVIOUS
    <2> HIDE DEF T
    <2>2. QED
      BY <1>1, <1>2, <2>1, SetInduction
  <1>4. QED
    BY <1>3

LEMMA NothingNumbered ==
    ASSUME NEW h, NEW r, NEW n \in Nat, \A k \in 0..(n - 1) : Numbered(h, r, k) = {}
    PROVE  OldestFirst(h, r, n) = <<>>
  <1> DEFINE T == {k \in Nat : k <= n => OldestFirst(h, r, k) = <<>>}
  <1>1. 0 \in T
    BY OldestFirstSteps
  <1>2. ASSUME NEW k \in T PROVE k + 1 \in T
    <2>1. SUFFICES ASSUME k + 1 <= n PROVE OldestFirst(h, r, k + 1) = <<>>
      OBVIOUS
    <2>2. k \in Nat /\ OldestFirst(h, r, k) = <<>> /\ k \in 0..(n - 1)
      BY <2>1
    <2>3. OldestFirst(h, r, k + 1) = Longer(h, r, k, OldestFirst(h, r, k))
      BY <2>2, OldestFirstSteps
    <2>4. QED
      BY <2>2, <2>3 DEF Longer
  <1>3. n \in T
    <2>1. T \in SUBSET Nat
      OBVIOUS
    <2> HIDE DEF T
    <2>2. QED
      BY <1>1, <1>2, <2>1, SetInduction
  <1>4. QED
    BY <1>3

LEMMA OldestFirstType ==
    ASSUME NEW h, \A x \in h : x.decision \in Decisions, NEW r, NEW n \in Nat
    PROVE  OldestFirst(h, r, n) \in Seq(Decisions)
  <1> DEFINE T == {k \in Nat : OldestFirst(h, r, k) \in Seq(Decisions)}
  <1>1. 0 \in T
    <2>1. OldestFirst(h, r, 0) = <<>> /\ <<>> \in Seq(Decisions) /\ 0 \in Nat
      BY OldestFirstSteps
    <2>2. QED
      BY <2>1
  <1>2. ASSUME NEW k \in T PROVE k + 1 \in T
    <2>1. OldestFirst(h, r, k + 1) = Longer(h, r, k, OldestFirst(h, r, k))
      BY OldestFirstSteps
    <2>2. PICK q \in Seq(Decisions) : q = OldestFirst(h, r, k)
      OBVIOUS
    <2>3. Numbered(h, r, k) # {} =>
              (CHOOSE x \in Numbered(h, r, k) : TRUE).decision \in Decisions
      BY DEF Numbered
    <2>4. Longer(h, r, k, q) \in Seq(Decisions)
      BY <2>3 DEF Longer
    <2>5. QED
      BY <2>1, <2>2, <2>4
  <1>3. n \in T
    <2>1. T \in SUBSET Nat
      OBVIOUS
    <2> HIDE DEF T
    <2>2. QED
      BY <1>1, <1>2, <2>1, SetInduction
  <1>4. QED
    BY <1>3

LEMMA AppendToMore ==
    ASSUME NEW q \in Seq(Decisions), q # <<>>, NEW d \in Decisions
    PROVE  /\ Append(q, d) # <<>> /\ Head(Append(q, d)) = Head(q)
           /\ Tail(Append(q, d)) = Append(Tail(q), d)
  <1>1. Len(q) \in Nat /\ Len(q) > 0
    OBVIOUS
  <1>2. Len(Tail(Append(q, d))) = Len(q) /\ Len(Append(Tail(q), d)) = Len(q)
    BY <1>1
  <1>3. \A i \in 1..Len(q) : Tail(Append(q, d))[i] = Append(Tail(q), d)[i]
    BY <1>1
  <1>4. Tail(Append(q, d)) \in Seq(Decisions) /\ Append(Tail(q), d) \in Seq(Decisions)
    BY <1>1
  <1>5. Tail(Append(q, d)) = Append(Tail(q), d)
    BY <1>2, <1>3, <1>4
  <1>6. QED
    BY <1>1, <1>5

\* Without its oldest entry of rank r the heap has the tail of what waits with rank r.
LEMMA OldestRemoved ==
    ASSUME NEW h, \A y \in h : y.decision \in Decisions /\ y.seq \in Nat,
           NEW x \in h, \A y \in h : y.seq = x.seq => y = x,
           \A y \in h : y.rank = x.rank => x.seq <= y.seq,
           NEW n \in Nat, x.seq < n
    PROVE  LET q == OldestFirst(h, x.rank, n)
           IN  q # <<>> /\ Head(q) = x.decision /\ OldestFirst(h \ {x}, x.rank, n) = Tail(q)
  <1> DEFINE r == x.rank
             s == x.seq
             g == h \ {x}
             Q(k) == OldestFirst(h, r, k)
             R(k) == OldestFirst(g, r, k)
             Goal(k) == Q(k) # <<>> /\ Head(Q(k)) = x.decision /\ R(k) = Tail(Q(k))
             T == {m \in Nat : Goal(s + 1 + m)}
  <1>1. s \in Nat
    OBVIOUS
  <1>2. \A k \in 0..(s - 1) : Numbered(h, r, k) = {} /\ Numbered(g, r, k) = {}
    BY <1>1 DEF Numbered
  <1>3. Numbered(h, r, s) = {x} /\ Numbered(g, r, s) = {}
    BY DEF Numbered
  <1>4. \A k : k # s => Numbered(h, r, k) = Numbered(g, r, k)
    BY DEF Numbered
  <1>5. \A k \in Nat : Q(k) \in Seq(Decisions) /\ R(k) \in Seq(Decisions)
    <2>1. \A y \in g : y.decision \in Decisions
      OBVIOUS
    <2>2. QED
      BY <2>1, OldestFirstType
  <1>6. /\ \A k \in Nat : Q(k + 1) = Longer(h, r, k, Q(k))
        /\ \A k \in Nat : R(k + 1) = Longer(g, r, k, R(k))
    BY OldestFirstSteps
  <1>7. Q(s) = <<>> /\ R(s) = <<>>
    BY <1>1, <1>2, NothingNumbered
  <1> HIDE DEF Q, R
  <1>8. Q(s + 1) = <<x.decision>> /\ R(s + 1) = <<>>
    <2>1. Q(s + 1) = Longer(h, r, s, <<>>) /\ R(s + 1) = Longer(g, r, s, <<>>)
      BY <1>1, <1>6, <1>7
    <2>2. Longer(h, r, s, <<>>) = Append(<<>>, x.decision)
      BY <1>3 DEF Longer
    <2>3. Longer(g, r, s, <<>>) = <<>>
      BY <1>3 DEF Longer
    <2>4. Append(<<>>, x.decision) = <<x.decision>>
      OBVIOUS
    <2>5. QED
      BY <2>1, <2>2, <2>3, <2>4
  <1>9. 0 \in T
    <2>1. s + 1 + 0 = s + 1 /\ 0 \in Nat
      BY <1>1
    <2>2. \A q, e : q = <<e>> => q # <<>> /\ Head(q) = e /\ Tail(q) = <<>>
      OBVIOUS
    <2>3. Goal(s + 1)
      BY <1>8, <2>2
    <2> HIDE DEF Goal
    <2>4. QED
      BY <2>1, <2>3
  <1>10. ASSUME NEW m \in T PROVE m + 1 \in T
    <2>1. m \in Nat /\ Goal(s + 1 + m)
      OBVIOUS
    <2>2. PICK k \in Nat : k = s + 1 + m /\ k # s /\ s + 1 + (m + 1) = k + 1
      BY <1>1, <2>1
    <2>3. Numbered(h, r, k) = Numbered(g, r, k)
      BY <1>4, <2>2
    <2>4. CASE Numbered(h, r, k) = {}
      <3>1. Q(k + 1) = Q(k) /\ R(k + 1) = R(k)
        BY <1>6, <2>3, <2>4 DEF Longer
      <3>2. QED
        BY SMTT(30), <2>1, <2>2, <3>1
    <2>5. CASE Numbered(h, r, k) # {}
      <3> DEFINE d == (CHOOSE y \in Numbered(h, r, k) : TRUE).decision
      <3>1. d \in Decisions
        BY <2>5 DEF Numbered
      <3>2. Q(k + 1) = Append(Q(k), d) /\ R(k + 1) = Append(R(k), d)
        BY <1>6, <2>3, <2>5 DEF Longer
      <3> HIDE DEF d
      <3>3. Q(k) \in Seq(Decisions) /\ Q(k) # <<>> /\ Head(Q(k)) = x.decision /\ R(k) = Tail(Q(k))
        BY <1>5, <2>1, <2>2
      <3>4. Goal(k + 1)
        BY <3>1, <3>2, <3>3, AppendToMore
      <3> HIDE DEF Goal
      <3>5. QED
        BY <2>1, <2>2, <3>4
    <2>6. QED
      BY <2>4, <2>5
  <1>11. \A m \in Nat : m \in T
    <2>1. T \in SUBSET Nat
      OBVIOUS
    <2> HIDE DEF T
    <2>2. QED
      BY <1>9, <1>10, <2>1, SetInduction
  <1>12. PICK m \in Nat : n = s + 1 + m
    <2>1. n - (s + 1) \in Nat /\ n = s + 1 + (n - (s + 1))
      BY <1>1
    <2>2. QED
      BY <2>1
  <1>13. Goal(n)
    BY <1>11, <1>12
  <1>14. QED
    BY <1>13 DEF Q, R

----------------------------------------------------------------------------
(* The heap.                                                               *)

LEMMA HeapInvHolds ==
    ASSUME RanksGiven, HeapInv, [Next]_queueVars
    PROVE  HeapInv'
  <1>1. ASSUME NEW d \in Decisions, Enqueue(d) PROVE HeapInv'
    <2> DEFINE e == [rank |-> RankOf(d), seq |-> counter, decision |-> d]
    <2>1. e \in [rank : Ranks, seq : Nat, decision : Decisions] /\ e.seq = counter
      BY DEF HeapInv, RanksGiven
    <2>2. heap' = heap \cup {e} /\ counter' = counter + 1
      BY <1>1 DEF Enqueue
    <2> HIDE DEF e
    <2>3. \A x \in heap' : x \in heap \/ x = e
      BY <2>2
    <2>4. \A x \in heap : x.seq \in Nat /\ x.seq < counter
      BY DEF HeapInv
    <2>5. QED
      BY <2>1, <2>2, <2>3, <2>4 DEF HeapInv
  <1>2. ASSUME NEW x \in heap, Dequeue(x) PROVE HeapInv'
    BY <1>2 DEF HeapInv, Dequeue
  <1>3. CASE UNCHANGED queueVars
    BY <1>3 DEF HeapInv, queueVars
  <1>4. QED
    BY <1>1, <1>2, <1>3 DEF Next

LEMMA EnqueueArrives ==
    ASSUME RanksGiven, HeapInv, NEW d \in Decisions, Enqueue(d)
    PROVE  Bands!Arrive(d)
  <1> DEFINE e == [rank |-> RankOf(d), seq |-> counter, decision |-> d]
  <1>1. heap' = heap \cup {e} /\ counter' = counter + 1 /\ served' = served
    BY DEF Enqueue
  <1>2. e.rank = RankOf(d) /\ e.seq = counter /\ e.decision = d /\ RankOf(d) \in Ranks
    BY DEF RanksGiven
  <1> HIDE DEF e
  <1>3. counter \in Nat /\ \A x \in heap : x.seq # counter
    BY DEF HeapInv
  <1>4. ASSUME NEW r \in Ranks
        PROVE  Waiting(r)' = IF r = RankOf(d) THEN Append(Waiting(r), d) ELSE Waiting(r)
    <2>1. \A k \in 0..(counter - 1) : Numbered(heap', r, k) = Numbered(heap, r, k)
      BY <1>1, <1>2, <1>3 DEF Numbered
    <2>2. OldestFirst(heap', r, counter) = OldestFirst(heap, r, counter)
      BY <1>3, <2>1, OldestFirstFrame
    <2>3. Waiting(r)' = Longer(heap', r, counter, OldestFirst(heap, r, counter))
      BY <1>1, <1>3, <2>2, OldestFirstSteps DEF Waiting
    <2>4. Numbered(heap', r, counter) = IF r = RankOf(d) THEN {e} ELSE {}
      BY <1>1, <1>2, <1>3 DEF Numbered
    <2>5. CASE r = RankOf(d)
      BY <1>2, <2>3, <2>4, <2>5 DEF Longer, Waiting
    <2>6. CASE r # RankOf(d)
      BY <2>3, <2>4, <2>6 DEF Longer, Waiting
    <2>7. QED
      BY <2>5, <2>6
  <1>5. [r \in Ranks |-> Waiting(r)]' =
            [[r \in Ranks |-> Waiting(r)] EXCEPT ![RankOf(d)] = Append(@, d)]
    BY <1>2, <1>4
  <1>6. QED
    BY <1>1, <1>5 DEF Bands!Arrive

LEMMA DequeueServes ==
    ASSUME RanksGiven, HeapInv, NEW x \in heap, Dequeue(x)
    PROVE  x.rank \in Ranks /\ Bands!Serve(x.rank)
  <1>1. heap' = heap \ {x} /\ counter' = counter /\ served' = Append(served, x.decision)
        /\ \A y \in heap : ~Before(y, x)
    BY DEF Dequeue
  <1>2. counter \in Nat /\ Ranks \subseteq Nat
    BY DEF HeapInv, RanksGiven
  <1>3. /\ \A y \in heap : y.decision \in Decisions /\ y.seq \in Nat /\ y.rank \in Ranks
        /\ \A y \in heap : y.seq = x.seq => y = x
        /\ x.seq < counter
    BY DEF HeapInv
  <1>4. \A y \in heap : y.rank \in Nat /\ x.rank \in Nat
    BY <1>2, <1>3
  <1>5. \A y \in heap : y.rank = x.rank => x.seq <= y.seq
    BY <1>1, <1>3, <1>4 DEF Before
  <1>6. \A y \in heap : ~(y.rank < x.rank)
    BY <1>1 DEF Before
  <1>7. /\ Waiting(x.rank) # <<>> /\ Head(Waiting(x.rank)) = x.decision
        /\ Waiting(x.rank)' = Tail(Waiting(x.rank))
    <2>1. LET q == OldestFirst(heap, x.rank, counter)
          IN  /\ q # <<>> /\ Head(q) = x.decision
              /\ OldestFirst(heap \ {x}, x.rank, counter) = Tail(q)
      BY <1>2, <1>3, <1>5, OldestRemoved
    <2>2. QED
      BY <1>1, <2>1 DEF Waiting
  <1>8. \A c \in Ranks : c < x.rank => Waiting(c) = <<>>
    <2>1. SUFFICES ASSUME NEW c \in Ranks, c < x.rank PROVE OldestFirst(heap, c, counter) = <<>>
      BY DEF Waiting
    <2>2. \A k \in 0..(counter - 1) : Numbered(heap, c, k) = {}
      BY <1>6, <2>1 DEF Numbered
    <2>3. QED
      BY <1>2, <2>2, NothingNumbered
  <1>9. \A r \in Ranks : r # x.rank => Waiting(r)' = Waiting(r)
    <2>1. SUFFICES ASSUME NEW r \in Ranks, r # x.rank
                   PROVE  OldestFirst(heap \ {x}, r, counter) = OldestFirst(heap, r, counter)
      BY <1>1 DEF Waiting
    <2>2. \A k \in 0..(counter - 1) : Numbered(heap \ {x}, r, k) = Numbered(heap, r, k)
      BY <2>1 DEF Numbered
    <2>3. QED
      BY <1>2, <2>2, OldestFirstFrame
  <1>10. x.rank \in Ranks
    BY <1>3
  <1>11. [r \in Ranks |-> Waiting(r)]' =
             [[r \in Ranks |-> Waiting(r)] EXCEPT ![x.rank] = Tail(@)]
    BY <1>7, <1>9, <1>10
  <1>12. QED
    BY <1>1, <1>7, <1>8, <1>10, <1>11 DEF Bands!Serve

LEMMA StartsLikeBands == Init => HeapInv /\ Bands!Init
  <1>1. SUFFICES ASSUME Init PROVE HeapInv /\ Bands!Init
    OBVIOUS
  <1>2. HeapInv
    BY <1>1 DEF Init, HeapInv
  <1>3. \A r \in Ranks : Waiting(r) = <<>>
    BY <1>1, OldestFirstSteps DEF Init, Waiting
  <1>4. QED
    BY <1>1, <1>2, <1>3 DEF Init, Bands!Init

LEMMA StepsLikeBands ==
    RanksGiven /\ HeapInv /\ [Next]_queueVars => [Bands!Next]_(Bands!bandVars)
  <1>1. SUFFICES ASSUME RanksGiven, HeapInv, [Next]_queueVars
                 PROVE  [Bands!Next]_(Bands!bandVars)
    OBVIOUS
  <1>2. ASSUME NEW d \in Decisions, Enqueue(d) PROVE Bands!Next
    BY <1>1, <1>2, EnqueueArrives DEF Bands!Next
  <1>3. ASSUME NEW x \in heap, Dequeue(x) PROVE Bands!Next
    BY <1>1, <1>3, DequeueServes DEF Bands!Next
  <1>4. ASSUME UNCHANGED queueVars PROVE UNCHANGED Bands!bandVars
    BY <1>4 DEF queueVars, Bands!bandVars, Waiting
  <1>5. QED
    BY <1>1, <1>2, <1>3, <1>4 DEF Next

\* The heap serves as the bands do, whatever the number of decisions and priorities:
\* CRITICAL first, first in first out inside a band (router.py:186).
THEOREM HeapServesLikeBands ==
    ASSUME RanksGiven
    PROVE  Spec => ServesLikeBands
  <1>1. HeapInv /\ [Next]_queueVars => HeapInv'
    BY HeapInvHolds
  <1>2. HeapInv /\ [Next]_queueVars => [Bands!Next]_(Bands!bandVars)
    BY StepsLikeBands
  <1>3. QED
    BY <1>1, <1>2, StartsLikeBands, PTL DEF Spec, ServesLikeBands, Bands!Spec
=============================================================================
