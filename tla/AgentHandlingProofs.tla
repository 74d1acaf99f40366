------------------------ MODULE AgentHandlingProofs -------------------------
(***************************************************************************)
(* Proofs about AgentHandling for every set of runs and requests and every *)
(* number of faults: what a run does, what the audit trail shows of it and *)
(* that the trail tells one story of each run.                             *)
(*                                                                         *)
(* A run is judged by the operations it has still to do.  Each of them     *)
(* needs something of the records: that is there already, or an operation  *)
(* before it puts it there.  The predicates take the run's state s, the    *)
(* request q and the records (entries en, markers ma, calls ac, objects    *)
(* ob) as arguments, so that the lemmas about scripts speak of no variable *)
(* but target.                                                             *)
(***************************************************************************)
EXTENDS AgentHandling, TLAPS

Recording == {"row", "entry", "marker", "log"}
Working == {"llm", "fetch", "put", "notify"}
Marking == {"row", "marker"}
Openings == {"PII_BOUNDARY_VIOLATION", "REQUEST_RECEIVED"}
Conclusions == {"RESPONSE_GENERATED", "PROCESSING_ERROR"}
Notes == {"ER_COMPLIANCE_CHECK", "LEGAL_OPINION", "CB_OFFER_RANGE", "LD_LEARNING_PATH",
          "HRBP_RECOMMENDATION", "HR_OPS_OBLIGATIONS_DERIVED", "TA_PIPELINE_SUMMARY",
          "ANALYTICS_SUPPRESSED", "ROUTING_DECISION"}
Events == Openings \cup Notes \cup Conclusions
Others == {"llm", "lms", "greenhouse", "goodtime", "panalyt", "human", "invalid"}
Tiers == {"MANDATORY", "REQUIRED", "RECOMMENDED", "NONE"}

Operation == [op : Recording \cup Working \cup {"raise"}, what : Events \cup Keys \cup Others]
RunState == [at    : Running \cup {"idle", "gone", "raised", "returned"},
             agent : Agents \cup {"DIRECTOR"},
             todo  : Seq(Operation),
             tier  : Tiers]

Ops(todo) == {todo[i] : i \in DOMAIN todo}
MarkOf(e) == {Op("row", e), Op("marker", e)}
Opinion == {"legal.txt", "legal.meta.json"}
OpinionStored(ob) == \A k \in Opinion : ob[k] # "nobody"

\* Of markers ma: run r has none, or a conclusion; event e may join them.
Unmarked(r, ma) == \A t \in ma : t[1] # r
Concluded(r, ma) == \E c \in Conclusions : <<r, c>> \in ma
MayMark(r, e, ma) ==
    \/ e \in Openings /\ Unmarked(r, ma)
    \/ /\ e \in Notes \cup Conclusions
       /\ <<r, "REQUEST_RECEIVED">> \in ma
       /\ ~Concluded(r, ma)

\* The events that have to be on the trail before agent a reasons.
Verdict(a) == CASE a = "ER"     -> {"ER_COMPLIANCE_CHECK"}
                [] a = "HR_OPS" -> {"HR_OPS_OBLIGATIONS_DERIVED"}
                [] OTHER        -> {}

Stopped(a, q) == a = "ER" /\ ErVerdict(q).result = "HARD_STOP"
Floored(a, q) == a = "ANALYTICS" /\ Decide!Suppressed(q.cohort, MinimumCohort)

\* Every operation of that kind comes after one of S.
Awaits(todo, kind, S) ==
    \A i \in DOMAIN todo : todo[i].op = kind => \E j \in DOMAIN todo : j < i /\ todo[j] \in S

\* What an answer about a cohort rests on: the note of the suppression, or the fetch.
Basis(q) == IF Decide!Suppressed(q.cohort, MinimumCohort) THEN MarkOf("ANALYTICS_SUPPRESSED")
            ELSE {Op("fetch", "panalyt")}
Based(r, q, ma, ac) ==
    IF Decide!Suppressed(q.cohort, MinimumCohort) THEN <<r, "ANALYTICS_SUPPRESSED">> \in ma
    ELSE <<r, "fetch">> \in ac

\* Such an answer is stored, with todo left to do, only once what it rests on is done.
Sourced(todo, r, a, q, ma, ac) ==
    a = "ANALYTICS" => \/ Based(r, q, ma, ac)
                       \/ <<r, "put">> \notin ac /\ Awaits(todo, "put", Basis(q))

\* What an operation of a run of agent a needs whatever comes before it.
Entitled(o, r, a, q, ma, ob) ==
    /\ o.op \in Marking => MayMark(r, o.what, ma)
    /\ o.op \in Marking /\ o.what = "ANALYTICS_SUPPRESSED" => Floored(a, q)
    /\ o.op \in Working => <<r, "REQUEST_RECEIVED">> \in ma
    /\ o.op = "put" => o.what \in Keys
    /\ o.op \in {"llm", "put"} => ~Stopped(a, q)
    /\ o.op = "fetch" => ~Floored(a, q)
    /\ o.op = "notify" /\ a = "LEGAL" => OpinionStored(ob)

\* The operations todo may be done in their order.
Ready(todo, r, a, q, en, ma, ob) ==
    /\ \A o \in Ops(todo) : Entitled(o, r, a, q, ma, ob)
    /\ \A i \in DOMAIN todo : todo[i].op = "marker" =>
           \/ <<r, todo[i].what>> \in en
           \/ \E j \in DOMAIN todo : j < i /\ todo[j] = Op("entry", todo[i].what)
    /\ \A i, j \in DOMAIN todo : todo[i].op \in Marking /\ todo[j].op \in Marking => i = j
    /\ \A e \in Verdict(a) : <<r, e>> \in ma \/ Awaits(todo, "llm", MarkOf(e))
    /\ \/ <<r, "RESPONSE_GENERATED">> \in ma
       \/ Awaits(todo, "notify", MarkOf("RESPONSE_GENERATED"))

\* What a run of agent a has done it was entitled to.
Accountable(r, a, q, ma, ob, ac) ==
    /\ \A x \in Working : <<r, x>> \in ac => <<r, "REQUEST_RECEIVED">> \in ma
    /\ <<r, "llm">> \in ac => \A e \in Verdict(a) : <<r, e>> \in ma
    /\ Stopped(a, q) => <<r, "llm">> \notin ac /\ <<r, "put">> \notin ac
    /\ Floored(a, q) => <<r, "fetch">> \notin ac
    /\ <<r, "ANALYTICS_SUPPRESSED">> \in ma => Floored(a, q)
    /\ <<r, "notify">> \in ac =>
           /\ <<r, "RESPONSE_GENERATED">> \in ma
           /\ a = "LEGAL" => OpinionStored(ob)

\* What each phase of handle adds.
InPhase(s, r, q, ma, ob, ac) ==
    /\ s.at \in Running => s.todo # <<>>
    /\ s.at \in {"idle", "raised", "returned"} => s.todo = <<>>
    /\ s.at = "idle" => Unmarked(r, ma) /\ \A x \in Working : <<r, x>> \notin ac
    /\ s.at \in {"refuse", "admit", "except"} => \A o \in Ops(s.todo) : o.op \in Recording
    /\ s.at = "refuse" => q.pii
    /\ s.at = "admit" =>
           /\ ~Concluded(r, ma)
           /\ \A o \in Ops(s.todo) : o.what = "REQUEST_RECEIVED"
           /\ <<r, "REQUEST_RECEIVED">> \in ma \/ Ops(s.todo) \cap MarkOf("REQUEST_RECEIVED") # {}
    /\ s.at = "process" =>
           /\ <<r, "REQUEST_RECEIVED">> \in ma
           /\ ~Concluded(r, ma)
           /\ \A o \in Ops(s.todo) : o.op \in Recording => o.what \in Notes
           /\ s.agent = "LEGAL" => \A k \in Opinion :
                  \/ ob[k] # "nobody"
                  \/ Op("put", k) \in Ops(s.todo)
                  \/ \E o \in Ops(s.todo) : o.op = "raise"
    /\ s.at = "conclude" =>
           /\ \A o \in Ops(s.todo) : o.op \in Recording \cup {"notify"}
           /\ s.tier = "MANDATORY" =>
                  <<r, "notify">> \in ac \/ \E o \in Ops(s.todo) : o.op = "notify"
    /\ s.at = "returned" /\ s.tier = "MANDATORY" => q.pii \/ <<r, "notify">> \in ac

RunOK(s, r, q, en, ma, ob, ac) ==
    /\ Ready(s.todo, r, s.agent, q, en, ma, ob)
    /\ Accountable(r, s.agent, q, ma, ob, ac)
    /\ InPhase(s, r, q, ma, ob, ac)
    /\ Sourced(s.todo, r, s.agent, q, ma, ac)

\* The inductive invariant.
HandlingInv ==
    /\ target \in Targets /\ request \in Requests /\ faults \in 0..MaxFaults
    /\ objects \in [Keys -> Runs \cup {"nobody"}]
    /\ run \in [Runs -> RunState]
    /\ markers \subseteq entries /\ entries \subseteq Runs \X (Events \cup Keys \cup Others)
    /\ \A r \in Runs : RunOK(run[r], r, request, entries, markers, objects, acts)

----------------------------------------------------------------------------
(* Lists of operations.                                                    *)

LEMMA TailFacts ==
    ASSUME NEW todo \in Seq(Operation), todo # <<>>
    PROVE  /\ Head(todo) \in Operation /\ Tail(todo) \in Seq(Operation)
           /\ 1 \in DOMAIN todo /\ Head(todo) = todo[1]
           /\ \A i \in DOMAIN Tail(todo) :
                  i \in Nat \ {0} /\ i + 1 \in DOMAIN todo /\ Tail(todo)[i] = todo[i + 1]
           /\ \A i \in DOMAIN todo : i \in Nat /\
                  (i = 1 \/ (i - 1 \in DOMAIN Tail(todo) /\ todo[i] = Tail(todo)[i - 1]))
           /\ Ops(todo) = {Head(todo)} \cup Ops(Tail(todo))
  <1>1. /\ Head(todo) \in Operation /\ Tail(todo) \in Seq(Operation)
        /\ 1 \in DOMAIN todo /\ Head(todo) = todo[1]
    OBVIOUS
  <1>2. \A i \in DOMAIN Tail(todo) :
            i \in Nat \ {0} /\ i + 1 \in DOMAIN todo /\ Tail(todo)[i] = todo[i + 1]
    OBVIOUS
  <1>3. \A i \in DOMAIN todo : i \in Nat /\
            (i = 1 \/ (i - 1 \in DOMAIN Tail(todo) /\ todo[i] = Tail(todo)[i - 1]))
    OBVIOUS
  <1>4. Ops(todo) = {Head(todo)} \cup Ops(Tail(todo))
    <2>1. \A o \in Ops(todo) : o = Head(todo) \/ o \in Ops(Tail(todo))
      BY <1>1, <1>3 DEF Ops
    <2>2. \A o \in Ops(Tail(todo)) : o \in Ops(todo)
      BY <1>2 DEF Ops
    <2>3. Head(todo) \in Ops(todo)
      BY <1>1 DEF Ops
    <2>4. QED
      BY <2>1, <2>2, <2>3
  <1>5. QED
    BY <1>1, <1>2, <1>3, <1>4

LEMMA AwaitsTail ==
    ASSUME NEW todo \in Seq(Operation), todo # <<>>, NEW kind, NEW S, Awaits(todo, kind, S)
    PROVE  /\ Head(todo).op # kind
           /\ Head(todo) \in S \/ Awaits(Tail(todo), kind, S)
  <1>1. Head(todo).op # kind
    <2>1. \A j \in DOMAIN todo : ~(j < 1)
      OBVIOUS
    <2>2. QED
      BY <2>1, TailFacts DEF Awaits
  <1>2. ASSUME Head(todo) \notin S, NEW i \in DOMAIN Tail(todo), Tail(todo)[i].op = kind
        PROVE  \E j \in DOMAIN Tail(todo) : j < i /\ Tail(todo)[j] \in S
    <2>1. i \in Nat /\ i + 1 \in DOMAIN todo /\ todo[i + 1].op = kind
      BY <1>2, TailFacts
    <2>2. PICK j \in DOMAIN todo : j < i + 1 /\ todo[j] \in S
      BY <2>1 DEF Awaits
    <2>3. j # 1
      BY <1>2, <2>2, TailFacts
    <2>4. j \in Nat /\ j - 1 \in DOMAIN Tail(todo) /\ Tail(todo)[j - 1] \in S
      BY <2>2, <2>3, TailFacts
    <2>5. j - 1 < i
      BY <2>1, <2>2, <2>4
    <2>6. QED
      BY <2>4, <2>5
  <1>3. QED
    BY <1>1, <1>2 DEF Awaits

LEMMA PrefixFacts ==
    ASSUME NEW todo \in Seq(Operation), NEW k \in 0..Len(todo)
    PROVE  /\ SubSeq(todo, 1, k) \in Seq(Operation)
           /\ DOMAIN SubSeq(todo, 1, k) = 1..k /\ 1..k \subseteq DOMAIN todo
           /\ \A i \in 1..k : SubSeq(todo, 1, k)[i] = todo[i]
           /\ Ops(SubSeq(todo, 1, k)) \subseteq Ops(todo)
  <1>1. /\ SubSeq(todo, 1, k) \in Seq(Operation)
        /\ DOMAIN SubSeq(todo, 1, k) = 1..k /\ 1..k \subseteq DOMAIN todo
        /\ \A i \in 1..k : SubSeq(todo, 1, k)[i] = todo[i]
    OBVIOUS
  <1>2. QED
    BY <1>1 DEF Ops

\* A list of operations s \o t, element by element.
LEMMA ConcatFacts ==
    ASSUME NEW s \in Seq(Operation), NEW t \in Seq(Operation)
    PROVE  /\ s \o t \in Seq(Operation)
           /\ \A i \in DOMAIN s : i \in Nat /\ i \in DOMAIN (s \o t) /\ (s \o t)[i] = s[i]
           /\ \A i \in DOMAIN t : /\ Len(s) + i \in DOMAIN (s \o t)
                                  /\ (s \o t)[Len(s) + i] = t[i]
           /\ \A i \in DOMAIN (s \o t) : i \in DOMAIN s
                  \/ \E j \in DOMAIN t : i = Len(s) + j
           /\ Ops(s \o t) = Ops(s) \cup Ops(t)
           /\ s # <<>> \/ t # <<>> => s \o t # <<>>
  <1>1. /\ Len(s \o t) = Len(s) + Len(t) /\ s \o t \in Seq(Operation)
        /\ DOMAIN s = 1..Len(s) /\ DOMAIN t = 1..Len(t)
        /\ Len(s) \in Nat /\ Len(t) \in Nat
    OBVIOUS
  <1>2. DOMAIN (s \o t) = 1..(Len(s) + Len(t))
    BY <1>1
  <1>3. \A i \in DOMAIN s : i \in Nat /\ i \in DOMAIN (s \o t) /\ (s \o t)[i] = s[i]
    BY <1>1, <1>2
  <1>4. \A i \in DOMAIN t : Len(s) + i \in DOMAIN (s \o t) /\ (s \o t)[Len(s) + i] = t[i]
    <2>1. \A i \in DOMAIN t : Len(s) + i \in DOMAIN (s \o t)
      BY <1>1, <1>2
    <2>2. \A i \in DOMAIN t : (s \o t)[Len(s) + i] = t[i]
      OBVIOUS
    <2>3. QED
      BY <2>1, <2>2
  <1>5. \A i \in DOMAIN (s \o t) : i \in DOMAIN s \/ \E j \in DOMAIN t : i = Len(s) + j
    <2>1. ASSUME NEW i \in 1..(Len(s) + Len(t)), i \notin 1..Len(s)
          PROVE  i - Len(s) \in 1..Len(t) /\ i = Len(s) + (i - Len(s))
      BY <1>1, <2>1
    <2>2. QED
      BY <1>1, <1>2, <2>1
  <1>6. Ops(s \o t) = Ops(s) \cup Ops(t)
    <2> DEFINE u == s \o t
    <2> HIDE DEF u
    <2>1. /\ \A i \in DOMAIN s : i \in DOMAIN u /\ u[i] = s[i]
          /\ \A i \in DOMAIN t : Len(s) + i \in DOMAIN u /\ u[Len(s) + i] = t[i]
          /\ \A i \in DOMAIN u : i \in DOMAIN s \/ \E j \in DOMAIN t : i = Len(s) + j
      BY <1>3, <1>4, <1>5 DEF u
    <2>2. \A o \in Ops(u) : o \in Ops(s) \/ o \in Ops(t)
      BY <2>1 DEF Ops
    <2>3. \A o \in Ops(s) : o \in Ops(u)
      BY <2>1 DEF Ops
    <2>4. \A o \in Ops(t) : o \in Ops(u)
      BY <2>1 DEF Ops
    <2>5. QED
      BY <2>2, <2>3, <2>4 DEF u
  <1>7. s # <<>> \/ t # <<>> => s \o t # <<>>
    BY <1>1
  <1>8. QED
    BY <1>1, <1>3, <1>4, <1>5, <1>6, <1>7

\* A list keeps its order when another comes before it, or after it.
LEMMA AwaitsConcat ==
    ASSUME NEW s \in Seq(Operation), NEW t \in Seq(Operation), NEW kind, NEW S,
           Awaits(s, kind, S), Awaits(t, kind, S) \/ Ops(s) \cap S # {}
    PROVE  Awaits(s \o t, kind, S)
  <1> DEFINE u == s \o t
  <1>1. ASSUME NEW i \in DOMAIN s, u[i].op = kind
        PROVE  \E j \in DOMAIN u : j < i /\ u[j] \in S
    BY <1>1, ConcatFacts DEF Awaits
  <1>2. ASSUME NEW k \in DOMAIN t, u[Len(s) + k].op = kind
        PROVE  \E j \in DOMAIN u : j < Len(s) + k /\ u[j] \in S
    <2>1. Len(s) \in Nat /\ k \in Nat \ {0} /\ \A j \in DOMAIN s : j \in Nat /\ j <= Len(s)
      OBVIOUS
    <2>2. CASE Ops(s) \cap S # {}
      <3>1. PICK j \in DOMAIN s : s[j] \in S
        BY <2>2 DEF Ops
      <3>2. j < Len(s) + k
        BY <2>1, <3>1
      <3>3. QED
        BY <3>1, <3>2, ConcatFacts
    <2>3. CASE Awaits(t, kind, S)
      <3>1. t[k].op = kind
        BY <1>2, ConcatFacts
      <3>2. PICK j \in DOMAIN t : j < k /\ t[j] \in S
        BY <2>3, <3>1 DEF Awaits
      <3>3. Len(s) + j < Len(s) + k
        BY <2>1, <3>2
      <3>4. QED
        BY <3>2, <3>3, ConcatFacts
    <2>4. QED
      BY <2>2, <2>3
  <1>3. \A i \in DOMAIN u : i \in DOMAIN s \/ \E k \in DOMAIN t : i = Len(s) + k
    BY ConcatFacts
  <1> HIDE DEF u
  <1>4. Awaits(u, kind, S)
    BY <1>1, <1>2, <1>3 DEF Awaits
  <1>5. QED
    BY <1>4 DEF u

LEMMA AwaitsPrefix ==
    ASSUME NEW todo \in Seq(Operation), NEW k \in 0..Len(todo), NEW kind, NEW S,
           Awaits(todo, kind, S)
    PROVE  Awaits(SubSeq(todo, 1, k), kind, S)
  <1>1. PICK u \in Seq(Operation) : u = SubSeq(todo, 1, k)
    BY PrefixFacts
  <1>2. DOMAIN u = 1..k /\ 1..k \subseteq DOMAIN todo /\ \A i \in 1..k : u[i] = todo[i]
    BY <1>1, PrefixFacts
  <1>3. \A i \in DOMAIN u : \A j \in DOMAIN todo : j < i => j \in DOMAIN u
    BY <1>2
  <1>4. Awaits(u, kind, S)
    BY <1>2, <1>3 DEF Awaits
  <1>5. QED
    BY <1>1, <1>4

LEMMA NoneAwaits ==
    ASSUME NEW t, NEW kind, NEW S, \A o \in Ops(t) : o.op # kind
    PROVE  Awaits(t, kind, S)
  BY DEF Awaits, Ops

----------------------------------------------------------------------------
(* The invariant of a run, and what others do to the records.              *)

\* The records go on, and those of run r as they were.
Later(r, en, ma, ob, en2, ma2, ob2) ==
    /\ en \subseteq en2 /\ ma \subseteq ma2
    /\ \A t \in ma2 : t[1] = r => t \in ma
    /\ \A k \in Keys : ob[k] # "nobody" => ob2[k] # "nobody"

LEMMA ReadyLater ==
    ASSUME NEW todo \in Seq(Operation), NEW r, NEW a, NEW q,
           NEW en, NEW ma, NEW ob, NEW en2, NEW ma2, NEW ob2,
           Later(r, en, ma, ob, en2, ma2, ob2), Ready(todo, r, a, q, en, ma, ob)
    PROVE  Ready(todo, r, a, q, en2, ma2, ob2)
  <1>1. /\ \A e : <<r, e>> \in ma2 <=> <<r, e>> \in ma
        /\ Unmarked(r, ma) => Unmarked(r, ma2)
    BY DEF Later, Unmarked
  <1>2. OpinionStored(ob) => OpinionStored(ob2)
    BY DEF Later, OpinionStored, Opinion, Keys
  <1>3. \A e : MayMark(r, e, ma) => MayMark(r, e, ma2)
    BY <1>1 DEF MayMark, Concluded
  <1>4. ASSUME NEW o, Entitled(o, r, a, q, ma, ob) PROVE Entitled(o, r, a, q, ma2, ob2)
    BY <1>1, <1>2, <1>3, <1>4 DEF Entitled
  <1>5. \A e : <<r, e>> \in en => <<r, e>> \in en2
    BY DEF Later
  <1>6. QED
    BY <1>1, <1>4, <1>5 DEF Ready

LEMMA RunOKLater ==
    ASSUME NEW s \in RunState, NEW r, NEW q,
           NEW en, NEW ma, NEW ob, NEW ac, NEW en2, NEW ma2, NEW ob2, NEW ac2,
           Later(r, en, ma, ob, en2, ma2, ob2),
           \A x : <<r, x>> \in ac2 <=> <<r, x>> \in ac,
           RunOK(s, r, q, en, ma, ob, ac)
    PROVE  RunOK(s, r, q, en2, ma2, ob2, ac2)
  <1>1. s.todo \in Seq(Operation)
    BY DEF RunState
  <1>2. Ready(s.todo, r, s.agent, q, en2, ma2, ob2)
    BY <1>1, ReadyLater DEF RunOK
  <1>3. /\ \A e : <<r, e>> \in ma2 <=> <<r, e>> \in ma
        /\ Unmarked(r, ma) => Unmarked(r, ma2)
    BY DEF Later, Unmarked
  <1>4. \A k \in Opinion : ob[k] # "nobody" => ob2[k] # "nobody"
    BY DEF Later, Opinion, Keys
  <1>5. Accountable(r, s.agent, q, ma2, ob2, ac2)
    BY <1>3, <1>4 DEF RunOK, Accountable, OpinionStored
  <1>6. InPhase(s, r, q, ma2, ob2, ac2)
    BY <1>3, <1>4 DEF RunOK, InPhase, Concluded
  <1>7. Sourced(s.todo, r, s.agent, q, ma2, ac2)
    BY <1>3 DEF RunOK, Sourced, Based
  <1>8. QED
    BY <1>2, <1>5, <1>6, <1>7 DEF RunOK

LEMMA ReadyPrefix ==
    ASSUME NEW todo \in Seq(Operation), NEW k \in 0..Len(todo), NEW r, NEW a, NEW q,
           NEW en, NEW ma, NEW ob, Ready(todo, r, a, q, en, ma, ob)
    PROVE  Ready(SubSeq(todo, 1, k), r, a, q, en, ma, ob)
  <1>1. PICK u \in Seq(Operation) : u = SubSeq(todo, 1, k)
    BY PrefixFacts
  <1>2. /\ DOMAIN u = 1..k /\ 1..k \subseteq DOMAIN todo /\ \A i \in 1..k : u[i] = todo[i]
        /\ Ops(u) \subseteq Ops(todo)
    BY <1>1, PrefixFacts
  <1>3. \A i \in DOMAIN u : \A j \in DOMAIN todo : j < i => j \in DOMAIN u
    BY <1>2
  <1>4. ASSUME NEW kind, NEW S, Awaits(todo, kind, S) PROVE Awaits(u, kind, S)
    BY <1>1, <1>4, AwaitsPrefix
  <1>5. \A o \in Ops(u) : Entitled(o, r, a, q, ma, ob)
    BY <1>2 DEF Ready
  <1>6. \A i \in DOMAIN u : u[i].op = "marker" =>
           \/ <<r, u[i].what>> \in en
           \/ \E j \in DOMAIN u : j < i /\ u[j] = Op("entry", u[i].what)
    BY <1>2, <1>3 DEF Ready
  <1>7. \A i, j \in DOMAIN u : u[i].op \in Marking /\ u[j].op \in Marking => i = j
    BY <1>2 DEF Ready
  <1>8. /\ \A e \in Verdict(a) : <<r, e>> \in ma \/ Awaits(u, "llm", MarkOf(e))
        /\ \/ <<r, "RESPONSE_GENERATED">> \in ma
           \/ Awaits(u, "notify", MarkOf("RESPONSE_GENERATED"))
    BY <1>4 DEF Ready
  <1>9. QED
    BY <1>1, <1>5, <1>6, <1>7, <1>8 DEF Ready

\* What Effect does, in terms of the values before and after.
Happens(h, r, en, ma, ob, ac, en2, ma2, ob2, ac2) ==
    /\ en2 = IF h.op \in {"row", "entry"} THEN en \cup {<<r, h.what>>} ELSE en
    /\ ma2 = IF h.op \in Marking THEN ma \cup {<<r, h.what>>} ELSE ma
    /\ ob2 = IF h.op = "put" THEN [ob EXCEPT ![h.what] = r] ELSE ob
    /\ ac2 = IF h.op \in Working THEN ac \cup {<<r, h.op>>} ELSE ac

\* An entitled operation leaves the run accountable, and the rest of the list ready.
LEMMA ReadyTail ==
    ASSUME NEW todo \in Seq(Operation), todo # <<>>, NEW r \in Runs, NEW a, NEW q,
           NEW en, NEW ma, NEW ob \in [Keys -> Runs \cup {"nobody"}], NEW ac,
           NEW en2, NEW ma2, NEW ob2, NEW ac2,
           Happens(Head(todo), r, en, ma, ob, ac, en2, ma2, ob2, ac2),
           Ready(todo, r, a, q, en, ma, ob)
    PROVE  Ready(Tail(todo), r, a, q, en2, ma2, ob2)
  <1>1. PICK h \in Operation, u \in Seq(Operation) : h = Head(todo) /\ u = Tail(todo)
    BY TailFacts
  <1>2. /\ 1 \in DOMAIN todo /\ h = todo[1]
        /\ \A i \in DOMAIN u : i \in Nat \ {0} /\ i + 1 \in DOMAIN todo /\ u[i] = todo[i + 1]
        /\ \A i \in DOMAIN todo : i \in Nat /\
                  (i = 1 \/ (i - 1 \in DOMAIN u /\ todo[i] = u[i - 1]))
        /\ Ops(todo) = {h} \cup Ops(u)
    BY <1>1, TailFacts
  <1>3. /\ en2 = IF h.op \in {"row", "entry"} THEN en \cup {<<r, h.what>>} ELSE en
        /\ ma2 = IF h.op \in Marking THEN ma \cup {<<r, h.what>>} ELSE ma
        /\ ob2 = IF h.op = "put" THEN [ob EXCEPT ![h.what] = r] ELSE ob
    BY <1>1 DEF Happens
  <1>4. OpinionStored(ob) => OpinionStored(ob2)
    BY <1>3, RunsAssumption DEF OpinionStored, Opinion, Keys
  <1>5. ASSUME NEW o \in Ops(u) PROVE Entitled(o, r, a, q, ma2, ob2)
    <2>1. Entitled(o, r, a, q, ma, ob)
      BY <1>2 DEF Ready
    <2>2. o.op \in Marking => h.op \notin Marking
      <3>1. PICK i \in DOMAIN u : o = u[i]
        BY DEF Ops
      <3>2. i + 1 # 1 /\ i + 1 \in DOMAIN todo /\ o = todo[i + 1]
        BY <1>2, <3>1
      <3>3. QED
        BY <1>2, <3>2 DEF Ready
    <2>3. ma \subseteq ma2 /\ (o.op \in Marking => ma2 = ma)
      BY <1>3, <2>2
    <2>4. QED
      BY <1>4, <2>1, <2>3 DEF Entitled
  <1>6. ASSUME NEW i \in DOMAIN u, u[i].op = "marker"
        PROVE  \/ <<r, u[i].what>> \in en2
               \/ \E j \in DOMAIN u : j < i /\ u[j] = Op("entry", u[i].what)
    <2>1. i \in Nat /\ i + 1 \in DOMAIN todo /\ u[i] = todo[i + 1]
      BY <1>2
    <2>2. CASE <<r, u[i].what>> \in en
      BY <1>3, <2>2
    <2>3. ASSUME NEW j \in DOMAIN todo, j < i + 1, todo[j] = Op("entry", u[i].what)
          PROVE  \/ <<r, u[i].what>> \in en2
                 \/ \E l \in DOMAIN u : l < i /\ u[l] = Op("entry", u[i].what)
      <3>1. CASE j = 1
        <4>1. h = Op("entry", u[i].what)
          BY <1>2, <2>3, <3>1
        <4>2. h.op = "entry" /\ h.what = u[i].what
          BY <4>1 DEF Op
        <4>3. QED
          BY <1>3, <4>2
      <3>2. CASE j # 1
        <4>1. j \in Nat /\ j - 1 \in DOMAIN u /\ u[j - 1] = Op("entry", u[i].what)
          BY <1>2, <2>3, <3>2
        <4>2. j - 1 < i
          BY <2>1, <2>3, <4>1
        <4>3. QED
          BY <4>1, <4>2
      <3>3. QED
        BY <3>1, <3>2
    <2>4. QED
      BY <1>6, <2>1, <2>2, <2>3 DEF Ready
  <1>7. \A i, j \in DOMAIN u : u[i].op \in Marking /\ u[j].op \in Marking => i = j
    BY SMTT(30), <1>2 DEF Ready
  <1>8. ASSUME NEW e, NEW kind, <<r, e>> \in ma \/ Awaits(todo, kind, MarkOf(e))
        PROVE  <<r, e>> \in ma2 \/ Awaits(u, kind, MarkOf(e))
    <2>1. h \in MarkOf(e) => h.op \in Marking /\ h.what = e
      BY DEF MarkOf, Op, Marking
    <2>2. Awaits(todo, kind, MarkOf(e)) => h \in MarkOf(e) \/ Awaits(u, kind, MarkOf(e))
      BY <1>1, AwaitsTail
    <2>3. QED
      BY <1>3, <1>8, <2>1, <2>2
  <1>9. /\ \A e \in Verdict(a) : <<r, e>> \in ma2 \/ Awaits(u, "llm", MarkOf(e))
        /\ \/ <<r, "RESPONSE_GENERATED">> \in ma2
           \/ Awaits(u, "notify", MarkOf("RESPONSE_GENERATED"))
    BY <1>8 DEF Ready
  <1>10. Ready(u, r, a, q, en2, ma2, ob2)
    BY <1>5, <1>6, <1>7, <1>9 DEF Ready
  <1>11. QED
    BY <1>1, <1>10

LEMMA AccountableHead ==
    ASSUME NEW todo \in Seq(Operation), todo # <<>>, NEW r \in Runs, NEW a, NEW q,
           NEW en, NEW ma, NEW ob \in [Keys -> Runs \cup {"nobody"}], NEW ac,
           NEW en2, NEW ma2, NEW ob2, NEW ac2,
           Happens(Head(todo), r, en, ma, ob, ac, en2, ma2, ob2, ac2),
           Ready(todo, r, a, q, en, ma, ob), Accountable(r, a, q, ma, ob, ac)
    PROVE  Accountable(r, a, q, ma2, ob2, ac2)
  <1>1. PICK h \in Operation : h = Head(todo) /\ h \in Ops(todo)
    BY TailFacts
  <1>2. /\ ma \subseteq ma2
        /\ \A e : <<r, e>> \in ma2 => <<r, e>> \in ma \/ (e = h.what /\ h.op \in Marking)
        /\ ob2 = IF h.op = "put" THEN [ob EXCEPT ![h.what] = r] ELSE ob
        /\ \A x : <<r, x>> \in ac2 => <<r, x>> \in ac \/ (x = h.op /\ h.op \in Working)
    BY <1>1 DEF Happens
  <1>3. OpinionStored(ob) => OpinionStored(ob2)
    BY <1>2, RunsAssumption DEF OpinionStored, Opinion, Keys
  <1>4. Entitled(h, r, a, q, ma, ob)
    BY <1>1 DEF Ready
  <1>5. h.op = "llm" => \A e \in Verdict(a) : <<r, e>> \in ma
    BY <1>1, AwaitsTail DEF Ready
  <1>6. h.op = "notify" => <<r, "RESPONSE_GENERATED">> \in ma
    BY <1>1, AwaitsTail DEF Ready
  <1>7. \A x \in Working : <<r, x>> \in ac2 => <<r, "REQUEST_RECEIVED">> \in ma2
    BY <1>2, <1>4 DEF Accountable, Entitled
  <1>8. <<r, "llm">> \in ac2 => \A e \in Verdict(a) : <<r, e>> \in ma2
    BY <1>2, <1>5 DEF Accountable
  <1>9. /\ Stopped(a, q) => <<r, "llm">> \notin ac2 /\ <<r, "put">> \notin ac2
        /\ Floored(a, q) => <<r, "fetch">> \notin ac2
        /\ <<r, "ANALYTICS_SUPPRESSED">> \in ma2 => Floored(a, q)
    BY <1>2, <1>4 DEF Accountable, Entitled
  <1>10. <<r, "notify">> \in ac2 =>
           /\ <<r, "RESPONSE_GENERATED">> \in ma2
           /\ a = "LEGAL" => OpinionStored(ob2)
    BY <1>2, <1>3, <1>4, <1>6 DEF Accountable, Entitled
  <1>11. QED
    BY <1>7, <1>8, <1>9, <1>10 DEF Accountable

\* What an answer rests on is done by the operations of Basis and never undone.
LEMMA BasisDone ==
    ASSUME NEW h, NEW r, NEW q, NEW en, NEW ma, NEW ob, NEW ac,
           NEW en2, NEW ma2, NEW ob2, NEW ac2,
           Happens(h, r, en, ma, ob, ac, en2, ma2, ob2, ac2)
    PROVE  /\ Based(r, q, ma, ac) => Based(r, q, ma2, ac2)
           /\ h \in Basis(q) => Based(r, q, ma2, ac2)
  <1>1. ma \subseteq ma2 /\ ac \subseteq ac2
    BY DEF Happens
  <1>2. Based(r, q, ma, ac) => Based(r, q, ma2, ac2)
    BY <1>1 DEF Based
  <1>3. ASSUME h \in MarkOf("ANALYTICS_SUPPRESSED")
        PROVE  <<r, "ANALYTICS_SUPPRESSED">> \in ma2
    <2>1. h.op \in Marking /\ h.what = "ANALYTICS_SUPPRESSED"
      BY <1>3 DEF MarkOf, Op, Marking
    <2>2. QED
      BY <2>1 DEF Happens
  <1>4. ASSUME h = Op("fetch", "panalyt")
        PROVE  <<r, "fetch">> \in ac2
    <2>1. h.op = "fetch" /\ "fetch" \in Working
      BY <1>4 DEF Op, Working
    <2>2. QED
      BY <2>1 DEF Happens
  <1>5. QED
    BY <1>2, <1>3, <1>4 DEF Basis, Based

LEMMA SourcedTail ==
    ASSUME NEW todo \in Seq(Operation), todo # <<>>, NEW r, NEW a, NEW q,
           NEW en, NEW ma, NEW ob, NEW ac, NEW en2, NEW ma2, NEW ob2, NEW ac2,
           Happens(Head(todo), r, en, ma, ob, ac, en2, ma2, ob2, ac2),
           Sourced(todo, r, a, q, ma, ac)
    PROVE  Sourced(Tail(todo), r, a, q, ma2, ac2)
  <1>1. SUFFICES ASSUME a = "ANALYTICS"
                 PROVE  Based(r, q, ma2, ac2) \/ (<<r, "put">> \notin ac2
                                                   /\ Awaits(Tail(todo), "put", Basis(q)))
    BY DEF Sourced
  <1>2. CASE Based(r, q, ma, ac)
    BY <1>2, BasisDone
  <1>3. CASE <<r, "put">> \notin ac /\ Awaits(todo, "put", Basis(q))
    <2>1. /\ Head(todo).op # "put"
          /\ Head(todo) \in Basis(q) \/ Awaits(Tail(todo), "put", Basis(q))
      BY <1>3, AwaitsTail
    <2>2. <<r, "put">> \notin ac2
      BY <1>3, <2>1 DEF Happens
    <2>3. QED
      BY <2>1, <2>2, BasisDone
  <1>4. QED
    BY <1>1, <1>2, <1>3 DEF Sourced

\* A list that stores nothing keeps an answer sourced.
LEMMA SourcedIdly ==
    ASSUME NEW todo, NEW t, NEW r, NEW a, NEW q, NEW ma, NEW ac,
           Sourced(todo, r, a, q, ma, ac), \A o \in Ops(t) : o.op # "put"
    PROVE  Sourced(t, r, a, q, ma, ac)
  <1>1. Awaits(t, "put", Basis(q))
    BY NoneAwaits
  <1>2. QED
    BY <1>1 DEF Sourced

\* A marker is written for an entry that is there.
LEMMA HeadMarksEntry ==
    ASSUME NEW todo \in Seq(Operation), todo # <<>>, NEW r, NEW a, NEW q,
           NEW en, NEW ma, NEW ob, Ready(todo, r, a, q, en, ma, ob),
           Head(todo).op = "marker"
    PROVE  <<r, Head(todo).what>> \in en
  <1>1. 1 \in DOMAIN todo /\ Head(todo) = todo[1]
    BY TailFacts
  <1>2. \A j \in DOMAIN todo : ~(j < 1)
    OBVIOUS
  <1>3. QED
    BY <1>1, <1>2 DEF Ready

----------------------------------------------------------------------------
(* The scripts.                                                            *)

Unmarking(t) == \A o \in Ops(t) : o.op \notin Marking

\* A marker comes after its entry, and there is one.
Ordered(t) ==
    /\ \A i \in DOMAIN t : t[i].op = "marker" =>
           \E j \in DOMAIN t : j < i /\ t[j] = Op("entry", t[i].what)
    /\ \A i, j \in DOMAIN t : t[i].op \in Marking /\ t[j].op \in Marking => i = j

LEMMA OrderedConcat ==
    ASSUME NEW s \in Seq(Operation), NEW t \in Seq(Operation),
           \/ Ordered(s) /\ Unmarking(t)
           \/ Unmarking(s) /\ Ordered(t)
    PROVE  Ordered(s \o t)
  <1>1. /\ Unmarking(s) => \A i \in DOMAIN s : s[i].op \notin Marking
        /\ Unmarking(t) => \A i \in DOMAIN t : t[i].op \notin Marking
    BY DEF Unmarking, Ops
  <1>2. PICK u \in Seq(Operation) : u = s \o t
    BY ConcatFacts
  <1>3. /\ \A i \in DOMAIN s : i \in Nat /\ i \in DOMAIN u /\ u[i] = s[i]
        /\ \A i \in DOMAIN t : Len(s) + i \in DOMAIN u /\ u[Len(s) + i] = t[i]
        /\ \A i \in DOMAIN u : i \in DOMAIN s \/ \E j \in DOMAIN t : i = Len(s) + j
    BY <1>2, ConcatFacts
  <1>4. Len(s) \in Nat /\ \A i \in DOMAIN t : i \in Nat
    OBVIOUS
  <1>5. "marker" \in Marking
    BY DEF Marking
  <1>6. CASE Ordered(s) /\ Unmarking(t)
    <2>1. \A i \in DOMAIN u : u[i].op \in Marking => i \in DOMAIN s
      BY <1>1, <1>3, <1>6
    <2>2. \A i \in DOMAIN u : u[i].op = "marker" =>
              \E j \in DOMAIN u : j < i /\ u[j] = Op("entry", u[i].what)
      BY <1>3, <1>5, <1>6, <2>1 DEF Ordered
    <2>3. \A i, j \in DOMAIN u : u[i].op \in Marking /\ u[j].op \in Marking => i = j
      BY <1>3, <1>6, <2>1 DEF Ordered
    <2>4. QED
      BY <1>2, <2>2, <2>3 DEF Ordered
  <1>7. CASE Unmarking(s) /\ Ordered(t)
    <2>1. \A i \in DOMAIN u : u[i].op \in Marking =>
              \E j \in DOMAIN t : i = Len(s) + j /\ u[i] = t[j]
      BY <1>1, <1>3, <1>7
    <2>2. ASSUME NEW i \in DOMAIN u, u[i].op = "marker"
          PROVE  \E j \in DOMAIN u : j < i /\ u[j] = Op("entry", u[i].what)
      <3>1. PICK k \in DOMAIN t : i = Len(s) + k /\ u[i] = t[k]
        BY <1>5, <2>1, <2>2
      <3>2. PICK j \in DOMAIN t : j < k /\ t[j] = Op("entry", t[k].what)
        BY <1>7, <2>2, <3>1 DEF Ordered
      <3>3. Len(s) + j < i
        BY <1>4, <3>1, <3>2
      <3>4. QED
        BY <1>3, <3>1, <3>2, <3>3
    <2>3. \A i, j \in DOMAIN u : u[i].op \in Marking /\ u[j].op \in Marking => i = j
      BY <1>7, <2>1 DEF Ordered
    <2>4. QED
      BY <1>2, <2>2, <2>3 DEF Ordered
  <1>8. QED
    BY <1>6, <1>7

LEMMA UnmarkingOrdered ==
    ASSUME NEW t, Unmarking(t)
    PROVE  Ordered(t)
  BY DEF Unmarking, Ordered, Ops, Marking

LEMMA OneOp ==
    ASSUME NEW o \in Operation
    PROVE  <<o>> \in Seq(Operation) /\ <<o>> # <<>> /\ Ops(<<o>>) = {o}
  BY DEF Ops

LEMMA AppendShape ==
    ASSUME target \in Targets, NEW e \in Events
    PROVE  LET t == AuditAppend(e) IN
           /\ t \in Seq(Operation) /\ t # <<>>
           /\ \A o \in Ops(t) : o.op \in Recording /\ o.what = e
           /\ Ops(t) \cap MarkOf(e) # {}
           /\ Ordered(t)
  <1> DEFINE Goal(t) == /\ t \in Seq(Operation) /\ t # <<>>
                        /\ \A o \in Ops(t) : o.op \in Recording /\ o.what = e
                        /\ Ops(t) \cap MarkOf(e) # {}
                        /\ Ordered(t)
  <1>1. /\ Op("row", e) \in Operation /\ Op("entry", e) \in Operation
        /\ Op("marker", e) \in Operation /\ Op("log", e) \in Operation
    BY DEF Op, Operation, Recording
  <1>2. \A kind : Op(kind, e).op = kind /\ Op(kind, e).what = e
    BY DEF Op
  <1>3. Goal(<<Op("row", e)>>)
    BY <1>1, <1>2 DEF Ops, Ordered, MarkOf, Recording, Marking
  <1>4. Goal(<<Op("entry", e), Op("marker", e)>>)
    BY <1>1, <1>2 DEF Ops, Ordered, MarkOf, Recording, Marking
  <1>5. Goal(AppendAWS(e))
    <2>1. PICK s \in Seq(Operation) : s = <<Op("entry", e), Op("marker", e)>>
      BY <1>4
    <2>2. PICK t \in Seq(Operation) : t = <<Op("log", e)>> /\ Ops(t) = {Op("log", e)}
      BY <1>1, OneOp
    <2>3. AppendAWS(e) = s \o t
      BY <2>1, <2>2 DEF AppendAWS, AppendGCP
    <2>4. Goal(s)
      BY <1>4, <2>1
    <2>5. Unmarking(t)
      BY <1>2, <2>2 DEF Unmarking, Marking
    <2>6. Ordered(s \o t)
      BY <2>4, <2>5, OrderedConcat
    <2>7. Ops(s \o t) = Ops(s) \cup Ops(t) /\ s \o t \in Seq(Operation) /\ s \o t # <<>>
      BY <2>4, ConcatFacts
    <2>8. \A o \in Ops(t) : o.op \in Recording /\ o.what = e
      BY <1>2, <2>2 DEF Recording
    <2>9. Goal(s \o t)
      BY <2>4, <2>6, <2>7, <2>8
    <2>10. QED
      BY <2>3, <2>9
  <1>6. AuditAppend(e) \in {<<Op("row", e)>>, <<Op("entry", e), Op("marker", e)>>, AppendAWS(e)}
    BY DEF AuditAppend, AppendLocal, AppendGCP, Targets
  <1>7. QED
    BY <1>3, <1>4, <1>5, <1>6

\* What process of agent a may do.
Allowed(o, a, q) ==
    /\ o.op \in Recording \cup {"llm", "fetch", "put", "raise"}
    /\ o.op \in Recording => o.what \in Notes
    /\ o.op = "put" => o.what \in Keys
    /\ o.op \in {"llm", "put"} => ~Stopped(a, q)
    /\ o.op = "fetch" => ~Floored(a, q)
    /\ o.op \in Recording /\ o.what = "ANALYTICS_SUPPRESSED" => Floored(a, q)

\* A part of its script that writes no marker, and one that may write one.
Work(t, a, q) == t \in Seq(Operation) /\ Unmarking(t) /\ \A o \in Ops(t) : Allowed(o, a, q)
Part(t, a, q) == t \in Seq(Operation) /\ Ordered(t) /\ \A o \in Ops(t) : Allowed(o, a, q)

LEMMA Joined ==
    ASSUME NEW s \in Seq(Operation), NEW t \in Seq(Operation), NEW a, NEW q
    PROVE  /\ Work(s, a, q) /\ Work(t, a, q) => Work(s \o t, a, q)
           /\ Work(s, a, q) /\ Part(t, a, q) => Part(s \o t, a, q)
           /\ Part(s, a, q) /\ Work(t, a, q) => Part(s \o t, a, q)
           /\ s # <<>> \/ t # <<>> => s \o t # <<>>
           /\ Ops(s \o t) = Ops(s) \cup Ops(t)
  <1>1. PICK u \in Seq(Operation) : u = s \o t
    BY ConcatFacts
  <1>2. Ops(u) = Ops(s) \cup Ops(t) /\ (s # <<>> \/ t # <<>> => u # <<>>)
    BY <1>1, ConcatFacts
  <1>3. /\ Unmarking(s) /\ Unmarking(t) => Unmarking(u)
        /\ Unmarking(s) /\ Ordered(t) => Ordered(u)
        /\ Ordered(s) /\ Unmarking(t) => Ordered(u)
    BY <1>1, <1>2, OrderedConcat DEF Unmarking
  <1>4. QED
    BY <1>1, <1>2, <1>3 DEF Work, Part

LEMMA WorkWork ==
    ASSUME NEW s, NEW t, NEW a, NEW q, Work(s, a, q), Work(t, a, q)
    PROVE  Work(s \o t, a, q)
  BY Joined DEF Work

LEMMA WorkPart ==
    ASSUME NEW s, NEW t, NEW a, NEW q, Work(s, a, q), Part(t, a, q)
    PROVE  Part(s \o t, a, q) /\ (t # <<>> => s \o t # <<>>)
  <1>1. s \in Seq(Operation) /\ t \in Seq(Operation)
    BY DEF Work, Part
  <1>2. QED
    BY <1>1, Joined

LEMMA WorkIsPart ==
    ASSUME NEW t, NEW a, NEW q, Work(t, a, q)
    PROVE  Part(t, a, q)
  BY UnmarkingOrdered DEF Work, Part

LEMMA Works ==
    ASSUME NEW a, NEW q
    PROVE  /\ Work(<<>>, a, q) /\ Ops(<<>>) = {}
           /\ ~Stopped(a, q) => Work(Llm, a, q) /\ Llm # <<>> /\ Ops(Llm) = {Op("llm", "llm")}
           /\ \A k \in Keys : ~Stopped(a, q) =>
                  Work(Put(k), a, q) /\ Put(k) # <<>> /\ Ops(Put(k)) = {Op("put", k)}
           /\ \A x \in Others : ~Floored(a, q) =>
                  Work(Fetch(x), a, q) /\ Fetch(x) # <<>> /\ Ops(Fetch(x)) = {Op("fetch", x)}
           /\ Work(<<Op("raise", "invalid")>>, a, q) /\ <<Op("raise", "invalid")>> # <<>>
           /\ Ops(<<Op("raise", "invalid")>>) = {Op("raise", "invalid")}
  <1>1. Ops(<<>>) = {} /\ <<>> \in Seq(Operation)
    BY DEF Ops
  <1>2. \A kind, x : Op(kind, x).op = kind /\ Op(kind, x).what = x
    BY DEF Op
  <1>3. /\ Op("llm", "llm") \in Operation /\ Op("raise", "invalid") \in Operation
        /\ \A k \in Keys : Op("put", k) \in Operation
        /\ \A x \in Others : Op("fetch", x) \in Operation
    BY DEF Op, Operation, Working, Others
  <1>4. ASSUME NEW o \in Operation, o.op \notin Marking, Allowed(o, a, q)
        PROVE  Work(<<o>>, a, q) /\ <<o>> # <<>> /\ Ops(<<o>>) = {o}
    BY <1>4, OneOp DEF Work, Unmarking
  <1>5. Work(<<>>, a, q)
    BY <1>1 DEF Work, Unmarking
  <1>6. /\ ~Stopped(a, q) => Allowed(Op("llm", "llm"), a, q)
        /\ \A k \in Keys : ~Stopped(a, q) => Allowed(Op("put", k), a, q)
        /\ \A x \in Others : ~Floored(a, q) => Allowed(Op("fetch", x), a, q)
        /\ Allowed(Op("raise", "invalid"), a, q)
    BY <1>2 DEF Allowed, Recording
  <1>7. "llm" \notin Marking /\ "put" \notin Marking /\ "fetch" \notin Marking
        /\ "raise" \notin Marking
    BY DEF Marking
  <1>8. ~Stopped(a, q) => Work(Llm, a, q) /\ Llm # <<>> /\ Ops(Llm) = {Op("llm", "llm")}
    BY <1>2, <1>3, <1>4, <1>6, <1>7 DEF Llm
  <1>9. \A k \in Keys : ~Stopped(a, q) =>
                  Work(Put(k), a, q) /\ Put(k) # <<>> /\ Ops(Put(k)) = {Op("put", k)}
    BY <1>2, <1>3, <1>4, <1>6, <1>7 DEF Put
  <1>10. \A x \in Others : ~Floored(a, q) =>
                  Work(Fetch(x), a, q) /\ Fetch(x) # <<>> /\ Ops(Fetch(x)) = {Op("fetch", x)}
    BY <1>2, <1>3, <1>4, <1>6, <1>7 DEF Fetch
  <1>11. /\ Work(<<Op("raise", "invalid")>>, a, q) /\ <<Op("raise", "invalid")>> # <<>>
         /\ Ops(<<Op("raise", "invalid")>>) = {Op("raise", "invalid")}
    BY <1>2, <1>3, <1>4, <1>6, <1>7
  <1>12. QED
    BY <1>1, <1>5, <1>8, <1>9, <1>10, <1>11

LEMMA NotePart ==
    ASSUME target \in Targets, NEW e \in Notes, NEW a, NEW q,
           e = "ANALYTICS_SUPPRESSED" => Floored(a, q)
    PROVE  LET t == AuditAppend(e) IN
           /\ Part(t, a, q) /\ t # <<>>
           /\ Ops(t) \cap MarkOf(e) # {}
           /\ \A o \in Ops(t) : o.op \in Recording
  <1>1. e \in Events
    BY DEF Events
  <1>2. \A o : o.op \in Recording /\ o.what = e => Allowed(o, a, q)
    BY DEF Allowed, Recording
  <1>3. QED
    BY <1>1, <1>2, AppendShape DEF Part

\* The script of agent a for request q.
Fits(t, a, q) ==
    /\ Part(t, a, q) /\ t # <<>>
    /\ \A e \in Verdict(a) : Awaits(t, "llm", MarkOf(e))
    /\ a = "LEGAL" => \/ \A k \in Opinion : Op("put", k) \in Ops(t)
                      \/ \E o \in Ops(t) : o.op = "raise"
    /\ a = "ANALYTICS" => Awaits(t, "put", Basis(q))

LEMMA NoVerdict ==
    ASSUME NEW a, a \notin {"ER", "HR_OPS"}
    PROVE  Verdict(a) = {}
  BY DEF Verdict

LEMMA SimplyFits ==
    ASSUME NEW t, NEW a, NEW q, a \notin {"ER", "HR_OPS", "LEGAL", "ANALYTICS"}, Part(t, a, q), t # <<>>
    PROVE  Fits(t, a, q)
  BY NoVerdict DEF Fits

LEMMA ErFits ==
    ASSUME target \in Targets, NEW q
    PROVE  Fits(ErScript(q), "ER", q)
  <1>1. PICK s \in Seq(Operation) :
          /\ s = AuditAppend("ER_COMPLIANCE_CHECK")
          /\ Part(s, "ER", q) /\ s # <<>> /\ Ops(s) \cap MarkOf("ER_COMPLIANCE_CHECK") # {}
          /\ \A o \in Ops(s) : o.op \in Recording
    BY NotePart DEF Part, Notes
  <1>2. PICK t \in Seq(Operation) :
          /\ t = IF ErVerdict(q).result = "HARD_STOP" THEN <<>> ELSE Llm \o Put("er.txt")
          /\ Work(t, "ER", q)
    <2>1. CASE ErVerdict(q).result = "HARD_STOP"
      BY <2>1, Works DEF Work
    <2>2. CASE ErVerdict(q).result # "HARD_STOP"
      <3>1. ~Stopped("ER", q)
        BY <2>2 DEF Stopped
      <3>2. Work(Llm, "ER", q) /\ Work(Put("er.txt"), "ER", q)
        BY <3>1, Works DEF Keys
      <3>3. Work(Llm \o Put("er.txt"), "ER", q)
        BY <3>2, Joined DEF Work
      <3>4. QED
        BY <2>2, <3>3 DEF Work
    <2>3. QED
      BY <2>1, <2>2
  <1>3. ErScript(q) = s \o t
    BY <1>1, <1>2 DEF ErScript
  <1>4. Part(s \o t, "ER", q) /\ s \o t # <<>>
    BY <1>1, <1>2, Joined
  <1>5. Awaits(s, "llm", MarkOf("ER_COMPLIANCE_CHECK"))
    BY <1>1, NoneAwaits DEF Recording
  <1>6. Awaits(s \o t, "llm", MarkOf("ER_COMPLIANCE_CHECK"))
    BY <1>1, <1>5, AwaitsConcat
  <1>7. QED
    BY <1>3, <1>4, <1>6 DEF Fits, Verdict

LEMMA LegalFits ==
    ASSUME target \in Targets, NEW q
    PROVE  Fits(LegalScript, "LEGAL", q)
  <1>1. ~Stopped("LEGAL", q)
    BY DEF Stopped
  <1>2. PICK s1 \in Seq(Operation), s2 \in Seq(Operation), s3 \in Seq(Operation) :
          /\ s1 = Llm /\ s2 = Put("legal.txt") /\ s3 = Put("legal.meta.json")
          /\ Work(s1, "LEGAL", q) /\ Work(s2, "LEGAL", q) /\ Work(s3, "LEGAL", q)
          /\ Op("put", "legal.txt") \in Ops(s2) /\ Op("put", "legal.meta.json") \in Ops(s3)
    BY <1>1, Works DEF Work, Keys
  <1>3. PICK s4 \in Seq(Operation) :
          s4 = AuditAppend("LEGAL_OPINION") /\ Part(s4, "LEGAL", q) /\ s4 # <<>>
    BY NotePart DEF Part, Notes
  <1>4. PICK s5 \in Seq(Operation) :
          s5 = s1 \o s2 /\ Work(s5, "LEGAL", q) /\ Ops(s5) = Ops(s1) \cup Ops(s2)
    BY <1>2, Joined DEF Work
  <1>5. PICK s6 \in Seq(Operation) :
          s6 = s5 \o s3 /\ Work(s6, "LEGAL", q) /\ Ops(s6) = Ops(s5) \cup Ops(s3)
    BY ZenonT(60), <1>2, <1>4, Joined DEF Work
  <1>6. PICK s7 \in Seq(Operation) :
          /\ s7 = s6 \o s4 /\ Part(s7, "LEGAL", q) /\ s7 # <<>>
          /\ Ops(s7) = Ops(s6) \cup Ops(s4)
    BY ZenonT(60), <1>3, <1>5, Joined DEF Part
  <1>7. LegalScript = s7
    BY <1>2, <1>3, <1>4, <1>5, <1>6 DEF LegalScript
  <1>8. \A k \in Opinion : Op("put", k) \in Ops(s7)
    BY <1>2, <1>4, <1>5, <1>6 DEF Opinion
  <1>9. Verdict("LEGAL") = {}
    BY NoVerdict
  <1>10. Fits(s7, "LEGAL", q)
    BY <1>6, <1>8, <1>9 DEF Fits
  <1>11. QED
    BY <1>7, <1>10

LEMMA HrOpsFits ==
    ASSUME target \in Targets, NEW q
    PROVE  Fits(HrOpsScript, "HR_OPS", q)
  <1> DEFINE S == MarkOf("HR_OPS_OBLIGATIONS_DERIVED")
  <1>1. PICK s \in Seq(Operation) :
          /\ s = AuditAppend("HR_OPS_OBLIGATIONS_DERIVED")
          /\ Part(s, "HR_OPS", q) /\ s # <<>> /\ Ops(s) \cap S # {}
          /\ \A o \in Ops(s) : o.op \in Recording
    BY NotePart DEF Part, Notes
  <1>2. ~Stopped("HR_OPS", q)
    BY DEF Stopped
  <1>3. PICK t \in Seq(Operation), u \in Seq(Operation) :
          /\ t = Llm /\ u = Put("hr_ops.txt")
          /\ Work(t, "HR_OPS", q) /\ Work(u, "HR_OPS", q)
    BY <1>2, Works DEF Work, Keys
  <1>4. Awaits(s, "llm", S)
    BY <1>1, NoneAwaits DEF Recording
  <1> HIDE DEF S
  <1>5. PICK v \in Seq(Operation) :
          /\ v = s \o t /\ Part(v, "HR_OPS", q) /\ v # <<>>
          /\ Ops(v) = Ops(s) \cup Ops(t) /\ Awaits(v, "llm", S)
    BY <1>1, <1>3, <1>4, Joined, AwaitsConcat DEF Part
  <1>6. Part(v \o u, "HR_OPS", q) /\ v \o u # <<>> /\ Awaits(v \o u, "llm", S)
    BY <1>1, <1>3, <1>5, Joined, AwaitsConcat
  <1>7. HrOpsScript = v \o u
    BY <1>1, <1>3, <1>5 DEF HrOpsScript
  <1>8. QED
    BY <1>6, <1>7 DEF Fits, Verdict, S

LEMMA CbFits ==
    ASSUME target \in Targets, NEW q
    PROVE  Fits(CbScript, "CB", q)
  <1>1. PICK s \in Seq(Operation) : s = Put("cb.json") /\ Work(s, "CB", q)
    BY Works DEF Work, Keys, Stopped
  <1>2. PICK t \in Seq(Operation) :
          t = AuditAppend("CB_OFFER_RANGE") /\ Part(t, "CB", q) /\ t # <<>>
    BY NotePart DEF Part, Notes
  <1>3. Part(s \o t, "CB", q) /\ s \o t # <<>>
    BY <1>1, <1>2, Joined
  <1>4. QED
    BY <1>1, <1>2, <1>3, NoVerdict DEF Fits, CbScript

LEMMA LdFits ==
    ASSUME target \in Targets, NEW q
    PROVE  Fits(LdScript, "LD", q)
  <1>1. PICK s \in Seq(Operation) : s = Fetch("lms") /\ Work(s, "LD", q)
    BY Works DEF Work, Floored, Others
  <1>2. PICK u \in Seq(Operation) : u = Put("ld.json") /\ Work(u, "LD", q)
    BY Works DEF Work, Keys, Stopped
  <1>3. PICK t \in Seq(Operation) :
          t = AuditAppend("LD_LEARNING_PATH") /\ Part(t, "LD", q) /\ t # <<>>
    BY NotePart DEF Part, Notes
  <1>4. PICK v \in Seq(Operation) : v = s \o u /\ Work(v, "LD", q)
    BY <1>1, <1>2, WorkWork DEF Work
  <1>5. PICK y \in Seq(Operation) : y = v \o t /\ Part(y, "LD", q) /\ y # <<>>
    BY <1>3, <1>4, WorkPart DEF Part
  <1>6. LdScript = y
    BY <1>1, <1>2, <1>3, <1>4, <1>5 DEF LdScript
  <1>7. QED
    BY <1>5, <1>6, SimplyFits

LEMMA HrbpFits ==
    ASSUME target \in Targets, NEW q
    PROVE  Fits(HrbpScript, "HRBP", q)
  <1>1. PICK s \in Seq(Operation) : s = Llm /\ Work(s, "HRBP", q)
    BY Works DEF Work, Stopped
  <1>2. PICK u \in Seq(Operation) : u = Put("hrbp.txt") /\ Work(u, "HRBP", q)
    BY Works DEF Work, Keys, Stopped
  <1>3. PICK t \in Seq(Operation) :
          t = AuditAppend("HRBP_RECOMMENDATION") /\ Part(t, "HRBP", q) /\ t # <<>>
    BY NotePart DEF Part, Notes
  <1>4. PICK v \in Seq(Operation) : v = s \o u /\ Work(v, "HRBP", q)
    BY <1>1, <1>2, WorkWork DEF Work
  <1>5. PICK y \in Seq(Operation) : y = v \o t /\ Part(y, "HRBP", q) /\ y # <<>>
    BY <1>3, <1>4, WorkPart DEF Part
  <1>6. HrbpScript = y
    BY <1>1, <1>2, <1>3, <1>4, <1>5 DEF HrbpScript
  <1>7. QED
    BY <1>5, <1>6, SimplyFits

LEMMA TaFits ==
    ASSUME target \in Targets, NEW q
    PROVE  Fits(TaScript, "TA", q)
  <1>1. PICK s \in Seq(Operation) : s = Fetch("greenhouse") /\ Work(s, "TA", q)
    BY Works DEF Work, Floored, Others
  <1>2. PICK u \in Seq(Operation) : u = Fetch("goodtime") /\ Work(u, "TA", q)
    BY Works DEF Work, Floored, Others
  <1>3. PICK w \in Seq(Operation) : w = Put("ta.json") /\ Work(w, "TA", q)
    BY Works DEF Work, Keys, Stopped
  <1>4. PICK t \in Seq(Operation) :
          t = AuditAppend("TA_PIPELINE_SUMMARY") /\ Part(t, "TA", q) /\ t # <<>>
    BY NotePart DEF Part, Notes
  <1>5. PICK v \in Seq(Operation) : v = s \o u /\ Work(v, "TA", q)
    BY <1>1, <1>2, WorkWork DEF Work
  <1>6. PICK x \in Seq(Operation) : x = v \o w /\ Work(x, "TA", q)
    BY <1>3, <1>5, WorkWork DEF Work
  <1>7. PICK y \in Seq(Operation) : y = x \o t /\ Part(y, "TA", q) /\ y # <<>>
    BY <1>4, <1>6, WorkPart DEF Part
  <1>8. TaScript = y
    BY <1>1, <1>2, <1>3, <1>4, <1>5, <1>6, <1>7 DEF TaScript
  <1>9. QED
    BY <1>7, <1>8, SimplyFits

LEMMA AnalyticsFits ==
    ASSUME target \in Targets, NEW q
    PROVE  Fits(AnalyticsScript(q), "ANALYTICS", q)
  <1>1. PICK u \in Seq(Operation) :
          u = Put("analytics.json") /\ Work(u, "ANALYTICS", q) /\ u # <<>>
    BY Works DEF Work, Keys, Stopped
  <1>2. PICK t \in Seq(Operation) :
          /\ t = IF Decide!Suppressed(q.cohort, MinimumCohort)
                 THEN AuditAppend("ANALYTICS_SUPPRESSED") ELSE Fetch("panalyt")
          /\ Part(t, "ANALYTICS", q)
          /\ Ops(t) \cap Basis(q) # {} /\ \A o \in Ops(t) : o.op # "put"
    <2>1. CASE Decide!Suppressed(q.cohort, MinimumCohort)
      <3>1. Floored("ANALYTICS", q) /\ "ANALYTICS_SUPPRESSED" \in Notes
        BY <2>1 DEF Floored, Notes
      <3>2. PICK v \in Seq(Operation) :
              /\ v = AuditAppend("ANALYTICS_SUPPRESSED") /\ Part(v, "ANALYTICS", q)
              /\ Ops(v) \cap MarkOf("ANALYTICS_SUPPRESSED") # {}
              /\ \A o \in Ops(v) : o.op \in Recording
        BY <3>1, NotePart DEF Part
      <3>3. QED
        BY <2>1, <3>2 DEF Basis, Recording
    <2>2. CASE ~Decide!Suppressed(q.cohort, MinimumCohort)
      <3>1. PICK v \in Seq(Operation) :
              v = Fetch("panalyt") /\ Work(v, "ANALYTICS", q) /\ Ops(v) = {Op("fetch", "panalyt")}
        BY <2>2, Works DEF Floored, Others, Work
      <3>2. Part(v, "ANALYTICS", q) /\ Op("fetch", "panalyt").op = "fetch"
        BY <3>1, WorkIsPart DEF Op
      <3>3. QED
        BY <2>2, <3>1, <3>2 DEF Basis
    <2>3. QED
      BY <2>1, <2>2
  <1>3. Part(t \o u, "ANALYTICS", q) /\ t \o u # <<>>
    BY <1>1, <1>2, Joined
  <1>4. Awaits(t \o u, "put", Basis(q))
    <2>1. Awaits(t, "put", Basis(q))
      BY <1>2, NoneAwaits
    <2>2. QED
      BY <1>1, <1>2, <2>1, AwaitsConcat
  <1>5. PICK v : v = t \o u
    OBVIOUS
  <1>6. AnalyticsScript(q) = v
    BY <1>1, <1>2, <1>5 DEF AnalyticsScript
  <1>7. Verdict("ANALYTICS") = {}
    BY NoVerdict
  <1>8. Fits(v, "ANALYTICS", q)
    BY <1>3, <1>4, <1>5, <1>7 DEF Fits
  <1>9. QED
    BY <1>6, <1>8

LEMMA DirectorFits ==
    ASSUME target \in Targets, NEW q
    PROVE  Fits(DirectorScript(q), "DIRECTOR", q)
  <1>1. PICK s \in Seq(Operation) : s = (IF Routing!Unsure(q.text) THEN Llm ELSE <<>>) /\ Work(s, "DIRECTOR", q)
    BY Works DEF Work, Stopped
  <1>2. PICK u \in Seq(Operation) : u = Put("routing.json") /\ Work(u, "DIRECTOR", q)
    BY Works DEF Work, Keys, Stopped
  <1>3. PICK t \in Seq(Operation) :
          t = AuditAppend("ROUTING_DECISION") /\ Part(t, "DIRECTOR", q) /\ t # <<>>
    BY NotePart DEF Part, Notes
  <1>4. PICK v \in Seq(Operation) : v = s \o u /\ Work(v, "DIRECTOR", q)
    BY <1>1, <1>2, WorkWork DEF Work
  <1>5. PICK y \in Seq(Operation) : y = v \o t /\ Part(y, "DIRECTOR", q) /\ y # <<>>
    BY <1>3, <1>4, WorkPart DEF Part
  <1>6. DirectorScript(q) = y
    BY <1>1, <1>2, <1>3, <1>4, <1>5 DEF DirectorScript
  <1>7. QED
    BY <1>5, <1>6, SimplyFits

LEMMA ProcessFits ==
    ASSUME target \in Targets, NEW a \in Agents \cup {"DIRECTOR"}, NEW q
    PROVE  Fits(Process(a, q), a, q)
  <1>1. CASE ~q.valid /\ a # "DIRECTOR"
    <2>1. PICK t \in Seq(Operation) :
            /\ t = <<Op("raise", "invalid")>> /\ Work(t, a, q) /\ t # <<>>
            /\ Ops(t) = {Op("raise", "invalid")}
      BY Works DEF Work
    <2>2. Op("raise", "invalid").op = "raise"
      BY DEF Op
    <2>3. \A e \in Verdict(a) : Awaits(t, "llm", MarkOf(e))
      BY <2>1, <2>2, NoneAwaits
    <2>4. Awaits(t, "put", Basis(q))
      BY <2>1, <2>2, NoneAwaits
    <2>5. Fits(t, a, q)
      BY <2>1, <2>2, <2>3, <2>4, WorkIsPart DEF Fits
    <2>6. QED
      BY <1>1, <2>1, <2>5 DEF Process
  <1>2. CASE ~(~q.valid /\ a # "DIRECTOR")
    BY <1>2, ErFits, LegalFits, HrOpsFits, CbFits, LdFits, HrbpFits, TaFits, AnalyticsFits,
       DirectorFits
    DEF Process, Agents
  <1>3. QED
    BY <1>1, <1>2

----------------------------------------------------------------------------
(* A list that is set for a run, when a phase begins, is ready.            *)

LEMMA ReadyEmpty ==
    ASSUME NEW r, NEW a, NEW q, NEW en, NEW ma, NEW ob
    PROVE  Ready(<<>>, r, a, q, en, ma, ob) /\ Ops(<<>>) = {}
  BY DEF Ready, Ops, Awaits

LEMMA ReadyScript ==
    ASSUME NEW t, NEW r, NEW a, NEW q, NEW en, NEW ma, NEW ob, Fits(t, a, q),
           <<r, "REQUEST_RECEIVED">> \in ma, ~Concluded(r, ma)
    PROVE  Ready(t, r, a, q, en, ma, ob)
  <1>1. \A o \in Ops(t) : Allowed(o, a, q)
    BY DEF Fits, Part
  <1>2. \A o \in Ops(t) : o.op # "notify"
    BY <1>1 DEF Allowed, Recording
  <1>3. \A e \in Notes : MayMark(r, e, ma)
    BY DEF MayMark
  <1>4. \A o \in Ops(t) : Entitled(o, r, a, q, ma, ob)
    BY <1>1, <1>2, <1>3 DEF Allowed, Entitled, Marking, Recording
  <1>5. Awaits(t, "notify", MarkOf("RESPONSE_GENERATED"))
    BY <1>2, NoneAwaits
  <1>6. Ordered(t) /\ \A e \in Verdict(a) : Awaits(t, "llm", MarkOf(e))
    BY DEF Fits, Part
  <1>7. QED
    BY <1>4, <1>5, <1>6 DEF Ready, Ordered

\* An append, and then a call to the human or nothing.
LEMMA ReadyAppend ==
    ASSUME target \in Targets, NEW e \in Events, NEW r, NEW a, NEW q, NEW en, NEW ma, NEW ob,
           MayMark(r, e, ma), e # "ANALYTICS_SUPPRESSED"
    PROVE  LET t == AuditAppend(e) IN
           /\ t \in Seq(Operation) /\ t # <<>>
           /\ \A o \in Ops(t) : o.op \in Recording /\ o.what = e
           /\ Ops(t) \cap MarkOf(e) # {}
           /\ Ready(t, r, a, q, en, ma, ob)
  <1>1. PICK t \in Seq(Operation) :
          /\ t = AuditAppend(e) /\ t # <<>>
          /\ \A o \in Ops(t) : o.op \in Recording /\ o.what = e
          /\ Ops(t) \cap MarkOf(e) # {}
          /\ Ordered(t)
    BY AppendShape
  <1>2. \A o \in Ops(t) : Entitled(o, r, a, q, ma, ob)
    BY <1>1 DEF Entitled, Recording, Working
  <1>3. /\ Awaits(t, "notify", MarkOf("RESPONSE_GENERATED"))
        /\ \A f \in Verdict(a) : Awaits(t, "llm", MarkOf(f))
    BY <1>1, NoneAwaits DEF Recording
  <1>4. Ready(t, r, a, q, en, ma, ob)
    BY <1>1, <1>2, <1>3 DEF Ready, Ordered
  <1>5. QED
    BY <1>1, <1>4

LEMMA ConclusionFits ==
    ASSUME target \in Targets, NEW s, NEW r, NEW q, NEW en, NEW ma, NEW ob,
           <<r, "REQUEST_RECEIVED">> \in ma, ~Concluded(r, ma),
           s.agent = "LEGAL" => OpinionStored(ob)
    PROVE  LET t == Conclusion(s) IN
           /\ t \in Seq(Operation) /\ t # <<>>
           /\ \A o \in Ops(t) : o.op \in Recording \cup {"notify"}
           /\ s.tier = "MANDATORY" => \E o \in Ops(t) : o.op = "notify"
           /\ Ready(t, r, s.agent, q, en, ma, ob)
  <1> DEFINE e == "RESPONSE_GENERATED"
  <1>1. MayMark(r, e, ma)
    BY DEF MayMark, Conclusions
  <1>2. PICK t \in Seq(Operation) :
          /\ t = AuditAppend(e) /\ t # <<>>
          /\ \A o \in Ops(t) : o.op \in Recording /\ o.what = e
          /\ Ops(t) \cap MarkOf(e) # {}
          /\ Ordered(t)
    BY AppendShape DEF Events, Conclusions
  <1>3. Op("notify", "human") \in Operation /\ Op("notify", "human").op = "notify"
    BY DEF Op, Operation, Working, Others
  <1>4. PICK u \in Seq(Operation) :
          /\ u = IF s.tier = "MANDATORY" THEN Notify ELSE <<>>
          /\ Ops(u) = IF s.tier = "MANDATORY" THEN {Op("notify", "human")} ELSE {}
    <2>1. CASE s.tier = "MANDATORY"
      BY <1>3, <2>1, OneOp DEF Notify
    <2>2. CASE s.tier # "MANDATORY"
      <3>1. <<>> \in Seq(Operation) /\ Ops(<<>>) = {}
        BY ReadyEmpty
      <3>2. QED
        BY <2>2, <3>1
    <2>3. QED
      BY <2>1, <2>2
  <1>5. Unmarking(u)
    BY <1>3, <1>4 DEF Unmarking, Marking
  <1>6. PICK v \in Seq(Operation) :
          v = t \o u /\ v # <<>> /\ Ops(v) = Ops(t) \cup Ops(u) /\ Ordered(v)
    BY <1>2, <1>5, ConcatFacts, OrderedConcat
  <1>7. Conclusion(s) = v
    BY <1>2, <1>4, <1>6 DEF Conclusion
  <1>8. \A o \in Ops(v) :
            \/ o.op \in Recording /\ o.what = e
            \/ o = Op("notify", "human") /\ s.tier = "MANDATORY"
    BY <1>2, <1>4, <1>6
  <1>9. \A o \in Ops(v) : Entitled(o, r, s.agent, q, ma, ob)
    <2>1. ASSUME NEW o, o.op \in Recording, o.what = e
          PROVE  Entitled(o, r, s.agent, q, ma, ob)
      BY <1>1, <2>1 DEF Entitled, Recording, Working
    <2>2. Entitled(Op("notify", "human"), r, s.agent, q, ma, ob)
      BY <1>3 DEF Entitled, Marking
    <2>3. QED
      BY <1>8, <2>1, <2>2
  <1>10. Awaits(v, "notify", MarkOf(e))
    <2>1. Awaits(t, "notify", MarkOf(e))
      BY <1>2, NoneAwaits DEF Recording
    <2>2. QED
      BY <1>2, <1>6, <2>1, AwaitsConcat
  <1>11. \A f \in Verdict(s.agent) : Awaits(v, "llm", MarkOf(f))
    BY <1>3, <1>8, NoneAwaits DEF Recording
  <1>12. Ready(v, r, s.agent, q, en, ma, ob)
    BY <1>6, <1>9, <1>10, <1>11 DEF Ready, Ordered
  <1>13. \A o \in Ops(v) : o.op \in Recording \cup {"notify"}
    BY <1>3, <1>8
  <1>14. s.tier = "MANDATORY" => \E o \in Ops(v) : o.op = "notify"
    BY <1>3, <1>4, <1>6
  <1>15. QED
    BY <1>6, <1>7, <1>12, <1>13, <1>14

----------------------------------------------------------------------------
(* One operation of a run, and the phase that follows.                     *)

\* What a phase of handle leaves behind when its last operation is done.
PhaseOver(s, r, q, ma, ob, ac) ==
    /\ s.at = "refuse" => q.pii
    /\ s.at \in {"admit", "process"} => <<r, "REQUEST_RECEIVED">> \in ma /\ ~Concluded(r, ma)
    /\ s.at = "process" /\ s.agent = "LEGAL" => OpinionStored(ob)
    /\ s.at = "conclude" /\ s.tier = "MANDATORY" => <<r, "notify">> \in ac

LEMMA PhaseStep ==
    ASSUME NEW s \in RunState, s.todo # <<>>, NEW r \in Runs, NEW q,
           NEW en, NEW ma, NEW ob \in [Keys -> Runs \cup {"nobody"}], NEW ac,
           NEW en2, NEW ma2, NEW ob2, NEW ac2,
           RunOK(s, r, q, en, ma, ob, ac),
           Happens(Head(s.todo), r, en, ma, ob, ac, en2, ma2, ob2, ac2),
           Head(s.todo).op # "raise",
           NEW s2 \in RunState, s2.at = s.at, s2.agent = s.agent, s2.todo = Tail(s.todo),
           Head(s.todo).op # "llm" => s2.tier = s.tier
    PROVE  /\ Ready(s2.todo, r, s2.agent, q, en2, ma2, ob2)
           /\ Accountable(r, s2.agent, q, ma2, ob2, ac2)
           /\ s2.todo # <<>> \/ s2.at = "gone" => InPhase(s2, r, q, ma2, ob2, ac2)
           /\ s2.todo = <<>> => PhaseOver(s2, r, q, ma2, ob2, ac2)
           /\ s2.at \in Running \cup {"gone"}
           /\ Sourced(s2.todo, r, s2.agent, q, ma2, ac2)
  <1> DEFINE Phase == /\ s2.todo # <<>> \/ s2.at = "gone" => InPhase(s2, r, q, ma2, ob2, ac2)
                      /\ s2.todo = <<>> => PhaseOver(s2, r, q, ma2, ob2, ac2)
  <1>1. s.todo \in Seq(Operation)
    BY DEF RunState
  <1>2. PICK todo \in Seq(Operation), h \in Operation, u \in Seq(Operation) :
          /\ todo = s.todo /\ h = Head(todo) /\ u = Tail(todo) /\ s2.todo = u
          /\ Ops(todo) = {h} \cup Ops(u)
    BY ZenonT(60), <1>1, TailFacts
  <1>3. Ready(s2.todo, r, s2.agent, q, en2, ma2, ob2)
    BY ZenonT(60), <1>2, ReadyTail DEF RunOK
  <1>4. Accountable(r, s2.agent, q, ma2, ob2, ac2)
    BY <1>2, AccountableHead DEF RunOK
  <1>5. InPhase(s, r, q, ma, ob, ac)
    BY DEF RunOK
  <1>6. s2.at \in Running \cup {"gone"}
    BY <1>5 DEF InPhase, RunState
  <1>7. /\ ma2 = IF h.op \in Marking THEN ma \cup {<<r, h.what>>} ELSE ma
        /\ ob2 = IF h.op = "put" THEN [ob EXCEPT ![h.what] = r] ELSE ob
        /\ ac2 = IF h.op \in Working THEN ac \cup {<<r, h.op>>} ELSE ac
    BY <1>2 DEF Happens
  <1>8. ma \subseteq ma2 /\ ac \subseteq ac2
    BY <1>7
  <1>9. Concluded(r, ma2) => Concluded(r, ma) \/ (h.op \in Recording /\ h.what \in Conclusions)
    BY <1>7 DEF Concluded, Marking, Recording
  <1>10. Ops(u) = {} \/ u # <<>>
    BY ReadyEmpty
  <1>11. u = <<>> => Ops(u) = {}
    BY ReadyEmpty
  <1>12. ASSUME s.at = "refuse" PROVE Phase
    BY <1>2, <1>5, <1>6, <1>11, <1>12 DEF InPhase, PhaseOver
  <1>13. ASSUME s.at = "admit" PROVE Phase
    <2>1. /\ h.op \in Recording /\ h.what = "REQUEST_RECEIVED"
          /\ \A o \in Ops(u) : o.op \in Recording /\ o.what = "REQUEST_RECEIVED"
      BY <1>2, <1>5, <1>13 DEF InPhase
    <2>2. ~Concluded(r, ma2)
      BY <1>5, <1>9, <1>13, <2>1 DEF InPhase, Conclusions
    <2>3. h \in MarkOf("REQUEST_RECEIVED") => h.op \in Marking
      BY DEF MarkOf, Op, Marking
    <2>4. \/ <<r, "REQUEST_RECEIVED">> \in ma2
          \/ Ops(u) \cap MarkOf("REQUEST_RECEIVED") # {}
      BY <1>2, <1>5, <1>7, <1>13, <2>1, <2>3 DEF InPhase
    <2>5. QED
      BY <1>2, <1>6, <1>11, <1>13, <2>1, <2>2, <2>4 DEF InPhase, PhaseOver
  <1>14. ASSUME s.at = "process" PROVE Phase
    <2>1. /\ h.op \in Recording => h.what \in Notes
          /\ \A o \in Ops(u) : o.op \in Recording => o.what \in Notes
      BY <1>2, <1>5, <1>14 DEF InPhase
    <2>2. ~Concluded(r, ma2)
      BY <1>5, <1>9, <1>14, <2>1 DEF InPhase, Conclusions, Notes
    <2>3. <<r, "REQUEST_RECEIVED">> \in ma2
      BY <1>5, <1>8, <1>14 DEF InPhase
    <2>4. ASSUME s.agent = "LEGAL", NEW k \in Opinion
          PROVE  \/ ob2[k] # "nobody"
                 \/ Op("put", k) \in Ops(u)
                 \/ \E o \in Ops(u) : o.op = "raise"
      <3>1. k \in Keys
        BY DEF Opinion, Keys
      <3>2. CASE ob[k] # "nobody"
        BY <1>7, <3>1, <3>2, RunsAssumption
      <3>3. CASE Op("put", k) \in Ops(todo)
        <4>1. h = Op("put", k) => h.op = "put" /\ h.what = k
          BY DEF Op
        <4>2. h = Op("put", k) => ob2[k] # "nobody"
          BY <1>7, <3>1, <4>1, RunsAssumption
        <4>3. QED
          BY <1>2, <3>3, <4>2
      <3>4. CASE \E o \in Ops(todo) : o.op = "raise"
        BY <1>2, <3>4
      <3>5. QED
        BY <1>2, <1>5, <1>14, <2>4, <3>2, <3>3, <3>4 DEF InPhase
    <2>5. QED
      BY <1>2, <1>6, <1>11, <1>14, <2>1, <2>2, <2>3, <2>4 DEF InPhase, PhaseOver, OpinionStored
  <1>15. ASSUME s.at = "except" PROVE Phase
    BY <1>2, <1>5, <1>6, <1>11, <1>15 DEF InPhase, PhaseOver
  <1>16. ASSUME s.at = "conclude" PROVE Phase
    <2>1. /\ h.op \in Recording \cup {"notify"}
          /\ \A o \in Ops(u) : o.op \in Recording \cup {"notify"}
          /\ s.tier = "MANDATORY" => \/ <<r, "notify">> \in ac \/ h.op = "notify"
                                     \/ \E o \in Ops(u) : o.op = "notify"
      BY <1>2, <1>5, <1>16 DEF InPhase
    <2>2. s2.tier = s.tier
      BY <1>2, <2>1 DEF Recording
    <2>3. s2.tier = "MANDATORY" =>
              <<r, "notify">> \in ac2 \/ \E o \in Ops(u) : o.op = "notify"
      BY <1>7, <2>1, <2>2 DEF Working
    <2>4. QED
      BY <1>2, <1>6, <1>11, <1>16, <2>1, <2>3 DEF InPhase, PhaseOver
  <1>17. ASSUME s.at = "gone" PROVE Phase
    BY <1>2, <1>17 DEF InPhase, PhaseOver, Running
  <1>18. Sourced(s2.todo, r, s2.agent, q, ma2, ac2)
    BY ZenonT(60), <1>2, SourcedTail DEF RunOK
  <1>19. QED
    BY <1>3, <1>4, <1>6, <1>12, <1>13, <1>14, <1>15, <1>16, <1>17, <1>18 DEF Running

LEMMA AfterOK ==
    ASSUME target \in Targets, NEW s \in RunState, s.at \in Running, s.todo = <<>>,
           NEW r \in Runs, NEW en, NEW ma, NEW ob, NEW ac,
           Accountable(r, s.agent, request, ma, ob, ac),
           PhaseOver(s, r, request, ma, ob, ac),
           Sourced(s.todo, r, s.agent, request, ma, ac)
    PROVE  After(s) \in RunState /\ RunOK(After(s), r, request, en, ma, ob, ac)
  <1>1. PICK x : x = After(s)
    OBVIOUS
  <1>2. s = [at |-> s.at, agent |-> s.agent, todo |-> <<>>, tier |-> s.tier]
    BY DEF RunState
  <1>3. <<>> \in Seq(Operation) /\ Ops(<<>>) = {} /\ Ready(<<>>, r, s.agent, request, en, ma, ob)
    BY ReadyEmpty
  <1>4. s.agent \in Agents \cup {"DIRECTOR"} /\ s.tier \in Tiers
    BY DEF RunState
  <1>5. CASE s.at = "admit"
    <2>1. PICK t \in Seq(Operation) :
            t = Process(s.agent, request) /\ Fits(t, s.agent, request) /\ t # <<>>
      BY <1>4, ProcessFits DEF Fits, Part
    <2>2. x.at = "process" /\ x.agent = s.agent /\ x.todo = t /\ x.tier = s.tier /\ x \in RunState
      BY <1>1, <1>5, <2>1 DEF After, RunState, Running
    <2>3. <<r, "REQUEST_RECEIVED">> \in ma /\ ~Concluded(r, ma)
      BY <1>5 DEF PhaseOver
    <2>4. Ready(t, r, s.agent, request, en, ma, ob)
      BY <2>1, <2>3, ReadyScript
    <2>5. \A o \in Ops(t) : o.op \in Recording => o.what \in Notes
      BY <2>1 DEF Fits, Part, Allowed
    <2>6. s.agent = "LEGAL" => \/ \A k \in Opinion : Op("put", k) \in Ops(t)
                               \/ \E o \in Ops(t) : o.op = "raise"
      BY <2>1 DEF Fits
    <2>7. InPhase(x, r, request, ma, ob, ac)
      BY <2>1, <2>2, <2>3, <2>5, <2>6 DEF InPhase
    <2>8. Sourced(t, r, s.agent, request, ma, ac)
      BY <2>1 DEF Sourced, Fits
    <2>9. QED
      BY <1>1, <2>2, <2>4, <2>7, <2>8 DEF RunOK
  <1>6. CASE s.at = "process"
    <2>1. PICK t \in Seq(Operation) :
            /\ t = Conclusion(s) /\ t # <<>>
            /\ \A o \in Ops(t) : o.op \in Recording \cup {"notify"}
            /\ s.tier = "MANDATORY" => \E o \in Ops(t) : o.op = "notify"
            /\ Ready(t, r, s.agent, request, en, ma, ob)
      BY <1>6, ConclusionFits DEF PhaseOver
    <2>2. x.at = "conclude" /\ x.agent = s.agent /\ x.todo = t /\ x.tier = s.tier /\ x \in RunState
      BY <1>1, <1>6, <2>1 DEF After, RunState, Running
    <2>3. InPhase(x, r, request, ma, ob, ac)
      BY <2>1, <2>2 DEF InPhase
    <2>4. Sourced(t, r, s.agent, request, ma, ac)
      BY <2>1, SourcedIdly DEF Recording
    <2>5. QED
      BY <1>1, <2>1, <2>2, <2>3, <2>4 DEF RunOK
  <1>7. CASE s.at \in {"refuse", "except", "conclude"}
    <2>1. /\ x.at = (IF s.at = "except" THEN "raised" ELSE "returned")
          /\ x.agent = s.agent /\ x.todo = <<>> /\ x.tier = s.tier /\ x \in RunState
      BY <1>1, <1>7 DEF After, RunState
    <2>2. x.at = "returned" /\ x.tier = "MANDATORY" => request.pii \/ <<r, "notify">> \in ac
      BY <1>7, <2>1 DEF PhaseOver
    <2>3. InPhase(x, r, request, ma, ob, ac)
      BY <2>1, <2>2 DEF InPhase, Running
    <2>4. QED
      BY <1>1, <1>3, <2>1, <2>3 DEF RunOK
  <1>8. QED
    BY <1>5, <1>6, <1>7 DEF Running

LEMMA DoneOK ==
    ASSUME target \in Targets, NEW s \in RunState, s.todo # <<>>, NEW r \in Runs,
           NEW en, NEW ma, NEW ob \in [Keys -> Runs \cup {"nobody"}], NEW ac,
           NEW en2, NEW ma2, NEW ob2, NEW ac2,
           RunOK(s, r, request, en, ma, ob, ac),
           Happens(Head(s.todo), r, en, ma, ob, ac, en2, ma2, ob2, ac2),
           Head(s.todo).op # "raise",
           NEW t \in Tiers, Head(s.todo).op # "llm" => t = s.tier
    PROVE  LET x == Done([s EXCEPT !.tier = t]) IN
           x \in RunState /\ RunOK(x, r, request, en2, ma2, ob2, ac2)
  <1>1. s.todo \in Seq(Operation) /\ Tail(s.todo) \in Seq(Operation)
    BY TailFacts DEF RunState
  <1>2. PICK rest : rest = [[s EXCEPT !.tier = t] EXCEPT !.todo = Tail(s.todo)]
    OBVIOUS
  <1>3. /\ rest \in RunState
        /\ rest.at = s.at /\ rest.agent = s.agent /\ rest.todo = Tail(s.todo) /\ rest.tier = t
    BY <1>1, <1>2 DEF RunState
  <1>4. [s EXCEPT !.tier = t].todo = s.todo
    BY DEF RunState
  <1>5. Done([s EXCEPT !.tier = t]) =
            IF rest.todo = <<>> /\ rest.at # "gone" THEN After(rest) ELSE rest
    BY <1>2, <1>4 DEF Done, RunState
  <1>6. /\ Ready(rest.todo, r, rest.agent, request, en2, ma2, ob2)
        /\ Accountable(r, rest.agent, request, ma2, ob2, ac2)
        /\ rest.todo # <<>> \/ rest.at = "gone" => InPhase(rest, r, request, ma2, ob2, ac2)
        /\ rest.todo = <<>> => PhaseOver(rest, r, request, ma2, ob2, ac2)
        /\ rest.at \in Running \cup {"gone"}
        /\ Sourced(rest.todo, r, rest.agent, request, ma2, ac2)
    BY <1>3, PhaseStep
  <1>7. CASE rest.todo = <<>> /\ rest.at # "gone"
    BY <1>3, <1>5, <1>6, <1>7, AfterOK
  <1>8. CASE ~(rest.todo = <<>> /\ rest.at # "gone")
    BY <1>3, <1>5, <1>6, <1>8 DEF RunOK
  <1>9. QED
    BY <1>7, <1>8

LEMMA RaisedOK ==
    ASSUME target \in Targets, NEW s \in RunState, NEW r, NEW q,
           NEW en, NEW ma, NEW ob, NEW ac,
           Accountable(r, s.agent, q, ma, ob, ac),
           NEW todo, Sourced(todo, r, s.agent, q, ma, ac),
           s.at = "process" => <<r, "REQUEST_RECEIVED">> \in ma /\ ~Concluded(r, ma)
    PROVE  Raised(s) \in RunState /\ RunOK(Raised(s), r, q, en, ma, ob, ac)
  <1>1. PICK x : x = Raised(s)
    OBVIOUS
  <1>2. <<>> \in Seq(Operation) /\ Ready(<<>>, r, s.agent, q, en, ma, ob) /\ Ops(<<>>) = {}
    BY ReadyEmpty
  <1>3. CASE s.at = "process"
    <2>1. MayMark(r, "PROCESSING_ERROR", ma)
      BY <1>3 DEF MayMark, Conclusions
    <2>2. PICK t \in Seq(Operation) :
            /\ t = AuditAppend("PROCESSING_ERROR") /\ t # <<>>
            /\ \A o \in Ops(t) : o.op \in Recording
            /\ Ready(t, r, s.agent, q, en, ma, ob)
      BY <2>1, ReadyAppend DEF Events, Conclusions
    <2>3. x.at = "except" /\ x.agent = s.agent /\ x.todo = t /\ x \in RunState
      BY <1>1, <1>3, <2>2 DEF Raised, RunState, Running
    <2>4. InPhase(x, r, q, ma, ob, ac)
      BY <2>2, <2>3 DEF InPhase
    <2>5. Sourced(t, r, s.agent, q, ma, ac)
      BY <2>2, SourcedIdly DEF Recording
    <2>6. QED
      BY <1>1, <2>2, <2>3, <2>4, <2>5 DEF RunOK
  <1>4. CASE s.at # "process"
    <2>1. /\ x.at \in {"gone", "raised"} /\ x.agent = s.agent /\ x.todo = <<>> /\ x \in RunState
      BY <1>1, <1>2, <1>4 DEF Raised, RunState
    <2>2. InPhase(x, r, q, ma, ob, ac)
      BY <2>1 DEF InPhase, Running
    <2>3. Sourced(<<>>, r, s.agent, q, ma, ac)
      BY <1>2, SourcedIdly
    <2>4. QED
      BY <1>1, <1>2, <2>1, <2>2, <2>3 DEF RunOK
  <1>5. QED
    BY <1>3, <1>4

LEMMA VanishOK ==
    ASSUME NEW s \in RunState, s.todo # <<>>, NEW r, NEW q,
           NEW en, NEW ma, NEW ob, NEW ac, RunOK(s, r, q, en, ma, ob, ac),
           NEW rest \in Threaded(s.todo), NEW x, x = [s EXCEPT !.at = "gone", !.todo = rest]
    PROVE  x \in RunState /\ RunOK(x, r, q, en, ma, ob, ac)
  <1>1. s.todo \in Seq(Operation)
    BY DEF RunState
  <1>2. rest \in Seq(Operation) /\ Ready(rest, r, s.agent, q, en, ma, ob)
    <2>1. CASE rest = <<>>
      BY <2>1, ReadyEmpty
    <2>2. CASE \E k \in 0..Len(s.todo) : rest = SubSeq(s.todo, 1, k)
      BY <1>1, <2>2, PrefixFacts, ReadyPrefix DEF RunOK
    <2>3. QED
      BY <2>1, <2>2 DEF Threaded
  <1>3. x.at = "gone" /\ x.agent = s.agent /\ x.todo = rest /\ x \in RunState
    BY <1>2 DEF RunState
  <1>4. InPhase(x, r, q, ma, ob, ac)
    BY <1>3 DEF InPhase, Running
  <1>5. Sourced(rest, r, s.agent, q, ma, ac)
    <2>1. Sourced(s.todo, r, s.agent, q, ma, ac)
      BY DEF RunOK
    <2>2. CASE rest = <<>>
      BY <2>1, <2>2, ReadyEmpty, SourcedIdly
    <2>3. CASE \E k \in 0..Len(s.todo) : rest = SubSeq(s.todo, 1, k)
      <3>1. Awaits(s.todo, "put", Basis(q)) => Awaits(rest, "put", Basis(q))
        BY <1>1, <2>3, AwaitsPrefix
      <3>2. QED
        BY <2>1, <3>1 DEF Sourced
    <2>4. QED
      BY <2>2, <2>3 DEF Threaded
  <1>6. QED
    BY <1>2, <1>3, <1>4, <1>5 DEF RunOK

LEMMA CallOK ==
    ASSUME target \in Targets, request \in Requests,
           NEW s \in RunState, s.at = "idle", NEW r, NEW en, NEW ma, NEW ob, NEW ac,
           RunOK(s, r, request, en, ma, ob, ac), NEW agent \in {"DIRECTOR", request.agent},
           NEW x, x = [at    |-> IF request.pii THEN "refuse" ELSE "admit",
                       agent |-> agent,
                       todo  |-> AuditAppend(IF request.pii THEN "PII_BOUNDARY_VIOLATION"
                                             ELSE "REQUEST_RECEIVED"),
                       tier  |-> IF request.pii THEN "MANDATORY"
                                 ELSE Tier(agent, request, "HIGH")]
    PROVE  x \in RunState /\ RunOK(x, r, request, en, ma, ob, ac)
  <1>1. Unmarked(r, ma) /\ \A y \in Working : <<r, y>> \notin ac
    BY DEF RunOK, InPhase
  <1>2. PICK e \in Openings :
          e = IF request.pii THEN "PII_BOUNDARY_VIOLATION" ELSE "REQUEST_RECEIVED"
    BY DEF Openings
  <1>3. PICK t \in Seq(Operation) :
          /\ t = AuditAppend(e) /\ t # <<>>
          /\ \A o \in Ops(t) : o.op \in Recording /\ o.what = e
          /\ Ops(t) \cap MarkOf(e) # {}
          /\ Ready(t, r, agent, request, en, ma, ob)
    BY <1>1, <1>2, ReadyAppend DEF MayMark, Events, Openings
  <1>4. agent \in Agents \cup {"DIRECTOR"}
    BY RequestsAssumption
  <1>5. Tier(agent, request, "HIGH") \in Tiers
    BY DEF Tier, Tiers
  <1>6. /\ x.at = (IF request.pii THEN "refuse" ELSE "admit") /\ x.agent = agent /\ x.todo = t
        /\ x \in RunState
    <2>1. x.tier \in Tiers
      BY <1>5 DEF Tiers
    <2>2. x.at = (IF request.pii THEN "refuse" ELSE "admit") /\ x.agent = agent /\ x.todo = t
      BY <1>2, <1>3
    <2>3. x = [at |-> x.at, agent |-> x.agent, todo |-> x.todo, tier |-> x.tier]
      OBVIOUS
    <2>4. QED
      BY <1>3, <1>4, <2>1, <2>2, <2>3 DEF RunState, Running
  <1>7. ~Concluded(r, ma)
    BY <1>1 DEF Unmarked, Concluded
  <1>8. Accountable(r, agent, request, ma, ob, ac)
    BY <1>1 DEF Accountable, Working, Unmarked
  <1>9. InPhase(x, r, request, ma, ob, ac)
    BY <1>2, <1>3, <1>6, <1>7 DEF InPhase
  <1>10. Sourced(t, r, agent, request, ma, ac)
    <2>1. Awaits(t, "put", Basis(request))
      BY <1>3, NoneAwaits DEF Recording
    <2>2. QED
      BY <1>1, <2>1 DEF Sourced, Working
  <1>11. QED
    BY <1>3, <1>6, <1>8, <1>9, <1>10 DEF RunOK

----------------------------------------------------------------------------
(* The invariant.                                                          *)

\* A step of run r that leaves it in order leaves the other runs in order.
LEMMA StepKeepsInv ==
    ASSUME HandlingInv, NEW r \in Runs, NEW x \in RunState, run' = [run EXCEPT ![r] = x],
           UNCHANGED <<target, request>>, faults' \in 0..MaxFaults,
           RunOK(x, r, request, entries', markers', objects', acts'),
           \/ UNCHANGED <<entries, markers, objects, acts>>
           \/ \E h \in Operation :
                 /\ Happens(h, r, entries, markers, objects, acts,
                            entries', markers', objects', acts')
                 /\ h.op = "marker" => <<r, h.what>> \in entries
                 /\ h.op = "put" => h.what \in Keys
    PROVE  HandlingInv'
  <1> DEFINE Kept == /\ objects' \in [Keys -> Runs \cup {"nobody"}]
                     /\ markers' \subseteq entries'
                     /\ entries' \subseteq Runs \X (Events \cup Keys \cup Others)
                     /\ \A p \in Runs \ {r} :
                           /\ Later(p, entries, markers, objects, entries', markers', objects')
                           /\ \A y : <<p, y>> \in acts' <=> <<p, y>> \in acts
  <1>1. ASSUME UNCHANGED <<entries, markers, objects, acts>> PROVE Kept
    BY <1>1 DEF HandlingInv, Later
  <1>2. ASSUME NEW h \in Operation,
               Happens(h, r, entries, markers, objects, acts, entries', markers', objects', acts'),
               h.op = "marker" => <<r, h.what>> \in entries,
               h.op = "put" => h.what \in Keys
        PROVE  Kept
    <2>1. /\ entries' = IF h.op \in {"row", "entry"} THEN entries \cup {<<r, h.what>>} ELSE entries
          /\ markers' = IF h.op \in Marking THEN markers \cup {<<r, h.what>>} ELSE markers
          /\ objects' = IF h.op = "put" THEN [objects EXCEPT ![h.what] = r] ELSE objects
          /\ acts' = IF h.op \in Working THEN acts \cup {<<r, h.op>>} ELSE acts
      BY <1>2 DEF Happens
    <2>2. objects' \in [Keys -> Runs \cup {"nobody"}]
      BY <1>2, <2>1 DEF HandlingInv
    <2>3. markers' \subseteq entries'
      BY <1>2, <2>1 DEF HandlingInv, Marking
    <2>4. h.what \in Events \cup Keys \cup Others
      BY DEF Operation
    <2>5. entries' \subseteq Runs \X (Events \cup Keys \cup Others)
      BY <2>1, <2>4 DEF HandlingInv
    <2>6. ASSUME NEW p \in Runs \ {r}
          PROVE  Later(p, entries, markers, objects, entries', markers', objects')
      <3>1. \A k \in Keys : objects[k] # "nobody" => objects'[k] # "nobody"
        BY <1>2, <2>1, RunsAssumption DEF HandlingInv
      <3>2. \A t \in markers' : t[1] = p => t \in markers
        BY <2>1, <2>6
      <3>3. QED
        BY <2>1, <3>1, <3>2 DEF Later
    <2>7. \A p \in Runs \ {r} : \A y : <<p, y>> \in acts' <=> <<p, y>> \in acts
      BY <2>1
    <2>8. QED
      BY <2>2, <2>3, <2>5, <2>6, <2>7
  <1>3. Kept
    <2> HIDE DEF Kept
    <2>1. QED
      BY <1>1, <1>2
  <1>4. run' \in [Runs -> RunState]
    BY DEF HandlingInv
  <1>5. run'[r] = x /\ \A p \in Runs \ {r} : run'[p] = run[p] /\ run[p] \in RunState
    BY DEF HandlingInv
  <1>6. \A p \in Runs \ {r} : RunOK(run[p], p, request, entries, markers, objects, acts)
    BY DEF HandlingInv
  <1>7. \A p \in Runs \ {r} : RunOK(run[p], p, request, entries', markers', objects', acts')
    BY <1>3, <1>5, <1>6, RunOKLater
  <1>8. \A p \in Runs : RunOK(run'[p], p, request', entries', markers', objects', acts')
    BY <1>5, <1>7
  <1>9. target' \in Targets /\ request' \in Requests
    BY DEF HandlingInv
  <1>10. QED
    BY <1>3, <1>4, <1>8, <1>9 DEF HandlingInv

\* What the invariant says of the operation a run does next.
LEMMA HeadFacts ==
    ASSUME HandlingInv, NEW r \in Runs, Busy(r)
    PROVE  /\ run[r] \in RunState /\ run[r].todo # <<>>
           /\ run[r].todo \in Seq(Operation) /\ NextOp(r) \in Operation
           /\ RunOK(run[r], r, request, entries, markers, objects, acts)
           /\ NextOp(r).op = "marker" => <<r, NextOp(r).what>> \in entries
           /\ NextOp(r).op = "put" => NextOp(r).what \in Keys
  <1>1. /\ run[r] \in RunState /\ run[r].todo # <<>>
        /\ RunOK(run[r], r, request, entries, markers, objects, acts)
    BY DEF HandlingInv, Busy
  <1>2. run[r].todo \in Seq(Operation)
    BY <1>1 DEF RunState
  <1>3. PICK todo \in Seq(Operation) :
          /\ todo = run[r].todo /\ todo # <<>>
          /\ Ready(todo, r, run[r].agent, request, entries, markers, objects)
    BY <1>1, <1>2 DEF RunOK
  <1>4. Head(todo) \in Operation /\ Head(todo) \in Ops(todo)
    BY <1>3, TailFacts
  <1>5. Head(todo).op = "marker" => <<r, Head(todo).what>> \in entries
    BY <1>3, HeadMarksEntry
  <1>6. Head(todo).op = "put" => Head(todo).what \in Keys
    BY <1>3, <1>4 DEF Ready, Entitled
  <1>7. QED
    BY <1>1, <1>2, <1>3, <1>4, <1>5, <1>6 DEF NextOp

LEMMA EffectHappens ==
    ASSUME NEW r, NEW h, Effect(r, h)
    PROVE  Happens(h, r, entries, markers, objects, acts, entries', markers', objects', acts')
  BY DEF Effect, Happens, Marking, Working

\* Done, with the tier t, after the effect of the operation at the head.
LEMMA DoneKeepsInv ==
    ASSUME HandlingInv, NEW r \in Runs, Busy(r), Effect(r, NextOp(r)), NextOp(r).op # "raise",
           NEW t \in Tiers, NextOp(r).op # "llm" => t = run[r].tier,
           run' = [run EXCEPT ![r] = Done([run[r] EXCEPT !.tier = t])],
           UNCHANGED <<target, request, faults>>
    PROVE  HandlingInv'
  <1>1. PICK x : x = Done([run[r] EXCEPT !.tier = t])
    OBVIOUS
  <1>2. Happens(NextOp(r), r, entries, markers, objects, acts, entries', markers', objects', acts')
    BY EffectHappens
  <1>3. target \in Targets /\ objects \in [Keys -> Runs \cup {"nobody"}]
    BY DEF HandlingInv
  <1>4. NextOp(r) = Head(run[r].todo)
    BY DEF NextOp
  <1>5. PICK s \in RunState :
          /\ s = run[r] /\ s.todo # <<>> /\ NextOp(r) = Head(s.todo)
          /\ RunOK(s, r, request, entries, markers, objects, acts)
    BY <1>4, HeadFacts
  <1>6. /\ Happens(Head(s.todo), r, entries, markers, objects, acts,
                   entries', markers', objects', acts')
        /\ Head(s.todo).op # "raise" /\ (Head(s.todo).op # "llm" => t = s.tier)
    BY <1>2, <1>5
  <1>7. x \in RunState /\ RunOK(x, r, request, entries', markers', objects', acts')
    <2>1. x = Done([s EXCEPT !.tier = t])
      BY <1>1, <1>5
    <2>2. QED
      BY <1>3, <1>5, <1>6, <2>1, DoneOK
  <1>8. faults' \in 0..MaxFaults
    BY DEF HandlingInv
  <1>9. QED
    BY <1>1, <1>2, <1>7, <1>8, HeadFacts, StepKeepsInv

LEMMA PerformKeepsInv ==
    ASSUME HandlingInv, NEW r \in Runs, Perform(r)
    PROVE  HandlingInv'
  <1>1. run[r] \in RunState
    BY DEF HandlingInv
  <1>2. [run[r] EXCEPT !.tier = run[r].tier] = run[r] /\ run[r].tier \in Tiers
    BY <1>1 DEF RunState
  <1>3. run' = [run EXCEPT ![r] = Done(run[r])]
    BY DEF Perform
  <1>4. QED
    BY ZenonT(60), <1>2, <1>3, DoneKeepsInv DEF Perform

LEMMA AnswerKeepsInv ==
    ASSUME HandlingInv, NEW r \in Runs, NEW hint, Answer(r, hint)
    PROVE  HandlingInv'
  <1>1. PICK t \in Tiers : t = Tier(run[r].agent, request, Confidence(request, hint))
    BY DEF Tier, Tiers
  <1>2. run' = [run EXCEPT ![r] = Done([run[r] EXCEPT !.tier = t])]
    BY <1>1 DEF Answer
  <1>3. QED
    BY <1>2, DoneKeepsInv DEF Answer

LEMMA RejectKeepsInv ==
    ASSUME HandlingInv, NEW r \in Runs, RejectPayload(r)
    PROVE  HandlingInv'
  <1>1. RunOK(run[r], r, request, entries, markers, objects, acts) /\ run[r] \in RunState
    BY DEF HandlingInv
  <1>2. PICK x : x = Raised(run[r])
    OBVIOUS
  <1>3. /\ Accountable(r, run[r].agent, request, markers, objects, acts)
        /\ Sourced(run[r].todo, r, run[r].agent, request, markers, acts)
        /\ run[r].at = "process" =>
               <<r, "REQUEST_RECEIVED">> \in markers /\ ~Concluded(r, markers)
    BY <1>1 DEF RunOK, InPhase
  <1>4. x \in RunState /\ RunOK(x, r, request, entries, markers, objects, acts)
    BY <1>1, <1>2, <1>3, RaisedOK DEF HandlingInv
  <1>5. /\ run' = [run EXCEPT ![r] = x] /\ UNCHANGED <<target, request>>
        /\ UNCHANGED <<entries, markers, objects, acts>> /\ faults' = faults
    BY <1>2 DEF RejectPayload
  <1>6. RunOK(x, r, request, entries', markers', objects', acts') /\ faults' \in 0..MaxFaults
    BY <1>4, <1>5 DEF HandlingInv
  <1>7. QED
    BY <1>4, <1>5, <1>6, StepKeepsInv

LEMMA FailureKeepsInv ==
    ASSUME HandlingInv, NEW r \in Runs, CallFails(r)
    PROVE  HandlingInv'
  <1>1. /\ Busy(r) /\ run' = [run EXCEPT ![r] = Raised(run[r])] /\ UNCHANGED <<target, request>>
        /\ faults' = faults + 1 /\ faults < MaxFaults /\ NextOp(r).op # "raise"
    BY DEF CallFails
  <1>2. faults' \in 0..MaxFaults
    BY <1>1, HandlingAssumption DEF HandlingInv
  <1>3. /\ RunOK(run[r], r, request, entries, markers, objects, acts) /\ run[r] \in RunState
        /\ target \in Targets /\ objects \in [Keys -> Runs \cup {"nobody"}]
    BY DEF HandlingInv
  <1>4. PICK x : x = Raised(run[r])
    OBVIOUS
  <1>5. CASE UNCHANGED <<entries, markers, objects, acts>>
    <2>1. /\ Accountable(r, run[r].agent, request, markers, objects, acts)
          /\ Sourced(run[r].todo, r, run[r].agent, request, markers, acts)
          /\ run[r].at = "process" =>
                 <<r, "REQUEST_RECEIVED">> \in markers /\ ~Concluded(r, markers)
      BY <1>3 DEF RunOK, InPhase
    <2>2. x \in RunState /\ RunOK(x, r, request, entries, markers, objects, acts)
      BY <1>3, <1>4, <2>1, RaisedOK
    <2>3. RunOK(x, r, request, entries', markers', objects', acts')
      BY <1>5, <2>2
    <2>4. QED
      BY <1>1, <1>2, <1>4, <1>5, <2>2, <2>3, StepKeepsInv
  <1>6. CASE NextOp(r).op # "llm" /\ Effect(r, NextOp(r))
    <2>1. Happens(NextOp(r), r, entries, markers, objects, acts,
                  entries', markers', objects', acts')
      BY <1>6, EffectHappens
    <2>2. NextOp(r) = Head(run[r].todo)
      BY DEF NextOp
    <2>3. PICK s2 : s2 = [run[r] EXCEPT !.todo = Tail(run[r].todo)]
      OBVIOUS
    <2>4. Tail(run[r].todo) \in Seq(Operation)
      BY <1>1, HeadFacts, TailFacts
    <2>5. /\ s2 \in RunState /\ s2.at = run[r].at /\ s2.agent = run[r].agent
          /\ s2.todo = Tail(run[r].todo) /\ s2.tier = run[r].tier
      BY <1>3, <2>3, <2>4 DEF RunState
    <2>6. /\ Accountable(r, s2.agent, request, markers', objects', acts')
          /\ s2.todo # <<>> \/ s2.at = "gone" =>
                 InPhase(s2, r, request, markers', objects', acts')
          /\ s2.todo = <<>> => PhaseOver(s2, r, request, markers', objects', acts')
          /\ Sourced(s2.todo, r, s2.agent, request, markers', acts')
      <3>1. PICK s \in RunState :
              /\ s = run[r] /\ s.todo # <<>> /\ NextOp(r) = Head(s.todo)
              /\ RunOK(s, r, request, entries, markers, objects, acts)
        BY <1>1, <1>3, <2>2, HeadFacts
      <3>2. /\ Happens(Head(s.todo), r, entries, markers, objects, acts,
                       entries', markers', objects', acts')
            /\ Head(s.todo).op # "raise"
        BY <1>1, <2>1, <3>1
      <3>3. /\ s2 \in RunState /\ s2.at = s.at /\ s2.agent = s.agent
            /\ s2.todo = Tail(s.todo) /\ s2.tier = s.tier
        BY <2>5, <3>1
      <3>4. QED
        BY ZenonT(60), <1>3, <3>1, <3>2, <3>3, PhaseStep
    <2>7. s2.at = "process" =>
              <<r, "REQUEST_RECEIVED">> \in markers' /\ ~Concluded(r, markers')
      BY <2>6 DEF InPhase, PhaseOver
    <2>8. x \in RunState /\ RunOK(x, r, request, entries', markers', objects', acts')
      BY <1>3, <1>4, <2>5, <2>6, <2>7, RaisedOK
    <2>9. QED
      BY <1>1, <1>2, <1>4, <2>1, <2>8, HeadFacts, StepKeepsInv
  <1>7. QED
    BY <1>5, <1>6 DEF CallFails

LEMMA VanishKeepsInv ==
    ASSUME HandlingInv, NEW r \in Runs, Vanish(r)
    PROVE  HandlingInv'
  <1>1. PICK rest \in Threaded(run[r].todo) :
          run' = [run EXCEPT ![r].at = "gone", ![r].todo = rest]
    BY DEF Vanish
  <1>2. PICK x : x = [run[r] EXCEPT !.at = "gone", !.todo = rest]
    OBVIOUS
  <1>3. /\ RunOK(run[r], r, request, entries, markers, objects, acts) /\ run[r] \in RunState
        /\ run \in [Runs -> RunState]
    BY DEF HandlingInv
  <1>4. run' = [run EXCEPT ![r] = x]
    BY <1>1, <1>2, <1>3 DEF RunState
  <1>5. /\ run[r].at \in Running /\ UNCHANGED <<entries, markers, objects, acts>>
        /\ UNCHANGED <<target, request>> /\ faults' = faults + 1 /\ faults < MaxFaults
    BY DEF Vanish
  <1>6. run[r].todo # <<>>
    BY <1>3, <1>5 DEF RunOK, InPhase
  <1>7. x \in RunState /\ RunOK(x, r, request, entries, markers, objects, acts)
    BY ZenonT(60), <1>1, <1>2, <1>3, <1>6, VanishOK
  <1>8. RunOK(x, r, request, entries', markers', objects', acts')
    BY <1>5, <1>7
  <1>9. faults' \in 0..MaxFaults
    BY <1>5, HandlingAssumption DEF HandlingInv
  <1>10. QED
    BY <1>4, <1>5, <1>7, <1>8, <1>9, StepKeepsInv

LEMMA CallKeepsInv ==
    ASSUME HandlingInv, NEW r \in Runs, NEW agent \in {"DIRECTOR", request.agent}, Call(r, agent)
    PROVE  HandlingInv'
  <1>1. PICK x : x = [at    |-> IF request.pii THEN "refuse" ELSE "admit",
                      agent |-> agent,
                      todo  |-> AuditAppend(IF request.pii THEN "PII_BOUNDARY_VIOLATION"
                                            ELSE "REQUEST_RECEIVED"),
                      tier  |-> IF request.pii THEN "MANDATORY"
                                ELSE Tier(agent, request, "HIGH")]
    OBVIOUS
  <1>2. /\ run' = [run EXCEPT ![r] = x] /\ UNCHANGED <<target, request>>
        /\ UNCHANGED <<entries, markers, objects, acts>> /\ faults' = faults
        /\ run[r].at = "idle"
    BY <1>1 DEF Call
  <1>3. /\ RunOK(run[r], r, request, entries, markers, objects, acts) /\ run[r] \in RunState
        /\ target \in Targets /\ request \in Requests
    BY DEF HandlingInv
  <1>4. x \in RunState /\ RunOK(x, r, request, entries, markers, objects, acts)
    BY <1>1, <1>2, <1>3, CallOK
  <1>5. RunOK(x, r, request, entries', markers', objects', acts') /\ faults' \in 0..MaxFaults
    BY <1>2, <1>4 DEF HandlingInv
  <1>6. QED
    BY <1>2, <1>4, <1>5, StepKeepsInv

LEMMA InitInv ==
    ASSUME Init
    PROVE  HandlingInv
  <1>1. target \in Targets /\ request \in Requests /\ faults \in 0..MaxFaults
    BY HandlingAssumption DEF Init
  <1>2. /\ objects \in [Keys -> Runs \cup {"nobody"}]
        /\ markers \subseteq entries /\ entries \subseteq Runs \X (Events \cup Keys \cup Others)
    BY DEF Init
  <1>3. \A r \in Runs : /\ run[r].at = "idle" /\ run[r].agent = "DIRECTOR" /\ run[r].todo = <<>>
                        /\ run[r].tier = "NONE"
    BY DEF Init
  <1>4. [at |-> "idle", agent |-> "DIRECTOR", todo |-> <<>>, tier |-> "NONE"] \in RunState
    BY DEF RunState, Tiers
  <1>5. run \in [Runs -> RunState]
    BY <1>4 DEF Init
  <1>6. ASSUME NEW r \in Runs PROVE RunOK(run[r], r, request, entries, markers, objects, acts)
    <2>1. Ready(run[r].todo, r, run[r].agent, request, entries, markers, objects)
      BY <1>3, ReadyEmpty
    <2>2. Accountable(r, run[r].agent, request, markers, objects, acts)
      BY DEF Init, Accountable
    <2>3. Unmarked(r, markers) /\ \A x \in Working : <<r, x>> \notin acts
      BY DEF Init, Unmarked
    <2>4. InPhase(run[r], r, request, markers, objects, acts)
      BY <1>3, <2>3 DEF InPhase, Running
    <2>5. Sourced(run[r].todo, r, run[r].agent, request, markers, acts)
      BY <1>3 DEF Sourced
    <2>6. QED
      BY <2>1, <2>2, <2>4, <2>5 DEF RunOK
  <1>7. QED
    BY <1>1, <1>2, <1>5, <1>6 DEF HandlingInv

LEMMA InvStep ==
    ASSUME HandlingInv, [Next]_handlingVars
    PROVE  HandlingInv'
  <1>1. CASE UNCHANGED handlingVars
    BY <1>1 DEF HandlingInv, handlingVars
  <1>2. CASE Next
    <2>1. PICK r \in Runs :
            \/ \E agent \in {"DIRECTOR", request.agent} : Call(r, agent)
            \/ Perform(r)
            \/ \E hint \in Decide!Hints : Answer(r, hint)
            \/ RejectPayload(r)
            \/ CallFails(r)
            \/ Vanish(r)
      BY <1>2, Zenon DEF Next
    <2>2. QED
      BY <2>1, CallKeepsInv, PerformKeepsInv, AnswerKeepsInv, RejectKeepsInv, FailureKeepsInv,
         VanishKeepsInv
  <1>3. QED
    BY <1>1, <1>2

\* Every copy of a script that a run has still to do may be done as it stands, and what a
\* run has done it was entitled to.
THEOREM HandlingInvariant == Spec => []HandlingInv
  BY InitInv, InvStep, PTL DEF Spec

----------------------------------------------------------------------------
(* The properties.                                                         *)

LEMMA TrailIsMarkers ==
    ASSUME HandlingInv
    PROVE  Trail = markers
  BY DEF HandlingInv, Trail

LEMMA InvAccounts ==
    ASSUME HandlingInv, NEW r \in Runs
    PROVE  /\ Accountable(r, run[r].agent, request, markers, objects, acts)
           /\ InPhase(run[r], r, request, markers, objects, acts)
           /\ run[r] \in RunState
           /\ Sourced(run[r].todo, r, run[r].agent, request, markers, acts)
           /\ \A e : OnTrail(r, e) <=> <<r, e>> \in markers
  BY TrailIsMarkers DEF HandlingInv, RunOK, OnTrail

LEMMA InvTypes ==
    ASSUME HandlingInv
    PROVE  HandlingTypeOK
  <1>1. ASSUME NEW r \in Runs
        PROVE  /\ run[r].at \in Running => Busy(r)
               /\ Busy(r) => run[r].at \in Running \cup {"gone"}
    BY InvAccounts DEF InPhase, RunState, Busy
  <1>2. QED
    BY <1>1 DEF HandlingInv, HandlingTypeOK

LEMMA InvRecord ==
    ASSUME HandlingInv
    PROVE  ActedOnRecord
  <1>1. ASSUME NEW r \in Runs, NEW op \in {"llm", "fetch", "put", "notify"}, <<r, op>> \in acts
        PROVE  OnTrail(r, "REQUEST_RECEIVED")
    <2>1. op \in Working
      BY DEF Working
    <2>2. <<r, "REQUEST_RECEIVED">> \in markers
      BY <1>1, <2>1, InvAccounts DEF Accountable
    <2>3. QED
      BY <2>2, InvAccounts
  <1>2. QED
    BY <1>1 DEF ActedOnRecord, Acted

LEMMA InvVerdict ==
    ASSUME HandlingInv
    PROVE  VerdictBeforeReasoning
  <1>1. ASSUME NEW r \in Runs, <<r, "llm">> \in acts, NEW e \in Verdict(run[r].agent)
        PROVE  OnTrail(r, e)
    BY <1>1, InvAccounts DEF Accountable
  <1>2. /\ Verdict("ER") = {"ER_COMPLIANCE_CHECK"}
        /\ Verdict("HR_OPS") = {"HR_OPS_OBLIGATIONS_DERIVED"}
    BY DEF Verdict
  <1>3. QED
    BY <1>1, <1>2 DEF VerdictBeforeReasoning, Acted, IsRun

LEMMA InvStopped ==
    ASSUME HandlingInv
    PROVE  StoppedNeverReasoned
  BY InvAccounts DEF StoppedNeverReasoned, Acted, IsRun, Accountable, Stopped

LEMMA InvMandatory ==
    ASSUME HandlingInv
    PROVE  MandatoryReachesHuman
  <1>1. ASSUME NEW r \in Runs, run[r].at = "returned", run[r].tier = "MANDATORY", ~request.pii
        PROVE  <<r, "notify">> \in acts
    <2>1. InPhase(run[r], r, request, markers, objects, acts)
      BY InvAccounts
    <2>2. QED
      BY <1>1, <2>1 DEF InPhase
  <1>2. QED
    BY <1>1 DEF MandatoryReachesHuman, Acted

LEMMA InvNotified ==
    ASSUME HandlingInv
    PROVE  NotifiedKnowsWhat
  <1>1. ASSUME NEW r \in Runs, <<r, "notify">> \in acts
        PROVE  /\ OnTrail(r, "RESPONSE_GENERATED")
               /\ run[r].agent = "LEGAL" =>
                      \A k \in {"legal.txt", "legal.meta.json"} : objects[k] # "nobody"
    <2>1. /\ <<r, "RESPONSE_GENERATED">> \in markers
          /\ run[r].agent = "LEGAL" => OpinionStored(objects)
      BY <1>1, InvAccounts DEF Accountable
    <2>2. QED
      BY <2>1, InvAccounts DEF OpinionStored, Opinion
  <1>2. QED
    BY <1>1 DEF NotifiedKnowsWhat, Acted, IsRun

LEMMA InvFloor ==
    ASSUME HandlingInv
    PROVE  SuppressedOnRecord
  <1>1. ASSUME NEW r \in Runs, NEW s \in Runs, run[r].agent = "ANALYTICS",
               OnTrail(s, "ANALYTICS_SUPPRESSED")
        PROVE  <<r, "fetch">> \notin acts
    <2>1. <<s, "ANALYTICS_SUPPRESSED">> \in markers
      BY <1>1, InvAccounts
    <2>2. Floored(run[s].agent, request)
      BY <2>1, InvAccounts DEF Accountable
    <2>3. Floored(run[r].agent, request)
      BY <1>1, <2>2 DEF Floored
    <2>4. QED
      BY <2>3, InvAccounts DEF Accountable
  <1>2. ASSUME NEW r \in Runs, run[r].agent = "ANALYTICS", <<r, "put">> \in acts
        PROVE  <<r, "fetch">> \in acts \/ OnTrail(r, "ANALYTICS_SUPPRESSED")
    <2>1. Based(r, request, markers, acts)
      BY <1>2, InvAccounts DEF Sourced
    <2>2. QED
      BY <2>1, InvAccounts DEF Based
  <1>3. QED
    BY <1>1, <1>2 DEF SuppressedOnRecord, Acted, IsRun

\* The variables of a handling keep their types, and a run that still has something to do
\* is inside handle or is the thread of one that is gone (base/agent.py:96-139).
THEOREM HandlingTypes == Spec => []HandlingTypeOK
  BY HandlingInvariant, InvTypes, PTL

\* No model, data source, store or human is called for a run that the trail does not show
\* as received, however the writes before the call failed (base/agent.py:101-110).
THEOREM RecordFirst == Spec => []ActedOnRecord
  BY HandlingInvariant, InvRecord, PTL

\* The ER agent and HR operations reason only when their verdict is on the trail
\* (er/agent.py:66, hr_ops/agent.py:73).
THEOREM VerdictFirst == Spec => []VerdictBeforeReasoning
  BY HandlingInvariant, InvVerdict, PTL

\* A case that Module B stops is never reasoned about nor stored (er/agent.py:84).
THEOREM StopHolds == Spec => []StoppedNeverReasoned
  BY HandlingInvariant, InvStopped, PTL

\* A MANDATORY answer that is no refusal is returned only when the approver was told
\* (base/agent.py:130).
THEOREM HumanTold == Spec => []MandatoryReachesHuman
  BY HandlingInvariant, InvMandatory, PTL

\* The approver who is told finds the response on the trail and the opinion in the store
\* (base/agent.py:186-204).
THEOREM ToldOfWhatIsThere == Spec => []NotifiedKnowsWhat
  BY HandlingInvariant, InvNotified, PTL

\* What was suppressed is never fetched, by no run of the request, and an answer about a
\* cohort is stored only for data fetched or a suppression on record, however the writes
\* before it failed (analytics/agent.py:46).
THEOREM FloorKept == Spec => []SuppressedOnRecord
  BY HandlingInvariant, InvFloor, PTL

\* query finds the entry of every marker that it lists (aws/audit_log.py:114).
THEOREM EveryMarkerServed == Spec => []QueryServes
  <1>1. HandlingInv => QueryServes
    BY DEF HandlingInv, QueryServes
  <1>2. QED
    BY HandlingInvariant, <1>1, PTL

----------------------------------------------------------------------------
(* The trail tells one story.                                              *)

\* A step puts nothing on the trail, or what its run may put there.
LEMMA StepMarks ==
    ASSUME HandlingInv, [Next]_handlingVars
    PROVE  \/ markers' = markers
           \/ \E r \in Runs, e \in Events \cup Keys \cup Others :
                  MayMark(r, e, markers) /\ markers' = markers \cup {<<r, e>>}
  <1>1. ASSUME NEW r \in Runs, Busy(r), Effect(r, NextOp(r))
        PROVE  \/ markers' = markers
               \/ \E e \in Events \cup Keys \cup Others :
                      MayMark(r, e, markers) /\ markers' = markers \cup {<<r, e>>}
    <2>1. PICK todo \in Seq(Operation), h \in Operation :
            /\ todo = run[r].todo /\ todo # <<>> /\ h = NextOp(r) /\ h = Head(todo)
            /\ Ready(todo, r, run[r].agent, request, entries, markers, objects)
      BY <1>1, HeadFacts DEF RunOK, NextOp
    <2>2. h \in Ops(todo)
      BY <2>1, TailFacts
    <2>3. h.op \in Marking => MayMark(r, h.what, markers)
      BY <2>1, <2>2 DEF Ready, Entitled
    <2>4. h.what \in Events \cup Keys \cup Others
      BY DEF Operation
    <2>5. markers' = IF h.op \in Marking THEN markers \cup {<<r, h.what>>} ELSE markers
      BY <1>1, <2>1 DEF Effect, Marking
    <2>6. QED
      BY <2>3, <2>4, <2>5
  <1>2. CASE UNCHANGED handlingVars
    BY <1>2 DEF handlingVars
  <1>3. CASE Next
    <2>1. PICK r \in Runs :
            \/ \E agent \in {"DIRECTOR", request.agent} : Call(r, agent)
            \/ Perform(r)
            \/ \E hint \in Decide!Hints : Answer(r, hint)
            \/ RejectPayload(r)
            \/ CallFails(r)
            \/ Vanish(r)
      BY <1>3, Zenon DEF Next
    <2>2. CASE markers' = markers
      BY <2>2
    <2>3. markers' = markers \/ (Busy(r) /\ Effect(r, NextOp(r)))
      BY <2>1 DEF Call, Perform, Answer, RejectPayload, CallFails, Vanish
    <2>4. QED
      BY <1>1, <2>2, <2>3
  <1>4. QED
    BY <1>2, <1>3

LEMMA TrailOf ==
    ASSUME HandlingInv, NEW r
    PROVE  /\ Unmarked(r, markers) => Abstract!Events(r) = {}
           /\ \A e : <<r, e>> \in markers <=> e \in Abstract!Events(r)
  <1>1. markers \subseteq Runs \X (Events \cup Keys \cup Others)
    BY DEF HandlingInv
  <1>2. Abstract!Events(r) = {t[2] : t \in {u \in markers : u[1] = r}}
    BY TrailIsMarkers DEF Abstract!Events
  <1>3. ASSUME NEW t \in markers, t[1] = r PROVE t = <<r, t[2]>>
    BY <1>1, <1>3
  <1>4. QED
    BY <1>2, <1>3 DEF Unmarked

LEMMA StepTells ==
    ASSUME HandlingInv, HandlingInv', [Next]_handlingVars
    PROVE  Abstract!Next \/ Trail' = Trail
  <1>1. Trail = markers /\ Trail' = markers'
    <2>1. Trail' = markers'
      BY DEF HandlingInv, Trail
    <2>2. QED
      BY <2>1, TrailIsMarkers
  <1>2. CASE markers' = markers
    BY <1>1, <1>2
  <1>3. ASSUME NEW r \in Runs, NEW e, MayMark(r, e, markers), markers' = markers \cup {<<r, e>>}
        PROVE  Abstract!Next
    <2>1. Trail' = Trail \cup {<<r, e>>}
      BY <1>1, <1>3
    <2>2. CASE e \in Openings /\ Unmarked(r, markers)
      <3>1. Abstract!Events(r) = {}
        BY <2>2, TrailOf
      <3>2. Abstract!Refuse(r) \/ Abstract!Admit(r)
        BY <2>1, <2>2, <3>1 DEF Openings, Abstract!Refuse, Abstract!Admit
      <3>3. QED
        BY <3>2 DEF Abstract!Next
    <2>3. CASE /\ e \in Notes \cup Conclusions
               /\ <<r, "REQUEST_RECEIVED">> \in markers
               /\ ~Concluded(r, markers)
      <3>1. "REQUEST_RECEIVED" \in Abstract!Events(r)
        BY <2>3, TrailOf
      <3>2. \A c \in Conclusions : c \notin Abstract!Events(r)
        BY <2>3, TrailOf DEF Concluded
      <3>3. Abstract!Events(r) \cap Abstract!Conclusions = {}
        BY <3>2 DEF Conclusions, Abstract!Conclusions
      <3>4. Abstract!Open(r)
        BY <3>1, <3>3 DEF Abstract!Open
      <3>5. Abstract!Note(r) \/ Abstract!Conclude(r)
        BY <2>1, <2>3, <3>4
        DEF Notes, Conclusions, Abstract!Note, Abstract!Conclude, Abstract!Conclusions
      <3>6. QED
        BY <3>5 DEF Abstract!Next
    <2>4. QED
      BY <1>3, <2>2, <2>3 DEF MayMark
  <1>4. QED
    BY <1>2, <1>3, StepMarks

\* The audit trail implements the story of HandlingTrail: every step of a handling puts
\* nothing on it, or what the run may say next, under every failure of a write
\* (base/agent.py:96-139).
THEOREM TrailRefines == Spec => TrailTellsOneStory
  <1>1. Init => Abstract!Init
    BY DEF Init, Trail, Abstract!Init
  <1>2. HandlingInv /\ HandlingInv' /\ [Next]_handlingVars => [Abstract!Next]_Trail
    BY StepTells
  <1>3. QED
    BY HandlingInvariant, <1>1, <1>2, PTL DEF Spec, TrailTellsOneStory, Abstract!Spec

=============================================================================
