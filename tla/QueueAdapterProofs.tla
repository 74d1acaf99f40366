------------------------- MODULE QueueAdapterProofs -------------------------
(***************************************************************************)
(* The queue adapters implement AtLeastOnce, for any number of messages,   *)
(* processes and deliveries.                                               *)
(*                                                                         *)
(* A deletion is allowed because of what its job says: a job past its work *)
(* is of a handled message, and of one that was published (JobsInv).       *)
(***************************************************************************)
EXTENDS QueueAdapter, TLAPS

\* The values of the variables.
AdapterTypes ==
    /\ broker \in [Messages -> [at : {"none", "waiting", "inflight", "deleted"}, ticket : Nat]]
    /\ tickets \in [Processes -> [Messages -> Nat]]
    /\ jobs \subseteq [proc : Processes, msg : Messages, ticket : Nat,
                       at : {"working", "handled", "sending"}]
    /\ handled \subseteq Messages

\* What a job says of its message.
JobsInv ==
    \A j \in jobs : /\ broker[j.msg].at # "none"
                    /\ j.at # "working" => j.msg \in handled

AdapterInv == AdapterTypes /\ JobsInv /\ NoTicketMeansDone

\* Nothing is published and nobody works.
LEMMA InitAdapter == AdapterInit => AdapterInv
  BY DEF AdapterInit, AdapterInv, AdapterTypes, JobsInv, NoTicketMeansDone

\* Publishing concerns a message that no job is of.
LEMMA PublishKeeps ==
    ASSUME AdapterInv, NEW m \in Messages, Publish(m)
    PROVE  AdapterInv'
  <1>1. AdapterTypes'
    BY DEF AdapterInv, AdapterTypes, Publish
  <1>2. ASSUME NEW j \in jobs
        PROVE  broker'[j.msg].at # "none"
    BY DEF AdapterInv, AdapterTypes, JobsInv, Publish
  <1>3. JobsInv'
    BY <1>2 DEF AdapterInv, JobsInv, Publish
  <1>4. NoTicketMeansDone'
    BY DEF AdapterInv, NoTicketMeansDone, Publish
  <1> QED BY <1>1, <1>3, <1>4 DEF AdapterInv

\* A message that comes back stays published.
LEMMA ExpireKeeps ==
    ASSUME AdapterInv, NEW m \in Messages, Expire(m)
    PROVE  AdapterInv'
  <1>1. AdapterTypes'
    BY DEF AdapterInv, AdapterTypes, Expire
  <1>2. ASSUME NEW j \in jobs
        PROVE  broker'[j.msg].at # "none"
    BY DEF AdapterInv, AdapterTypes, JobsInv, Expire
  <1>3. JobsInv'
    BY <1>2 DEF AdapterInv, JobsInv, Expire
  <1>4. NoTicketMeansDone'
    BY DEF AdapterInv, NoTicketMeansDone, Expire
  <1> QED BY <1>1, <1>3, <1>4 DEF AdapterInv

\* A new delivery writes its ticket, so no job of this message and process lacks one.
LEMMA PullKeeps ==
    ASSUME AdapterInv, NEW p \in Processes, NEW m \in Messages, Pull(p, m)
    PROVE  AdapterInv'
  <1>1. broker[m].ticket \in Nat /\ broker[m].at = "waiting"
    BY DEF AdapterInv, AdapterTypes, Pull, Deliver
  <1>2. Job(p, m) \in [proc : Processes, msg : Messages, ticket : Nat,
                       at : {"working", "handled", "sending"}]
    BY <1>1 DEF Job
  <1>3. broker' \in [Messages -> [at : {"none", "waiting", "inflight", "deleted"}, ticket : Nat]]
    BY <1>1 DEF AdapterInv, AdapterTypes, Pull
  <1>4. tickets' \in [Processes -> [Messages -> Nat]]
    BY <1>1 DEF AdapterInv, AdapterTypes, Pull
  <1>5. AdapterTypes'
    BY <1>2, <1>3, <1>4 DEF AdapterInv, AdapterTypes, Pull
  <1>6. ASSUME NEW j \in jobs'
        PROVE  /\ broker'[j.msg].at # "none"
               /\ j.at # "working" => j.msg \in handled'
    <2>1. CASE j = Job(p, m)
      BY <2>1 DEF AdapterInv, AdapterTypes, Pull, Job
    <2>2. CASE j \in jobs
      BY <2>2, <1>1 DEF AdapterInv, AdapterTypes, JobsInv, Pull
    <2> QED BY <2>1, <2>2 DEF Pull
  <1>7. ASSUME NEW j \in jobs', j.at = "working", tickets'[j.proc][j.msg] = 0
        PROVE  j.msg \in handled'
    <2>1. j.proc \in Processes /\ j.msg \in Messages
      BY <1>5 DEF AdapterTypes
    <2>2. CASE j.proc = p /\ j.msg = m
      <3>1. tickets'[p][m] = broker[m].ticket + 1
        BY DEF AdapterInv, AdapterTypes, Pull
      <3> QED BY <3>1, <2>2, <1>7, <1>1
    <2>3. CASE ~(j.proc = p /\ j.msg = m)
      <3>1. j \in jobs
        BY <2>3 DEF Pull, Job
      <3>2. tickets[j.proc][j.msg] = 0
        BY <2>1, <2>3, <1>7 DEF AdapterInv, AdapterTypes, Pull
      <3> QED BY <3>1, <3>2, <1>7 DEF AdapterInv, NoTicketMeansDone, Pull
    <2> QED BY <2>2, <2>3
  <1> QED BY <1>5, <1>6, <1>7 DEF AdapterInv, JobsInv, NoTicketMeansDone

\* What finishes is handled.
LEMMA HandleKeeps ==
    ASSUME AdapterInv, NEW j \in jobs, Handle(j)
    PROVE  AdapterInv'
  <1> DEFINE k == [j EXCEPT !.at = "handled"]
  <1>1. /\ k \in [proc : Processes, msg : Messages, ticket : Nat,
                  at : {"working", "handled", "sending"}]
        /\ k.msg = j.msg /\ k.at = "handled" /\ j.msg \in Messages
    BY DEF AdapterInv, AdapterTypes
  <1>2. jobs' \subseteq jobs \cup {k}
    BY DEF Handle
  <1>3. AdapterTypes'
    BY <1>1, <1>2 DEF AdapterInv, AdapterTypes, Handle
  <1>4. JobsInv'
    BY <1>1, <1>2 DEF AdapterInv, JobsInv, Handle
  <1>5. NoTicketMeansDone'
    BY <1>1, <1>2 DEF AdapterInv, NoTicketMeansDone, Handle
  <1> QED BY <1>3, <1>4, <1>5 DEF AdapterInv

\* A delivery that fails, or whose deletion does, is only forgotten by its process.
LEMMA ForgetKeeps ==
    ASSUME AdapterInv, NEW j \in jobs, Fail(j) \/ NotDeleted(j)
    PROVE  AdapterInv'
  BY DEF AdapterInv, AdapterTypes, JobsInv, NoTicketMeansDone, Fail, NotDeleted

\* LOCAL takes the ticket and the message away together; only a finished job acks.
LEMMA AckLocalKeeps ==
    ASSUME AdapterInv, NEW j \in jobs, AckLocal(j)
    PROVE  AdapterInv'
  <1>1. j.msg \in handled /\ j.msg \in Messages /\ j.proc \in Processes
    BY DEF AdapterInv, AdapterTypes, JobsInv, AckLocal
  <1>2. AdapterTypes'
    BY <1>1 DEF AdapterInv, AdapterTypes, AckLocal
  <1>3. \A m \in Messages : broker[m].at # "none" => broker'[m].at # "none"
    BY <1>1 DEF AdapterInv, AdapterTypes, AckLocal
  <1>4. JobsInv'
    BY <1>3 DEF AdapterInv, AdapterTypes, JobsInv, AckLocal
  <1>5. ASSUME NEW i \in jobs', i.at = "working", tickets'[i.proc][i.msg] = 0
        PROVE  i.msg \in handled'
    <2>1. i \in jobs /\ i.proc \in Processes /\ i.msg \in Messages
      BY DEF AdapterInv, AdapterTypes, AckLocal
    <2>2. i.msg = j.msg \/ tickets[i.proc][i.msg] = 0
      BY <2>1, <1>1, <1>5 DEF AdapterInv, AdapterTypes, AckLocal
    <2> QED BY <2>1, <2>2, <1>1, <1>5 DEF AdapterInv, NoTicketMeansDone, AckLocal
  <1> QED BY <1>2, <1>4, <1>5 DEF AdapterInv, NoTicketMeansDone

\* A cloud adapter takes the ticket out of its table, and sends the one it found.
LEMMA AckCloudKeeps ==
    ASSUME AdapterInv, NEW j \in jobs, AckCloud(j)
    PROVE  AdapterInv'
  <1> DEFINE k == [j EXCEPT !.ticket = tickets[j.proc][j.msg], !.at = "sending"]
  <1>1. j.msg \in handled /\ j.msg \in Messages /\ j.proc \in Processes
    BY DEF AdapterInv, AdapterTypes, JobsInv, AckCloud
  <1>2. tickets[j.proc][j.msg] \in Nat
    BY <1>1 DEF AdapterInv, AdapterTypes
  <1>3. /\ k \in [proc : Processes, msg : Messages, ticket : Nat,
                  at : {"working", "handled", "sending"}]
        /\ k.msg = j.msg /\ k.at = "sending"
    BY <1>2 DEF AdapterInv, AdapterTypes
  <1>4. jobs' \subseteq jobs \cup {k}
    BY DEF AckCloud
  <1>5. AdapterTypes'
    BY <1>1, <1>3, <1>4 DEF AdapterInv, AdapterTypes, AckCloud
  <1>6. JobsInv'
    BY <1>1, <1>3, <1>4 DEF AdapterInv, JobsInv, AckCloud
  <1>7. ASSUME NEW i \in jobs', i.at = "working", tickets'[i.proc][i.msg] = 0
        PROVE  i.msg \in handled'
    <2>1. i \in jobs /\ i.proc \in Processes /\ i.msg \in Messages
      BY <1>3, <1>4, <1>7 DEF AdapterInv, AdapterTypes
    <2>2. i.msg = j.msg \/ tickets[i.proc][i.msg] = 0
      BY <2>1, <1>1, <1>7 DEF AdapterInv, AdapterTypes, AckCloud
    <2> QED BY <2>1, <2>2, <1>1, <1>7 DEF AdapterInv, NoTicketMeansDone, AckCloud
  <1> QED BY <1>5, <1>6, <1>7 DEF AdapterInv, NoTicketMeansDone

\* The broker deletes.
LEMMA DeletedKeeps ==
    ASSUME AdapterInv, NEW j \in jobs, Deleted(j)
    PROVE  AdapterInv'
  <1>1. j.msg \in Messages
    BY DEF AdapterInv, AdapterTypes
  <1>2. AdapterTypes'
    BY <1>1 DEF AdapterInv, AdapterTypes, Deleted
  <1>3. \A m \in Messages : broker[m].at # "none" => broker'[m].at # "none"
    BY <1>1 DEF AdapterInv, AdapterTypes, Deleted
  <1>4. JobsInv'
    BY <1>3 DEF AdapterInv, AdapterTypes, JobsInv, Deleted
  <1>5. NoTicketMeansDone'
    BY DEF AdapterInv, NoTicketMeansDone, Deleted
  <1> QED BY <1>2, <1>4, <1>5 DEF AdapterInv

\* The table goes with the jobs that would have looked into it.
LEMMA RestartKeeps ==
    ASSUME AdapterInv, NEW p \in Processes, AdapterRestart(p)
    PROVE  AdapterInv'
  <1>1. AdapterTypes'
    BY DEF AdapterInv, AdapterTypes, AdapterRestart
  <1>2. JobsInv'
    BY DEF AdapterInv, JobsInv, AdapterRestart
  <1>3. ASSUME NEW i \in jobs', i.at = "working", tickets'[i.proc][i.msg] = 0
        PROVE  i.msg \in handled'
    <2>1. i \in jobs /\ i.proc # p
      BY DEF AdapterRestart
    <2>2. tickets'[i.proc] = tickets[i.proc]
      BY <2>1 DEF AdapterInv, AdapterTypes, AdapterRestart
    <2> QED BY <2>1, <2>2, <1>3 DEF AdapterInv, NoTicketMeansDone, AdapterRestart
  <1> QED BY <1>1, <1>2, <1>3 DEF AdapterInv, NoTicketMeansDone

LEMMA AdapterInductive == AdapterInv /\ [AdapterNext]_adapterVars => AdapterInv'
  <1> SUFFICES ASSUME AdapterInv, [AdapterNext]_adapterVars
               PROVE  AdapterInv'
    OBVIOUS
  <1>1. ASSUME NEW m \in Messages, Publish(m) \/ Expire(m)
        PROVE  AdapterInv'
    BY <1>1, PublishKeeps, ExpireKeeps
  <1>2. ASSUME NEW p \in Processes, NEW m \in Messages, Pull(p, m)
        PROVE  AdapterInv'
    BY <1>2, PullKeeps
  <1>3. ASSUME NEW j \in jobs, \/ Handle(j) \/ Fail(j) \/ AckLocal(j) \/ AckCloud(j)
                              \/ Deleted(j) \/ NotDeleted(j)
        PROVE  AdapterInv'
    BY <1>3, HandleKeeps, ForgetKeeps, AckLocalKeeps, AckCloudKeeps, DeletedKeeps
  <1>4. ASSUME NEW p \in Processes, AdapterRestart(p)
        PROVE  AdapterInv'
    BY <1>4, RestartKeeps
  <1>5. CASE UNCHANGED adapterVars
    BY <1>5 DEF AdapterInv, AdapterTypes, JobsInv, NoTicketMeansDone, adapterVars
  <1> QED BY <1>1, <1>2, <1>3, <1>4, <1>5 DEF AdapterNext

LEMMA AdapterInvariant == AdapterSpec => []AdapterInv
  BY InitAdapter, AdapterInductive, PTL DEF AdapterSpec

\* An ack that finds no ticket and returns in silence leaves nothing undone: another
\* delivery has handled the message (aws/queue.py:82, gcp/queue.py:84).
THEOREM SilentAcks == AdapterSpec => []NoTicketMeansDone
  <1>1. AdapterInv => NoTicketMeansDone
    BY DEF AdapterInv
  <1> QED BY <1>1, AdapterInvariant, PTL

----------------------------------------------------------------------------
(* The refinement.                                                         *)

\* What the mapping takes for pending.
Pending == {m \in Messages : broker[m].at \in {"waiting", "inflight"}}

LEMMA InitMaps == AdapterInit => Promise!Init
  BY DEF AdapterInit, Promise!Init

\* A message that is handed out, or comes back, is pending before and after.
LEMMA MovesStutter ==
    ASSUME AdapterInv, NEW m \in Messages,
           Expire(m) \/ \E p \in Processes : Pull(p, m)
    PROVE  Pending' = Pending /\ handled' = handled
  <1>1. broker[m].at \in {"waiting", "inflight"}
    BY DEF Expire, Pull, Deliver
  <1>2. \A n \in Messages : n # m => broker'[n] = broker[n]
    BY DEF AdapterInv, AdapterTypes, Expire, Pull
  <1>3. broker'[m].at \in {"waiting", "inflight"}
    BY DEF AdapterInv, AdapterTypes, Expire, Pull
  <1>4. handled' = handled
    BY DEF Expire, Pull
  <1> QED BY <1>1, <1>2, <1>3, <1>4 DEF Pending

\* Deleting a message removes it if it is still pending.
LEMMA DeletionMaps ==
    ASSUME AdapterInv, NEW m \in Messages, m \in handled, handled' = handled,
           broker' = [broker EXCEPT ![m].at = "deleted"]
    PROVE  (Pending' = Pending \ {m}) /\ [Promise!Next]_(Promise!deliveryVars)
  <1>1. Pending' = Pending \ {m}
    BY DEF AdapterInv, AdapterTypes, Pending
  <1>2. CASE m \in Pending
    <2>1. Promise!Remove(m)
      BY <1>1, <1>2 DEF Promise!Remove, Pending
    <2> QED BY <1>1, <2>1 DEF Promise!Next
  <1>3. CASE m \notin Pending
    <2>1. UNCHANGED Promise!deliveryVars
      BY <1>1, <1>3 DEF Promise!deliveryVars, Pending
    <2> QED BY <1>1, <2>1
  <1> QED BY <1>2, <1>3

\* Every step publishes, finishes or removes one message, or changes neither set.
LEMMA StepMaps ==
    AdapterInv /\ [AdapterNext]_adapterVars => [Promise!Next]_(Promise!deliveryVars)
  <1> SUFFICES ASSUME AdapterInv, [AdapterNext]_adapterVars
               PROVE  [Promise!Next]_(Promise!deliveryVars)
    OBVIOUS
  <1>1. ASSUME NEW m \in Messages, Publish(m)
        PROVE  [Promise!Next]_(Promise!deliveryVars)
    <2>1. Pending' = Pending \cup {m} /\ handled' = handled
      BY <1>1 DEF AdapterInv, AdapterTypes, Publish, Pending
    <2>2. Promise!Publish(m)
      BY <2>1 DEF Promise!Publish, Pending
    <2> QED BY <2>2 DEF Promise!Next
  <1>2. ASSUME NEW m \in Messages, Expire(m) \/ \E p \in Processes : Pull(p, m)
        PROVE  [Promise!Next]_(Promise!deliveryVars)
    BY <1>2, MovesStutter DEF Promise!deliveryVars, Pending
  <1>3. ASSUME NEW j \in jobs, Handle(j)
        PROVE  [Promise!Next]_(Promise!deliveryVars)
    <2>1. j.msg \in Messages
      BY DEF AdapterInv, AdapterTypes
    <2>2. Promise!Finish(j.msg)
      BY <1>3 DEF Handle, Promise!Finish
    <2> QED BY <2>1, <2>2 DEF Promise!Next
  <1>4. ASSUME NEW j \in jobs, Fail(j) \/ NotDeleted(j) \/ AckCloud(j)
        PROVE  [Promise!Next]_(Promise!deliveryVars)
    BY <1>4 DEF Fail, NotDeleted, AckCloud, Promise!deliveryVars
  <1>5. ASSUME NEW j \in jobs, AckLocal(j) \/ Deleted(j)
        PROVE  [Promise!Next]_(Promise!deliveryVars)
    <2>1. j.msg \in Messages /\ j.msg \in handled /\ handled' = handled
      BY <1>5 DEF AdapterInv, AdapterTypes, JobsInv, AckLocal, Deleted
    <2>2. broker' = broker \/ broker' = [broker EXCEPT ![j.msg].at = "deleted"]
      BY <1>5 DEF AckLocal, Deleted
    <2>3. CASE broker' = broker
      BY <2>1, <2>3 DEF Promise!deliveryVars
    <2>4. CASE broker' = [broker EXCEPT ![j.msg].at = "deleted"]
      BY <2>1, <2>4, DeletionMaps
    <2> QED BY <2>2, <2>3, <2>4
  <1>6. ASSUME NEW p \in Processes, AdapterRestart(p)
        PROVE  [Promise!Next]_(Promise!deliveryVars)
    BY <1>6 DEF AdapterRestart, Promise!deliveryVars
  <1>7. CASE UNCHANGED adapterVars
    BY <1>7 DEF adapterVars, Promise!deliveryVars
  <1> QED BY <1>1, <1>2, <1>3, <1>4, <1>5, <1>6, <1>7 DEF AdapterNext

\* No adapter lets go of a message that nobody has handled: receipts that a redelivery
\* replaces, acks that fail and tables lost with their process included.
THEOREM AdaptersKeepThePromise == AdapterSpec => ImplementsAtLeastOnce
  <1>1. AdapterInit => Promise!Init
    BY InitMaps
  <1>2. AdapterInv /\ [AdapterNext]_adapterVars => [Promise!Next]_(Promise!deliveryVars)
    BY StepMaps
  <1> QED BY <1>1, <1>2, AdapterInvariant, PTL
             DEF AdapterSpec, ImplementsAtLeastOnce, Promise!Spec
=============================================================================
