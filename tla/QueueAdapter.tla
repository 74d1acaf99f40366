---------------------------- MODULE QueueAdapter ----------------------------
(***************************************************************************)
(* The three queue adapters over one topic.  AWS and GCP keep, per         *)
(* process, the ticket of the last delivery of each message (a receipt     *)
(* handle, an ack id): ack looks the ticket up by message id.  LOCAL keeps *)
(* the message itself in _inflight, in the only process there is.          *)
(*                                                                         *)
(* A batch is pulled message by message, in any order.  What a consumer    *)
(* does with a message, and what the broker does with a ticket that a      *)
(* later delivery has replaced, is external.                               *)
(***************************************************************************)
EXTENDS Naturals, FiniteSets

CONSTANTS Messages, Processes,
          MaxDeliveries   \* bound: deliveries of one message

VARIABLES cloud,         \* the CLOUD_TARGET
          broker,         \* per message [at, ticket]: where it is, its last ticket
          tickets,        \* per process: message -> ticket, 0 for none
          jobs,           \* deliveries in work: [proc, msg, ticket, at]
          handled         \* messages some consumer has handled

adapterVars == <<cloud, broker, tickets, jobs, handled>>

AdapterInit ==
    /\ cloud \in {"LOCAL", "AWS", "GCP"}
    /\ broker = [m \in Messages |-> [at |-> "none", ticket |-> 0]]
    /\ tickets = [p \in Processes |-> [m \in Messages |-> 0]]
    /\ jobs = {}
    /\ handled = {}

\* LOCAL is one process.
Running(p) == cloud = "LOCAL" => p = CHOOSE q \in Processes : TRUE

Publish(m) ==
    /\ broker[m].at = "none"
    /\ broker' = [broker EXCEPT ![m].at = "waiting"]
    /\ UNCHANGED <<cloud, tickets, jobs, handled>>

Deliver(p, m) ==
    /\ Running(p)
    /\ broker[m].at = "waiting"
    /\ broker[m].ticket < MaxDeliveries

Job(p, m) == [proc |-> p, msg |-> m, ticket |-> broker[m].ticket + 1, at |-> "working"]

\* Faulty: receiving a message deletes it.
PullAndDelete(p, m) ==
    /\ Deliver(p, m)
    /\ broker' = [broker EXCEPT ![m] = [at |-> "deleted", ticket |-> @.ticket + 1]]
    /\ tickets' = [tickets EXCEPT ![p][m] = broker[m].ticket + 1]
    /\ jobs' = jobs \cup {Job(p, m)}
    /\ UNCHANGED <<cloud, handled>>

\* Faulty: each pull starts a new table of tickets.
PullForgets(p, m) ==
    /\ Deliver(p, m)
    /\ broker' = [broker EXCEPT ![m] = [at |-> "inflight", ticket |-> @.ticket + 1]]
    /\ tickets' = [tickets EXCEPT ![p] = [n \in Messages |->
                                            IF n = m THEN broker[m].ticket + 1 ELSE 0]]
    /\ jobs' = jobs \cup {Job(p, m)}
    /\ UNCHANGED <<cloud, handled>>

\* pull: the ticket replaces the one an earlier delivery to this process left.
Pull(p, m) ==
    /\ Deliver(p, m)
    /\ broker' = [broker EXCEPT ![m] = [at |-> "inflight", ticket |-> @.ticket + 1]]
    /\ tickets' = [tickets EXCEPT ![p][m] = broker[m].ticket + 1]
    /\ jobs' = jobs \cup {Job(p, m)}
    /\ UNCHANGED <<cloud, handled>>

\* The visibility timeout or the ack deadline passes; LOCAL has none.
Expire(m) ==
    /\ cloud # "LOCAL"
    /\ broker[m].at = "inflight"
    /\ broker' = [broker EXCEPT ![m].at = "waiting"]
    /\ UNCHANGED <<cloud, tickets, jobs, handled>>

\* The consumer finishes, or fails and leaves the message to the broker.
Handle(j) ==
    /\ j.at = "working"
    /\ jobs' = (jobs \ {j}) \cup {[j EXCEPT !.at = "handled"]}
    /\ handled' = handled \cup {j.msg}
    /\ UNCHANGED <<cloud, broker, tickets>>

Fail(j) ==
    /\ j.at = "working"
    /\ jobs' = jobs \ {j}
    /\ UNCHANGED <<cloud, broker, tickets, handled>>

\* ack, in LOCAL: one step under the lock.
AckLocal(j) ==
    /\ cloud = "LOCAL"
    /\ j.at = "handled"
    /\ broker' = IF tickets[j.proc][j.msg] = 0 THEN broker
                 ELSE [broker EXCEPT ![j.msg].at = "deleted"]
    /\ tickets' = [tickets EXCEPT ![j.proc][j.msg] = 0]
    /\ jobs' = jobs \ {j}
    /\ UNCHANGED <<cloud, handled>>

\* ack, in a cloud: the ticket is taken out of the table, then sent; without a ticket
\* ack returns.
AckCloud(j) ==
    /\ cloud # "LOCAL"
    /\ j.at = "handled"
    /\ tickets' = [tickets EXCEPT ![j.proc][j.msg] = 0]
    /\ jobs' = (jobs \ {j}) \cup
                 (IF tickets[j.proc][j.msg] = 0 THEN {}
                  ELSE {[j EXCEPT !.ticket = tickets[j.proc][j.msg], !.at = "sending"]})
    /\ UNCHANGED <<cloud, broker, handled>>

\* The broker deletes on the current ticket; on a replaced one it may or may not.
Deleted(j) ==
    /\ j.at = "sending"
    /\ broker' = [broker EXCEPT ![j.msg].at = "deleted"]
    /\ jobs' = jobs \ {j}
    /\ UNCHANGED <<cloud, tickets, handled>>

\* The call fails, or the ticket no longer counts: the message stays.
NotDeleted(j) ==
    /\ j.at = "sending"
    /\ jobs' = jobs \ {j}
    /\ UNCHANGED <<cloud, broker, tickets, handled>>

\* A cloud process stops and starts again with an empty table.
AdapterRestart(p) ==
    /\ cloud # "LOCAL"
    /\ tickets' = [tickets EXCEPT ![p] = [m \in Messages |-> 0]]
    /\ jobs' = {j \in jobs : j.proc # p}
    /\ UNCHANGED <<cloud, broker, handled>>

AdapterNext ==
    \/ \E m \in Messages : Publish(m) \/ Expire(m)
    \/ \E p \in Processes, m \in Messages : Pull(p, m)
    \/ \E j \in jobs : \/ Handle(j) \/ Fail(j) \/ AckLocal(j) \/ AckCloud(j)
                       \/ Deleted(j) \/ NotDeleted(j)
    \/ \E p \in Processes : AdapterRestart(p)

AdapterSpec == AdapterInit /\ [][AdapterNext]_adapterVars

----------------------------------------------------------------------------
Promise == INSTANCE AtLeastOnce
              WITH pending <- {m \in Messages : broker[m].at \in {"waiting", "inflight"}},
                   done <- handled

\* No adapter lets go of a message that nobody has handled: not when a redelivery
\* replaces the ticket, an ack fails, or a process restarts with its tickets gone.
ImplementsAtLeastOnce == Promise!Spec

\* An ack that finds no ticket, and so returns in silence, is the ack of a message
\* that another delivery has finished (aws/queue.py:82, gcp/queue.py:84).
NoTicketMeansDone ==
    \A j \in jobs : (j.at = "working" /\ tickets[j.proc][j.msg] = 0) => j.msg \in handled
=============================================================================
