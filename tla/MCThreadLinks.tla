---------------------------- MODULE MCThreadLinks ----------------------------
(* The two kinds of linked lists of os_thread.c on small instances: a         *)
(* behaviour is one of the thread list (OSThreadList) or one of the wait      *)
(* queues (OSThreadQueue).                                                    *)
EXTENDS OSThreadList, TLC

CONSTANTS a, b, Sleepers, Queue, QueuePriorities

ASSUME SleeperAssumption ==
  /\ IsFiniteSet(Sleepers) /\ NULL \notin Sleepers
  /\ Queue # {} /\ NULL \notin Queue
  /\ QueuePriorities \subseteq Nat

VARIABLES part, qHead, qTail, qNext, qPrev, qOf, qPriority, qLive

qVars == <<qHead, qTail, qNext, qPrev, qOf, qPriority, qLive>>

Queues == INSTANCE OSThreadQueue WITH
  Thread <- Sleepers, Priorities <- QueuePriorities,
  head <- qHead, tail <- qTail, next <- qNext, prev <- qPrev,
  queue <- qOf, priority <- qPriority, live <- qLive

ListThread == {Launcher, Idle, a, b}
ThreePriorities == 0..2
Exchange == Permutations(Sleepers) \cup Permutations(Queue)

MCInit == Init /\ Queues!Init /\ part \in {"list", "queues"}
MCNext ==
  \/ part = "list" /\ Next /\ UNCHANGED <<part, qVars>>
  \/ part = "queues" /\ Queues!Next /\ UNCHANGED <<part, vars>>
MCSpec == MCInit /\ [][MCNext]_<<part, vars, qVars>>

-----------------------------------------------------------------------------
\* A wait queue read backwards is the queue (with the types of both parts).
BackIsForth == TypeOK /\ Queues!TypeOK /\ Queues!BackIsForth

\* The thread list behaves as the sequence of OSThreadOrder, the wait queues as
\* those of OSWaitOrder.
LinksKeepOrders == LinksKeepOrder /\ Queues!LinksKeepOrder
=============================================================================
