------------------------------ MODULE MCMutexes ------------------------------
(* The mutexes on small instances, and what is put under one: a behaviour is  *)
(* one of the plain calls (OSMutex), one of the read and write locks          *)
(* (OSMutexRW), or one of the wireless driver's send queue (WMPort) with two  *)
(* children, one of them there from the beginning.                            *)
EXTENDS OSMutex

CONSTANTS RWMutex, MaxLocks, Child, Room, MaxPuts, MaxChanges

VARIABLES
  part, type, locks, thread, next, prev, head, tail, rwWaiters, call, reads, writes,
  child, mpReady, minPoll, request, cleaning, kick, ready, number, frame, received,
  got, puts, changes

rwVars == <<type, locks, thread, next, prev, head, tail, rwWaiters, call, reads, writes>>
portVars == <<child, mpReady, minPoll, request, cleaning, kick, ready, number, frame,
              received, got, puts, changes>>

First == CHOOSE c \in Child : \A e \in Child : c <= e

RW == INSTANCE OSMutexRW WITH
  Mutex <- RWMutex, MaxCount <- MaxLocks, count <- locks, waiters <- rwWaiters
Wireless == INSTANCE WMPort WITH
  Dest <- {{First}, Child}, Port <- {"seq"}, Priority <- [p \in {"seq"} |-> 1],
  Size <- {1}, QueueSize <- 2, NumberMod <- 8, Window <- 4, FirstNumber <- 6,
  None <- NULL

\* The ports need one beginning when they stand still.
MCInit ==
  /\ Init /\ RW!Init /\ Wireless!Init
  /\ part \in {"plain", "readwrite", "ports"}
  /\ child = (IF part = "ports" THEN {First} ELSE {}) /\ (part # "ports" => ~minPoll)
MCNext ==
  \/ part = "plain" /\ Next /\ UNCHANGED <<part, rwVars, portVars>>
  \/ part = "readwrite" /\ RW!Next /\ UNCHANGED <<part, vars, portVars>>
  \/ part = "ports" /\ Wireless!Next /\ UNCHANGED <<part, vars, rwVars>>
MCSpec == MCInit /\ [][MCNext]_<<part, vars, rwVars, portVars>> /\ Wireless!Fairness

-----------------------------------------------------------------------------
\* A writer is alone, and the count is that of the locks the threads hold.
LocksAgree == RW!LocksAgree

\* No thread sleeps for a read or write lock that it would get.
NoLockForgotten == RW!NoLockForgotten

\* Who sleeps to convert a lock is never woken, for its own lock is in the way.
ConvertingSleepsForever == RW!ConvertingSleepsForever

\* A child takes each packet of a port once and in order, and a packet is
\* reported when every child there has taken it, as WMPortOrder says (with the types
\* of the ports and the plain mutexes).
ImplementsOrder == [](TypeOK /\ Wireless!TypeOK) /\ Wireless!ImplementsOrder

\* Every packet is reported while a child is there.
AllReported == Wireless!AllReported
=============================================================================
