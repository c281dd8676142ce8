---------------------------- MODULE OSThreadQueue ----------------------------
(* The wait queues of libraries/os/src/os_thread.c with their links (the      *)
(* SDK_THREAD_INFINITY build).  Everything runs with interrupts disabled.     *)
(*                                                                            *)
(* A thread that was woken directly while it is linked sleeps again only      *)
(* where it is linked, and the priority of a linked thread is not changed:    *)
(* see OS_SleepThread and OS_SetThreadPriority in OSThread.                   *)

EXTENDS Naturals, SequencesExt

CONSTANTS
  Thread,
  Queue,
  Priorities,  \* numbers; a smaller one is more urgent
  NULL

VARIABLES
  head,      \* OSThreadQueue.head
  tail,      \* OSThreadQueue.tail
  next,      \* OSThread.link.next
  prev,      \* OSThread.link.prev
  queue,     \* OSThread.queue
  priority,  \* OSThread.priority
  live       \* the threads created and not terminated

vars == <<head, tail, next, prev, queue, priority, live>>

TypeOK ==
  /\ head \in [Queue -> Thread \cup {NULL}]
  /\ tail \in [Queue -> Thread \cup {NULL}]
  /\ next \in [Thread -> Thread \cup {NULL}]
  /\ prev \in [Thread -> Thread \cup {NULL}]
  /\ queue \in [Thread -> Queue \cup {NULL}]
  /\ priority \in [Thread -> Priorities]
  /\ live \subseteq Thread
  /\ \A q \in Queue : head[q] = NULL <=> tail[q] = NULL

Init ==
  /\ head = [q \in Queue |-> NULL] /\ tail = [q \in Queue |-> NULL]
  /\ next = [t \in Thread |-> NULL] /\ prev = [t \in Thread |-> NULL]
  /\ queue = [t \in Thread |-> NULL]
  /\ priority \in [Thread -> Priorities]
  /\ live = {}

\* The threads a loop over field link finds that begins with t.
Path(link, t) ==
  LET node[n \in 1..Cardinality(Thread)] ==
        IF n = 1 THEN t
        ELSE IF node[n - 1] = NULL THEN NULL ELSE link[node[n - 1]]
  IN [n \in 1..Cardinality({i \in DOMAIN node : node[i] # NULL}) |-> node[n]]

Chain(q) == Path(next, head[q])
Linked(t) == \E q \in Queue : t \in ToSet(Chain(q))

-----------------------------------------------------------------------------
(* A slip one could make in this code; no action of Next uses it: the links   *)
(* backwards are forgotten.                                                   *)

UnlinkOneWay(q, t) ==
  /\ head' = IF head[q] = t THEN [head EXCEPT ![q] = next[t]] ELSE head
  /\ next' = IF head[q] = t THEN next ELSE [next EXCEPT ![prev[t]] = next[t]]
  /\ tail' = IF tail[q] = t THEN [tail EXCEPT ![q] = prev[t]] ELSE tail
  /\ UNCHANGED prev

-----------------------------------------------------------------------------
(* Links.                                                                     *)

\* Field f of t, when there is such a thread.
SetLink(f, t, value) == IF t = NULL THEN f ELSE [f EXCEPT ![t] = value]

\* Thread t is linked between two threads that are neighbours, or at an end.
Link(q, t, before, after) ==
  /\ head' = IF before = NULL THEN [head EXCEPT ![q] = t] ELSE head
  /\ next' = [SetLink(next, before, t) EXCEPT ![t] = after]
  /\ prev' = [SetLink(prev, after, t) EXCEPT ![t] = before]
  /\ tail' = IF after = NULL THEN [tail EXCEPT ![q] = t] ELSE tail

\* Behind those of its priority, unless it is found on the way there.
OSi_InsertLinkToQueue(q, t) ==
  LET chain == Chain(q)
      place == Min({i \in 1..Len(chain) : priority[chain[i]] > priority[t]} \cup {Len(chain) + 1})
  IN IF t \in ToSet(SubSeq(chain, 1, place - 1))
     THEN UNCHANGED <<head, tail, next, prev>>
     ELSE IF place = Len(chain) + 1
          THEN Link(q, t, tail[q], NULL)
          ELSE Link(q, t, prev[chain[place]], chain[place])

\* The thread is looked for, and its neighbours are linked.
OSi_RemoveSpecifiedLinkFromQueue(q, t) ==
  IF t \in ToSet(Chain(q))
  THEN /\ head' = IF head[q] = t THEN [head EXCEPT ![q] = next[t]] ELSE head
       /\ next' = IF head[q] = t THEN next ELSE SetLink(next, prev[t], next[t])
       /\ tail' = IF tail[q] = t THEN [tail EXCEPT ![q] = prev[t]] ELSE tail
       /\ prev' = IF tail[q] = t THEN prev ELSE SetLink(prev, next[t], prev[t])
  ELSE UNCHANGED <<head, tail, next, prev>>

-----------------------------------------------------------------------------
(* The calls, as far as they link threads.                                    *)

OS_CreateThread(t, prio) ==
  /\ t \notin live
  /\ live' = live \cup {t}
  /\ priority' = [priority EXCEPT ![t] = prio]
  /\ queue' = [queue EXCEPT ![t] = NULL]
  /\ next' = [next EXCEPT ![t] = NULL] /\ prev' = [prev EXCEPT ![t] = NULL]
  /\ UNCHANGED <<head, tail>>

OS_SleepThread(t, q) ==
  /\ t \in live
  /\ Linked(t) => queue[t] = q
  /\ queue' = [queue EXCEPT ![t] = q]
  /\ OSi_InsertLinkToQueue(q, t)
  /\ UNCHANGED <<priority, live>>

\* OSi_RemoveLinkFromQueue takes one thread after the other from the head.
OS_WakeupThread(q) ==
  LET woken == ToSet(Chain(q))
      Clear(f) == [t \in Thread |-> IF t \in woken THEN NULL ELSE f[t]]
  IN /\ head[q] # NULL
     /\ head' = [head EXCEPT ![q] = NULL] /\ tail' = [tail EXCEPT ![q] = NULL]
     /\ next' = Clear(next) /\ prev' = Clear(prev) /\ queue' = Clear(queue)
     /\ UNCHANGED <<priority, live>>

\* The end of a thread.
OSi_ExitThread_Destroy(t) ==
  /\ t \in live
  /\ live' = live \ {t}
  /\ IF queue[t] # NULL
     THEN OSi_RemoveSpecifiedLinkFromQueue(queue[t], t)
     ELSE UNCHANGED <<head, tail, next, prev>>
  /\ UNCHANGED <<queue, priority>>

OS_SetThreadPriority(t, prio) ==
  /\ t \in live /\ ~Linked(t)
  /\ priority' = [priority EXCEPT ![t] = prio]
  /\ UNCHANGED <<head, tail, next, prev, queue, live>>

Next ==
  \/ \E t \in Thread, prio \in Priorities :
       OS_CreateThread(t, prio) \/ OS_SetThreadPriority(t, prio)
  \/ \E t \in Thread, q \in Queue : OS_SleepThread(t, q)
  \/ \E q \in Queue : OS_WakeupThread(q)
  \/ \E t \in Thread : OSi_ExitThread_Destroy(t)

Spec == Init /\ [][Next]_vars

-----------------------------------------------------------------------------
\* From the tail one finds, backwards, the threads found from the head: stale
\* links of threads that left, or ended and were created again, reach nobody.
BackIsForth == \A q \in Queue : Path(prev, tail[q]) = Reverse(Chain(q))

Order == INSTANCE OSWaitOrder WITH waiters <- [q \in Queue |-> Chain(q)]

\* The links do what OSThread does with sequences.
LinksKeepOrder == Order!Spec
=============================================================================
