----------------------------- MODULE OSWaitOrder -----------------------------
(* What the wait queues of libraries/os/src/os_thread.c promise: sequences    *)
(* into which threads are linked, and from which they go, as OSThread has it. *)

EXTENDS OSOrder

CONSTANTS Thread, Queue

VARIABLES waiters, priority, live

Init == waiters = [q \in Queue |-> <<>>]

Linked(t) == \E q \in Queue : t \in ToSet(waiters[q])

Sleep(t, q) ==
  /\ t \in live
  /\ waiters' = [waiters EXCEPT ![q] = OSi_InsertLinkToQueue(@, priority, t)]
  /\ UNCHANGED <<priority, live>>

Wakeup(q) ==
  /\ waiters' = [waiters EXCEPT ![q] = <<>>]
  /\ UNCHANGED <<priority, live>>

End(t) ==
  /\ live' = live \ {t}
  /\ waiters' = [q \in Queue |-> RemoveFirst(waiters[q], t)]
  /\ UNCHANGED priority

\* A thread that is linked nowhere is created, or its priority changes.
Change(t) ==
  /\ ~Linked(t)
  /\ live' = live \cup {t}
  /\ \A u \in Thread \ {t} : priority'[u] = priority[u]
  /\ UNCHANGED waiters

Next ==
  \E t \in Thread, q \in Queue : Sleep(t, q) \/ Wakeup(q) \/ End(t) \/ Change(t)

Spec == Init /\ [][Next]_<<waiters, priority, live>>
=============================================================================
