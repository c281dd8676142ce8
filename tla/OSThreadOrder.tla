---------------------------- MODULE OSThreadOrder ----------------------------
(* What the thread list of libraries/os/src/os_thread.c promises: a sequence  *)
(* in which threads are put, moved and found as OSThread has it.              *)

EXTENDS OSOrder

CONSTANTS
  Thread,
  Idle,      \* OSi_IdleThread, which stays last
  Priorities,
  First      \* the list OS_InitThread makes

VARIABLES list, priority

Init == list = First

Create(t, prio) ==
  /\ t \notin ToSet(list)
  /\ priority' = [priority EXCEPT ![t] = prio]
  /\ list' = OSi_InsertThreadToList(list, priority', t)

End(t) ==
  /\ t \in ToSet(list) \ {Idle}
  /\ list' = RemoveFirst(list, t)
  /\ UNCHANGED priority

SetPriority(t, prio) ==
  /\ t \in ToSet(list) \ {Idle}
  /\ priority' = [priority EXCEPT ![t] = prio]
  /\ list' = OSi_InsertThreadToList(RemoveFirst(list, t), priority', t)

Yield(t) ==
  /\ t \in ToSet(list) \ {Idle}
  /\ list' = OS_YieldInList(list, priority, t)
  /\ UNCHANGED priority

Next ==
  \E t \in Thread :
    \/ \E prio \in Priorities : Create(t, prio) \/ SetPriority(t, prio)
    \/ End(t) \/ Yield(t)

Spec == Init /\ [][Next]_<<list, priority>>
=============================================================================
