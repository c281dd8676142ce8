--------------------------- MODULE OSThreadProofs ---------------------------
(* Proofs about OSThread: the types, that the most urgent runnable thread     *)
(* runs, that the lists hold the live threads, and what a disabled scheduler  *)
(* does not do, for any number of threads, queues and priorities.             *)

EXTENDS OSThread, OSSequenceLemmas

\* There is always a thread to run: the idle thread stays in the list, ready.
IdleRunnable == Idle \in ToSet(threadList) /\ state[Idle] = "READY"

\* In an interrupt handler too, unless a reschedule is noted or was skipped,
\* the thread that was running is the one to choose.
OwedOrChosen ==
  ~skipped /\ ~isNeedRescheduling => current = OS_SelectThread(threadList, state)

\* The running thread is in the thread list: OS_YieldThread finds it there.
RunningListed == ~halted => current \in ToSet(threadList)

\* HighestRuns and NothingOwed are not inductive by themselves: what the end of
\* an interrupt may leave alone depends on what the handler noted.
IInv == TypeOK /\ IdleRunnable /\ RunningListed /\ NothingOwed /\ OwedOrChosen

-----------------------------------------------------------------------------

States == {"UNUSED", "WAITING", "READY", "TERMINATED"}

\* A thread can be selected while the idle thread is ready in the list.
LEMMA SomeoneSelected ==
  ASSUME NEW list \in Seq(Thread), NEW states \in [Thread -> States],
         Idle \in ToSet(list), states[Idle] = "READY"
  PROVE  /\ OS_SelectThread(list, states) \in Thread
         /\ OS_SelectThread(list, states) \in ToSet(list)
         /\ Elect(list, states) = OS_SelectThread(list, states)
<1> DEFINE ready == {i \in 1..Len(list) : states[list[i]] = "READY"}
<1>1. ready \in SUBSET Nat /\ ready # {}
  BY DEF ToSet
<1>2. Min(ready) \in ready
  BY <1>1, MinIsLeast
<1>3. SelectInSeq(list, LAMBDA t : states[t] = "READY") = Min(ready)
  BY <1>1 DEF SelectInSeq
<1>4. OS_SelectThread(list, states) = list[Min(ready)]
  BY <1>2, <1>3 DEF OS_SelectThread
<1>5. list[Min(ready)] \in Thread /\ list[Min(ready)] \in ToSet(list)
  <2>1. Min(ready) \in 1..Len(list)
    BY <1>2
  <2> HIDE DEF ready
  <2> QED BY <2>1 DEF ToSet
<1> QED BY <1>4, <1>5, ThreadAssumption DEF ThreadAssumption, Elect

\* A thread that is not runnable can enter the list and change nothing.
LEMMA SelectionUnaffected ==
  ASSUME NEW list \in Seq(Thread), NEW i \in 1..Len(list) + 1, NEW t \in Thread,
         NEW old \in [Thread -> States], NEW new \in [Thread -> States],
         old[t] # "READY", new[t] # "READY",
         \A u \in Thread \ {t} : new[u] = old[u],
         Idle \in ToSet(list), old[Idle] = "READY"
  PROVE  OS_SelectThread(InsertAt(list, i, t), new) = OS_SelectThread(list, old)
<1> DEFINE longer == InsertAt(list, i, t)
<1>1. /\ longer \in Seq(Thread)
      /\ Len(longer) = Len(list) + 1
      /\ \A j \in 1..Len(list) + 1 :
           longer[j] = IF j < i THEN list[j] ELSE IF j = i THEN t ELSE list[j - 1]
  <2>1. longer \in Seq(Thread)
    BY InsertAtFacts, Zenon
  <2>2. Len(longer) = Len(list) + 1
    BY InsertAtLength, Zenon
  <2>3. ASSUME NEW j \in 1..Len(list) + 1
        PROVE  longer[j] = IF j < i THEN list[j] ELSE IF j = i THEN t ELSE list[j - 1]
    BY InsertAtFacts
  <2> QED BY <2>1, <2>2, <2>3, Zenon
<1> HIDE DEF longer
<1> DEFINE before == {j \in 1..Len(list) : old[list[j]] = "READY"}
           after == {j \in 1..Len(longer) : new[longer[j]] = "READY"}
<1>2. \A j \in 1..Len(list) : list[j] \in Thread
  OBVIOUS
<1>3. \A u \in Thread : new[u] = "READY" <=> old[u] = "READY"
  OBVIOUS
<1>4. \A j \in before : j < i => j \in after
  BY <1>1, <1>2, <1>3
<1>5. ASSUME NEW j \in before, j >= i PROVE j + 1 \in after
  <2>1. longer[j + 1] = list[j] /\ j + 1 \in 1..Len(longer)
    BY <1>1, <1>5
  <2> QED BY <1>2, <1>3, <2>1
<1>6. \A j \in after : j # i /\ (j < i => j \in before) /\ (j > i => j - 1 \in before)
  BY <1>1, <1>2, <1>3
<1>7. before \in SUBSET Nat /\ before # {} /\ after \in SUBSET Nat /\ after # {}
  <2>1. before # {}
    BY DEF ToSet
  <2> QED BY <2>1, <1>4, <1>5
<1>8. /\ Min(before) \in before /\ \A j \in before : Min(before) <= j
      /\ Min(after) \in after /\ \A j \in after : Min(after) <= j
  BY <1>7, MinIsLeast
<1>9. /\ OS_SelectThread(longer, new) = longer[Min(after)]
      /\ OS_SelectThread(list, old) = list[Min(before)]
  <2>1. /\ SelectInSeq(longer, LAMBDA u : new[u] = "READY") = Min(after)
        /\ SelectInSeq(list, LAMBDA u : old[u] = "READY") = Min(before)
    BY <1>7 DEF SelectInSeq
  <2> QED BY <2>1, <1>8 DEF OS_SelectThread
<1>10. \/ Min(after) < i /\ Min(before) = Min(after)
       \/ Min(after) > i /\ Min(before) = Min(after) - 1
  <2> DEFINE b == Min(before)
             a == Min(after)
  <2>1. b \in Nat /\ a \in Nat
    BY <1>7, <1>8
  <2>2. (b < i => a <= b) /\ (b >= i => a <= b + 1)
    BY <1>4, <1>5, <1>8
  <2>3. a # i /\ (a < i => b <= a) /\ (a > i => b <= a - 1)
    BY <1>6, <1>8
  <2> HIDE DEF a, b
  <2>4. (a < i /\ b = a) \/ (a > i /\ b = a - 1)
    BY <2>1, <2>2, <2>3
  <2> QED BY <2>4 DEF a, b
<1>11. Min(after) \in 1..Len(list) + 1
  BY <1>1, <1>8
<1> HIDE DEF before, after
<1> QED BY <1>1, <1>9, <1>10, <1>11 DEF longer

LEMMA InsertThreadFacts ==
  ASSUME NEW list \in Seq(Thread), NEW prio, NEW t \in Thread
  PROVE  /\ \E place \in 1..Len(list) + 1 :
              OSi_InsertThreadToList(list, prio, t) = InsertAt(list, place, t)
         /\ OSi_InsertThreadToList(list, prio, t) \in Seq(Thread)
         /\ ToSet(OSi_InsertThreadToList(list, prio, t)) = ToSet(list) \cup {t}
<1> DEFINE behind == {i \in 1..Len(list) : prio[list[i]] >= prio[t]}
           place == Min(behind \cup {Len(list) + 1})
<1>1. place \in 1..Len(list) + 1
  <2>1. behind \in SUBSET (1..Len(list)) /\ Len(list) \in Nat
    OBVIOUS
  <2> HIDE DEF behind
  <2> QED BY <2>1, PlaceInRange, Zenon
<1>2. OSi_InsertThreadToList(list, prio, t) = InsertAt(list, place, t)
  BY DEF OSi_InsertThreadToList
<1> HIDE DEF place
<1> QED BY <1>1, <1>2, InsertAtFacts, InsertAtMembers

LEMMA InsertLinkFacts ==
  ASSUME NEW links \in Seq(Thread), NEW prio, NEW t \in Thread
  PROVE  OSi_InsertLinkToQueue(links, prio, t) \in Seq(Thread)
<1> DEFINE behind == {i \in 1..Len(links) : prio[links[i]] > prio[t]}
           place == Min(behind \cup {Len(links) + 1})
<1>1. place \in 1..Len(links) + 1
  <2>1. behind \in SUBSET (1..Len(links)) /\ Len(links) \in Nat
    OBVIOUS
  <2> HIDE DEF behind
  <2> QED BY <2>1, PlaceInRange, Zenon
<1>2. \/ OSi_InsertLinkToQueue(links, prio, t) = links
      \/ OSi_InsertLinkToQueue(links, prio, t) = InsertAt(links, place, t)
  BY DEF OSi_InsertLinkToQueue
<1> HIDE DEF place
<1> QED BY <1>1, <1>2, InsertAtFacts

-----------------------------------------------------------------------------

\* A call that reschedules keeps the running thread right, whatever it has done
\* to the thread list and the states.
LEMMA RescheduleKeeps ==
  ASSUME IInv,
         threadList' \in Seq(Thread), state' \in [Thread -> States],
         Idle \in ToSet(threadList'), state'[Idle] = "READY",
         inIrq' = inIrq,
         OSi_RescheduleThread(threadList', state')
  PROVE  /\ current' \in Thread /\ isNeedRescheduling' \in BOOLEAN /\ skipped' \in BOOLEAN
         /\ current' \in ToSet(threadList') \/ (current' = current /\ (rescheduleCount > 0 \/ inIrq))
         /\ NothingOwed' /\ OwedOrChosen'
<1>1. /\ OS_SelectThread(threadList', state') \in Thread
      /\ OS_SelectThread(threadList', state') \in ToSet(threadList')
      /\ Elect(threadList', state') = OS_SelectThread(threadList', state')
  BY SomeoneSelected
<1> USE DEF IInv, TypeOK, NothingOwed, OwedOrChosen
<1>2. CASE rescheduleCount > 0 /\ skipped' = TRUE /\ UNCHANGED <<current, isNeedRescheduling>>
  BY <1>2, Zenon
<1>3. CASE inIrq /\ isNeedRescheduling' = TRUE /\ UNCHANGED <<current, skipped>>
  BY <1>3, Zenon
<1>4. CASE /\ rescheduleCount = 0
           /\ ~inIrq
           /\ current' = Elect(threadList', state')
           /\ skipped' = FALSE
           /\ UNCHANGED isNeedRescheduling
  BY <1>1, <1>4, Zenon
<1> QED BY <1>2, <1>3, <1>4, Zenon DEF OSi_RescheduleThread

\* Waking all threads of some queues.
LEMMA WakeFacts ==
  ASSUME IInv, NEW qs \in SUBSET WaitQueue
  PROVE  /\ WakeStates(qs) \in [Thread -> States]
         /\ WakeStates(qs)[Idle] = "READY"
         /\ WakeQueueFields(qs) \in [Thread -> WaitQueue \cup {NULL}]
BY ThreadAssumption DEF ThreadAssumption, IInv, TypeOK, IdleRunnable, WakeStates, WakeQueueFields, States

\* The end of a thread other than the idle one.
LEMMA TerminateFacts ==
  ASSUME IInv, NEW t \in Thread, t # Idle, NEW qs \in SUBSET Queue, Terminate(t, qs)
  PROVE  /\ threadList' \in Seq(Thread) /\ Idle \in ToSet(threadList')
         /\ state' \in [Thread -> States] /\ state'[Idle] = "READY"
         /\ queue' \in [Thread -> WaitQueue \cup {NULL}]
         /\ waiters' \in [WaitQueue -> Seq(Thread)]
         /\ exiting' \subseteq Thread
<1>1. threadList' \in Seq(Thread) /\ Idle \in ToSet(threadList')
  <2>1. threadList' = RemoveFirst(threadList, t)
    BY DEF Terminate
  <2> QED BY <2>1, RemoveFirstMembers DEF IInv, TypeOK, IdleRunnable
<1>2. qs \cup {t} \in SUBSET WaitQueue
  BY DEF WaitQueue
<1>3. /\ WakeStates(qs \cup {t}) \in [Thread -> States]
      /\ WakeStates(qs \cup {t})[Idle] = "READY"
      /\ queue' \in [Thread -> WaitQueue \cup {NULL}]
  BY <1>2, WakeFacts DEF Terminate
<1>4. state' \in [Thread -> States] /\ state'[Idle] = "READY"
  <2>1. state' = [WakeStates(qs \cup {t}) EXCEPT ![t] = "TERMINATED"]
    BY DEF Terminate
  <2> HIDE DEF States
  <2>2. "TERMINATED" \in States
    BY DEF States
  <2> QED BY <1>3, <2>1, <2>2, ThreadAssumption DEF ThreadAssumption
<1>5. waiters' \in [WaitQueue -> Seq(Thread)]
  <2>1. \A q \in WaitQueue : RemoveFirst(waiters[q], t) \in Seq(Thread)
    BY RemoveFirstMembers DEF IInv, TypeOK
  <2>2. \A q \in WaitQueue : waiters[q] \in Seq(Thread)
    BY DEF IInv, TypeOK
  <2>3. waiters' = [q \in WaitQueue |->
                     IF q \in qs \cup {t} THEN <<>>
                     ELSE IF q = queue[t] THEN RemoveFirst(waiters[q], t) ELSE waiters[q]]
    BY DEF Terminate
  <2> QED BY <2>1, <2>2, <2>3
<1> QED BY <1>1, <1>3, <1>4, <1>5 DEF Terminate, IInv, TypeOK

-----------------------------------------------------------------------------

LEMMA InitImpliesIInv == Init => IInv
<1> SUFFICES ASSUME Init PROVE IInv
  OBVIOUS
<1> USE ThreadAssumption DEF ThreadAssumption
<1>1. threadList = <<Launcher, Idle>> /\ threadList \in Seq(Thread)
  BY DEF Init
<1>2. Launcher \in ToSet(threadList) /\ Idle \in ToSet(threadList)
  <2>1. /\ 1 \in DOMAIN threadList /\ threadList[1] = Launcher
        /\ 2 \in DOMAIN threadList /\ threadList[2] = Idle
    BY <1>1
  <2> QED BY <2>1 DEF ToSet
<1>3. TypeOK
  <2>1. priority \in [Thread -> 0..MaxPriority + 1]
    <3>1. MaxPriority \div 2 \in 0..MaxPriority + 1
      OBVIOUS
    <3> QED BY <3>1 DEF Init
  <2>2. waiters \in [WaitQueue -> Seq(Thread)]
    <3>1. <<>> \in Seq(Thread)
      OBVIOUS
    <3> QED BY <3>1, Zenon DEF Init
  <2>3. state \in [Thread -> {"UNUSED", "WAITING", "READY", "TERMINATED"}]
    BY Zenon DEF Init
  <2>4. queue \in [Thread -> WaitQueue \cup {NULL}]
    BY DEF Init
  <2>5. current \in Thread /\ rescheduleCount \in 0..MaxNesting /\ exiting \subseteq Thread
    BY DEF Init
  <2>6. isNeedRescheduling \in BOOLEAN /\ inIrq \in BOOLEAN /\ halted \in BOOLEAN /\ skipped \in BOOLEAN
    BY DEF Init
  <2> QED BY <1>1, <2>1, <2>2, <2>3, <2>4, <2>5, <2>6, Zenon DEF TypeOK
<1>4. IdleRunnable /\ RunningListed /\ NothingOwed
  BY <1>2 DEF Init, IdleRunnable, RunningListed, NothingOwed
<1>5. current = OS_SelectThread(threadList, state)
  <2> DEFINE ready == {i \in 1..Len(threadList) : state[threadList[i]] = "READY"}
  <2>1. ready \in SUBSET Nat /\ 1 \in ready
    BY <1>1 DEF Init
  <2>2. Min(ready) \in ready /\ Min(ready) <= 1
    BY <2>1, MinIsLeast
  <2>3. Min(ready) = 1
    BY <2>2
  <2>4. SelectInSeq(threadList, LAMBDA t : state[t] = "READY") = 1
    BY <2>1, <2>3 DEF SelectInSeq
  <2> QED BY <2>4, <1>1 DEF OS_SelectThread, Init
<1> QED BY <1>3, <1>4, <1>5 DEF IInv, OwedOrChosen

\* The step of every call that reschedules: types, list and states are what is
\* left to look at.
LEMMA ReschedulingStep ==
  ASSUME IInv,
         threadList' \in Seq(Thread), state' \in [Thread -> States],
         Idle \in ToSet(threadList'), state'[Idle] = "READY",
         rescheduleCount' \in 0..MaxNesting,
         priority' \in [Thread -> 0..MaxPriority + 1],
         queue' \in [Thread -> WaitQueue \cup {NULL}],
         waiters' \in [WaitQueue -> Seq(Thread)],
         exiting' \subseteq Thread,
         inIrq' = inIrq, halted' \in BOOLEAN, halted => halted',
         (~halted' /\ (rescheduleCount > 0 \/ inIrq)) /\ current \in ToSet(threadList)
           => current \in ToSet(threadList'),
         OSi_RescheduleThread(threadList', state')
  PROVE  IInv'
<1>1. /\ current' \in Thread /\ isNeedRescheduling' \in BOOLEAN /\ skipped' \in BOOLEAN
      /\ current' \in ToSet(threadList') \/ (current' = current /\ (rescheduleCount > 0 \/ inIrq))
      /\ NothingOwed' /\ OwedOrChosen'
  BY RescheduleKeeps
<1>2. TypeOK'
  BY <1>1 DEF TypeOK, IInv, States
<1>3. IdleRunnable'
  BY DEF IdleRunnable
<1>4. RunningListed'
  BY <1>1, Zenon DEF RunningListed, IInv
<1> QED BY <1>1, <1>2, <1>3, <1>4 DEF IInv

LEMMA EnqueueFacts ==
  ASSUME IInv, NEW t \in Thread, t # Idle, NEW q \in WaitQueue, Enqueue(t, q)
  PROVE  /\ state' \in [Thread -> States] /\ state'[Idle] = "READY"
         /\ queue' \in [Thread -> WaitQueue \cup {NULL}]
         /\ waiters' \in [WaitQueue -> Seq(Thread)]
<1>1. OSi_InsertLinkToQueue(waiters[q], priority, t) \in Seq(Thread)
  BY InsertLinkFacts DEF IInv, TypeOK
<1>2. waiters' \in [WaitQueue -> Seq(Thread)]
  BY <1>1 DEF Enqueue, IInv, TypeOK
<1>3. state' \in [Thread -> States] /\ state'[Idle] = "READY"
  BY ThreadAssumption DEF ThreadAssumption, Enqueue, IInv, TypeOK, IdleRunnable, States
<1> QED BY <1>2, <1>3 DEF Enqueue, IInv, TypeOK

LEMMA MoveInListFacts ==
  ASSUME IInv, NEW t \in Thread, NEW prio \in Priorities, MoveInList(t, prio)
  PROVE  /\ threadList' \in Seq(Thread)
         /\ ToSet(threadList) \subseteq ToSet(threadList')
         /\ priority' \in [Thread -> 0..MaxPriority + 1]
<1>1. CASE priority[t] = prio
  BY <1>1 DEF MoveInList, IInv, TypeOK
<1>2. CASE priority[t] # prio
  <2> DEFINE shorter == RemoveFirst(threadList, t)
  <2>1. shorter \in Seq(Thread) /\ ToSet(threadList) \ {t} \subseteq ToSet(shorter)
    BY RemoveFirstMembers DEF IInv, TypeOK
  <2>2. threadList' = OSi_InsertThreadToList(shorter, priority', t)
    BY <1>2 DEF MoveInList
  <2> HIDE DEF shorter
  <2>3. threadList' \in Seq(Thread) /\ ToSet(threadList') = ToSet(shorter) \cup {t}
    BY <2>1, <2>2, InsertThreadFacts
  <2>4. priority' \in [Thread -> 0..MaxPriority + 1]
    <3>1. prio \in 0..MaxPriority + 1
      BY ThreadAssumption DEF Priorities, ThreadAssumption
    <3>2. priority' = [priority EXCEPT ![t] = prio]
      BY <1>2 DEF MoveInList
    <3> QED BY <3>1, <3>2 DEF IInv, TypeOK
  <2> QED BY <2>1, <2>3, <2>4
<1> QED BY <1>1, <1>2

-----------------------------------------------------------------------------
(* The steps.                                                                 *)

LEMMA CreateStep ==
  ASSUME IInv, NEW t \in Thread, NEW prio \in Priorities, OS_CreateThread(t, prio)
  PROVE  IInv'
<1>1. t # Idle /\ state[t] # "READY"
  BY DEF OS_CreateThread, IInv, IdleRunnable
<1>2. PICK place \in 1..Len(threadList) + 1 : threadList' = InsertAt(threadList, place, t)
  BY InsertThreadFacts DEF OS_CreateThread, IInv, TypeOK
<1>3. threadList' \in Seq(Thread) /\ ToSet(threadList') = ToSet(threadList) \cup {t}
  <2>1. threadList \in Seq(Thread)
    BY DEF IInv, TypeOK
  <2>2. InsertAt(threadList, place, t) \in Seq(Thread)
    BY <2>1, InsertAtFacts, Zenon
  <2>3. ToSet(InsertAt(threadList, place, t)) = ToSet(threadList) \cup {t}
    BY <2>1, InsertAtMembers
  <2> QED BY <1>2, <2>2, <2>3
<1>4. /\ state' \in [Thread -> States] /\ state'[Idle] = "READY" /\ state'[t] # "READY"
      /\ \A u \in Thread \ {t} : state'[u] = state[u]
  BY <1>1, ThreadAssumption DEF ThreadAssumption, OS_CreateThread, IInv, TypeOK, IdleRunnable, States
<1>5. OS_SelectThread(threadList', state') = OS_SelectThread(threadList, state)
  <2>1. /\ state \in [Thread -> States] /\ threadList \in Seq(Thread)
        /\ Idle \in ToSet(threadList) /\ state[Idle] = "READY"
    BY DEF IInv, TypeOK, IdleRunnable, States
  <2>2. OS_SelectThread(InsertAt(threadList, place, t), state') = OS_SelectThread(threadList, state)
    BY <1>1, <1>4, <2>1, SelectionUnaffected, Zenon
  <2> QED BY <1>2, <2>2, Zenon
<1>6. /\ priority' \in [Thread -> 0..MaxPriority + 1]
      /\ queue' \in [Thread -> WaitQueue \cup {NULL}]
  BY ThreadAssumption DEF ThreadAssumption, OS_CreateThread, IInv, TypeOK, Priorities
<1>7. waiters' \in [WaitQueue -> Seq(Thread)]
  <2>1. <<>> \in Seq(Thread)
    OBVIOUS
  <2> QED BY <2>1 DEF OS_CreateThread, IInv, TypeOK
<1>8. TypeOK'
  BY <1>3, <1>4, <1>6, <1>7 DEF OS_CreateThread, IInv, TypeOK, States, schedVars
<1>9. IdleRunnable' /\ RunningListed'
  BY <1>3, <1>4 DEF OS_CreateThread, IInv, IdleRunnable, RunningListed, schedVars
<1>10. NothingOwed' /\ OwedOrChosen'
  BY <1>5 DEF OS_CreateThread, IInv, NothingOwed, OwedOrChosen, schedVars
<1> QED BY <1>8, <1>9, <1>10 DEF IInv

LEMMA ExitStep ==
  ASSUME IInv, NEW t \in Thread, NEW qs \in SUBSET Queue, ExitThread(t, qs)
  PROVE  IInv'
<1>1. /\ threadList' \in Seq(Thread) /\ Idle \in ToSet(threadList')
      /\ state' \in [Thread -> States] /\ state'[Idle] = "READY"
      /\ queue' \in [Thread -> WaitQueue \cup {NULL}]
      /\ waiters' \in [WaitQueue -> Seq(Thread)]
      /\ exiting' \subseteq Thread
  BY TerminateFacts DEF ExitThread
<1>2. halted' \/ (rescheduleCount = 0 /\ ~inIrq)
  <2>1. rescheduleCount > 0 \/ rescheduleCount = 0
    BY DEF IInv, TypeOK
  <2> QED BY <2>1, Zenon DEF ExitThread
<1>3. /\ rescheduleCount' \in 0..MaxNesting /\ priority' \in [Thread -> 0..MaxPriority + 1]
      /\ inIrq' = inIrq /\ halted' \in BOOLEAN /\ ~halted
      /\ OSi_RescheduleThread(threadList', state')
  BY DEF ExitThread, IInv, TypeOK
<1> QED BY <1>1, <1>2, <1>3, ReschedulingStep

LEMMA DestroyStep ==
  ASSUME IInv, NEW t \in Thread, NEW qs \in SUBSET Queue, DestroyThread(t, qs)
  PROVE  IInv'
<1>1. /\ threadList' \in Seq(Thread) /\ Idle \in ToSet(threadList')
      /\ state' \in [Thread -> States] /\ state'[Idle] = "READY"
      /\ queue' \in [Thread -> WaitQueue \cup {NULL}]
      /\ waiters' \in [WaitQueue -> Seq(Thread)]
      /\ exiting' \subseteq Thread
  BY TerminateFacts DEF DestroyThread
<1>2. current # t
  BY DEF DestroyThread, Calls
<1>3. current \in ToSet(threadList) => current \in ToSet(threadList')
  <2>1. threadList' = RemoveFirst(threadList, t)
    BY DEF DestroyThread, Terminate
  <2> QED BY <1>2, <2>1, RemoveFirstMembers DEF IInv, TypeOK
<1>4. /\ rescheduleCount' \in 0..MaxNesting /\ priority' \in [Thread -> 0..MaxPriority + 1]
      /\ inIrq' = inIrq /\ halted' = halted /\ halted \in BOOLEAN
      /\ OSi_RescheduleThread(threadList', state')
  BY DEF DestroyThread, IInv, TypeOK
<1> QED BY <1>1, <1>3, <1>4, ReschedulingStep

LEMMA KillStep ==
  ASSUME IInv, NEW t \in Thread, NEW prio \in Priorities, OS_KillThreadWithPriority(t, prio)
  PROVE  IInv'
<1>1. /\ threadList' \in Seq(Thread)
      /\ ToSet(threadList) \subseteq ToSet(threadList')
      /\ priority' \in [Thread -> 0..MaxPriority + 1]
  BY MoveInListFacts DEF OS_KillThreadWithPriority
<1>2. state' \in [Thread -> States] /\ state'[Idle] = "READY" /\ Idle \in ToSet(threadList')
  BY <1>1, ThreadAssumption
     DEF ThreadAssumption, OS_KillThreadWithPriority, IInv, TypeOK, IdleRunnable, States
<1>3. /\ rescheduleCount' \in 0..MaxNesting /\ queue' \in [Thread -> WaitQueue \cup {NULL}]
      /\ waiters' \in [WaitQueue -> Seq(Thread)] /\ exiting' \subseteq Thread
      /\ inIrq' = inIrq /\ halted' = halted /\ halted \in BOOLEAN
      /\ OSi_RescheduleThread(threadList', state')
  BY DEF OS_KillThreadWithPriority, IInv, TypeOK
<1> QED BY <1>1, <1>2, <1>3, ReschedulingStep

LEMMA PriorityStep ==
  ASSUME IInv, NEW t \in Thread, NEW prio \in Priorities, OS_SetThreadPriority(t, prio)
  PROVE  IInv'
<1>1. /\ threadList' \in Seq(Thread)
      /\ ToSet(threadList) \subseteq ToSet(threadList')
      /\ priority' \in [Thread -> 0..MaxPriority + 1]
  BY MoveInListFacts DEF OS_SetThreadPriority
<1>2. state' \in [Thread -> States] /\ state'[Idle] = "READY" /\ Idle \in ToSet(threadList')
  BY <1>1 DEF OS_SetThreadPriority, IInv, TypeOK, IdleRunnable, States
<1>3. /\ rescheduleCount' \in 0..MaxNesting /\ queue' \in [Thread -> WaitQueue \cup {NULL}]
      /\ waiters' \in [WaitQueue -> Seq(Thread)] /\ exiting' \subseteq Thread
      /\ inIrq' = inIrq /\ halted' = halted /\ halted \in BOOLEAN
      /\ OSi_RescheduleThread(threadList', state')
  BY DEF OS_SetThreadPriority, IInv, TypeOK
<1> QED BY <1>1, <1>2, <1>3, ReschedulingStep

LEMMA YieldStep ==
  ASSUME IInv, NEW t \in Thread, OS_YieldThread(t)
  PROVE  IInv'
<1> DEFINE same == {i \in 1..Len(threadList) : priority[threadList[i]] = priority[t]}
           shorter == RemoveFirst(threadList, t)
<1>1. /\ t = current /\ ~inIrq /\ ~halted /\ t # Idle
      /\ threadList' = InsertAt(shorter, Max(same), t)
  BY DEF OS_YieldInList, OS_YieldThread, Calls
<1>2. t \in ToSet(threadList)
  BY <1>1 DEF IInv, RunningListed
<1>3. Max(same) \in 1..Len(threadList)
  <2>1. same \in SUBSET (1..Len(threadList)) /\ Len(threadList) \in Nat
    BY DEF IInv, TypeOK
  <2>2. same # {}
    <3>1. PICK i \in 1..Len(threadList) : threadList[i] = t
      BY <1>2 DEF ToSet, IInv, TypeOK
    <3>2. i \in same
      BY <3>1
    <3> QED BY <3>2
  <2> HIDE DEF same
  <2>3. Max(same) \in same
    BY <2>1, <2>2, MaxIsGreatest, Zenon
  <2> QED BY <2>1, <2>3
<1>4. /\ shorter \in Seq(Thread) /\ Len(shorter) = Len(threadList) - 1
      /\ ToSet(threadList) \ {t} \subseteq ToSet(shorter)
  <2>1. PICK i \in 1..Len(threadList) : shorter = RemoveAt(threadList, i)
    BY <1>2, RemoveFirstFacts DEF IInv, TypeOK
  <2>2. shorter \in Seq(Thread) /\ ToSet(threadList) \ {t} \subseteq ToSet(shorter)
    BY RemoveFirstMembers DEF IInv, TypeOK
  <2>3. Len(RemoveAt(threadList, i)) = Len(threadList) - 1
    BY RemoveAtFacts DEF IInv, TypeOK
  <2> QED BY <2>1, <2>2, <2>3
<1>5. Max(same) \in 1..Len(shorter) + 1
  BY <1>3, <1>4 DEF IInv, TypeOK
<1> HIDE DEF same, shorter
<1>6. threadList' \in Seq(Thread) /\ ToSet(threadList) \subseteq ToSet(threadList')
  <2>1. /\ InsertAt(shorter, Max(same), t) \in Seq(Thread)
        /\ ToSet(InsertAt(shorter, Max(same), t)) = ToSet(shorter) \cup {t}
    BY <1>4, <1>5, InsertAtFacts, InsertAtMembers
  <2> QED BY <1>1, <1>4, <2>1
<1>7. /\ state' \in [Thread -> States] /\ state'[Idle] = "READY" /\ Idle \in ToSet(threadList')
  BY <1>6 DEF OS_YieldInList, OS_YieldThread, IInv, TypeOK, IdleRunnable, States
<1>8. /\ rescheduleCount' \in 0..MaxNesting /\ queue' \in [Thread -> WaitQueue \cup {NULL}]
      /\ waiters' \in [WaitQueue -> Seq(Thread)] /\ exiting' \subseteq Thread
      /\ priority' \in [Thread -> 0..MaxPriority + 1]
      /\ inIrq' = inIrq /\ halted' = halted /\ halted \in BOOLEAN
      /\ OSi_RescheduleThread(threadList', state)
      /\ state' = state
  BY DEF OS_YieldInList, OS_YieldThread, IInv, TypeOK
<1>9. OSi_RescheduleThread(threadList', state')
  BY <1>8, Zenon
<1> QED BY <1>6, <1>7, <1>8, <1>9, ReschedulingStep

LEMMA SleepStep ==
  ASSUME IInv, NEW t \in Thread, NEW q \in WaitQueue \cup {NULL}, OS_SleepThread(t, q)
  PROVE  IInv'
<1>1. t # Idle
  BY DEF OS_SleepThread, Calls
<1>2. /\ state' \in [Thread -> States] /\ state'[Idle] = "READY"
      /\ queue' \in [Thread -> WaitQueue \cup {NULL}]
      /\ waiters' \in [WaitQueue -> Seq(Thread)]
  <2>1. CASE q = NULL
    <3>1. state' = [state EXCEPT ![t] = "WAITING"] /\ queue' = queue /\ waiters' = waiters
      BY <2>1 DEF OS_SleepThread
    <3>2. state' \in [Thread -> States] /\ state'[Idle] = "READY"
      BY <1>1, <3>1, ThreadAssumption DEF ThreadAssumption, IInv, TypeOK, IdleRunnable, States
    <3> QED BY <3>1, <3>2 DEF IInv, TypeOK
  <2>2. CASE q # NULL
    BY <1>1, <2>2, EnqueueFacts DEF OS_SleepThread
  <2> QED BY <2>1, <2>2
<1>3. /\ threadList' = threadList /\ OSi_RescheduleThread(threadList, state')
      /\ rescheduleCount' \in 0..MaxNesting /\ priority' \in [Thread -> 0..MaxPriority + 1]
      /\ exiting' \subseteq Thread /\ inIrq' = inIrq /\ halted' = halted /\ halted \in BOOLEAN
      /\ threadList \in Seq(Thread) /\ Idle \in ToSet(threadList)
  BY DEF OS_SleepThread, IInv, TypeOK, IdleRunnable
<1> QED BY <1>2, <1>3, ReschedulingStep

LEMMA SleepDirectStep ==
  ASSUME IInv, NEW t \in Thread, NEW q \in WaitQueue, OS_SleepThreadDirect(t, q)
  PROVE  IInv'
<1>1. /\ state' \in [Thread -> States] /\ state'[Idle] = "READY"
      /\ queue' \in [Thread -> WaitQueue \cup {NULL}]
      /\ waiters' \in [WaitQueue -> Seq(Thread)]
  BY EnqueueFacts DEF OS_SleepThreadDirect
<1>2. /\ threadList' = threadList /\ OSi_RescheduleThread(threadList, state')
      /\ rescheduleCount' \in 0..MaxNesting /\ priority' \in [Thread -> 0..MaxPriority + 1]
      /\ exiting' \subseteq Thread /\ inIrq' = inIrq /\ halted' = halted /\ halted \in BOOLEAN
      /\ threadList \in Seq(Thread) /\ Idle \in ToSet(threadList)
  BY DEF OS_SleepThreadDirect, IInv, TypeOK, IdleRunnable
<1> QED BY <1>1, <1>2, ReschedulingStep

LEMMA WakeupStep ==
  ASSUME IInv, NEW q \in Queue, OS_WakeupThread(q)
  PROVE  IInv'
<1>1. {q} \in SUBSET WaitQueue
  BY DEF WaitQueue
<1>2. /\ state' \in [Thread -> States] /\ state'[Idle] = "READY"
      /\ queue' \in [Thread -> WaitQueue \cup {NULL}]
  BY <1>1, WakeFacts DEF OS_WakeupThread
<1>3. waiters' \in [WaitQueue -> Seq(Thread)]
  <2>1. <<>> \in Seq(Thread)
    OBVIOUS
  <2> QED BY <2>1 DEF OS_WakeupThread, IInv, TypeOK
<1>4. /\ threadList' = threadList /\ OSi_RescheduleThread(threadList, state')
      /\ rescheduleCount' \in 0..MaxNesting /\ priority' \in [Thread -> 0..MaxPriority + 1]
      /\ exiting' \subseteq Thread /\ inIrq' = inIrq /\ halted' = halted /\ halted \in BOOLEAN
      /\ threadList \in Seq(Thread) /\ Idle \in ToSet(threadList)
  BY DEF OS_WakeupThread, IInv, TypeOK, IdleRunnable
<1> QED BY <1>2, <1>3, <1>4, ReschedulingStep

LEMMA WakeupDirectStep ==
  ASSUME IInv, NEW t \in Thread, OS_WakeupThreadDirect(t)
  PROVE  IInv'
<1>1. state' \in [Thread -> States] /\ state'[Idle] = "READY"
  BY ThreadAssumption
     DEF ThreadAssumption, OS_WakeupThreadDirect, IInv, TypeOK, IdleRunnable, States
<1>2. /\ threadList' = threadList /\ OSi_RescheduleThread(threadList, state')
      /\ rescheduleCount' \in 0..MaxNesting /\ priority' \in [Thread -> 0..MaxPriority + 1]
      /\ queue' \in [Thread -> WaitQueue \cup {NULL}] /\ waiters' \in [WaitQueue -> Seq(Thread)]
      /\ exiting' \subseteq Thread /\ inIrq' = inIrq /\ halted' = halted /\ halted \in BOOLEAN
      /\ threadList \in Seq(Thread) /\ Idle \in ToSet(threadList)
  BY DEF OS_WakeupThreadDirect, IInv, TypeOK, IdleRunnable
<1> QED BY <1>1, <1>2, ReschedulingStep

LEMMA RescheduleStep ==
  ASSUME IInv, OS_RescheduleThread
  PROVE  IInv'
<1>1. /\ threadList' = threadList /\ state' = state /\ OSi_RescheduleThread(threadList, state)
      /\ rescheduleCount' \in 0..MaxNesting /\ priority' \in [Thread -> 0..MaxPriority + 1]
      /\ queue' \in [Thread -> WaitQueue \cup {NULL}] /\ waiters' \in [WaitQueue -> Seq(Thread)]
      /\ exiting' \subseteq Thread /\ inIrq' = inIrq /\ halted' = halted /\ halted \in BOOLEAN
      /\ threadList \in Seq(Thread) /\ Idle \in ToSet(threadList)
      /\ state \in [Thread -> States] /\ state[Idle] = "READY"
  BY DEF OS_RescheduleThread, IInv, TypeOK, IdleRunnable, States
<1> QED BY <1>1, ReschedulingStep

\* OS_DisableScheduler, OS_EnableScheduler and the start of an interrupt leave
\* the threads alone.
LEMMA QuietStep ==
  ASSUME IInv, \/ \E t \in Thread : OS_DisableScheduler(t) \/ OS_EnableScheduler(t)
               \/ OS_IrqHandler
               \/ UNCHANGED vars
  PROVE  IInv'
<1>1. UNCHANGED <<threadList, schedVars, state, priority, queue, waiters, exiting, halted>>
  BY DEF vars, schedVars, OS_DisableScheduler, OS_EnableScheduler, OS_IrqHandler
<1>2. rescheduleCount' \in 0..MaxNesting
  BY ThreadAssumption DEF ThreadAssumption, IInv, TypeOK, vars,
     OS_DisableScheduler, OS_EnableScheduler, OS_IrqHandler
<1>3. inIrq' \in BOOLEAN /\ (inIrq => inIrq')
  BY Zenon DEF IInv, TypeOK, vars, OS_DisableScheduler, OS_EnableScheduler, OS_IrqHandler
<1>4. TypeOK'
  BY <1>1, <1>2, <1>3 DEF IInv, TypeOK, schedVars
<1>5. IdleRunnable' /\ RunningListed' /\ OwedOrChosen'
  BY <1>1 DEF IInv, IdleRunnable, RunningListed, OwedOrChosen, schedVars
<1>6. NothingOwed'
  BY <1>1, <1>3, Zenon DEF IInv, NothingOwed, schedVars
<1> QED BY <1>4, <1>5, <1>6 DEF IInv

\* The end of an interrupt.
LEMMA SwitchStep ==
  ASSUME IInv, OS_IrqHandler_ThreadSwitch
  PROVE  IInv'
<1> DEFINE switch == isNeedRescheduling \/ waiters[IrqQueue] # <<>>
<1>1. {IrqQueue} \in SUBSET WaitQueue
  BY ThreadAssumption DEF ThreadAssumption, WaitQueue
<1>2. /\ state' \in [Thread -> States] /\ state'[Idle] = "READY"
      /\ queue' \in [Thread -> WaitQueue \cup {NULL}]
  BY <1>1, WakeFacts DEF OS_IrqHandler_ThreadSwitch
<1>3. /\ threadList' = threadList /\ threadList \in Seq(Thread) /\ Idle \in ToSet(threadList)
      /\ halted' = halted /\ inIrq' = FALSE /\ isNeedRescheduling' = FALSE
      /\ current' = (IF switch THEN Elect(threadList, state') ELSE current)
      /\ skipped' = (skipped /\ ~switch)
  BY DEF OS_IrqHandler_ThreadSwitch, IInv, TypeOK, IdleRunnable
<1>4. /\ OS_SelectThread(threadList, state') \in Thread
      /\ OS_SelectThread(threadList, state') \in ToSet(threadList)
      /\ Elect(threadList, state') = OS_SelectThread(threadList, state')
  BY <1>2, <1>3, SomeoneSelected
<1>5. waiters' \in [WaitQueue -> Seq(Thread)]
  <2>1. <<>> \in Seq(Thread)
    OBVIOUS
  <2> QED BY <2>1 DEF OS_IrqHandler_ThreadSwitch, IInv, TypeOK
<1>6. TypeOK'
  <2>1. current' \in Thread
    BY <1>3, <1>4 DEF IInv, TypeOK
  <2>2. skipped' \in BOOLEAN
    BY <1>3, Zenon
  <2> QED BY <1>2, <1>3, <1>5, <2>1, <2>2
          DEF OS_IrqHandler_ThreadSwitch, IInv, TypeOK, States
<1>7. IdleRunnable' /\ NothingOwed'
  BY <1>2, <1>3 DEF IdleRunnable, NothingOwed
<1>8. RunningListed'
  BY <1>3, <1>4, Zenon DEF IInv, RunningListed
<1>9. OwedOrChosen'
  <2>1. CASE switch
    BY <1>3, <1>4, <2>1, Zenon DEF OwedOrChosen
  <2>2. CASE ~switch
    <3>1. Woken({IrqQueue}) = {}
      <4>1. waiters[IrqQueue] = <<>> /\ ToSet(<<>>) = {}
        BY <2>2 DEF ToSet
      <4> QED BY <4>1 DEF Woken
    <3>2. state' = state
      <4>1. state' = [t \in Thread |-> IF t \in Woken({IrqQueue}) THEN "READY" ELSE state[t]]
        BY DEF OS_IrqHandler_ThreadSwitch, WakeStates
      <4> QED BY <3>1, <4>1 DEF IInv, TypeOK
    <3> QED BY <1>3, <2>2, <3>2, Zenon DEF IInv, OwedOrChosen
  <2> QED BY <2>1, <2>2
<1> QED BY <1>6, <1>7, <1>8, <1>9 DEF IInv

LEMMA StepKeepsIInv == IInv /\ [Next]_vars => IInv'
<1> SUFFICES ASSUME IInv, [Next]_vars PROVE IInv'
  OBVIOUS
<1>1. ASSUME NEW t \in Thread, NEW p \in Priorities,
             OS_CreateThread(t, p) \/ OS_KillThreadWithPriority(t, p) \/ OS_SetThreadPriority(t, p)
      PROVE  IInv'
  BY <1>1, CreateStep, KillStep, PriorityStep
<1>2. ASSUME NEW t \in Thread, NEW q \in Queue, OS_SleepThread(t, q) \/ OS_SleepThreadDirect(t, q)
      PROVE  IInv'
  BY <1>2, SleepStep, SleepDirectStep DEF WaitQueue
<1>3. ASSUME NEW t \in Thread, OS_ExitThread(t) \/ OS_DestroyThread(t) \/ OS_SleepThread(t, NULL)
      PROVE  IInv'
  <2>1. {} \in SUBSET Queue
    OBVIOUS
  <2>2. CASE OS_ExitThread(t)
    BY <2>1, <2>2, ExitStep DEF OS_ExitThread
  <2>3. CASE OS_DestroyThread(t)
    BY <2>1, <2>3, DestroyStep DEF OS_DestroyThread
  <2>4. CASE OS_SleepThread(t, NULL)
    BY <2>4, SleepStep
  <2> QED BY <1>3, <2>2, <2>3, <2>4
<1>4. ASSUME NEW t \in Thread, OS_WakeupThreadDirect(t) \/ OS_YieldThread(t) PROVE IInv'
  BY <1>4, WakeupDirectStep, YieldStep
<1>5. ASSUME NEW c \in Thread, NEW t \in Thread, OS_JoinThread(c, t) PROVE IInv'
  BY <1>5, SleepStep DEF OS_JoinThread, WaitQueue
<1>6. ASSUME NEW q \in Queue, OS_WakeupThread(q) PROVE IInv'
  BY <1>6, WakeupStep
<1> QED BY <1>1, <1>2, <1>3, <1>4, <1>5, <1>6, RescheduleStep, QuietStep, SwitchStep DEF Next

-----------------------------------------------------------------------------
(* The thread list and the wait queues.                                       *)

\* The thread list holds the live threads, once, by priority.
ListInv ==
  /\ \A t \in Thread : Live(t) <=> t \in ToSet(threadList)
  /\ EachOnce(threadList)
  /\ InOrder(threadList, priority)

\* LinkedOnce is not inductive by itself: that a thread that sleeps again where
\* it is still linked is found there needs the order of the queue.
LinkInv ==
  /\ LinkedOnce
  /\ \A q \in WaitQueue : InOrder(waiters[q], priority)

\* In the list that an insertion looks at, all other priorities are the old ones.
LEMMA OrderKept ==
  ASSUME NEW list \in Seq(Thread), NEW old, NEW new, InOrder(list, old),
         \A u \in ToSet(list) : new[u] = old[u]
  PROVE  InOrder(list, new)
<1>1. \A i \in 1..Len(list) : list[i] \in ToSet(list)
  BY DEF ToSet
<1> QED BY <1>1 DEF InOrder

LEMMA InsertThreadOnce ==
  ASSUME NEW list \in Seq(Thread), NEW prio \in [Thread -> Nat], NEW t \in Thread,
         EachOnce(list), InOrder(list, prio), t \notin ToSet(list)
  PROVE  /\ EachOnce(OSi_InsertThreadToList(list, prio, t))
         /\ InOrder(OSi_InsertThreadToList(list, prio, t), prio)
<1> DEFINE behind == {i \in 1..Len(list) : prio[list[i]] >= prio[t]}
           place == Min(behind \cup {Len(list) + 1})
<1>1. /\ place \in 1..Len(list) + 1
      /\ \A j \in 1..Len(list) : j < place => j \notin behind
      /\ place \in behind \/ place = Len(list) + 1
  <2>1. behind \in SUBSET (1..Len(list)) /\ Len(list) \in Nat
    OBVIOUS
  <2> HIDE DEF behind
  <2> QED BY <2>1, PlaceInRange, Zenon
<1>2. OSi_InsertThreadToList(list, prio, t) = InsertAt(list, place, t)
  BY DEF OSi_InsertThreadToList
<1> HIDE DEF place
<1>3. \A j \in 1..Len(list) : list[j] \in Thread /\ prio[list[j]] \in Nat
  OBVIOUS
<1>4. ASSUME NEW j \in 1..Len(list) PROVE j < place => prio[list[j]] <= prio[t]
  BY <1>1, <1>3
<1>5. ASSUME NEW j \in 1..Len(list), j >= place PROVE prio[t] <= prio[list[j]]
  <2>1. place \in 1..Len(list) /\ prio[list[place]] >= prio[t]
    BY <1>1, <1>5
  <2>2. prio[list[place]] <= prio[list[j]]
    BY <1>3, <1>5, <2>1 DEF InOrder
  <2> QED BY <1>3, <2>1, <2>2
<1>6. prio \in [Thread -> Int]
  OBVIOUS
<1>7. InOrder(InsertAt(list, place, t), prio)
  BY <1>1, <1>4, <1>5, <1>6, InsertInOrder
<1>8. EachOnce(list) /\ t \notin ToSet(list) => EachOnce(InsertAt(list, place, t))
  BY <1>1, InsertAtOnce
<1> QED BY <1>2, <1>7, <1>8

\* Whether it was linked in this queue or in none: now it is, once.
LEMMA InsertLinkOnce ==
  ASSUME NEW links \in Seq(Thread), NEW prio \in [Thread -> Nat], NEW t \in Thread,
         EachOnce(links), InOrder(links, prio)
  PROVE  /\ EachOnce(OSi_InsertLinkToQueue(links, prio, t))
         /\ InOrder(OSi_InsertLinkToQueue(links, prio, t), prio)
         /\ ToSet(OSi_InsertLinkToQueue(links, prio, t)) = ToSet(links) \cup {t}
<1> DEFINE behind == {i \in 1..Len(links) : prio[links[i]] > prio[t]}
           place == Min(behind \cup {Len(links) + 1})
<1>1. /\ place \in 1..Len(links) + 1
      /\ \A j \in 1..Len(links) : j < place => j \notin behind
      /\ place \in behind \/ place = Len(links) + 1
  <2>1. behind \in SUBSET (1..Len(links)) /\ Len(links) \in Nat
    OBVIOUS
  <2> HIDE DEF behind
  <2> QED BY <2>1, PlaceInRange, Zenon
<1>2. OSi_InsertLinkToQueue(links, prio, t) =
        IF \E i \in 1..(place - 1) : links[i] = t THEN links ELSE InsertAt(links, place, t)
  BY DEF OSi_InsertLinkToQueue
<1> HIDE DEF place
<1>3. \A j \in 1..Len(links) : links[j] \in Thread /\ prio[links[j]] \in Nat
  OBVIOUS
<1>4. ASSUME NEW j \in 1..Len(links) PROVE j < place => prio[links[j]] <= prio[t]
  BY <1>1, <1>3
<1>5. ASSUME NEW j \in 1..Len(links), j >= place PROVE prio[t] < prio[links[j]]
  <2>1. place \in 1..Len(links) /\ prio[links[place]] > prio[t]
    BY <1>1, <1>5
  <2>2. prio[links[place]] <= prio[links[j]]
    BY <1>3, <1>5, <2>1 DEF InOrder
  <2> QED BY <1>3, <2>1, <2>2
<1>6. CASE \E i \in 1..(place - 1) : links[i] = t
  <2>1. OSi_InsertLinkToQueue(links, prio, t) = links
    BY <1>2, <1>6
  <2>2. t \in ToSet(links)
    <3>1. PICK i \in 1..(place - 1) : links[i] = t
      BY <1>6
    <3>2. i \in 1..Len(links)
      BY <1>1, <3>1
    <3> QED BY <3>1, <3>2 DEF ToSet
  <2> QED BY <2>1, <2>2
<1>7. CASE ~\E i \in 1..(place - 1) : links[i] = t
  <2>1. OSi_InsertLinkToQueue(links, prio, t) = InsertAt(links, place, t)
    BY <1>2, <1>7
  <2>2. ASSUME NEW j \in 1..Len(links) PROVE links[j] # t
    <3>1. CASE j < place
      BY <1>1, <1>7, <3>1
    <3>2. CASE j >= place
      BY <1>3, <1>5, <3>2
    <3> QED BY <1>1, <3>1, <3>2
  <2>3. t \notin ToSet(links)
    BY <2>2 DEF ToSet
  <2>4. EachOnce(InsertAt(links, place, t))
    BY <1>1, <2>3, InsertAtOnce
  <2>5. ToSet(InsertAt(links, place, t)) = ToSet(links) \cup {t}
    BY <1>1, InsertAtMembers
  <2>6. InOrder(InsertAt(links, place, t), prio)
    <3>1. \A j \in 1..Len(links) : j >= place => prio[t] <= prio[links[j]]
      BY <1>3, <1>5
    <3>2. prio \in [Thread -> Int]
      OBVIOUS
    <3> QED BY <1>1, <1>4, <3>1, <3>2, InsertInOrder
  <2> QED BY <2>1, <2>4, <2>5, <2>6
<1> QED BY <1>6, <1>7

\* What LinkedOnce says of one queue.
LEMMA QueueOnce ==
  ASSUME TypeOK, LinkInv, NEW q \in WaitQueue
  PROVE  /\ waiters[q] \in Seq(Thread) /\ EachOnce(waiters[q]) /\ InOrder(waiters[q], priority)
         /\ \A t \in ToSet(waiters[q]) : t \in Thread /\ queue[t] = q /\ Live(t)
         /\ priority \in [Thread -> Nat]
<1>1. waiters[q] \in Seq(Thread) /\ InOrder(waiters[q], priority) /\ priority \in [Thread -> Nat]
  BY ThreadAssumption DEF ThreadAssumption, TypeOK, LinkInv
<1>2. \A i \in 1..Len(waiters[q]) : waiters[q][i] \in ToSet(waiters[q]) /\ waiters[q][i] \in Thread
  BY <1>1 DEF ToSet
<1>3. ToSet(waiters[q]) \subseteq Thread
  BY <1>1 DEF ToSet
<1>4. EachOnce(waiters[q])
  BY <1>2 DEF LinkInv, LinkedOnce, EachOnce
<1> QED BY <1>1, <1>3, <1>4 DEF LinkInv, LinkedOnce

\* LinkInv after a step, put together from the queues.
LEMMA LinksHold ==
  ASSUME \A q \in WaitQueue :
           /\ EachOnce(waiters'[q]) /\ InOrder(waiters'[q], priority')
           /\ \A t \in Thread : t \in ToSet(waiters'[q]) =>
                queue'[t] = q /\ state'[t] \in {"WAITING", "READY"}
  PROVE  LinkInv'
BY DEF LinkInv, LinkedOnce, EachOnce, Live

\* A step that leaves the queues alone.
LEMMA LinksStay ==
  ASSUME TypeOK, LinkInv, UNCHANGED <<queue, waiters>>,
         \A t \in Thread : Linked(t) => priority'[t] = priority[t],
         \A t \in Thread : Live(t) /\ Linked(t) => Live(t)'
  PROVE  LinkInv'
<1>1. ASSUME NEW q \in WaitQueue
      PROVE  /\ EachOnce(waiters'[q]) /\ InOrder(waiters'[q], priority')
             /\ \A t \in Thread : t \in ToSet(waiters'[q]) =>
                  queue'[t] = q /\ state'[t] \in {"WAITING", "READY"}
  <2>1. /\ waiters[q] \in Seq(Thread) /\ EachOnce(waiters[q]) /\ InOrder(waiters[q], priority)
        /\ \A t \in ToSet(waiters[q]) : t \in Thread /\ queue[t] = q /\ Live(t)
    BY QueueOnce
  <2>2. \A t \in ToSet(waiters[q]) : priority'[t] = priority[t] /\ Live(t)'
    BY <2>1 DEF Linked
  <2>3. InOrder(waiters[q], priority')
    BY <2>1, <2>2, OrderKept
  <2> QED BY <2>1, <2>2, <2>3 DEF Live
<1> QED BY <1>1, LinksHold

\* A step after which the same threads are live, in the same list.
LEMMA ListStays ==
  ASSUME ListInv, UNCHANGED <<threadList, priority>>, \A t \in Thread : Live(t)' <=> Live(t)
  PROVE  ListInv'
BY DEF ListInv

\* Waking threads ends none, and makes none live that was not.
LEMMA WokenAreLive ==
  ASSUME TypeOK, LinkInv, NEW qs \in SUBSET WaitQueue, NEW t \in Thread
  PROVE  WakeStates(qs)[t] \in {"WAITING", "READY"} <=> Live(t)
<1>1. t \in Woken(qs) => Live(t)
  <2>1. ASSUME NEW q \in qs, t \in ToSet(waiters[q]) PROVE Live(t)
    BY <2>1, QueueOnce
  <2> QED BY <2>1 DEF Woken
<1>2. WakeStates(qs)[t] = IF t \in Woken(qs) THEN "READY" ELSE state[t]
  BY DEF WakeStates
<1> QED BY <1>1, <1>2 DEF Live

\* OS_WakeupThread, and the end of an interrupt.
LEMMA WakeLinks ==
  ASSUME TypeOK, ListInv, LinkInv, NEW q \in WaitQueue,
         state' = WakeStates({q}), queue' = WakeQueueFields({q}),
         waiters' = [waiters EXCEPT ![q] = <<>>],
         UNCHANGED <<threadList, priority>>
  PROVE  ListInv' /\ LinkInv'
<1>1. \A t \in Thread : Live(t)' <=> Live(t)
  BY WokenAreLive DEF Live
<1>2. ASSUME NEW p \in WaitQueue
      PROVE  /\ EachOnce(waiters'[p]) /\ InOrder(waiters'[p], priority')
             /\ \A t \in Thread : t \in ToSet(waiters'[p]) =>
                  queue'[t] = p /\ state'[t] \in {"WAITING", "READY"}
  <2>1. CASE p = q
    <3>1. waiters'[p] = <<>>
      BY <2>1 DEF TypeOK
    <3> QED BY <3>1 DEF EachOnce, InOrder, ToSet
  <2>2. CASE p # q
    <3>1. waiters'[p] = waiters[p]
      BY <2>2 DEF TypeOK
    <3>2. /\ EachOnce(waiters[p]) /\ InOrder(waiters[p], priority)
          /\ \A t \in ToSet(waiters[p]) : t \in Thread /\ queue[t] = p /\ Live(t)
      BY QueueOnce
    <3>3. \A t \in ToSet(waiters[q]) : queue[t] = q
      BY QueueOnce
    <3>4. ASSUME NEW t \in Thread, t \in ToSet(waiters[p]) PROVE queue'[t] = p
      <4>1. t \notin Woken({q})
        BY <2>2, <3>2, <3>3, <3>4 DEF Woken
      <4> QED BY <3>2, <3>4, <4>1 DEF WakeQueueFields
    <3> QED BY <1>1, <3>1, <3>2, <3>4 DEF Live
  <2> QED BY <2>1, <2>2
<1> QED BY <1>1, <1>2, ListStays, LinksHold

\* A thread goes to sleep that is linked there or nowhere.
LEMMA EnqueueLinks ==
  ASSUME TypeOK, ListInv, LinkInv, NEW t \in Thread, NEW q \in WaitQueue,
         Live(t), Linked(t) => t \in ToSet(waiters[q]), Enqueue(t, q),
         UNCHANGED <<threadList, priority>>
  PROVE  ListInv' /\ LinkInv'
<1>1. /\ queue' = [queue EXCEPT ![t] = q] /\ state' = [state EXCEPT ![t] = "WAITING"]
      /\ waiters' = [waiters EXCEPT ![q] = OSi_InsertLinkToQueue(waiters[q], priority, t)]
  BY DEF Enqueue
<1>2. \A u \in Thread : Live(u)' <=> Live(u)
  BY <1>1 DEF Live, TypeOK
<1>3. ASSUME NEW p \in WaitQueue
      PROVE  /\ EachOnce(waiters'[p]) /\ InOrder(waiters'[p], priority')
             /\ \A u \in Thread : u \in ToSet(waiters'[p]) =>
                  queue'[u] = p /\ state'[u] \in {"WAITING", "READY"}
  <2>1. /\ waiters[p] \in Seq(Thread) /\ EachOnce(waiters[p]) /\ InOrder(waiters[p], priority)
        /\ \A u \in ToSet(waiters[p]) : u \in Thread /\ queue[u] = p /\ Live(u)
        /\ priority \in [Thread -> Nat]
    BY QueueOnce
  <2>2. CASE p = q
    <3>1. waiters'[p] = OSi_InsertLinkToQueue(waiters[p], priority, t)
      BY <1>1, <2>2 DEF TypeOK
    <3>2. /\ EachOnce(waiters'[p]) /\ InOrder(waiters'[p], priority)
          /\ ToSet(waiters'[p]) = ToSet(waiters[p]) \cup {t}
      BY <2>1, <3>1, InsertLinkOnce
    <3>3. \A u \in ToSet(waiters'[p]) : queue'[u] = p /\ Live(u)
      BY <1>1, <2>1, <2>2, <3>2 DEF TypeOK
    <3> QED BY <1>2, <3>2, <3>3 DEF Live
  <2>3. CASE p # q
    <3>1. waiters'[p] = waiters[p]
      BY <1>1, <2>3 DEF TypeOK
    <3>2. t \notin ToSet(waiters[p])
      <4>1. t \in ToSet(waiters[p]) => t \in ToSet(waiters[q])
        BY DEF Linked
      <4>2. t \in ToSet(waiters[q]) => queue[t] = q
        BY QueueOnce
      <4> QED BY <2>1, <2>3, <4>1, <4>2
    <3>3. \A u \in ToSet(waiters[p]) : queue'[u] = p
      BY <1>1, <2>1, <3>2 DEF TypeOK
    <3> QED BY <1>2, <2>1, <3>1, <3>3 DEF Live
  <2> QED BY <2>2, <2>3
<1> QED BY <1>2, <1>3, ListStays, LinksHold

\* The end of a thread takes it out of the list and out of its queue.
LEMMA TerminateLinks ==
  ASSUME TypeOK, ListInv, LinkInv, NEW t \in Thread, Live(t), NEW qs \in SUBSET Queue,
         Terminate(t, qs), UNCHANGED priority
  PROVE  ListInv' /\ LinkInv'
<1> DEFINE woken == qs \cup {t}
<1>1. woken \in SUBSET WaitQueue /\ t \in WaitQueue
  BY DEF WaitQueue
<1>2. /\ waiters' = [q \in WaitQueue |->
                      IF q \in woken THEN <<>>
                      ELSE IF q = queue[t] THEN RemoveFirst(waiters[q], t) ELSE waiters[q]]
      /\ queue' = WakeQueueFields(woken)
      /\ threadList' = RemoveFirst(threadList, t)
      /\ state' = [WakeStates(woken) EXCEPT ![t] = "TERMINATED"]
  BY DEF Terminate
<1> HIDE DEF woken
<1>3. \A u \in Thread : Live(u)' <=> (Live(u) /\ u # t)
  <2>1. \A u \in Thread : WakeStates(woken)[u] \in {"WAITING", "READY"} <=> Live(u)
    BY <1>1, WokenAreLive
  <2>2. \A u \in Thread : state'[u] = IF u = t THEN "TERMINATED" ELSE WakeStates(woken)[u]
    BY <1>2 DEF WakeStates
  <2> QED BY <2>1, <2>2 DEF Live
<1>4. ListInv'
  <2>1. threadList \in Seq(Thread) /\ priority \in [Thread -> Nat]
    BY ThreadAssumption DEF ThreadAssumption, TypeOK
  <2>2. EachOnce(threadList') /\ ToSet(threadList') = ToSet(threadList) \ {t}
    BY <1>2, <2>1, RemoveFirstOnce DEF ListInv
  <2>3. InOrder(threadList', priority')
    BY <1>2, <2>1, RemoveInOrder DEF ListInv
  <2> QED BY <1>3, <2>2, <2>3 DEF ListInv
<1>5. ASSUME NEW q \in WaitQueue
      PROVE  /\ EachOnce(waiters'[q]) /\ InOrder(waiters'[q], priority')
             /\ \A u \in Thread : u \in ToSet(waiters'[q]) =>
                  queue'[u] = q /\ state'[u] \in {"WAITING", "READY"}
  <2>1. /\ waiters[q] \in Seq(Thread) /\ EachOnce(waiters[q]) /\ InOrder(waiters[q], priority)
        /\ \A u \in ToSet(waiters[q]) : u \in Thread /\ queue[u] = q /\ Live(u)
        /\ priority \in [Thread -> Nat]
    BY QueueOnce
  <2>2. CASE q \in woken
    <3>1. waiters'[q] = <<>>
      BY <1>2, <2>2
    <3> QED BY <3>1 DEF EachOnce, InOrder, ToSet
  <2>3. CASE q \notin woken
    <3>1. /\ EachOnce(waiters'[q]) /\ InOrder(waiters'[q], priority)
          /\ ToSet(waiters'[q]) = ToSet(waiters[q]) \ {t}
      <4>1. CASE q = queue[t]
        <5>1. waiters'[q] = RemoveFirst(waiters[q], t)
          BY <1>2, <2>3, <4>1
        <5> QED BY <2>1, <5>1, RemoveFirstOnce, RemoveInOrder
      <4>2. CASE q # queue[t]
        <5>1. waiters'[q] = waiters[q] /\ t \notin ToSet(waiters[q])
          BY <1>2, <2>1, <2>3, <4>2
        <5> QED BY <2>1, <5>1
      <4> QED BY <4>1, <4>2
    <3>2. ASSUME NEW u \in Thread, u \in ToSet(waiters'[q]) PROVE queue'[u] = q /\ Live(u)'
      <4>1. u # t /\ queue[u] = q /\ Live(u)
        BY <2>1, <3>1, <3>2
      <4>2. u \notin Woken(woken)
        <5>1. ASSUME NEW p \in woken, u \in ToSet(waiters[p]) PROVE FALSE
          <6>1. queue[u] = p
            BY <1>1, <5>1, QueueOnce
          <6> QED BY <2>3, <4>1, <6>1
        <5> QED BY <5>1 DEF Woken
      <4>3. queue'[u] = queue[u]
        BY <1>2, <4>2 DEF WakeQueueFields
      <4> QED BY <1>3, <4>1, <4>3
    <3> QED BY <3>1, <3>2 DEF Live
  <2> QED BY <2>2, <2>3
<1> QED BY <1>4, <1>5, LinksHold

\* A live thread gets a priority, and the place in the list that goes with it.
LEMMA MoveInListOnce ==
  ASSUME TypeOK, ListInv, NEW t \in Thread, NEW prio \in Priorities, Live(t), MoveInList(t, prio),
         \A u \in Thread : Live(u)' <=> Live(u)
  PROVE  /\ ListInv'
         /\ \A u \in Thread : u # t \/ priority[t] = prio => priority'[u] = priority[u]
<1>1. threadList \in Seq(Thread) /\ priority \in [Thread -> Nat] /\ prio \in Nat
  BY ThreadAssumption DEF ThreadAssumption, TypeOK, Priorities
<1>2. CASE priority[t] = prio
  BY <1>2, ListStays DEF MoveInList
<1>3. CASE priority[t] # prio
  <2> DEFINE shorter == RemoveFirst(threadList, t)
  <2>1. priority' = [priority EXCEPT ![t] = prio]
    BY <1>3 DEF MoveInList
  <2>2. threadList' = OSi_InsertThreadToList(shorter, priority', t)
    BY <1>3 DEF MoveInList
  <2>3. shorter \in Seq(Thread) /\ EachOnce(shorter) /\ ToSet(shorter) = ToSet(threadList) \ {t}
    BY <1>1, RemoveFirstMembers, RemoveFirstOnce DEF ListInv
  <2>4. InOrder(shorter, priority)
    BY <1>1, RemoveInOrder DEF ListInv
  <2> HIDE DEF shorter
  <2>5. priority' \in [Thread -> Nat] /\ \A u \in Thread \ {t} : priority'[u] = priority[u]
    BY <1>1, <2>1
  <2>6. InOrder(shorter, priority')
    <3>1. \A u \in ToSet(shorter) : u \in Thread
      BY <2>3 DEF ToSet
    <3>2. \A u \in ToSet(shorter) : priority'[u] = priority[u]
      BY <2>3, <2>5, <3>1
    <3> QED BY <2>3, <2>4, <3>2, OrderKept
  <2>7. EachOnce(threadList') /\ InOrder(threadList', priority')
    BY <2>2, <2>3, <2>5, <2>6, InsertThreadOnce
  <2>8. ToSet(threadList') = ToSet(threadList)
    <3>1. ToSet(threadList') = ToSet(shorter) \cup {t}
      BY <2>2, <2>3, InsertThreadFacts
    <3>2. t \in ToSet(threadList)
      BY DEF ListInv
    <3> QED BY <2>3, <3>1, <3>2
  <2> QED BY <1>3, <2>5, <2>7, <2>8 DEF ListInv
<1> QED BY <1>2, <1>3

\* The caller goes behind all of its priority, and before all less urgent ones.
LEMMA YieldOnce ==
  ASSUME TypeOK, ListInv, NEW t \in Thread, Live(t),
         threadList' = OS_YieldInList(threadList, priority, t),
         UNCHANGED <<priority, state>>
  PROVE  ListInv'
<1> DEFINE same == {i \in 1..Len(threadList) : priority[threadList[i]] = priority[t]}
           shorter == RemoveFirst(threadList, t)
           last == Max(same)
<1>1. threadList \in Seq(Thread) /\ priority \in [Thread -> Nat] /\ t \in ToSet(threadList)
  BY ThreadAssumption DEF ThreadAssumption, TypeOK, ListInv
<1>2. /\ shorter \in Seq(Thread) /\ EachOnce(shorter) /\ ToSet(shorter) = ToSet(threadList) \ {t}
      /\ InOrder(shorter, priority)
  BY <1>1, RemoveFirstMembers, RemoveFirstOnce, RemoveInOrder DEF ListInv
<1>3. PICK k \in 1..Len(threadList) : threadList[k] = t /\ shorter = RemoveAt(threadList, k)
  BY <1>1, RemoveFirstFacts
<1>4. last \in same /\ k <= last
  <2>1. same \in SUBSET (1..Len(threadList)) /\ k \in same /\ Len(threadList) \in Nat
    BY <1>1, <1>3
  <2> HIDE DEF same
  <2> QED BY <2>1, MaxIsGreatest
<1>5. last \in 1..Len(threadList) /\ priority[threadList[last]] = priority[t]
  BY <1>4
<1>6. threadList' = InsertAt(shorter, last, t)
  BY DEF OS_YieldInList
<1> HIDE DEF same, last, shorter
<1>7. /\ Len(shorter) = Len(threadList) - 1
      /\ \A j \in 1..Len(shorter) : shorter[j] = IF j < k THEN threadList[j] ELSE threadList[j + 1]
  BY <1>1, <1>3, RemoveAtFacts
<1>8. last \in 1..Len(shorter) + 1
  BY <1>1, <1>5, <1>7
<1>9. \A i, j \in 1..Len(threadList) : i <= j => priority[threadList[i]] <= priority[threadList[j]]
  <2> SUFFICES ASSUME NEW i \in 1..Len(threadList), NEW j \in 1..Len(threadList), i <= j
               PROVE  priority[threadList[i]] <= priority[threadList[j]]
    OBVIOUS
  <2>1. CASE i = j
    <3>1. priority[threadList[i]] \in Nat
      BY <1>1
    <3> QED BY <2>1, <3>1
  <2>2. CASE i < j
    BY <2>2 DEF ListInv, InOrder
  <2> QED BY <2>1, <2>2
<1>10. ASSUME NEW j \in 1..Len(shorter)
       PROVE  /\ j < last => priority[shorter[j]] <= priority[t]
              /\ j >= last => priority[t] <= priority[shorter[j]]
  <2>1. CASE j < last
    <3>1. PICK i \in 1..Len(threadList) : shorter[j] = threadList[i] /\ i <= last
      <4>1. j \in 1..Len(threadList) /\ j + 1 \in 1..Len(threadList) /\ j + 1 <= last
        BY <1>1, <1>5, <1>7, <2>1
      <4>2. CASE j < k
        <5>1. shorter[j] = threadList[j]
          BY <1>7, <4>2
        <5> QED BY <1>5, <2>1, <4>1, <5>1
      <4>3. CASE ~(j < k)
        <5>1. shorter[j] = threadList[j + 1]
          BY <1>7, <4>3
        <5> QED BY <4>1, <5>1
      <4> QED BY <4>2, <4>3
    <3> QED BY <1>5, <1>9, <2>1, <3>1
  <2>2. CASE j >= last
    <3>1. j + 1 \in 1..Len(threadList) /\ j + 1 >= last /\ ~(j < k)
      BY <1>1, <1>4, <1>5, <1>7, <2>2
    <3>2. shorter[j] = threadList[j + 1]
      BY <1>7, <3>1
    <3> QED BY <1>5, <1>9, <2>2, <3>1, <3>2
  <2> QED BY <1>5, <2>1, <2>2
<1>11. t \notin ToSet(shorter)
  BY <1>2
<1>12. EachOnce(threadList')
  BY <1>2, <1>6, <1>8, <1>11, InsertAtOnce
<1>13. InOrder(threadList', priority)
  <2>1. priority \in [Thread -> Int]
    BY DEF TypeOK
  <2>2. InOrder(InsertAt(shorter, last, t), priority)
    BY <1>1, <1>2, <1>8, <1>10, <2>1, InsertInOrder
  <2> QED BY <1>6, <2>2
<1>14. ToSet(threadList') = ToSet(threadList)
  <2>1. ToSet(InsertAt(shorter, last, t)) = ToSet(shorter) \cup {t}
    BY <1>2, <1>8, InsertAtMembers
  <2> QED BY <1>1, <1>2, <1>6, <2>1
<1> QED BY <1>12, <1>13, <1>14 DEF ListInv, Live

\* The types, and that no call or interrupt leaves the processor in a thread
\* with no thread to run.
THEOREM TypeCorrect == Spec => []TypeOK
<1>1. IInv => TypeOK
  BY DEF IInv
<1> QED BY <1>1, InitImpliesIInv, StepKeepsIInv, PTL DEF Spec

\* However many threads and queues: unless a disabled scheduler made a call skip
\* it, the most urgent runnable thread is the one that runs.
THEOREM MostUrgentRuns == Spec => []HighestRuns
<1>1. IInv => HighestRuns
  BY DEF IInv, NothingOwed, OwedOrChosen, HighestRuns
<1> QED BY <1>1, InitImpliesIInv, StepKeepsIInv, PTL DEF Spec

\* A switch asked for in an interrupt handler is made before a thread runs.
THEOREM NoRequestIsLeft == Spec => []NothingOwed
<1>1. IInv => NothingOwed
  BY DEF IInv
<1> QED BY <1>1, InitImpliesIInv, StepKeepsIInv, PTL DEF Spec

-----------------------------------------------------------------------------
(* The steps, as to the list and the queues.                                  *)

LEMMA CreateLinks ==
  ASSUME TypeOK, ListInv, LinkInv, NEW t \in Thread, NEW prio \in Priorities, OS_CreateThread(t, prio)
  PROVE  ListInv' /\ LinkInv'
<1>1. /\ ~Live(t) /\ t \in WaitQueue
      /\ priority' = [priority EXCEPT ![t] = prio]
      /\ threadList' = OSi_InsertThreadToList(threadList, priority', t)
      /\ state' = [state EXCEPT ![t] = "WAITING"]
      /\ queue' = [queue EXCEPT ![t] = NULL]
      /\ waiters' = [waiters EXCEPT ![t] = <<>>]
  BY DEF OS_CreateThread, Live, WaitQueue
<1>2. threadList \in Seq(Thread) /\ t \notin ToSet(threadList)
  BY <1>1 DEF TypeOK, ListInv
<1>3. /\ priority' \in [Thread -> Nat]
      /\ \A u \in Thread : u # t => priority'[u] = priority[u] /\ state'[u] = state[u] /\ queue'[u] = queue[u]
      /\ state'[t] = "WAITING"
  BY <1>1, ThreadAssumption DEF ThreadAssumption, TypeOK, Priorities
<1>4. InOrder(threadList, priority')
  <2>1. \A u \in ToSet(threadList) : u \in Thread
    BY <1>2 DEF ToSet
  <2>2. \A u \in ToSet(threadList) : priority'[u] = priority[u]
    BY <1>2, <1>3, <2>1
  <2> QED BY <1>2, <2>2, OrderKept DEF ListInv
<1>5. ListInv'
  <2>1. EachOnce(threadList') /\ InOrder(threadList', priority')
    BY <1>1, <1>2, <1>3, <1>4, InsertThreadOnce DEF ListInv
  <2>2. ToSet(threadList') = ToSet(threadList) \cup {t}
    BY <1>1, <1>2, InsertThreadFacts
  <2> QED BY <1>3, <2>1, <2>2 DEF ListInv, Live
<1>6. ASSUME NEW q \in WaitQueue
      PROVE  /\ EachOnce(waiters'[q]) /\ InOrder(waiters'[q], priority')
             /\ \A u \in Thread : u \in ToSet(waiters'[q]) =>
                  queue'[u] = q /\ state'[u] \in {"WAITING", "READY"}
  <2>1. CASE q = t
    <3>1. waiters'[q] = <<>>
      BY <1>1, <2>1 DEF TypeOK
    <3> QED BY <3>1 DEF EachOnce, InOrder, ToSet
  <2>2. CASE q # t
    <3>1. waiters'[q] = waiters[q]
      BY <1>1, <2>2 DEF TypeOK
    <3>2. /\ waiters[q] \in Seq(Thread) /\ EachOnce(waiters[q]) /\ InOrder(waiters[q], priority)
          /\ \A u \in ToSet(waiters[q]) : u \in Thread /\ queue[u] = q /\ Live(u)
      BY QueueOnce
    <3>3. \A u \in ToSet(waiters[q]) :
            /\ u # t /\ priority'[u] = priority[u] /\ queue'[u] = q
            /\ state'[u] \in {"WAITING", "READY"}
      BY <1>1, <1>3, <3>2 DEF Live
    <3>4. InOrder(waiters[q], priority')
      BY <3>2, <3>3, OrderKept
    <3> QED BY <3>1, <3>2, <3>3, <3>4
  <2> QED BY <2>1, <2>2
<1> QED BY <1>5, <1>6, LinksHold

\* The running thread, and whom a call is made for, are live.
LEMMA CallerIsLive ==
  ASSUME RunningListed, ListInv, NEW t \in Thread, current = t, ~halted
  PROVE  Live(t)
BY DEF RunningListed, ListInv

LEMMA SleepLinks ==
  ASSUME IInv, ListInv, LinkInv, NEW t \in Thread, NEW q \in WaitQueue \cup {NULL}, OS_SleepThread(t, q)
  PROVE  ListInv' /\ LinkInv'
<1>1. TypeOK /\ Live(t) /\ UNCHANGED <<threadList, priority>>
  BY CallerIsLive DEF IInv, OS_SleepThread, Calls
<1>2. CASE q = NULL
  <2>1. state' = [state EXCEPT ![t] = "WAITING"] /\ UNCHANGED <<queue, waiters>>
    BY <1>2 DEF OS_SleepThread
  <2>2. \A u \in Thread : Live(u)' <=> Live(u)
    BY <1>1, <2>1 DEF Live, TypeOK
  <2> QED BY <1>1, <2>1, <2>2, ListStays, LinksStay
<1>3. CASE q # NULL
  <2>1. (Linked(t) => t \in ToSet(waiters[q])) /\ Enqueue(t, q) /\ q \in WaitQueue
    BY <1>3 DEF OS_SleepThread
  <2> QED BY <1>1, <2>1, EnqueueLinks
<1> QED BY <1>2, <1>3

\* A call that makes a live thread ready, wherever it is linked.
LEMMA ReadyStep ==
  ASSUME TypeOK, ListInv, LinkInv, NEW t \in Thread, Live(t),
         state' = [state EXCEPT ![t] = "READY"]
  PROVE  \A u \in Thread : Live(u)' <=> Live(u)
BY DEF TypeOK, Live

LEMMA KillLinks ==
  ASSUME TypeOK, ListInv, LinkInv, NEW t \in Thread, NEW prio \in Priorities,
         OS_KillThreadWithPriority(t, prio)
  PROVE  ListInv' /\ LinkInv'
<1>1. /\ Live(t) /\ (Linked(t) => prio = priority[t]) /\ MoveInList(t, prio)
      /\ state' = [state EXCEPT ![t] = "READY"] /\ UNCHANGED <<queue, waiters>>
  BY DEF OS_KillThreadWithPriority
<1>2. \A u \in Thread : Live(u)' <=> Live(u)
  BY <1>1, ReadyStep
<1>3. /\ ListInv'
      /\ \A u \in Thread : u # t \/ priority[t] = prio => priority'[u] = priority[u]
  BY <1>1, <1>2, MoveInListOnce
<1>4. \A u \in Thread : Linked(u) => priority'[u] = priority[u]
  BY <1>1, <1>3
<1> QED BY <1>1, <1>2, <1>3, <1>4, LinksStay

LEMMA PriorityLinks ==
  ASSUME TypeOK, ListInv, LinkInv, NEW t \in Thread, NEW prio \in Priorities,
         OS_SetThreadPriority(t, prio)
  PROVE  ListInv' /\ LinkInv'
<1>1. Live(t) /\ ~Linked(t) /\ MoveInList(t, prio) /\ UNCHANGED <<state, queue, waiters>>
  BY DEF OS_SetThreadPriority
<1>2. \A u \in Thread : Live(u)' <=> Live(u)
  BY <1>1 DEF Live
<1>3. /\ ListInv'
      /\ \A u \in Thread : u # t \/ priority[t] = prio => priority'[u] = priority[u]
  BY <1>1, <1>2, MoveInListOnce
<1>4. \A u \in Thread : Linked(u) => priority'[u] = priority[u]
  BY <1>1, <1>3
<1> QED BY <1>1, <1>2, <1>3, <1>4, LinksStay

LEMMA StepKeepsLists ==
  ASSUME IInv, ListInv, LinkInv, [Next]_vars
  PROVE  ListInv' /\ LinkInv'
<1>1. TypeOK /\ {} \in SUBSET Queue
  BY DEF IInv
<1>2. ASSUME NEW t \in Thread, NEW p \in Priorities,
             OS_CreateThread(t, p) \/ OS_KillThreadWithPriority(t, p) \/ OS_SetThreadPriority(t, p)
      PROVE  ListInv' /\ LinkInv'
  BY <1>1, <1>2, CreateLinks, KillLinks, PriorityLinks
<1>3. ASSUME NEW t \in Thread, NEW q \in Queue, OS_SleepThread(t, q)
      PROVE  ListInv' /\ LinkInv'
  BY <1>3, SleepLinks DEF WaitQueue
<1>4. ASSUME NEW t \in Thread, NEW q \in Queue, OS_SleepThreadDirect(t, q)
      PROVE  ListInv' /\ LinkInv'
  <2>1. /\ Live(t) /\ (Linked(t) => t \in ToSet(waiters[q])) /\ Enqueue(t, q) /\ q \in WaitQueue
        /\ UNCHANGED <<threadList, priority>>
    BY <1>4 DEF OS_SleepThreadDirect, WaitQueue
  <2> QED BY <1>1, <2>1, EnqueueLinks
<1>5. ASSUME NEW t \in Thread, OS_ExitThread(t) \/ OS_DestroyThread(t)
      PROVE  ListInv' /\ LinkInv'
  <2>1. Live(t) /\ Terminate(t, {}) /\ UNCHANGED priority
    BY <1>5, CallerIsLive DEF IInv, OS_ExitThread, ExitThread, OS_DestroyThread, DestroyThread
  <2> QED BY <1>1, <2>1, TerminateLinks
<1>6. ASSUME NEW t \in Thread, OS_SleepThread(t, NULL)
      PROVE  ListInv' /\ LinkInv'
  BY <1>6, SleepLinks
<1>7. ASSUME NEW t \in Thread, OS_WakeupThreadDirect(t)
      PROVE  ListInv' /\ LinkInv'
  <2>1. /\ Live(t) /\ state' = [state EXCEPT ![t] = "READY"]
        /\ UNCHANGED <<threadList, priority, queue, waiters>>
    BY <1>7 DEF OS_WakeupThreadDirect
  <2> QED BY <1>1, <2>1, ReadyStep, ListStays, LinksStay
<1>8. ASSUME NEW t \in Thread, OS_YieldThread(t)
      PROVE  ListInv' /\ LinkInv'
  <2>1. /\ Live(t) /\ threadList' = OS_YieldInList(threadList, priority, t)
        /\ UNCHANGED <<state, priority, queue, waiters>>
    BY <1>8, CallerIsLive DEF IInv, OS_YieldThread, Calls
  <2>2. ListInv'
    BY <1>1, <2>1, YieldOnce
  <2>3. \A u \in Thread : Live(u) => Live(u)'
    BY <2>1 DEF Live
  <2> QED BY <1>1, <2>1, <2>2, <2>3, LinksStay
<1>9. ASSUME NEW c \in Thread, NEW t \in Thread, OS_JoinThread(c, t)
      PROVE  ListInv' /\ LinkInv'
  BY <1>9, SleepLinks DEF OS_JoinThread, WaitQueue
<1>10. ASSUME NEW q \in Queue, OS_WakeupThread(q)
       PROVE  ListInv' /\ LinkInv'
  BY <1>1, <1>10, WakeLinks DEF OS_WakeupThread, WaitQueue
<1>11. CASE OS_IrqHandler_ThreadSwitch
  <2>1. IrqQueue \in WaitQueue
    BY ThreadAssumption DEF ThreadAssumption, WaitQueue
  <2> QED BY <1>1, <1>11, <2>1, WakeLinks DEF OS_IrqHandler_ThreadSwitch
<1>12. CASE \/ \E t \in Thread : OS_DisableScheduler(t) \/ OS_EnableScheduler(t)
            \/ OS_RescheduleThread \/ OS_IrqHandler \/ UNCHANGED vars
  <2>1. UNCHANGED <<threadList, state, priority, queue, waiters>>
    BY <1>12 DEF vars, OS_DisableScheduler, OS_EnableScheduler, OS_RescheduleThread, OS_IrqHandler
  <2>2. \A u \in Thread : Live(u)' <=> Live(u)
    BY <2>1 DEF Live
  <2> QED BY <1>1, <2>1, <2>2, ListStays, LinksStay
<1> QED BY <1>2, <1>3, <1>4, <1>5, <1>6, <1>7, <1>8, <1>9, <1>10, <1>11, <1>12 DEF Next

LEMMA InitLists == Init => ListInv /\ LinkInv
<1> SUFFICES ASSUME Init PROVE ListInv /\ LinkInv
  OBVIOUS
<1> USE ThreadAssumption DEF ThreadAssumption
<1>1. threadList = <<Launcher, Idle>>
  BY DEF Init
<1>2. ToSet(threadList) = {Launcher, Idle}
  <2>1. DOMAIN threadList = {1, 2} /\ threadList[1] = Launcher /\ threadList[2] = Idle
    BY <1>1
  <2> QED BY <2>1 DEF ToSet
<1>3. EachOnce(threadList)
  BY <1>1 DEF EachOnce
<1>4. InOrder(threadList, priority)
  <2>1. priority[Launcher] <= priority[Idle]
    BY DEF Init
  <2>2. \A i, j \in 1..Len(threadList) : i < j => i = 1 /\ j = 2
    BY <1>1
  <2> QED BY <1>1, <2>1, <2>2 DEF InOrder
<1>5. \A t \in Thread : Live(t) <=> t \in ToSet(threadList)
  BY <1>2 DEF Init, Live
<1>6. LinkInv
  <2>1. \A q \in WaitQueue : waiters[q] = <<>>
    BY DEF Init
  <2> QED BY <2>1 DEF LinkInv, LinkedOnce, InOrder, ToSet
<1> QED BY <1>3, <1>4, <1>5, <1>6 DEF ListInv

\* What the scheduler's own lists hold, for any number of threads and queues:
\* who can be chosen is in the list, and who is woken or ends is found once.
THEOREM ListsHoldTheLive == Spec => []ThreadsAreListed
<1> DEFINE Inv == IInv /\ ListInv /\ LinkInv
<1>1. Init => Inv
  BY InitImpliesIInv, InitLists
<1>2. Inv /\ [Next]_vars => Inv'
  BY StepKeepsIInv, StepKeepsLists
<1>3. Inv => ThreadsAreListed
  <2> SUFFICES ASSUME IInv, ListInv, LinkInv PROVE ThreadsAreListed
    OBVIOUS
  <2>1. Live(current) \/ halted
    BY DEF IInv, TypeOK, RunningListed, ListInv
  <2>2. \A i, j \in 1..Len(threadList) :
          i < j => threadList[i] # threadList[j] /\ priority[threadList[i]] <= priority[threadList[j]]
    BY DEF ListInv, EachOnce, InOrder
  <2> QED BY <2>1, <2>2 DEF ThreadsAreListed, ListIsLive, ListInv, LinkInv
<1> QED BY <1>1, <1>2, <1>3, PTL DEF Spec

-----------------------------------------------------------------------------
(* The disabled scheduler.                                                    *)

\* No switch is asked for while the scheduler is disabled, and in an interrupt
\* handler nobody disables it.
AskedWhileEnabled == isNeedRescheduling => rescheduleCount = 0

LEMMA StepKeepsAsked ==
  ASSUME IInv, AskedWhileEnabled, [Next]_vars
  PROVE  AskedWhileEnabled'
<1> USE DEF IInv, NothingOwed, AskedWhileEnabled
<1>1. ASSUME NEW list, NEW states, OSi_RescheduleThread(list, states), UNCHANGED rescheduleCount
      PROVE  AskedWhileEnabled'
  BY <1>1 DEF OSi_RescheduleThread, TypeOK
<1>2. CASE \E t \in Thread, p \in Priorities :
             OS_CreateThread(t, p) \/ OS_KillThreadWithPriority(t, p) \/ OS_SetThreadPriority(t, p)
  BY <1>1, <1>2 DEF OS_CreateThread, OS_KillThreadWithPriority, OS_SetThreadPriority, schedVars
<1>3. CASE \E t \in Thread, q \in WaitQueue \cup {NULL} : OS_SleepThread(t, q) \/ OS_SleepThreadDirect(t, q)
  BY <1>1, <1>3 DEF OS_SleepThread, OS_SleepThreadDirect
<1>4. CASE \E t \in Thread : \/ OS_ExitThread(t) \/ OS_DestroyThread(t)
                             \/ OS_WakeupThreadDirect(t) \/ OS_YieldThread(t)
  BY <1>1, <1>4 DEF OS_ExitThread, ExitThread, OS_DestroyThread, DestroyThread,
     OS_WakeupThreadDirect, OS_YieldThread
<1>5. CASE \E t \in Thread : OS_DisableScheduler(t) \/ OS_EnableScheduler(t)
  BY <1>5 DEF OS_DisableScheduler, OS_EnableScheduler, Calls, schedVars
<1>6. CASE \E q \in Queue : OS_WakeupThread(q)
  BY <1>1, <1>6 DEF OS_WakeupThread
<1>7. CASE OS_RescheduleThread \/ OS_IrqHandler \/ OS_IrqHandler_ThreadSwitch \/ UNCHANGED vars
  BY <1>1, <1>7 DEF OS_RescheduleThread, OS_IrqHandler, OS_IrqHandler_ThreadSwitch, vars, schedVars
<1> QED BY <1>2, <1>3, <1>4, <1>5, <1>6, <1>7 DEF Next, OS_JoinThread, WaitQueue

LEMMA DisabledStep ==
  ASSUME IInv, AskedWhileEnabled, [Next]_vars, rescheduleCount > 0, current' # current
  PROVE  inIrq /\ waiters[IrqQueue] # <<>>
<1> USE DEF AskedWhileEnabled
<1>1. rescheduleCount \in Nat /\ rescheduleCount # 0
  BY ThreadAssumption DEF IInv, TypeOK, ThreadAssumption
<1>2. ASSUME NEW list, NEW states, OSi_RescheduleThread(list, states) PROVE FALSE
  BY <1>1, <1>2 DEF OSi_RescheduleThread
<1>3. CASE OS_IrqHandler_ThreadSwitch
  BY <1>1, <1>3 DEF OS_IrqHandler_ThreadSwitch
<1>4. CASE ~OS_IrqHandler_ThreadSwitch
  BY <1>2, <1>4 DEF Next, vars, schedVars, OS_CreateThread, OS_KillThreadWithPriority,
     OS_SetThreadPriority, OS_SleepThread, OS_SleepThreadDirect, OS_ExitThread, ExitThread,
     OS_DestroyThread, DestroyThread, OS_WakeupThreadDirect, OS_YieldThread, OS_DisableScheduler,
     OS_EnableScheduler, OS_JoinThread, OS_WakeupThread, OS_RescheduleThread, OS_IrqHandler
<1> QED BY <1>3, <1>4

\* Whatever threads and handlers call: with the scheduler disabled only the end
\* of an interrupt that wakes one of the threads waiting for it changes threads.
THEOREM OnlyInterruptsPreempt == Spec => DisabledOnlyIrqQueueSwitches
<1> DEFINE Inv == IInv /\ AskedWhileEnabled
<1>1. Init => Inv
  BY InitImpliesIInv DEF Init, AskedWhileEnabled
<1>2. Inv /\ [Next]_vars => Inv'
  BY StepKeepsIInv, StepKeepsAsked
<1>3. Inv /\ [Next]_vars =>
        [rescheduleCount > 0 /\ current' # current => inIrq /\ waiters[IrqQueue] # <<>>]_vars
  BY DisabledStep
<1> QED BY <1>1, <1>2, <1>3, PTL DEF Spec, DisabledOnlyIrqQueueSwitches
=============================================================================
