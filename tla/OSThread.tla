------------------------------ MODULE OSThread ------------------------------
(* The thread system of libraries/os/src/os_thread.c on the ARM9, with the    *)
(* interrupt exit of os_irqHandler.c, in the SDK_THREAD_INFINITY build.       *)
(*                                                                            *)
(* Every call runs with interrupts disabled up to the point where it switches *)
(* threads, so a call is one action; other threads and interrupts come        *)
(* between calls.  What threads and interrupt handlers call, and when, is     *)
(* open.  A call that may put its caller to sleep returns in the caller when  *)
(* current is the caller again.                                               *)
(*                                                                            *)
(* OSThreadList and OSThreadQueue show that the linked lists of the code      *)
(* behave as the sequences used here.                                         *)

EXTENDS OSOrder

CONSTANTS
  Thread,       \* the OSThread objects
  Launcher,     \* OSi_LauncherThread, which runs main
  Idle,         \* OSi_IdleThread
  Queue,        \* the OSThreadQueues other than the threads' join queues
  IrqQueue,     \* OSi_IrqThreadQueue
  MaxPriority,  \* OS_THREAD_PRIORITY_MAX; a smaller number is more urgent
  MaxNesting,   \* bound: how deep OS_DisableScheduler calls nest
  NULL

ASSUME ThreadAssumption ==
  /\ Launcher \in Thread /\ Idle \in Thread /\ Launcher # Idle
  /\ IrqQueue \in Queue
  /\ Queue \cap Thread = {}
  /\ NULL \notin Queue \cup Thread
  /\ MaxPriority \in Nat /\ MaxNesting \in Nat

\* A thread's join queue is named by the thread.
WaitQueue == Queue \cup Thread

Priorities == 0..MaxPriority

VARIABLES
  threadList,         \* OSi_ThreadInfo.list, most urgent first
  current,            \* OSi_ThreadInfo.current
  isNeedRescheduling, \* OSi_ThreadInfo.isNeedRescheduling
  rescheduleCount,    \* OSi_RescheduleCount
  state,              \* OSThread.state; "UNUSED" before OS_CreateThread
  priority,           \* OSThread.priority
  queue,              \* OSThread.queue
  waiters,            \* the threads linked in each OSThreadQueue
  exiting,            \* threads whose context was reset to OSi_ExitThread
  inIrq,              \* the processor is in IRQ mode
  halted,             \* OS_Terminate was reached: the processor stops
  skipped             \* history: a reschedule was asked for while disabled

schedVars == <<current, isNeedRescheduling, skipped>>
vars == <<threadList, current, isNeedRescheduling, rescheduleCount, state, priority, queue,
          waiters, exiting, inIrq, halted, skipped>>

TypeOK ==
  /\ threadList \in Seq(Thread)
  /\ current \in Thread
  /\ isNeedRescheduling \in BOOLEAN
  /\ rescheduleCount \in 0..MaxNesting
  /\ state \in [Thread -> {"UNUSED", "WAITING", "READY", "TERMINATED"}]
  /\ priority \in [Thread -> 0..MaxPriority + 1]
  /\ queue \in [Thread -> WaitQueue \cup {NULL}]
  /\ waiters \in [WaitQueue -> Seq(Thread)]
  /\ exiting \subseteq Thread
  /\ inIrq \in BOOLEAN
  /\ halted \in BOOLEAN
  /\ skipped \in BOOLEAN

\* OS_InitThread has run: the launcher thread runs, the idle thread is ready.
Init ==
  /\ threadList = <<Launcher, Idle>>
  /\ current = Launcher
  /\ isNeedRescheduling = FALSE
  /\ rescheduleCount = 0
  /\ state = [t \in Thread |-> IF t \in {Launcher, Idle} THEN "READY" ELSE "UNUSED"]
  /\ priority = [t \in Thread |-> IF t = Idle THEN MaxPriority + 1 ELSE MaxPriority \div 2]
  /\ queue = [t \in Thread |-> NULL]
  /\ waiters = [q \in WaitQueue |-> <<>>]
  /\ exiting = {}
  /\ inIrq = FALSE
  /\ halted = FALSE
  /\ skipped = FALSE

-----------------------------------------------------------------------------
(* The lists.                                                                 *)

\* The first runnable thread of the list, or NULL.
OS_SelectThread(list, states) ==
  LET i == SelectInSeq(list, LAMBDA t : states[t] = "READY")
  IN IF i = 0 THEN NULL ELSE list[i]

\* The thread that runs after a switch: the one selected, if there is one.
Elect(list, states) ==
  IF OS_SelectThread(list, states) = NULL THEN current ELSE OS_SelectThread(list, states)

Linked(t) == \E q \in WaitQueue : t \in ToSet(waiters[q])
Live(t) == state[t] \in {"WAITING", "READY"}

-----------------------------------------------------------------------------
(* The parts calls are made of.                                               *)

\* A slip: the disabled scheduler is not asked.
RescheduleAlways(list, states) ==
  /\ isNeedRescheduling' = (isNeedRescheduling \/ inIrq)
  /\ current' = IF inIrq THEN current ELSE Elect(list, states)
  /\ UNCHANGED skipped

\* Postponed while the scheduler is disabled, noted in IRQ mode, done at once
\* otherwise.  The arguments are the thread list and states after the call.
OSi_RescheduleThread(list, states) ==
  \/ /\ rescheduleCount > 0
     /\ skipped' = TRUE
     /\ UNCHANGED <<current, isNeedRescheduling>>
  \/ /\ rescheduleCount = 0
     /\ inIrq
     /\ isNeedRescheduling' = TRUE
     /\ UNCHANGED <<current, skipped>>
  \/ /\ rescheduleCount = 0
     /\ ~inIrq
     /\ current' = Elect(list, states)
     /\ skipped' = FALSE
     /\ UNCHANGED isNeedRescheduling

\* The states and queue fields when every thread in the queues qs is woken.
Woken(qs) == UNION {ToSet(waiters[q]) : q \in qs}
WakeStates(qs) == [t \in Thread |-> IF t \in Woken(qs) THEN "READY" ELSE state[t]]
WakeQueueFields(qs) == [t \in Thread |-> IF t \in Woken(qs) THEN NULL ELSE queue[t]]

\* Links thread t into queue q and makes it wait.
Enqueue(t, q) ==
  /\ queue' = [queue EXCEPT ![t] = q]
  /\ waiters' = [waiters EXCEPT ![q] = OSi_InsertLinkToQueue(waiters[q], priority, t)]
  /\ state' = [state EXCEPT ![t] = "WAITING"]

\* What OSi_ExitThread_Destroy and OS_DestroyThread do to thread t: the threads
\* in the queues qs (of the mutexes t owned) and in t's join queue wake, t goes
\* out of the queue it is linked in and out of the thread list.
Terminate(t, qs) ==
  LET woken == qs \cup {t}
      links(q) == IF q \in woken THEN <<>>
                  ELSE IF q = queue[t] THEN RemoveFirst(waiters[q], t) ELSE waiters[q]
  IN /\ waiters' = [q \in WaitQueue |-> links(q)]
     /\ queue' = WakeQueueFields(woken)
     /\ threadList' = RemoveFirst(threadList, t)
     /\ state' = [WakeStates(woken) EXCEPT ![t] = "TERMINATED"]
     /\ exiting' = exiting \ {t}

-----------------------------------------------------------------------------
(* The calls.  Calls(t): thread t is running and makes a call.                *)

Calls(t) == current = t /\ ~inIrq /\ ~halted /\ t \notin exiting /\ t # Idle

\* A call a thread or an interrupt handler makes.
Called == inIrq \/ \E t \in Thread : Calls(t)

\* Slips one could make in these calls; no action of Next uses them.  For each
\* there is a property that is checked to be violated when it is made.

\* Threads wake and nobody reschedules.
WakeupWithoutReschedule(q) ==
  /\ Called
  /\ waiters[q] # <<>>
  /\ state' = WakeStates({q})
  /\ queue' = WakeQueueFields({q})
  /\ waiters' = [waiters EXCEPT ![q] = <<>>]
  /\ UNCHANGED <<schedVars, threadList, rescheduleCount, priority, exiting, inIrq, halted>>

\* The nesting count goes below zero.
EnableUnchecked(t) ==
  /\ Calls(t)
  /\ rescheduleCount' = rescheduleCount - 1
  /\ UNCHANGED <<threadList, schedVars, state, priority, queue, waiters, exiting, inIrq, halted>>

\* At the end of an interrupt the request is not taken back.
SwitchWithoutReset ==
  LET switch == isNeedRescheduling \/ waiters[IrqQueue] # <<>>
  IN /\ inIrq
     /\ inIrq' = FALSE
     /\ state' = WakeStates({IrqQueue})
     /\ queue' = WakeQueueFields({IrqQueue})
     /\ waiters' = [waiters EXCEPT ![IrqQueue] = <<>>]
     /\ current' = IF switch THEN Elect(threadList, state') ELSE current
     /\ skipped' = (skipped /\ ~switch)
     /\ UNCHANGED <<isNeedRescheduling, threadList, rescheduleCount, priority, exiting, halted>>

\* The thread object is free; the new thread waits until it is woken directly.
OS_CreateThread(t, prio) ==
  /\ Called
  /\ state[t] \in {"UNUSED", "TERMINATED"}
  /\ priority' = [priority EXCEPT ![t] = prio]
  /\ threadList' = OSi_InsertThreadToList(threadList, priority', t)
  /\ state' = [state EXCEPT ![t] = "WAITING"]
  /\ queue' = [queue EXCEPT ![t] = NULL]
  /\ waiters' = [waiters EXCEPT ![t] = <<>>]
  /\ UNCHANGED <<schedVars, rescheduleCount, exiting, inIrq, halted>>

\* A thread ends: it returns from its function, calls OS_ExitThread, or runs
\* for the first time after OS_KillThread.  With the scheduler disabled (the
\* thread runs because of an interrupt) OS_RescheduleThread returns, and
\* OS_Terminate stops the system.
ExitThread(t, qs) ==
  /\ current = t /\ ~inIrq /\ ~halted /\ t # Idle
  /\ Terminate(t, qs)
  /\ OSi_RescheduleThread(threadList', state')
  /\ halted' = (rescheduleCount > 0)
  /\ UNCHANGED <<rescheduleCount, priority, inIrq>>

OS_ExitThread(t) == ExitThread(t, {})

DestroyThread(t, qs) ==
  /\ \E c \in Thread \ {t} : Calls(c)
  /\ Live(t) /\ t # Idle
  /\ Terminate(t, qs)
  /\ OSi_RescheduleThread(threadList', state')
  /\ UNCHANGED <<rescheduleCount, priority, inIrq, halted>>

OS_DestroyThread(t) == DestroyThread(t, {})

\* The list and priorities when OS_SetThreadPriority gives t the priority prio.
MoveInList(t, prio) ==
  IF priority[t] = prio
  THEN UNCHANGED <<threadList, priority>>
  ELSE /\ priority' = [priority EXCEPT ![t] = prio]
       /\ threadList' = OSi_InsertThreadToList(RemoveFirst(threadList, t), priority', t)

\* Another thread is made to run OSi_ExitThread, wherever it was.  It stays
\* linked in the queue it was waiting in until it ends; while it is, it keeps
\* its priority, as OS_KillThread does: see OS_SetThreadPriority.
OS_KillThreadWithPriority(t, prio) ==
  /\ \E c \in Thread \ {t} : Calls(c)
  /\ Live(t) /\ t # Idle
  /\ Linked(t) => prio = priority[t]
  /\ exiting' = exiting \cup {t}
  /\ state' = [state EXCEPT ![t] = "READY"]
  /\ MoveInList(t, prio)
  /\ OSi_RescheduleThread(threadList', state')
  /\ UNCHANGED <<rescheduleCount, queue, waiters, inIrq, halted>>

\* The thread waits in q, or, for NULL, in no queue.  A thread woken directly
\* while it is linked may only sleep again where it is linked: the blocking
\* calls do so.  The idle thread never sleeps.
OS_SleepThread(t, q) ==
  /\ Calls(t)
  /\ IF q = NULL
     THEN state' = [state EXCEPT ![t] = "WAITING"] /\ UNCHANGED <<queue, waiters>>
     ELSE (Linked(t) => t \in ToSet(waiters[q])) /\ Enqueue(t, q)
  /\ OSi_RescheduleThread(threadList, state')
  /\ UNCHANGED <<threadList, rescheduleCount, priority, exiting, inIrq, halted>>

OS_SleepThreadDirect(t, q) ==
  /\ \E c \in Thread \ {t} : Calls(c)
  /\ Live(t) /\ t # Idle /\ t \notin exiting
  /\ Linked(t) => t \in ToSet(waiters[q])
  /\ Enqueue(t, q)
  /\ OSi_RescheduleThread(threadList, state')
  /\ UNCHANGED <<threadList, rescheduleCount, priority, exiting, inIrq, halted>>

\* Sleeps once in the join queue of t unless t has ended.  Nobody joins the idle
\* thread, which never ends.
OS_JoinThread(c, t) ==
  /\ Live(t) /\ c # t /\ t # Idle
  /\ OS_SleepThread(c, t)

\* Every thread in the queue becomes ready; nothing happens if there is none.
OS_WakeupThread(q) ==
  /\ Called
  /\ waiters[q] # <<>>
  /\ state' = WakeStates({q})
  /\ queue' = WakeQueueFields({q})
  /\ waiters' = [waiters EXCEPT ![q] = <<>>]
  /\ OSi_RescheduleThread(threadList, state')
  /\ UNCHANGED <<threadList, rescheduleCount, priority, exiting, inIrq, halted>>

\* Makes the thread ready wherever it waits, and leaves it linked there.
OS_WakeupThreadDirect(t) ==
  /\ Called
  /\ Live(t)
  /\ state' = [state EXCEPT ![t] = "READY"]
  /\ OSi_RescheduleThread(threadList, state')
  /\ UNCHANGED <<threadList, rescheduleCount, priority, queue, waiters, exiting, inIrq, halted>>

OS_RescheduleThread ==
  /\ Called
  /\ OSi_RescheduleThread(threadList, state)
  /\ UNCHANGED <<threadList, rescheduleCount, state, priority, queue, waiters, exiting, inIrq, halted>>

\* The caller goes behind the other threads of its priority, if it is not.
OS_YieldThread(t) ==
  LET same == {i \in 1..Len(threadList) : priority[threadList[i]] = priority[t]}
  IN /\ Calls(t)
     /\ threadList[Max(same)] # t
     /\ threadList' = OS_YieldInList(threadList, priority, t)
     /\ OSi_RescheduleThread(threadList', state)
     /\ UNCHANGED <<rescheduleCount, state, priority, queue, waiters, exiting, inIrq, halted>>

\* Not while t is linked: a wait queue is not put in order again, and what is
\* linked behind a less urgent thread could be linked a second time.
OS_SetThreadPriority(t, prio) ==
  /\ Called
  /\ Live(t) /\ t # Idle /\ ~Linked(t)
  /\ priority[t] # prio
  /\ MoveInList(t, prio)
  /\ OSi_RescheduleThread(threadList', state)
  /\ UNCHANGED <<rescheduleCount, state, queue, waiters, exiting, inIrq, halted>>

OS_DisableScheduler(t) ==
  /\ Calls(t)
  /\ rescheduleCount < MaxNesting
  /\ rescheduleCount' = rescheduleCount + 1
  /\ UNCHANGED <<threadList, schedVars, state, priority, queue, waiters, exiting, inIrq, halted>>

\* Nothing that was postponed is made up for here.
OS_EnableScheduler(t) ==
  /\ Calls(t)
  /\ rescheduleCount > 0
  /\ rescheduleCount' = rescheduleCount - 1
  /\ UNCHANGED <<threadList, schedVars, state, priority, queue, waiters, exiting, inIrq, halted>>

\* An interrupt is taken between two calls.  A killed thread runs with
\* interrupts disabled until it has ended.
OS_IrqHandler ==
  /\ ~inIrq /\ ~halted
  /\ current \notin exiting
  /\ inIrq' = TRUE
  /\ UNCHANGED <<threadList, schedVars, rescheduleCount, state, priority, queue, waiters, exiting, halted>>

\* The handler has returned: threads waiting for an interrupt wake, and threads
\* are switched if that or the handler calls for it.  rescheduleCount is not
\* looked at.
OS_IrqHandler_ThreadSwitch ==
  LET switch == isNeedRescheduling \/ waiters[IrqQueue] # <<>>
  IN /\ inIrq
     /\ inIrq' = FALSE
     /\ state' = WakeStates({IrqQueue})
     /\ queue' = WakeQueueFields({IrqQueue})
     /\ waiters' = [waiters EXCEPT ![IrqQueue] = <<>>]
     /\ isNeedRescheduling' = FALSE
     /\ current' = IF switch THEN Elect(threadList, state') ELSE current
     /\ skipped' = (skipped /\ ~switch)
     /\ UNCHANGED <<threadList, rescheduleCount, priority, exiting, halted>>

Next ==
  \/ \E t \in Thread, p \in Priorities :
       OS_CreateThread(t, p) \/ OS_KillThreadWithPriority(t, p) \/ OS_SetThreadPriority(t, p)
  \/ \E t \in Thread, q \in Queue : OS_SleepThread(t, q) \/ OS_SleepThreadDirect(t, q)
  \/ \E t \in Thread :
       \/ OS_ExitThread(t) \/ OS_DestroyThread(t) \/ OS_SleepThread(t, NULL)
       \/ OS_WakeupThreadDirect(t) \/ OS_YieldThread(t)
       \/ OS_DisableScheduler(t) \/ OS_EnableScheduler(t)
  \/ \E c, t \in Thread : OS_JoinThread(c, t)
  \/ \E q \in Queue : OS_WakeupThread(q)
  \/ OS_RescheduleThread \/ OS_IrqHandler \/ OS_IrqHandler_ThreadSwitch

Spec == Init /\ [][Next]_vars

-----------------------------------------------------------------------------
\* The most urgent runnable thread is the one that runs, whenever the processor
\* is in a thread and no reschedule was skipped: no call that makes a thread
\* runnable, ends one or moves one in the list forgets to reschedule.
HighestRuns ==
  ~inIrq /\ ~skipped => current = OS_SelectThread(threadList, state)

\* A reschedule can only be owed if the scheduler is or was disabled, and one
\* noted by an interrupt handler is done before a thread runs again.
NothingOwed == isNeedRescheduling => inIrq

\* The thread list holds each live thread once, and no other, by priority: the
\* first runnable thread is one that no runnable thread is more urgent than.
\* The running thread is one of them: no thread runs after its end.
ListIsLive ==
  /\ Live(current) \/ halted
  /\ \A t \in Thread : Live(t) <=> t \in ToSet(threadList)
  /\ \A i, j \in 1..Len(threadList) :
       i < j => /\ threadList[i] # threadList[j]
                /\ priority[threadList[i]] <= priority[threadList[j]]

\* A thread is linked at most once, in the queue its queue field names, and only
\* while it is live: a wakeup never makes a terminated thread runnable, and the
\* end of a thread finds the link there is.
LinkedOnce ==
  \A q \in WaitQueue, t \in Thread : t \in ToSet(waiters[q]) =>
    /\ queue[t] = q
    /\ Live(t)
    /\ \A i, j \in 1..Len(waiters[q]) : waiters[q][i] = waiters[q][j] => i = j

\* Every live thread is in the thread list once, by priority, and in at most one
\* wait queue, once: the one it sleeps in.
ThreadsAreListed == ListIsLive /\ LinkedOnce

\* While the scheduler is disabled the processor changes threads only to serve
\* a thread that waited for an interrupt: OS_IrqHandler_ThreadSwitch does not
\* look at OSi_RescheduleCount.
DisabledOnlyIrqQueueSwitches ==
  [][rescheduleCount > 0 /\ current' # current => inIrq /\ waiters[IrqQueue] # <<>>]_vars
=============================================================================
