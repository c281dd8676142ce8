------------------------------- MODULE OSMutex -------------------------------
(* The mutexes of libraries/os/src/os_mutex.c (OS_LockMutex, OS_TryLockMutex, *)
(* OS_UnlockMutex), with what the end of a thread does to those it owns.      *)
(*                                                                            *)
(* A call runs with interrupts disabled until it returns or sleeps.  Of the   *)
(* scheduler is kept that OS_SleepThread stops a thread until it is woken;    *)
(* which of the runnable threads runs is open.  OSThread.mutex, which no code *)
(* reads, is left out.  The read and write locks are in OSMutexRW.            *)

EXTENDS Naturals, SequencesExt

CONSTANTS
  Thread,
  Mutex,
  MaxCount,  \* bound: how often an owner locks a mutex again
  NULL

ASSUME MutexAssumption ==
  /\ NULL \notin Thread \cup Mutex
  /\ MaxCount \in Nat \ {0}

VARIABLES
  owner,       \* OSMutex.thread
  count,       \* OSMutex.count
  waiters,     \* the threads linked in OSMutex.queue
  mutexQueue,  \* OSThread.mutexQueue: what a thread owns, in the order of locking
  asleep,      \* the threads OS_SleepThread stopped
  want,        \* per thread: the mutex whose OS_LockMutex it is in, or NULL
  killed,      \* threads that run OSi_ExitThread next
  ended        \* threads that do not exist (any more)

mutexVars == <<owner, count, mutexQueue>>
vars == <<owner, count, waiters, mutexQueue, asleep, want, killed, ended>>

TypeOK ==
  /\ owner \in [Mutex -> Thread \cup {NULL}]
  /\ count \in [Mutex -> 0..MaxCount]
  /\ waiters \in [Mutex -> SUBSET Thread]
  /\ mutexQueue \in [Thread -> Seq(Mutex)]
  /\ asleep \subseteq Thread
  /\ want \in [Thread -> Mutex \cup {NULL}]
  /\ killed \subseteq Thread
  /\ ended \subseteq Thread

\* OS_InitMutex, and OS_CreateThread of every thread.
Init ==
  /\ owner = [m \in Mutex |-> NULL]
  /\ count = [m \in Mutex |-> 0]
  /\ waiters = [m \in Mutex |-> {}]
  /\ mutexQueue = [t \in Thread |-> <<>>]
  /\ asleep = {} /\ killed = {} /\ ended = {}
  /\ want = [t \in Thread |-> NULL]

\* The thread makes calls of its own.
Runs(t) == t \notin asleep \cup killed \cup ended

-----------------------------------------------------------------------------
(* Slips one could make in this code; no action of Next uses them.  For each  *)
(* there is a property that is checked to be violated when it is made.        *)

\* The mutex is not put into the queue of its owner.
TakeUnqueued(t, m) ==
  /\ owner' = [owner EXCEPT ![m] = t]
  /\ count' = [count EXCEPT ![m] = @ + 1]
  /\ UNCHANGED mutexQueue

\* The lock is given up at the first unlock, whatever its count.
UnlockAtOnce(t, m) ==
  /\ Runs(t) /\ want[t] = NULL
  /\ owner[m] = t
  /\ count' = [count EXCEPT ![m] = 0]
  /\ owner' = [owner EXCEPT ![m] = NULL]
  /\ mutexQueue' = [mutexQueue EXCEPT ![t] = RemoveFirst(mutexQueue[t], m)]
  /\ asleep' = asleep \ waiters[m]
  /\ waiters' = [waiters EXCEPT ![m] = {}]
  /\ UNCHANGED <<want, killed, ended>>

\* The mutexes of an ended thread become free and nobody wakes, or keep their
\* counts.
ReleaseSilently(t) ==
  /\ owner' = [m \in Mutex |-> IF owner[m] = t THEN NULL ELSE owner[m]]
  /\ count' = [m \in Mutex |-> IF owner[m] = t THEN 0 ELSE count[m]]
  /\ mutexQueue' = [mutexQueue EXCEPT ![t] = <<>>]
  /\ waiters' = [m \in Mutex |-> waiters[m] \ {t}]
  /\ asleep' = asleep \ {t}

-----------------------------------------------------------------------------
(* The calls.                                                                 *)

\* A free mutex gets an owner and goes to the end of the owner's queue.
Take(t, m) ==
  /\ owner' = [owner EXCEPT ![m] = t]
  /\ count' = [count EXCEPT ![m] = @ + 1]
  /\ mutexQueue' = [mutexQueue EXCEPT ![t] = Append(@, m)]

LockAgain(m) ==
  /\ count[m] < MaxCount
  /\ count' = [count EXCEPT ![m] = @ + 1]
  /\ UNCHANGED <<owner, mutexQueue>>

\* The mutex can be locked at once.
Locks(t, m) ==
  \/ owner[m] = NULL /\ Take(t, m)
  \/ owner[m] = t /\ LockAgain(m)

\* The thread calls OS_LockMutex, or is resumed in it and looks again.
OS_LockMutex(t, m) ==
  /\ Runs(t) /\ want[t] \in {NULL, m}
  /\ \/ /\ Locks(t, m)
        /\ want' = [want EXCEPT ![t] = NULL]
        /\ UNCHANGED <<waiters, asleep>>
     \/ /\ owner[m] \notin {NULL, t}
        /\ want' = [want EXCEPT ![t] = m]
        /\ waiters' = [waiters EXCEPT ![m] = @ \cup {t}]
        /\ asleep' = asleep \cup {t}
        /\ UNCHANGED mutexVars
  /\ UNCHANGED <<killed, ended>>

\* When it returns FALSE nothing happens.
OS_TryLockMutex(t, m) ==
  /\ Runs(t) /\ want[t] = NULL
  /\ Locks(t, m)
  /\ UNCHANGED <<waiters, asleep, want, killed, ended>>

\* Ignored for a mutex the thread does not own.
OS_UnlockMutex(t, m) ==
  /\ Runs(t) /\ want[t] = NULL
  /\ owner[m] = t
  /\ count' = [count EXCEPT ![m] = @ - 1]
  /\ IF count[m] = 1
     THEN /\ owner' = [owner EXCEPT ![m] = NULL]
          /\ mutexQueue' = [mutexQueue EXCEPT ![t] = RemoveFirst(mutexQueue[t], m)]
          /\ asleep' = asleep \ waiters[m]
          /\ waiters' = [waiters EXCEPT ![m] = {}]
     ELSE UNCHANGED <<owner, mutexQueue, asleep, waiters>>
  /\ UNCHANGED <<want, killed, ended>>

\* OSi_UnlockAllMutex empties the thread's queue of mutexes; then the thread
\* goes out of the wait queue it is linked in.
OSi_UnlockAllMutex(t) ==
  LET owned == ToSet(mutexQueue[t])
      woken == UNION {waiters[m] : m \in owned}
  IN /\ owner' = [m \in Mutex |-> IF m \in owned THEN NULL ELSE owner[m]]
     /\ count' = [m \in Mutex |-> IF m \in owned THEN 0 ELSE count[m]]
     /\ mutexQueue' = [mutexQueue EXCEPT ![t] = <<>>]
     /\ waiters' = [m \in Mutex |-> IF m \in owned THEN {} ELSE waiters[m] \ {t}]
     /\ asleep' = asleep \ (woken \cup {t})

End(t) ==
  /\ OSi_UnlockAllMutex(t)
  /\ want' = [want EXCEPT ![t] = NULL]
  /\ killed' = killed \ {t}
  /\ ended' = ended \cup {t}

\* The thread ends by itself or because it was killed.
OS_ExitThread(t) == (t \in killed \/ (Runs(t) /\ want[t] = NULL)) /\ End(t)

\* Another thread ends it, wherever it is.
OS_DestroyThread(t) == t \notin ended /\ End(t)

\* The thread is made runnable to end, still linked where it waits.
OS_KillThread(t) ==
  /\ t \notin killed \cup ended
  /\ killed' = killed \cup {t}
  /\ asleep' = asleep \ {t}
  /\ UNCHANGED <<mutexVars, waiters, want, ended>>

OS_CreateThread(t) ==
  /\ t \in ended
  /\ ended' = ended \ {t}
  /\ mutexQueue' = [mutexQueue EXCEPT ![t] = <<>>]
  /\ UNCHANGED <<owner, count, waiters, asleep, want, killed>>

\* Another thread wakes it directly; it stays linked.
OS_WakeupThreadDirect(t) ==
  /\ t \in asleep
  /\ asleep' = asleep \ {t}
  /\ UNCHANGED <<mutexVars, waiters, want, killed, ended>>

Next ==
  \E t \in Thread :
    \/ \E m \in Mutex : OS_LockMutex(t, m) \/ OS_TryLockMutex(t, m) \/ OS_UnlockMutex(t, m)
    \/ OS_ExitThread(t) \/ OS_DestroyThread(t) \/ OS_KillThread(t)
    \/ OS_CreateThread(t) \/ OS_WakeupThreadDirect(t)

Spec == Init /\ [][Next]_vars

-----------------------------------------------------------------------------
\* The queue of a thread holds exactly the mutexes it owns, each once: its end
\* frees all of them and no other (SDK_ASSERT in OSi_UnlockAllMutex), and a
\* thread that has ended owns nothing.
QueueIsOwned ==
  \A t \in Thread :
    /\ ToSet(mutexQueue[t]) = {m \in Mutex : owner[m] = t}
    /\ \A i, j \in 1..Len(mutexQueue[t]) : mutexQueue[t][i] = mutexQueue[t][j] => i = j
    /\ t \in ended => mutexQueue[t] = <<>>

\* A free mutex has no count left over, which the next owner would have to
\* unlock too, and an owned one has a count.
FreeIsZero == \A m \in Mutex : owner[m] = NULL <=> count[m] = 0

\* Nobody waits for a free mutex, and who sleeps waits for the mutex it wants.
NobodyForgotten ==
  /\ \A m \in Mutex : owner[m] = NULL => waiters[m] = {}
  /\ \A t \in asleep : want[t] # NULL /\ t \in waiters[want[t]]

\* A mutex goes from an owner only to nobody, and, while the owner lives, only
\* when the owner has unlocked it as often as locked it.
KeptUntilUnlocked ==
  [][\A m \in Mutex : owner[m] # NULL /\ owner'[m] # owner[m] =>
       owner'[m] = NULL /\ (count[m] = 1 \/ owner[m] \in ended')]_vars
=============================================================================
