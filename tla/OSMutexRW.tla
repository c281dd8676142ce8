------------------------------ MODULE OSMutexRW ------------------------------
(* The read and write locks of libraries/os/src/os_mutex.c, with the links by *)
(* which a thread knows the mutexes it owns.                                  *)
(*                                                                            *)
(* A call runs with interrupts disabled until it returns or sleeps.  A mutex  *)
(* is used by these calls alone, a thread unlocks only what it holds, and     *)
(* only the thread in mutex->thread converts a lock: a lock converted by      *)
(* another reader has an owner that may not unlock it.  That a thread ends is *)
(* no action; EndFindsItsOwn says what OSi_UnlockAllMutex would find.         *)

EXTENDS Naturals, FiniteSets

CONSTANTS
  Thread,
  Mutex,
  MaxCount,  \* bound: how many locks of a mutex are held at a time
  NULL

Ops == {"R", "W", "RToW", "WToR"}
NoCall == <<"none", NULL>>

VARIABLES
  type,     \* OS_GetMutexType
  count,    \* OS_GetMutexCount
  thread,   \* OSMutex.thread
  next,     \* OSMutex.link.next
  prev,     \* OSMutex.link.prev
  head,     \* OSThread.mutexQueue.head
  tail,     \* OSThread.mutexQueue.tail
  waiters,  \* the threads asleep in OSMutex.queue
  call,     \* per thread: the lock call it sleeps or was resumed in
  reads,    \* what the threads hold, as they know it
  writes

links == <<next, prev, head, tail>>
holds == <<reads, writes>>
vars == <<type, count, thread, links, waiters, call, holds>>

TypeOK ==
  /\ type \in [Mutex -> {"NONE", "R", "W"}]
  /\ count \in [Mutex -> 0..MaxCount]
  /\ thread \in [Mutex -> Thread \cup {NULL}]
  /\ next \in [Mutex -> Mutex \cup {NULL}] /\ prev \in [Mutex -> Mutex \cup {NULL}]
  /\ head \in [Thread -> Mutex \cup {NULL}] /\ tail \in [Thread -> Mutex \cup {NULL}]
  /\ waiters \in [Mutex -> SUBSET Thread]
  /\ call \in [Thread -> (Ops \X Mutex) \cup {NoCall}]
  /\ reads \in [Thread -> [Mutex -> 0..MaxCount]]
  /\ writes \in [Thread -> [Mutex -> 0..MaxCount]]

Init ==
  /\ type = [m \in Mutex |-> "NONE"]
  /\ count = [m \in Mutex |-> 0]
  /\ thread = [m \in Mutex |-> NULL]
  /\ next = [m \in Mutex |-> NULL] /\ prev = [m \in Mutex |-> NULL]
  /\ head = [t \in Thread |-> NULL] /\ tail = [t \in Thread |-> NULL]
  /\ waiters = [m \in Mutex |-> {}]
  /\ call = [t \in Thread |-> NoCall]
  /\ reads = [t \in Thread |-> [m \in Mutex |-> 0]]
  /\ writes = [t \in Thread |-> [m \in Mutex |-> 0]]

-----------------------------------------------------------------------------
(* The owner's queue of mutexes.                                              *)

\* Field f of p, when there is a p.
SetLink(f, p, value) == IF p = NULL THEN f ELSE [f EXCEPT ![p] = value]

OSi_EnqueueTail(t, m) ==
  /\ head' = IF tail[t] = NULL THEN [head EXCEPT ![t] = m] ELSE head
  /\ next' = [SetLink(next, tail[t], m) EXCEPT ![m] = NULL]
  /\ prev' = [prev EXCEPT ![m] = tail[t]]
  /\ tail' = [tail EXCEPT ![t] = m]

\* The links are read first, so that t needs not be the thread m is linked in.
OSi_DequeueItem(t, m) ==
  /\ tail' = IF next[m] = NULL THEN [tail EXCEPT ![t] = prev[m]] ELSE tail
  /\ prev' = SetLink(prev, next[m], prev[m])
  /\ head' = IF prev[m] = NULL THEN [head EXCEPT ![t] = next[m]] ELSE head
  /\ next' = SetLink(next, prev[m], next[m])

\* The mutexes OSi_UnlockAllMutex takes from the queue of t.
Linked(t) ==
  LET item[n \in 0..Cardinality(Mutex)] ==
        IF n = 0 THEN head[t]
        ELSE IF item[n - 1] = NULL THEN NULL ELSE next[item[n - 1]]
  IN {item[n] : n \in DOMAIN item} \ {NULL}

-----------------------------------------------------------------------------
(* Slips one could make in this code; no action of Next uses them.  For each  *)
(* there is a property that is checked to be violated when it is made.        *)

\* A writer does not see the readers.
LocksOverReaders(t, m, op) ==
  CASE op = "R"    -> type[m] # "W"
    [] op = "W"    -> type[m] # "W" \/ thread[m] = t
    [] op = "RToW" -> type[m] = "R" /\ count[m] = 1 /\ waiters[m] = {}
    [] op = "WToR" -> type[m] = "W" /\ count[m] = 1 /\ waiters[m] = {}

\* Who waits for a freed mutex is not woken.
FreeSilently(t, m) ==
  /\ OSi_DequeueItem(t, m)
  /\ thread' = [thread EXCEPT ![m] = NULL]
  /\ type' = [type EXCEPT ![m] = "NONE"]
  /\ UNCHANGED waiters

\* Every unlock wakes who waits.
LeaveWaking(m) ==
  /\ waiters' = [waiters EXCEPT ![m] = {}]
  /\ UNCHANGED <<type, thread, links>>

-----------------------------------------------------------------------------
(* Locking and converting.                                                    *)

\* The Try function of op returns TRUE.
Locks(t, m, op) ==
  CASE op = "R"    -> type[m] # "W"
    [] op = "W"    -> type[m] = "NONE" \/ (type[m] = "W" /\ thread[m] = t)
    [] op = "RToW" -> type[m] = "R" /\ count[m] = 1 /\ waiters[m] = {}
    [] op = "WToR" -> type[m] = "W" /\ count[m] = 1 /\ waiters[m] = {}

\* The first to lock owns it,
Own(t, m, op) ==
  /\ thread' = [thread EXCEPT ![m] = t]
  /\ type' = [type EXCEPT ![m] = op]
  /\ count' = [count EXCEPT ![m] = 1]
  /\ OSi_EnqueueTail(t, m)

\* the others are counted.
Join(m) ==
  /\ count[m] < MaxCount
  /\ count' = [count EXCEPT ![m] = @ + 1]
  /\ UNCHANGED <<type, thread, links>>

Convert(m, to) ==
  /\ type' = [type EXCEPT ![m] = to]
  /\ UNCHANGED <<count, thread, links>>

\* What the Try functions do before they return TRUE.
TryLock(t, m, op) ==
  /\ Locks(t, m, op)
  /\ \/ op \in {"R", "W"} /\ type[m] = "NONE" /\ Own(t, m, op)
     \/ op \in {"R", "W"} /\ type[m] # "NONE" /\ Join(m)
     \/ op = "RToW" /\ Convert(m, "W")
     \/ op = "WToR" /\ Convert(m, "R")
  /\ reads' = [reads EXCEPT ![t][m] = CASE op \in {"R", "WToR"} -> @ + 1 [] op = "RToW" -> @ - 1 [] OTHER -> @]
  /\ writes' = [writes EXCEPT ![t][m] = CASE op \in {"W", "RToW"} -> @ + 1 [] op = "WToR" -> @ - 1 [] OTHER -> @]

\* A thread may call op: it converts what it holds and is known to own.
Calls(t, m, op) ==
  /\ op = "RToW" => reads[t][m] > 0 /\ thread[m] = t
  /\ op = "WToR" => writes[t][m] > 0

Awake(t) == \A m \in Mutex : t \notin waiters[m]

\* OS_TryLockMutexR, -W, -FromRToW, -FromWToR; when they fail nothing happens.
OS_TryLockMutex(t, m, op) ==
  /\ call[t] = NoCall /\ Calls(t, m, op)
  /\ TryLock(t, m, op)
  /\ UNCHANGED <<waiters, call>>

\* OS_LockMutexR and so on, called or resumed: it tries, or sleeps to try again.
OS_LockMutex(t, m, op) ==
  /\ Awake(t)
  /\ call[t] = <<op, m>> \/ (call[t] = NoCall /\ Calls(t, m, op))
  /\ \/ /\ TryLock(t, m, op)
        /\ call' = [call EXCEPT ![t] = NoCall]
        /\ UNCHANGED waiters
     \/ /\ ~Locks(t, m, op)
        /\ call' = [call EXCEPT ![t] = <<op, m>>]
        /\ waiters' = [waiters EXCEPT ![m] = @ \cup {t}]
        /\ UNCHANGED <<type, count, thread, links, holds>>

-----------------------------------------------------------------------------
(* Unlocking.                                                                 *)

\* The last lock is given up: all who wait look again.
Free(t, m) ==
  /\ OSi_DequeueItem(t, m)
  /\ thread' = [thread EXCEPT ![m] = NULL]
  /\ type' = [type EXCEPT ![m] = "NONE"]
  /\ waiters' = [waiters EXCEPT ![m] = {}]

Leave(m) == UNCHANGED <<type, thread, links, waiters>>

\* OS_UnlockMutexR, -W, -RW, by a thread that holds such a lock.
OSi_UnlockMutexCore(t, m, kind) ==
  /\ call[t] = NoCall
  /\ kind = "R" => reads[t][m] > 0
  /\ kind = "W" => writes[t][m] > 0
  /\ kind = "RW" => reads[t][m] + writes[t][m] > 0
  /\ kind \in {type[m], "RW"}
  /\ type[m] = "R" \/ (type[m] = "W" /\ thread[m] = t)
  /\ count' = [count EXCEPT ![m] = @ - 1]
  /\ \/ count[m] = 1 /\ Free(t, m)
     \/ count[m] # 1 /\ Leave(m)
  /\ reads' = [reads EXCEPT ![t][m] = IF type[m] = "R" THEN @ - 1 ELSE @]
  /\ writes' = [writes EXCEPT ![t][m] = IF type[m] = "W" THEN @ - 1 ELSE @]
  /\ UNCHANGED call

Next ==
  \E t \in Thread, m \in Mutex :
    \/ \E op \in Ops : OS_TryLockMutex(t, m, op) \/ OS_LockMutex(t, m, op)
    \/ \E kind \in {"R", "W", "RW"} : OSi_UnlockMutexCore(t, m, kind)

Spec == Init /\ [][Next]_vars

-----------------------------------------------------------------------------
\* While a thread holds the write lock no other thread holds any lock, through
\* recursive locks, several readers and conversions.
WritersExclude ==
  \A m \in Mutex, t, u \in Thread :
    t # u /\ writes[t][m] > 0 => reads[u][m] + writes[u][m] = 0

\* The locks of m that the threads hold: a recursive lock is held several times.
ReadLocks(m) == UNION {{t} \X (1..reads[t][m]) : t \in Thread}
WriteLocks(m) == UNION {{t} \X (1..writes[t][m]) : t \in Thread}

\* The count is the number of locks the threads hold, and the type tells what
\* they hold: who unlocks is never turned away (OS_TWarning in the code).
CountIsHeld ==
  \A m \in Mutex :
    LET r == ReadLocks(m)
        w == WriteLocks(m)
    IN /\ count[m] = Cardinality(r) + Cardinality(w)
       /\ type[m] = (CASE r # {} -> "R" [] w # {} -> "W" [] OTHER -> "NONE")
       /\ \A lock \in w : lock[1] = thread[m]

\* A writer is alone, and the count is that of the locks the threads hold.
LocksAgree == TypeOK /\ WritersExclude /\ CountIsHeld

\* No thread sleeps for a read or write lock that is free.
NoLockForgotten == \A m \in Mutex : type[m] = "NONE" => waiters[m] = {}

\* A thread that has to wait in OS_LockMutexFromRToW or -FromWToR waits for
\* ever: only a free mutex wakes, and the thread itself holds it.
ConvertingSleepsForever ==
  [][\A t \in Thread, m \in Mutex :
       call[t] \in {"RToW", "WToR"} \X {m} /\ t \in waiters[m] => t \in waiters'[m]]_vars

\* SDK_ASSERT(mutex->thread == thread) in OSi_UnlockAllMutex, for a thread that
\* ends when it has unlocked all it locked.
EndFindsItsOwn ==
  \A t \in Thread :
    call[t] = NoCall /\ (\A m \in Mutex : reads[t][m] + writes[t][m] = 0) =>
      \A m \in Linked(t) : thread[m] = t
=============================================================================
