---------------------------- MODULE OSMutexProofs ----------------------------
(* Proofs about the parts of MCMutexes, for any number of threads and mutexes: *)
(* about the plain mutexes of OSMutex, and the read and write locks of         *)
(* OSMutexRW.                                                                  *)

EXTENDS MCMutexes, OSSequenceLemmas, FiniteSetTheorems

\* What is said of the mutexes and their owners, and of those who wait.
OwnerTypes ==
  /\ owner \in [Mutex -> Thread \cup {NULL}]
  /\ count \in [Mutex -> 0..MaxCount]
  /\ mutexQueue \in [Thread -> Seq(Mutex)]

OwnersOK == OwnerTypes /\ QueueIsOwned /\ FreeIsZero

IInv == TypeOK /\ QueueIsOwned /\ FreeIsZero /\ NobodyForgotten

LEMMA InitImpliesIInv == Init => IInv
<1> SUFFICES ASSUME Init PROVE IInv
  OBVIOUS
<1> USE MutexAssumption DEF MutexAssumption, Init
<1>1. <<>> \in Seq(Mutex)
  OBVIOUS
<1>2. TypeOK
  BY <1>1 DEF TypeOK
<1>3. ASSUME NEW t \in Thread PROVE mutexQueue[t] = <<>> /\ ToSet(mutexQueue[t]) = {}
  BY DEF ToSet
<1>4. ASSUME NEW t \in Thread PROVE ToSet(mutexQueue[t]) = {m \in Mutex : owner[m] = t}
  BY <1>3
<1>5. QueueIsOwned
  BY <1>3, <1>4 DEF QueueIsOwned
<1>6. FreeIsZero /\ NobodyForgotten
  BY DEF FreeIsZero, NobodyForgotten
<1> QED BY <1>2, <1>5, <1>6 DEF IInv

LEMMA OwnersFollow == IInv => OwnersOK
BY DEF IInv, TypeOK, OwnersOK, OwnerTypes

-----------------------------------------------------------------------------
(* What the calls do to the mutexes and their owners.                         *)

\* A thread takes a free mutex.
LEMMA TakeKeepsOwners ==
  ASSUME OwnersOK, NEW t \in Thread, NEW m \in Mutex, owner[m] = NULL,
         t \notin ended, ended' = ended, Take(t, m)
  PROVE  OwnersOK'
<1> USE DEF OwnersOK, OwnerTypes
<1>1. /\ owner' = [owner EXCEPT ![m] = t]
      /\ count' = [count EXCEPT ![m] = count[m] + 1]
      /\ mutexQueue' = [mutexQueue EXCEPT ![t] = Append(mutexQueue[t], m)]
  BY DEF Take
<1>2. m \notin ToSet(mutexQueue[t])
  BY MutexAssumption DEF QueueIsOwned, MutexAssumption
<1>3. EachOnce(mutexQueue[t])
  BY DEF QueueIsOwned, EachOnce
<1>4. /\ Append(mutexQueue[t], m) \in Seq(Mutex)
      /\ ToSet(Append(mutexQueue[t], m)) = ToSet(mutexQueue[t]) \cup {m}
      /\ EachOnce(Append(mutexQueue[t], m))
  BY <1>2, <1>3, AppendOnce
<1>5. count[m] = 0
  BY DEF FreeIsZero
<1>6. OwnerTypes'
  BY <1>1, <1>4, <1>5, MutexAssumption DEF MutexAssumption
<1>7. FreeIsZero'
  BY <1>1, <1>5, MutexAssumption DEF FreeIsZero, MutexAssumption
<1>8. ASSUME NEW u \in Thread
      PROVE  /\ ToSet(mutexQueue'[u]) = {n \in Mutex : owner'[n] = u}
             /\ EachOnce(mutexQueue'[u])
             /\ u \in ended => mutexQueue'[u] = <<>>
  <2>1. CASE u = t
    <3>1. mutexQueue'[u] = Append(mutexQueue[t], m)
      BY <1>1, <2>1
    <3>2. {n \in Mutex : owner'[n] = t} = {n \in Mutex : owner[n] = t} \cup {m}
      BY <1>1
    <3> QED BY <1>4, <2>1, <3>1, <3>2 DEF QueueIsOwned
  <2>2. CASE u # t
    <3>1. mutexQueue'[u] = mutexQueue[u]
      BY <1>1, <2>2
    <3>2. {n \in Mutex : owner'[n] = u} = {n \in Mutex : owner[n] = u}
      BY <1>1, <2>2, MutexAssumption DEF MutexAssumption
    <3> QED BY <3>1, <3>2 DEF QueueIsOwned, EachOnce
  <2> QED BY <2>1, <2>2
<1>9. QueueIsOwned'
  BY <1>1, <1>8 DEF QueueIsOwned, EachOnce
<1> QED BY <1>6, <1>7, <1>9

\* The owner locks it again, or unlocks it without giving it up.
LEMMA CountingKeepsOwners ==
  ASSUME OwnersOK, NEW m \in Mutex, NEW c \in 1..MaxCount, owner[m] # NULL,
         UNCHANGED <<owner, mutexQueue, ended>>, count' = [count EXCEPT ![m] = c]
  PROVE  OwnersOK'
<1> USE DEF OwnersOK, OwnerTypes
<1>1. OwnerTypes'
  OBVIOUS
<1>2. FreeIsZero'
  BY DEF FreeIsZero
<1>3. QueueIsOwned'
  BY DEF QueueIsOwned
<1> QED BY <1>1, <1>2, <1>3

LEMMA LocksKeepsOwners ==
  ASSUME OwnersOK, NEW t \in Thread, NEW m \in Mutex, t \notin ended, ended' = ended, Locks(t, m)
  PROVE  OwnersOK'
<1>1. CASE owner[m] = NULL /\ Take(t, m)
  BY <1>1, TakeKeepsOwners
<1>2. CASE owner[m] = t /\ LockAgain(m)
  <2>1. count[m] + 1 \in 1..MaxCount
    BY <1>2, MutexAssumption DEF LockAgain, OwnersOK, OwnerTypes, MutexAssumption
  <2>2. owner[m] # NULL
    BY <1>2, MutexAssumption DEF MutexAssumption
  <2> QED BY <1>2, <2>1, <2>2, CountingKeepsOwners DEF LockAgain
<1> QED BY <1>1, <1>2 DEF Locks

\* The owner gives it up.
LEMMA UnlockKeepsOwners ==
  ASSUME OwnersOK, NEW t \in Thread, NEW m \in Mutex, owner[m] = t, ended' = ended,
         owner' = [owner EXCEPT ![m] = NULL],
         count' = [count EXCEPT ![m] = 0],
         mutexQueue' = [mutexQueue EXCEPT ![t] = RemoveFirst(mutexQueue[t], m)]
  PROVE  OwnersOK'
<1> USE DEF OwnersOK, OwnerTypes
<1>1. EachOnce(mutexQueue[t])
  BY DEF QueueIsOwned, EachOnce
<1>2. /\ RemoveFirst(mutexQueue[t], m) \in Seq(Mutex)
      /\ EachOnce(RemoveFirst(mutexQueue[t], m))
      /\ ToSet(RemoveFirst(mutexQueue[t], m)) = ToSet(mutexQueue[t]) \ {m}
  BY <1>1, RemoveFirstOnce, RemoveFirstMembers
<1>3. t \notin ended
  <2>1. m \in ToSet(mutexQueue[t])
    BY DEF QueueIsOwned
  <2>2. ToSet(<<>>) = {}
    BY DEF ToSet
  <2> QED BY <2>1, <2>2 DEF QueueIsOwned
<1>4. OwnerTypes'
  BY <1>2, MutexAssumption DEF MutexAssumption
<1>5. FreeIsZero'
  BY DEF FreeIsZero
<1>6. ASSUME NEW u \in Thread
      PROVE  /\ ToSet(mutexQueue'[u]) = {n \in Mutex : owner'[n] = u}
             /\ EachOnce(mutexQueue'[u])
             /\ u \in ended => mutexQueue'[u] = <<>>
  <2>1. CASE u = t
    <3>1. mutexQueue'[u] = RemoveFirst(mutexQueue[t], m)
      BY <2>1
    <3>2. {n \in Mutex : owner'[n] = t} = {n \in Mutex : owner[n] = t} \ {m}
      BY MutexAssumption DEF MutexAssumption
    <3> QED BY <1>2, <1>3, <2>1, <3>1, <3>2 DEF QueueIsOwned
  <2>2. CASE u # t
    <3>1. mutexQueue'[u] = mutexQueue[u]
      BY <2>2
    <3>2. {n \in Mutex : owner'[n] = u} = {n \in Mutex : owner[n] = u}
      BY <2>2, MutexAssumption DEF MutexAssumption
    <3> QED BY <3>1, <3>2 DEF QueueIsOwned, EachOnce
  <2> QED BY <2>1, <2>2
<1>7. QueueIsOwned'
  BY <1>6 DEF QueueIsOwned, EachOnce
<1> QED BY <1>4, <1>5, <1>7

\* A thread ends.
LEMMA EndKeepsOwners ==
  ASSUME OwnersOK, NEW t \in Thread, OSi_UnlockAllMutex(t), ended' = ended \cup {t}
  PROVE  OwnersOK'
<1> USE DEF OwnersOK, OwnerTypes
<1> DEFINE owned == ToSet(mutexQueue[t])
<1>1. owned = {m \in Mutex : owner[m] = t}
  BY DEF QueueIsOwned
<1>2. /\ owner' = [m \in Mutex |-> IF m \in owned THEN NULL ELSE owner[m]]
      /\ count' = [m \in Mutex |-> IF m \in owned THEN 0 ELSE count[m]]
      /\ mutexQueue' = [mutexQueue EXCEPT ![t] = <<>>]
  BY DEF OSi_UnlockAllMutex
<1> HIDE DEF owned
<1>3. <<>> \in Seq(Mutex)
  OBVIOUS
<1>4. OwnerTypes'
  BY <1>2, <1>3, MutexAssumption DEF MutexAssumption
<1>5. FreeIsZero'
  BY <1>2 DEF FreeIsZero
<1>6. ASSUME NEW u \in Thread
      PROVE  /\ ToSet(mutexQueue'[u]) = {n \in Mutex : owner'[n] = u}
             /\ EachOnce(mutexQueue'[u])
             /\ u \in ended' => mutexQueue'[u] = <<>>
  <2>1. CASE u = t
    <3>1. mutexQueue'[u] = <<>>
      BY <1>2, <2>1
    <3>2. ToSet(<<>>) = {} /\ EachOnce(<<>>)
      BY DEF ToSet, EachOnce
    <3>3. {n \in Mutex : owner'[n] = t} = {}
      BY <1>1, <1>2, MutexAssumption DEF MutexAssumption
    <3> QED BY <2>1, <3>1, <3>2, <3>3
  <2>2. CASE u # t
    <3>1. mutexQueue'[u] = mutexQueue[u] /\ (u \in ended' => u \in ended)
      BY <1>2, <2>2
    <3>2. {n \in Mutex : owner'[n] = u} = {n \in Mutex : owner[n] = u}
      BY <1>1, <1>2, <2>2, MutexAssumption DEF MutexAssumption
    <3> QED BY <3>1, <3>2 DEF QueueIsOwned, EachOnce
  <2> QED BY <2>1, <2>2
<1>7. QueueIsOwned'
  BY <1>6 DEF QueueIsOwned, EachOnce
<1> QED BY <1>4, <1>5, <1>7

-----------------------------------------------------------------------------
(* Every step keeps the invariant.                                            *)

WaitTypes ==
  /\ waiters \in [Mutex -> SUBSET Thread]
  /\ asleep \subseteq Thread
  /\ want \in [Thread -> Mutex \cup {NULL}]
  /\ killed \subseteq Thread
  /\ ended \subseteq Thread

\* The owners and the waiting are looked at apart.
LEMMA Parts ==
  ASSUME OwnersOK', WaitTypes', NobodyForgotten'
  PROVE  IInv'
BY DEF IInv, OwnersOK, OwnerTypes, WaitTypes, TypeOK

LEMMA LockStep ==
  ASSUME IInv, NEW t \in Thread, NEW m \in Mutex, OS_LockMutex(t, m)
  PROVE  IInv'
<1> USE DEF IInv, TypeOK, Runs
<1>1. ended' = ended /\ killed' = killed
  BY DEF OS_LockMutex
<1>2. CASE /\ Locks(t, m)
           /\ want' = [want EXCEPT ![t] = NULL]
           /\ UNCHANGED <<waiters, asleep>>
  <2>1. t \notin ended /\ t \notin asleep
    BY DEF OS_LockMutex
  <2>2. OwnersOK'
    BY <1>1, <1>2, <2>1, OwnersFollow, LocksKeepsOwners
  <2>3. WaitTypes'
    BY <1>1, <1>2 DEF WaitTypes
  <2>4. owner[m] \in {NULL, t} /\ owner' \in [Mutex -> Thread \cup {NULL}]
    BY <1>2, <2>2 DEF Locks, OwnersOK, OwnerTypes
  <2>5. \A n \in Mutex : n # m => owner'[n] = owner[n]
    BY <1>2 DEF Locks, Take, LockAgain
  <2>6. owner'[m] = t
    BY <1>2 DEF Locks, Take, LockAgain
  <2>7. ASSUME NEW n \in Mutex, owner'[n] = NULL PROVE waiters'[n] = {}
    <3>1. n # m
      BY <2>6, <2>7, MutexAssumption DEF MutexAssumption
    <3>2. owner[n] = NULL /\ waiters' = waiters
      BY <1>2, <2>5, <2>7, <3>1
    <3> QED BY <3>2 DEF NobodyForgotten
  <2>8. ASSUME NEW u \in asleep' PROVE want'[u] # NULL /\ u \in waiters'[want'[u]]
    <3>1. u \in asleep /\ u # t
      BY <1>2, <2>1
    <3> QED BY <1>2, <3>1 DEF NobodyForgotten
  <2> QED BY <2>2, <2>3, <2>7, <2>8, Parts DEF NobodyForgotten
<1>3. CASE /\ owner[m] \notin {NULL, t}
           /\ want' = [want EXCEPT ![t] = m]
           /\ waiters' = [waiters EXCEPT ![m] = @ \cup {t}]
           /\ asleep' = asleep \cup {t}
           /\ UNCHANGED mutexVars
  <2>1. OwnersOK'
    BY <1>1, <1>3, OwnersFollow
       DEF OwnersOK, OwnerTypes, QueueIsOwned, FreeIsZero, mutexVars
  <2>2. WaitTypes'
    BY <1>1, <1>3 DEF WaitTypes
  <2>3. want[t] \in {NULL, m}
    BY DEF OS_LockMutex
  <2>4. \A n \in Mutex : owner'[n] = NULL => waiters'[n] = {}
    BY <1>3 DEF NobodyForgotten, mutexVars
  <2>5. ASSUME NEW u \in asleep' PROVE want'[u] # NULL /\ u \in waiters'[want'[u]]
    <3>1. CASE u = t
      BY <1>3, <3>1, MutexAssumption DEF MutexAssumption
    <3>2. CASE u # t
      <4>1. u \in asleep /\ want'[u] = want[u] /\ want[u] \in Mutex /\ u \in waiters[want[u]]
        BY <1>3, <3>2 DEF NobodyForgotten
      <4> QED BY <1>3, <4>1, MutexAssumption DEF MutexAssumption
    <3> QED BY <3>1, <3>2
  <2> QED BY <2>1, <2>2, <2>4, <2>5, Parts DEF NobodyForgotten
<1> QED BY <1>2, <1>3 DEF OS_LockMutex

LEMMA TryLockStep ==
  ASSUME IInv, NEW t \in Thread, NEW m \in Mutex, OS_TryLockMutex(t, m)
  PROVE  IInv'
<1> USE DEF IInv, TypeOK, Runs, OS_TryLockMutex
<1>1. OwnersOK'
  BY OwnersFollow, LocksKeepsOwners
<1>2. WaitTypes'
  BY DEF WaitTypes
<1>3. \A n \in Mutex : n # m => owner'[n] = owner[n]
  BY DEF Locks, Take, LockAgain
<1>4. owner'[m] = t
  BY DEF Locks, Take, LockAgain
<1>5. NobodyForgotten'
  BY <1>3, <1>4, MutexAssumption DEF NobodyForgotten, MutexAssumption
<1> QED BY <1>1, <1>2, <1>5, Parts

LEMMA UnlockStep ==
  ASSUME IInv, NEW t \in Thread, NEW m \in Mutex, OS_UnlockMutex(t, m)
  PROVE  IInv'
<1> USE DEF IInv, TypeOK
<1>1. /\ owner[m] = t
      /\ count' = [count EXCEPT ![m] = count[m] - 1]
      /\ UNCHANGED <<want, killed, ended>>
  BY DEF OS_UnlockMutex
<1>2. owner[m] # NULL /\ count[m] \in 1..MaxCount
  BY <1>1, MutexAssumption DEF MutexAssumption, FreeIsZero
<1>3. CASE count[m] = 1
  <2>1. /\ owner' = [owner EXCEPT ![m] = NULL]
        /\ mutexQueue' = [mutexQueue EXCEPT ![t] = RemoveFirst(mutexQueue[t], m)]
        /\ asleep' = asleep \ waiters[m]
        /\ waiters' = [waiters EXCEPT ![m] = {}]
    BY <1>3 DEF OS_UnlockMutex
  <2>2. count' = [count EXCEPT ![m] = 0]
    BY <1>1, <1>3
  <2>3. OwnersOK'
    BY <1>1, <2>1, <2>2, OwnersFollow, UnlockKeepsOwners
  <2>4. WaitTypes'
    BY <1>1, <2>1 DEF WaitTypes
  <2>5. \A n \in Mutex : owner'[n] = NULL => waiters'[n] = {}
    BY <2>1 DEF NobodyForgotten
  <2>6. ASSUME NEW u \in asleep' PROVE want'[u] # NULL /\ u \in waiters'[want'[u]]
    <3>1. u \in asleep /\ want[u] \in Mutex /\ u \in waiters[want[u]] /\ u \notin waiters[m]
      BY <2>1 DEF NobodyForgotten
    <3>2. want[u] # NULL /\ want'[u] = want[u]
      BY <1>1, <3>1, MutexAssumption DEF MutexAssumption
    <3> QED BY <2>1, <3>1, <3>2
  <2> QED BY <2>3, <2>4, <2>5, <2>6, Parts DEF NobodyForgotten
<1>4. CASE count[m] # 1
  <2>1. UNCHANGED <<owner, mutexQueue, asleep, waiters>>
    BY <1>4 DEF OS_UnlockMutex
  <2>2. count[m] - 1 \in 1..MaxCount
    BY <1>2, <1>4, MutexAssumption DEF MutexAssumption
  <2>3. OwnersOK'
    BY <1>1, <1>2, <2>1, <2>2, OwnersFollow, CountingKeepsOwners
  <2>4. WaitTypes' /\ NobodyForgotten'
    BY <1>1, <2>1 DEF WaitTypes, NobodyForgotten
  <2> QED BY <2>3, <2>4, Parts
<1> QED BY <1>3, <1>4

LEMMA EndStep ==
  ASSUME IInv, NEW t \in Thread, End(t)
  PROVE  IInv'
<1> USE DEF IInv, TypeOK
<1> DEFINE owned == ToSet(mutexQueue[t])
           woken == UNION {waiters[m] : m \in owned}
<1>1. /\ owner' = [m \in Mutex |-> IF m \in owned THEN NULL ELSE owner[m]]
      /\ waiters' = [m \in Mutex |-> IF m \in owned THEN {} ELSE waiters[m] \ {t}]
      /\ asleep' = asleep \ (woken \cup {t})
  BY DEF End, OSi_UnlockAllMutex
<1>2. OSi_UnlockAllMutex(t) /\ ended' = ended \cup {t} /\ killed' = killed \ {t}
      /\ want' = [want EXCEPT ![t] = NULL]
  BY DEF End
<1>3. \A m \in owned : waiters[m] \subseteq woken
  OBVIOUS
<1> HIDE DEF owned, woken
<1>4. OwnersOK'
  BY <1>2, OwnersFollow, EndKeepsOwners
<1>5. WaitTypes'
  BY <1>1, <1>2 DEF WaitTypes
<1>6. \A n \in Mutex : owner'[n] = NULL => waiters'[n] = {}
  BY <1>1 DEF NobodyForgotten
<1>7. ASSUME NEW u \in asleep' PROVE want'[u] # NULL /\ u \in waiters'[want'[u]]
  <2>1. u \in asleep /\ u # t /\ u \notin woken
    BY <1>1
  <2>2. want'[u] = want[u] /\ want[u] \in Mutex /\ want[u] # NULL /\ u \in waiters[want[u]]
    BY <1>2, <2>1, MutexAssumption DEF NobodyForgotten, MutexAssumption
  <2>3. want[u] \notin owned
    BY <1>3, <2>1, <2>2
  <2> QED BY <1>1, <2>1, <2>2, <2>3
<1> QED BY <1>4, <1>5, <1>6, <1>7, Parts DEF NobodyForgotten

\* What happens to a thread that runs no call of a mutex.
LEMMA OtherStep ==
  ASSUME IInv, NEW t \in Thread, OS_KillThread(t) \/ OS_CreateThread(t) \/ OS_WakeupThreadDirect(t)
  PROVE  IInv'
<1> USE DEF IInv, TypeOK
<1>1. UNCHANGED <<owner, count, waiters, want>> /\ asleep' \subseteq asleep
  BY DEF OS_KillThread, OS_CreateThread, OS_WakeupThreadDirect, mutexVars
<1>2. mutexQueue' = mutexQueue /\ ended' \subseteq ended
  <2>1. CASE OS_CreateThread(t)
    <3>1. mutexQueue[t] = <<>>
      BY <2>1 DEF OS_CreateThread, QueueIsOwned
    <3>2. mutexQueue' = [mutexQueue EXCEPT ![t] = <<>>]
      BY <2>1 DEF OS_CreateThread
    <3>3. mutexQueue' = mutexQueue
      BY <3>1, <3>2
    <3> QED BY <2>1, <3>3 DEF OS_CreateThread
  <2>2. CASE OS_KillThread(t) \/ OS_WakeupThreadDirect(t)
    BY <2>2 DEF OS_KillThread, OS_WakeupThreadDirect, mutexVars
  <2> QED BY <2>1, <2>2
<1>3. killed' \subseteq Thread
  BY DEF OS_KillThread, OS_CreateThread, OS_WakeupThreadDirect
<1>4. QueueIsOwned'
  BY <1>1, <1>2 DEF QueueIsOwned
<1>5. OwnersOK'
  BY <1>1, <1>2, <1>4 DEF OwnersOK, OwnerTypes, FreeIsZero
<1>6. WaitTypes' /\ NobodyForgotten'
  BY <1>1, <1>2, <1>3 DEF WaitTypes, NobodyForgotten
<1> QED BY <1>5, <1>6, Parts

LEMMA NextKeepsIInv == IInv /\ [Next]_vars => IInv'
<1> SUFFICES ASSUME IInv, [Next]_vars PROVE IInv'
  OBVIOUS
<1>1. CASE UNCHANGED vars
  BY <1>1 DEF IInv, TypeOK, QueueIsOwned, FreeIsZero, NobodyForgotten, vars
<1>2. CASE Next
  <2>1. PICK t \in Thread :
           \/ \E m \in Mutex : OS_LockMutex(t, m) \/ OS_TryLockMutex(t, m) \/ OS_UnlockMutex(t, m)
           \/ OS_ExitThread(t) \/ OS_DestroyThread(t) \/ OS_KillThread(t)
           \/ OS_CreateThread(t) \/ OS_WakeupThreadDirect(t)
    BY <1>2 DEF Next
  <2>2. CASE \E m \in Mutex : OS_LockMutex(t, m)
    BY <2>2, LockStep
  <2>3. CASE \E m \in Mutex : OS_TryLockMutex(t, m)
    BY <2>3, TryLockStep
  <2>4. CASE \E m \in Mutex : OS_UnlockMutex(t, m)
    BY <2>4, UnlockStep
  <2>5. CASE OS_ExitThread(t) \/ OS_DestroyThread(t)
    BY <2>5, EndStep DEF OS_ExitThread, OS_DestroyThread
  <2>6. CASE OS_KillThread(t) \/ OS_CreateThread(t) \/ OS_WakeupThreadDirect(t)
    BY <2>6, OtherStep
  <2> QED BY <2>1, <2>2, <2>3, <2>4, <2>5, <2>6
<1> QED BY <1>1, <1>2

LEMMA IInvHolds == Spec => []IInv
<1>1. Init => IInv
  BY InitImpliesIInv
<1>2. IInv /\ [Next]_vars => IInv'
  BY NextKeepsIInv
<1> QED BY <1>1, <1>2, PTL DEF Spec

-----------------------------------------------------------------------------
\* Whatever threads lock, end and are killed, the queue of a thread holds just
\* the mutexes it owns (the assertion of OSi_UnlockAllMutex), and a free mutex
\* has no count left.
THEOREM ExitFreesItsOwn == Spec => [](QueueIsOwned /\ FreeIsZero)
BY IInvHolds, PTL DEF IInv

\* Nobody sleeps in OS_LockMutex on a free mutex.
THEOREM NobodySleepsOnFreeMutex == Spec => []NobodyForgotten
BY IInvHolds, PTL DEF IInv

\* A mutex leaves its owner only when the owner unlocked it as often as it
\* locked it, or has ended.
THEOREM OwnerKeepsMutex == Spec => KeptUntilUnlocked
<1> DEFINE Kept == \A m \in Mutex : owner[m] # NULL /\ owner'[m] # owner[m] =>
                     owner'[m] = NULL /\ (count[m] = 1 \/ owner[m] \in ended')
<1>1. IInv /\ [Next]_vars => [Kept]_vars
  <2> SUFFICES ASSUME IInv, Next PROVE Kept
    OBVIOUS
  <2> USE DEF IInv, TypeOK
  <2> SUFFICES ASSUME NEW n \in Mutex, owner[n] # NULL, owner'[n] # owner[n]
               PROVE  owner'[n] = NULL /\ (count[n] = 1 \/ owner[n] \in ended')
    OBVIOUS
  <2>1. PICK t \in Thread :
           \/ \E m \in Mutex : OS_LockMutex(t, m) \/ OS_TryLockMutex(t, m) \/ OS_UnlockMutex(t, m)
           \/ OS_ExitThread(t) \/ OS_DestroyThread(t) \/ OS_KillThread(t)
           \/ OS_CreateThread(t) \/ OS_WakeupThreadDirect(t)
    BY DEF Next
  <2>2. ASSUME NEW m \in Mutex, OS_LockMutex(t, m) \/ OS_TryLockMutex(t, m) PROVE FALSE
    <3>1. CASE owner[m] = NULL /\ Take(t, m)
      BY <3>1 DEF Take
    <3>2. CASE owner' = owner
      BY <3>2
    <3> QED BY <2>2, <3>1, <3>2 DEF OS_LockMutex, OS_TryLockMutex, Locks, LockAgain, mutexVars
  <2>3. ASSUME NEW m \in Mutex, OS_UnlockMutex(t, m)
        PROVE  owner'[n] = NULL /\ count[n] = 1
    BY <2>3 DEF OS_UnlockMutex
  <2>4. ASSUME End(t) PROVE owner'[n] = NULL /\ owner[n] \in ended'
    <3>1. owner' = [m \in Mutex |-> IF m \in ToSet(mutexQueue[t]) THEN NULL ELSE owner[m]]
      BY <2>4 DEF End, OSi_UnlockAllMutex
    <3>2. n \in ToSet(mutexQueue[t]) /\ owner'[n] = NULL
      BY <3>1
    <3>3. owner[n] = t
      BY <3>2 DEF QueueIsOwned
    <3> QED BY <2>4, <3>2, <3>3 DEF End
  <2>5. CASE OS_KillThread(t) \/ OS_CreateThread(t) \/ OS_WakeupThreadDirect(t)
    BY <2>5 DEF OS_KillThread, OS_CreateThread, OS_WakeupThreadDirect, mutexVars
  <2> QED BY <2>1, <2>2, <2>3, <2>4, <2>5 DEF OS_ExitThread, OS_DestroyThread
<1>2. Spec => [][Kept]_vars
  BY <1>1, IInvHolds, PTL DEF Spec
<1> QED BY <1>2 DEF KeptUntilUnlocked

-----------------------------------------------------------------------------
(* Read and write locks.  What the count, the type and the owner of a mutex   *)
(* say is what the threads hold, and nobody sleeps for a free mutex.          *)

\* The locks of m by a table of who holds how many.
Held(table, m) == UNION {{t} \X (1..table[t][m]) : t \in Thread}

\* What a mutex says, c, ty and o, is what is held, by readers or by a writer.
Agrees(c, ty, o, r, w) ==
  /\ IsFiniteSet(r) /\ IsFiniteSet(w) /\ (r = {} \/ w = {})
  /\ c = Cardinality(r) + Cardinality(w)
  /\ ty = (CASE r # {} -> "R" [] w # {} -> "W" [] OTHER -> "NONE")
  /\ \A lock \in w : lock[1] = o

HeldOK == \A m \in RWMutex : Agrees(locks[m], type[m], thread[m], Held(reads, m), Held(writes, m))

\* A thread asleep to convert a lock still holds it: a lock is converted when it
\* is the only one.
ConvertersHold ==
  \A t \in Thread, m \in RWMutex :
    /\ call[t] = <<"RToW", m>> => reads[t][m] > 0 /\ thread[m] = t
    /\ call[t] = <<"WToR", m>> => writes[t][m] > 0

LocksIInv == RW!TypeOK /\ HeldOK /\ ConvertersHold /\ RW!NoLockForgotten

-----------------------------------------------------------------------------
(* The locks held.                                                            *)

Table == [Thread -> [RWMutex -> Nat]]

LEMMA HeldMembers ==
  ASSUME NEW f \in Table, NEW m \in RWMutex
  PROVE  /\ \A t \in Thread, n \in Nat : <<t, n>> \in Held(f, m) <=> n \in 1..f[t][m]
         /\ \A l \in Held(f, m) : l \in Thread \X Nat /\ l = <<l[1], l[2]>>
BY DEF Held, Table

\* Of two tables one has one lock more, of one mutex.
LEMMA HeldMore ==
  ASSUME NEW f \in Table, NEW t \in Thread, NEW m \in RWMutex, NEW g \in Table,
         g[t][m] = f[t][m] + 1,
         \A u \in Thread, k \in RWMutex : u # t \/ k # m => g[u][k] = f[u][k]
  PROVE  /\ Held(g, m) = Held(f, m) \cup {<<t, g[t][m]>>}
         /\ <<t, g[t][m]>> \notin Held(f, m)
         /\ \A k \in RWMutex \ {m} : Held(g, k) = Held(f, k)
<1>1. f[t][m] \in Nat /\ g[t][m] \in Nat
  BY DEF Table
<1>2. ASSUME NEW u \in Thread, NEW n \in Nat
      PROVE  <<u, n>> \in Held(g, m) <=> <<u, n>> \in Held(f, m) \cup {<<t, g[t][m]>>}
  <2>1. (<<u, n>> \in Held(g, m) <=> n \in 1..g[u][m]) /\ (<<u, n>> \in Held(f, m) <=> n \in 1..f[u][m])
    BY HeldMembers
  <2>2. CASE u = t
    BY <1>1, <2>1, <2>2
  <2>3. CASE u # t
    BY <2>1, <2>3
  <2> QED BY <2>2, <2>3
<1>3. Held(g, m) \subseteq Thread \X Nat /\ Held(f, m) \cup {<<t, g[t][m]>>} \subseteq Thread \X Nat
  <2>1. <<t, g[t][m]>> \in Thread \X Nat
    BY <1>1
  <2> QED BY <2>1, HeldMembers
<1>4. Held(g, m) = Held(f, m) \cup {<<t, g[t][m]>>}
  <2>1. ASSUME NEW l \in Thread \X Nat
        PROVE  l \in Held(g, m) <=> l \in Held(f, m) \cup {<<t, g[t][m]>>}
    <3>1. PICK u \in Thread, n \in Nat : l = <<u, n>>
      OBVIOUS
    <3> QED BY <1>2, <3>1
  <2> QED BY <1>3, <2>1
<1>5. <<t, g[t][m]>> \notin Held(f, m)
  BY <1>1, HeldMembers
<1>6. ASSUME NEW k \in RWMutex \ {m} PROVE Held(g, k) = Held(f, k)
  BY <1>6 DEF Held
<1> QED BY <1>4, <1>5, <1>6

\* A thread's own locks are among those that are counted.
LEMMA HeldAtLeast ==
  ASSUME NEW f \in Table, NEW t \in Thread, NEW m \in RWMutex, IsFiniteSet(Held(f, m))
  PROVE  f[t][m] <= Cardinality(Held(f, m))
<1> DEFINE own == {t} \X (1..f[t][m])
<1>1. f[t][m] \in Nat /\ own \subseteq Held(f, m)
  BY DEF Held, Table
<1>2. IsFiniteSet(1..f[t][m]) /\ Cardinality(1..f[t][m]) = f[t][m]
  <2>1. 1 \in Int /\ f[t][m] \in Int
    BY <1>1
  <2>2. /\ IsFiniteSet(1..f[t][m])
        /\ Cardinality(1..f[t][m]) = IF 1 > f[t][m] THEN 0 ELSE f[t][m] - 1 + 1
    BY <2>1, FS_Interval
  <2> QED BY <1>1, <2>2
<1>3. IsFiniteSet({t}) /\ Cardinality({t}) = 1
  BY FS_Singleton
<1>4. IsFiniteSet(own) /\ Cardinality(own) = f[t][m]
  BY <1>1, <1>2, <1>3, FS_Product
<1> QED BY <1>1, <1>4, FS_Subset

-----------------------------------------------------------------------------
(* What a mutex says.                                                         *)

LEMMA AgreesCases ==
  ASSUME NEW c, NEW ty, NEW o, NEW r, NEW w, Agrees(c, ty, o, r, w)
  PROVE  /\ Cardinality(r) \in Nat /\ Cardinality(w) \in Nat
         /\ \/ ty = "NONE" /\ r = {} /\ w = {} /\ c = 0
            \/ ty = "R" /\ r # {} /\ w = {} /\ c = Cardinality(r) /\ c > 0
            \/ ty = "W" /\ r = {} /\ w # {} /\ c = Cardinality(w) /\ c > 0
<1>1. /\ Cardinality(r) \in Nat /\ Cardinality(w) \in Nat
      /\ (Cardinality(r) = 0 <=> r = {}) /\ (Cardinality(w) = 0 <=> w = {})
  BY FS_CardinalityType, FS_EmptySet DEF Agrees
<1> QED BY <1>1 DEF Agrees

\* A lock more.
LEMMA AgreesMore ==
  ASSUME NEW c, NEW ty, NEW o, NEW r, NEW w, Agrees(c, ty, o, r, w), NEW lock
  PROVE  /\ w = {} /\ lock \notin r => \A p : Agrees(c + 1, "R", p, r \cup {lock}, w)
         /\ r = {} /\ lock \notin w /\ (w = {} \/ lock[1] = o) =>
              Agrees(c + 1, "W", lock[1], r, w \cup {lock})
<1>1. /\ lock \notin r => IsFiniteSet(r \cup {lock}) /\ Cardinality(r \cup {lock}) = Cardinality(r) + 1
      /\ lock \notin w => IsFiniteSet(w \cup {lock}) /\ Cardinality(w \cup {lock}) = Cardinality(w) + 1
  BY FS_AddElement DEF Agrees
<1>2. Cardinality(r) \in Nat /\ Cardinality(w) \in Nat
  BY AgreesCases
<1> QED BY <1>1, <1>2 DEF Agrees

\* A lock less: the last one frees the mutex.
LEMMA AgreesLess ==
  ASSUME NEW c, NEW ty, NEW o, NEW r, NEW w, Agrees(c, ty, o, r, w), NEW lock
  PROVE  /\ lock \in r => /\ c = 1 => \A p : Agrees(0, "NONE", p, r \ {lock}, w)
                          /\ c # 1 => Agrees(c - 1, ty, o, r \ {lock}, w)
         /\ lock \in w => /\ c = 1 => \A p : Agrees(0, "NONE", p, r, w \ {lock})
                          /\ c # 1 => Agrees(c - 1, ty, o, r, w \ {lock})
<1>1. /\ lock \in r => IsFiniteSet(r \ {lock}) /\ Cardinality(r \ {lock}) = Cardinality(r) - 1
      /\ lock \in w => IsFiniteSet(w \ {lock}) /\ Cardinality(w \ {lock}) = Cardinality(w) - 1
  BY FS_RemoveElement DEF Agrees
<1>2. /\ Cardinality(r) \in Nat /\ Cardinality(w) \in Nat
      /\ \/ ty = "NONE" /\ r = {} /\ w = {} /\ c = 0
         \/ ty = "R" /\ r # {} /\ w = {} /\ c = Cardinality(r) /\ c > 0
         \/ ty = "W" /\ r = {} /\ w # {} /\ c = Cardinality(w) /\ c > 0
  BY AgreesCases
<1>3. /\ lock \in r => (r \ {lock} = {} <=> c = 1)
      /\ lock \in w => (w \ {lock} = {} <=> c = 1)
  <2>1. lock \in r => (Cardinality(r \ {lock}) = 0 <=> r \ {lock} = {})
    BY <1>1, FS_EmptySet
  <2>2. lock \in w => (Cardinality(w \ {lock}) = 0 <=> w \ {lock} = {})
    BY <1>1, FS_EmptySet
  <2> QED BY <1>1, <1>2, <2>1, <2>2
<1>4. ASSUME lock \in r
      PROVE  /\ c = 1 => \A p : Agrees(0, "NONE", p, r \ {lock}, w)
             /\ c # 1 => Agrees(c - 1, ty, o, r \ {lock}, w)
  BY <1>1, <1>2, <1>3, <1>4 DEF Agrees
<1>5. ASSUME lock \in w
      PROVE  /\ c = 1 => \A p : Agrees(0, "NONE", p, r, w \ {lock})
             /\ c # 1 => Agrees(c - 1, ty, o, r, w \ {lock})
  BY <1>1, <1>2, <1>3, <1>5 DEF Agrees
<1> QED BY <1>4, <1>5

-----------------------------------------------------------------------------
(* The owner's links.                                                         *)

LinkTypes ==
  /\ next \in [RWMutex -> RWMutex \cup {NULL}] /\ prev \in [RWMutex -> RWMutex \cup {NULL}]
  /\ head \in [Thread -> RWMutex \cup {NULL}] /\ tail \in [Thread -> RWMutex \cup {NULL}]

LEMMA EnqueueTypes ==
  ASSUME LinkTypes, NEW t \in Thread, NEW m \in RWMutex, RW!OSi_EnqueueTail(t, m)
  PROVE  LinkTypes'
<1>1. RW!SetLink(next, tail[t], m) \in [RWMutex -> RWMutex \cup {NULL}]
  BY DEF LinkTypes, RW!SetLink
<1> QED BY <1>1 DEF LinkTypes, RW!OSi_EnqueueTail

LEMMA DequeueTypes ==
  ASSUME LinkTypes, NEW t \in Thread, NEW m \in RWMutex, RW!OSi_DequeueItem(t, m)
  PROVE  LinkTypes'
<1>1. /\ RW!SetLink(prev, next[m], prev[m]) \in [RWMutex -> RWMutex \cup {NULL}]
      /\ RW!SetLink(next, prev[m], next[m]) \in [RWMutex -> RWMutex \cup {NULL}]
  BY DEF LinkTypes, RW!SetLink
<1> QED BY <1>1 DEF LinkTypes, RW!OSi_DequeueItem

-----------------------------------------------------------------------------
(* The calls.                                                                 *)

\* The other mutexes are left alone, and what the others hold.
OthersStay(t, m) ==
  /\ \A k \in RWMutex \ {m} : type'[k] = type[k] /\ locks'[k] = locks[k] /\ thread'[k] = thread[k]
  /\ \A u \in Thread, k \in RWMutex : u # t \/ k # m =>
       reads'[u][k] = reads[u][k] /\ writes'[u][k] = writes[u][k]

Tables ==
  /\ type \in [RWMutex -> {"NONE", "R", "W"}]
  /\ locks \in [RWMutex -> 0..MaxLocks]
  /\ thread \in [RWMutex -> Thread \cup {NULL}]
  /\ reads \in Table /\ writes \in Table

\* The new tables, when the mutex itself is in order.
LEMMA TablesHold ==
  ASSUME MaxLocks \in Nat, HeldOK, NEW t \in Thread, NEW m \in RWMutex, OthersStay(t, m),
         Tables, Tables',
         Agrees(locks'[m], type'[m], thread'[m], Held(reads', m), Held(writes', m)),
         RW!TypeOK
  PROVE  /\ HeldOK'
         /\ reads' \in [Thread -> [RWMutex -> 0..MaxLocks]]
         /\ writes' \in [Thread -> [RWMutex -> 0..MaxLocks]]
<1>1. ASSUME NEW k \in RWMutex
      PROVE  Agrees(locks'[k], type'[k], thread'[k], Held(reads', k), Held(writes', k))
  <2>1. CASE k # m
    <3>1. Held(reads', k) = Held(reads, k) /\ Held(writes', k) = Held(writes, k)
      BY <2>1 DEF Held, OthersStay
    <3> QED BY <2>1, <3>1 DEF HeldOK, OthersStay
  <2> QED BY <2>1
<1>2. HeldOK'
  BY <1>1 DEF HeldOK, Held
<1>3. ASSUME NEW u \in Thread, NEW k \in RWMutex
      PROVE  reads'[u][k] \in 0..MaxLocks /\ writes'[u][k] \in 0..MaxLocks
  <2>1. /\ IsFiniteSet(Held(reads', k)) /\ IsFiniteSet(Held(writes', k))
        /\ locks'[k] = Cardinality(Held(reads', k)) + Cardinality(Held(writes', k))
    BY <1>1 DEF Agrees
  <2>2. Cardinality(Held(reads', k)) \in Nat /\ Cardinality(Held(writes', k)) \in Nat
    BY <2>1, FS_CardinalityType
  <2>3. /\ reads'[u][k] <= Cardinality(Held(reads', k))
        /\ writes'[u][k] <= Cardinality(Held(writes', k))
    BY <2>1, HeldAtLeast DEF Tables
  <2>4. reads'[u][k] \in Nat /\ writes'[u][k] \in Nat /\ locks'[k] \in 0..MaxLocks
    BY DEF Tables, Table
  <2> QED BY <2>1, <2>2, <2>3, <2>4
<1>4. /\ reads' \in [Thread -> [RWMutex -> 0..MaxLocks]]
      /\ writes' \in [Thread -> [RWMutex -> 0..MaxLocks]]
  BY <1>3 DEF Tables, Table
<1> QED BY <1>2, <1>4

\* A thread holds a lock of m, or it does not.
LEMMA HoldsOrNot ==
  ASSUME Tables, HeldOK, NEW t \in Thread, NEW m \in RWMutex
  PROVE  /\ reads[t][m] \in Nat /\ writes[t][m] \in Nat
         /\ reads[t][m] > 0 => <<t, reads[t][m]>> \in Held(reads, m) /\ type[m] = "R"
         /\ writes[t][m] > 0 => /\ <<t, writes[t][m]>> \in Held(writes, m)
                                /\ type[m] = "W" /\ thread[m] = t
<1>1. reads[t][m] \in Nat /\ writes[t][m] \in Nat
  BY DEF Tables, Table
<1>2. /\ reads[t][m] > 0 => <<t, reads[t][m]>> \in Held(reads, m)
      /\ writes[t][m] > 0 => <<t, writes[t][m]>> \in Held(writes, m)
  BY <1>1, HeldMembers DEF Tables
<1>3. Agrees(locks[m], type[m], thread[m], Held(reads, m), Held(writes, m))
  BY DEF HeldOK
<1>4. /\ Held(reads, m) # {} => type[m] = "R"
      /\ Held(writes, m) # {} => type[m] = "W"
      /\ \A l \in Held(writes, m) : l[1] = thread[m]
  BY <1>3 DEF Agrees
<1> QED BY <1>1, <1>2, <1>4

\* What a lock that is taken or converted leaves behind.
TryLockResult(t, m) ==
  /\ HeldOK' /\ LinkTypes' /\ Tables'
  /\ reads' \in [Thread -> [RWMutex -> 0..MaxLocks]]
  /\ writes' \in [Thread -> [RWMutex -> 0..MaxLocks]]
  /\ OthersStay(t, m)
  /\ type'[m] # "NONE"
  /\ type[m] # "NONE" => thread'[m] = thread[m]

LEMMA RWTryLockStep ==
  ASSUME MaxLocks \in Nat \ {0}, RW!TypeOK, HeldOK,
         NEW t \in Thread, NEW m \in RWMutex, NEW op \in RW!Ops, RW!TryLock(t, m, op),
         op = "RToW" => reads[t][m] > 0 /\ thread[m] = t,
         op = "WToR" => writes[t][m] > 0
  PROVE  TryLockResult(t, m)
<1> DEFINE R == Held(reads, m)
           W == Held(writes, m)
           r == <<t, reads'[t][m]>>
           w == <<t, writes'[t][m]>>
<1>1. Tables /\ LinkTypes
  BY DEF RW!TypeOK, Tables, LinkTypes, Table
<1>2. /\ reads[t][m] \in Nat /\ writes[t][m] \in Nat
      /\ reads[t][m] > 0 => <<t, reads[t][m]>> \in R /\ type[m] = "R"
      /\ writes[t][m] > 0 => <<t, writes[t][m]>> \in W /\ type[m] = "W" /\ thread[m] = t
  BY <1>1, HoldsOrNot
<1>3. /\ Agrees(locks[m], type[m], thread[m], R, W)
      /\ Cardinality(R) \in Nat /\ Cardinality(W) \in Nat
      /\ \/ type[m] = "NONE" /\ R = {} /\ W = {} /\ locks[m] = 0
         \/ type[m] = "R" /\ R # {} /\ W = {} /\ locks[m] = Cardinality(R) /\ locks[m] > 0
         \/ type[m] = "W" /\ R = {} /\ W # {} /\ locks[m] = Cardinality(W) /\ locks[m] > 0
  <2>1. Agrees(locks[m], type[m], thread[m], R, W)
    BY DEF HeldOK
  <2> HIDE DEF R, W
  <2> QED BY <2>1, AgreesCases
<1>4. /\ op \in {"R", "W"} => \/ type[m] = "NONE" /\ RW!Own(t, m, op)
                              \/ type[m] # "NONE" /\ RW!Join(m)
      /\ op = "RToW" => RW!Convert(m, "W")
      /\ op = "WToR" => RW!Convert(m, "R")
      /\ RW!Locks(t, m, op)
  BY DEF RW!TryLock, RW!Ops
<1>5. /\ LinkTypes'
      /\ \A k \in RWMutex \ {m} : type'[k] = type[k] /\ locks'[k] = locks[k] /\ thread'[k] = thread[k]
      /\ type' \in [RWMutex -> {"NONE", "R", "W"}]
      /\ locks' \in [RWMutex -> 0..MaxLocks]
      /\ thread' \in [RWMutex -> Thread \cup {NULL}]
      /\ type[m] # "NONE" => thread'[m] = thread[m]
  <2>1. CASE RW!Own(t, m, op) /\ op \in {"R", "W"} /\ type[m] = "NONE"
    BY <1>1, <2>1, EnqueueTypes DEF RW!Own, Tables
  <2>2. CASE RW!Join(m)
    BY <1>1, <2>2 DEF RW!Join, Tables, LinkTypes, RW!links
  <2>3. CASE RW!Convert(m, "W") \/ RW!Convert(m, "R")
    BY <1>1, <2>3 DEF RW!Convert, Tables, LinkTypes, RW!links
  <2> QED BY <1>4, <2>1, <2>2, <2>3 DEF RW!Ops
<1>6. /\ reads' = [reads EXCEPT ![t][m] =
                     CASE op \in {"R", "WToR"} -> @ + 1 [] op = "RToW" -> @ - 1 [] OTHER -> @]
      /\ writes' = [writes EXCEPT ![t][m] =
                     CASE op \in {"W", "RToW"} -> @ + 1 [] op = "WToR" -> @ - 1 [] OTHER -> @]
  BY DEF RW!TryLock
<1>7. /\ reads' \in Table /\ writes' \in Table
      /\ \A u \in Thread, k \in RWMutex : u # t \/ k # m =>
           reads'[u][k] = reads[u][k] /\ writes'[u][k] = writes[u][k]
      /\ op \in {"R", "WToR"} => reads'[t][m] = reads[t][m] + 1
      /\ op = "RToW" => reads'[t][m] = reads[t][m] - 1
      /\ op = "W" => reads'[t][m] = reads[t][m]
      /\ op \in {"W", "RToW"} => writes'[t][m] = writes[t][m] + 1
      /\ op = "WToR" => writes'[t][m] = writes[t][m] - 1
      /\ op = "R" => writes'[t][m] = writes[t][m]
  <2>1. reads \in Table /\ writes \in Table
    BY <1>1 DEF Tables
  <2>2. CASE op = "R"
    <3>1. /\ reads' = [reads EXCEPT ![t][m] = @ + 1]
          /\ writes' = [writes EXCEPT ![t][m] = @]
      BY <1>6, <2>2
    <3> QED BY <2>1, <2>2, <3>1 DEF Table
  <2>3. CASE op = "W"
    <3>1. /\ reads' = [reads EXCEPT ![t][m] = @]
          /\ writes' = [writes EXCEPT ![t][m] = @ + 1]
      BY <1>6, <2>3
    <3> QED BY <2>1, <2>3, <3>1 DEF Table
  <2>4. CASE op = "RToW"
    <3>1. /\ reads' = [reads EXCEPT ![t][m] = @ - 1]
          /\ writes' = [writes EXCEPT ![t][m] = @ + 1]
      BY <1>6, <2>4
    <3>2. reads[t][m] - 1 \in Nat
      BY <1>2, <2>4
    <3> QED BY <2>1, <2>4, <3>1, <3>2 DEF Table
  <2>5. CASE op = "WToR"
    <3>1. /\ reads' = [reads EXCEPT ![t][m] = @ + 1]
          /\ writes' = [writes EXCEPT ![t][m] = @ - 1]
      BY <1>6, <2>5
    <3>2. writes[t][m] - 1 \in Nat
      BY <1>2, <2>5
    <3> QED BY <2>1, <2>5, <3>1, <3>2 DEF Table
  <2> QED BY <2>2, <2>3, <2>4, <2>5 DEF RW!Ops
<1>8. OthersStay(t, m) /\ Tables'
  BY <1>5, <1>7 DEF OthersStay, Tables
<1>9. /\ op \in {"R", "WToR"} => Held(reads', m) = R \cup {r} /\ r \notin R
      /\ op = "RToW" => Held(reads', m) = R \ {<<t, reads[t][m]>>}
      /\ op = "W" => Held(reads', m) = R
      /\ op \in {"W", "RToW"} => Held(writes', m) = W \cup {w} /\ w \notin W
      /\ op = "WToR" => Held(writes', m) = W \ {<<t, writes[t][m]>>}
      /\ op = "R" => Held(writes', m) = W
  <2>1. reads \in Table /\ writes \in Table
    BY <1>1 DEF Tables
  <2>2. ASSUME op \in {"R", "WToR"} PROVE Held(reads', m) = R \cup {r} /\ r \notin R
    BY <1>7, <2>1, <2>2, HeldMore
  <2>3. ASSUME op \in {"W", "RToW"} PROVE Held(writes', m) = W \cup {w} /\ w \notin W
    BY <1>7, <2>1, <2>3, HeldMore
  <2>4. ASSUME op = "RToW" PROVE Held(reads', m) = R \ {<<t, reads[t][m]>>}
    <3>1. /\ reads[t][m] = reads'[t][m] + 1 /\ reads' \in Table
          /\ \A u \in Thread, k \in RWMutex : u # t \/ k # m => reads[u][k] = reads'[u][k]
      BY <1>2, <1>7, <2>4
    <3> HIDE DEF r, w
    <3>2. /\ Held(reads, m) = Held(reads', m) \cup {<<t, reads[t][m]>>}
          /\ <<t, reads[t][m]>> \notin Held(reads', m)
      BY <2>1, <3>1, HeldMore
    <3> QED BY <3>2
  <2>5. ASSUME op = "WToR" PROVE Held(writes', m) = W \ {<<t, writes[t][m]>>}
    <3>1. /\ writes[t][m] = writes'[t][m] + 1 /\ writes' \in Table
          /\ \A u \in Thread, k \in RWMutex : u # t \/ k # m => writes[u][k] = writes'[u][k]
      BY <1>2, <1>7, <2>5
    <3> HIDE DEF r, w
    <3>2. /\ Held(writes, m) = Held(writes', m) \cup {<<t, writes[t][m]>>}
          /\ <<t, writes[t][m]>> \notin Held(writes', m)
      BY <2>1, <3>1, HeldMore
    <3> QED BY <3>2
  <2>6. op = "W" => Held(reads', m) = R
    BY <1>7 DEF Held
  <2>7. op = "R" => Held(writes', m) = W
    BY <1>7 DEF Held
  <2> QED BY <2>2, <2>3, <2>4, <2>5, <2>6, <2>7
<1>10. r[1] = t /\ w[1] = t
  OBVIOUS
<1>11. Agrees(locks'[m], type'[m], thread'[m], Held(reads', m), Held(writes', m))
  <2> HIDE DEF R, W, r, w
  <2>1. CASE op = "R"
    <3>1. type[m] # "W" /\ W = {}
      BY <1>3, <1>4, <2>1 DEF RW!Locks
    <3>2. type'[m] = "R" /\ locks'[m] = locks[m] + 1
      BY <1>1, <1>3, <1>4, <2>1, <3>1 DEF RW!Own, RW!Join, Tables
    <3>3. Agrees(locks[m] + 1, "R", thread'[m], R \cup {r}, W)
      BY <1>3, <1>9, <2>1, <3>1, AgreesMore
    <3> QED BY <1>9, <2>1, <3>2, <3>3
  <2>2. CASE op = "W"
    <3>1. R = {} /\ (W = {} \/ thread[m] = t) /\ (type[m] # "NONE" => thread[m] = t)
      BY <1>3, <1>4, <2>2 DEF RW!Locks
    <3>2. type'[m] = "W" /\ locks'[m] = locks[m] + 1 /\ thread'[m] = t
      <4>1. type[m] = "NONE" \/ type[m] = "W"
        BY <1>4, <2>2 DEF RW!Locks
      <4> QED BY <1>1, <1>3, <1>4, <2>2, <3>1, <4>1 DEF RW!Own, RW!Join, Tables, RW!links
    <3>3. Agrees(locks[m] + 1, "W", w[1], R, W \cup {w})
      BY <1>3, <1>9, <1>10, <2>2, <3>1, AgreesMore
    <3> QED BY <1>9, <1>10, <2>2, <3>2, <3>3
  <2>3. CASE op = "RToW"
    <3>1. type[m] = "R" /\ locks[m] = 1 /\ <<t, reads[t][m]>> \in R /\ thread[m] = t /\ W = {}
      BY <1>2, <1>3, <1>4, <2>3 DEF RW!Locks
    <3>2. type'[m] = "W" /\ locks'[m] = 0 + 1 /\ thread'[m] = t
      BY <1>1, <1>4, <2>3, <3>1 DEF RW!Convert, Tables
    <3>3. Agrees(0, "NONE", t, R \ {<<t, reads[t][m]>>}, W)
      BY <1>3, <3>1, AgreesLess
    <3>4. R \ {<<t, reads[t][m]>>} = {}
      BY <3>3, AgreesCases
    <3>5. Agrees(0 + 1, "W", w[1], R \ {<<t, reads[t][m]>>}, W \cup {w})
      BY <1>9, <1>10, <2>3, <3>1, <3>3, <3>4, AgreesMore
    <3> QED BY <1>9, <1>10, <2>3, <3>2, <3>5
  <2>4. CASE op = "WToR"
    <3>1. type[m] = "W" /\ locks[m] = 1 /\ <<t, writes[t][m]>> \in W /\ R = {}
      BY <1>2, <1>3, <1>4, <2>4 DEF RW!Locks
    <3>2. type'[m] = "R" /\ locks'[m] = 0 + 1
      BY <1>1, <1>4, <2>4, <3>1 DEF RW!Convert, Tables
    <3>3. Agrees(0, "NONE", thread'[m], R, W \ {<<t, writes[t][m]>>})
      BY <1>3, <3>1, AgreesLess
    <3>4. W \ {<<t, writes[t][m]>>} = {}
      BY <3>3, AgreesCases
    <3>5. Agrees(0 + 1, "R", thread'[m], R \cup {r}, W \ {<<t, writes[t][m]>>})
      BY <1>9, <2>4, <3>1, <3>3, <3>4, AgreesMore
    <3> QED BY <1>9, <2>4, <3>2, <3>5
  <2> QED BY <2>1, <2>2, <2>3, <2>4 DEF RW!Ops
<1>12. type'[m] # "NONE"
  <2>1. Held(reads', m) # {} \/ Held(writes', m) # {}
    BY <1>9 DEF RW!Ops
  <2> QED BY <1>11, <2>1 DEF Agrees
<1>13. /\ HeldOK'
       /\ reads' \in [Thread -> [RWMutex -> 0..MaxLocks]]
       /\ writes' \in [Thread -> [RWMutex -> 0..MaxLocks]]
  BY <1>1, <1>8, <1>11, TablesHold
<1> QED BY <1>5, <1>8, <1>12, <1>13 DEF TryLockResult

\* Who unlocks holds a lock, and the last lock of a mutex is of one thread.
LEMMA RWUnlockStep ==
  ASSUME MaxLocks \in Nat \ {0}, RW!TypeOK, HeldOK,
         NEW t \in Thread, NEW m \in RWMutex, NEW kind \in {"R", "W", "RW"},
         RW!OSi_UnlockMutexCore(t, m, kind)
  PROVE  /\ HeldOK' /\ LinkTypes' /\ Tables'
         /\ reads' \in [Thread -> [RWMutex -> 0..MaxLocks]]
         /\ writes' \in [Thread -> [RWMutex -> 0..MaxLocks]]
         /\ OthersStay(t, m)
         /\ \/ /\ rwWaiters' = [rwWaiters EXCEPT ![m] = {}]
               /\ \A u \in Thread \ {t} : reads[u][m] = 0 /\ writes[u][m] = 0
            \/ UNCHANGED <<type, thread, rwWaiters>>
<1> DEFINE R == Held(reads, m)
           W == Held(writes, m)
           r == <<t, reads[t][m]>>
           w == <<t, writes[t][m]>>
<1>1. Tables /\ LinkTypes /\ reads \in Table /\ writes \in Table
  BY DEF RW!TypeOK, Tables, LinkTypes, Table
<1>2. /\ reads[t][m] \in Nat /\ writes[t][m] \in Nat
      /\ reads[t][m] > 0 => r \in R /\ type[m] = "R"
      /\ writes[t][m] > 0 => w \in W /\ type[m] = "W" /\ thread[m] = t
  BY <1>1, HoldsOrNot
<1>3. /\ Agrees(locks[m], type[m], thread[m], R, W)
      /\ \/ type[m] = "NONE" /\ R = {} /\ W = {} /\ locks[m] = 0
         \/ type[m] = "R" /\ R # {} /\ W = {} /\ locks[m] > 0
         \/ type[m] = "W" /\ R = {} /\ W # {} /\ locks[m] > 0
  <2>1. Agrees(locks[m], type[m], thread[m], R, W)
    BY DEF HeldOK
  <2> HIDE DEF R, W
  <2> QED BY <2>1, AgreesCases
<1>4. \/ type[m] = "R" /\ reads[t][m] > 0
      \/ type[m] = "W" /\ writes[t][m] > 0
  BY <1>2 DEF RW!OSi_UnlockMutexCore
<1>5. locks' = [locks EXCEPT ![m] = @ - 1] /\ locks'[m] = locks[m] - 1
  BY <1>1 DEF RW!OSi_UnlockMutexCore, Tables
<1>6. \/ /\ locks[m] = 1 /\ RW!OSi_DequeueItem(t, m)
         /\ thread' = [thread EXCEPT ![m] = NULL]
         /\ type' = [type EXCEPT ![m] = "NONE"]
         /\ rwWaiters' = [rwWaiters EXCEPT ![m] = {}]
      \/ locks[m] # 1 /\ UNCHANGED <<type, thread, RW!links, rwWaiters>>
  BY DEF RW!OSi_UnlockMutexCore, RW!Free, RW!Leave
<1>7. LinkTypes'
  BY <1>1, <1>6, DequeueTypes DEF RW!links, LinkTypes
<1>8. /\ \A k \in RWMutex \ {m} : type'[k] = type[k] /\ locks'[k] = locks[k] /\ thread'[k] = thread[k]
      /\ type' \in [RWMutex -> {"NONE", "R", "W"}]
      /\ locks' \in [RWMutex -> 0..MaxLocks]
      /\ thread' \in [RWMutex -> Thread \cup {NULL}]
      /\ locks[m] = 1 => type'[m] = "NONE"
      /\ locks[m] # 1 => type'[m] = type[m] /\ thread'[m] = thread[m]
  <2>1. locks' \in [RWMutex -> 0..MaxLocks]
    <3>1. locks[m] \in 1..MaxLocks
      BY <1>1, <1>3, <1>4 DEF Tables
    <3>2. locks[m] - 1 \in 0..MaxLocks
      BY <3>1
    <3> QED BY <1>1, <1>5, <3>2 DEF Tables
  <2> QED BY <1>1, <1>5, <1>6, <2>1 DEF Tables
<1>9. CASE type[m] = "R" /\ reads[t][m] > 0
  <2>1. reads' = [reads EXCEPT ![t][m] = @ - 1] /\ writes' = [writes EXCEPT ![t][m] = @]
    BY <1>9 DEF RW!OSi_UnlockMutexCore
  <2>2. reads[t][m] - 1 \in Nat
    BY <1>2, <1>9
  <2>3. /\ reads' \in Table /\ writes' = writes /\ reads[t][m] = reads'[t][m] + 1
        /\ \A u \in Thread, k \in RWMutex : u # t \/ k # m => reads[u][k] = reads'[u][k]
    BY <1>1, <2>1, <2>2 DEF Table
  <2>4. OthersStay(t, m) /\ Tables'
    BY <1>1, <1>8, <2>3 DEF OthersStay, Tables
  <2>5. R = Held(reads', m) \cup {r} /\ r \notin Held(reads', m)
    BY <1>1, <2>3, HeldMore
  <2>6. Held(reads', m) = R \ {r} /\ Held(writes', m) = W /\ r \in R
    BY <2>3, <2>5
  <2> HIDE DEF R, W, r
  <2>7. /\ locks[m] = 1 => Agrees(0, "NONE", thread'[m], R \ {r}, W)
        /\ locks[m] # 1 => Agrees(locks[m] - 1, "R", thread[m], R \ {r}, W)
    BY <1>3, <1>9, <2>6, AgreesLess
  <2>8. Agrees(locks'[m], type'[m], thread'[m], Held(reads', m), Held(writes', m))
    <3>1. CASE locks[m] = 1
      BY <1>5, <1>8, <2>6, <2>7, <3>1
    <3>2. CASE locks[m] # 1
      BY <1>5, <1>8, <1>9, <2>6, <2>7, <3>2
    <3> QED BY <3>1, <3>2
  <2>9. /\ HeldOK'
        /\ reads' \in [Thread -> [RWMutex -> 0..MaxLocks]]
        /\ writes' \in [Thread -> [RWMutex -> 0..MaxLocks]]
    BY <1>1, <2>4, <2>8, TablesHold
  <2>10. ASSUME locks[m] = 1, NEW u \in Thread \ {t} PROVE reads[u][m] = 0 /\ writes[u][m] = 0
    <3>1. R \ {r} = {} /\ W = {}
      BY <2>7, <2>10, AgreesCases
    <3>2. \A l \in R : l = r
      BY <3>1
    <3>3. r[1] = t
      BY DEF r
    <3>4. /\ reads[u][m] > 0 => <<u, reads[u][m]>> \in R
          /\ writes[u][m] > 0 => <<u, writes[u][m]>> \in W
          /\ reads[u][m] \in Nat /\ writes[u][m] \in Nat
      BY <1>1, HoldsOrNot DEF R, W
    <3>5. <<u, reads[u][m]>>[1] # t
      OBVIOUS
    <3> QED BY <3>1, <3>2, <3>3, <3>4, <3>5
  <2> QED BY <1>6, <1>7, <2>4, <2>9, <2>10
<1>10. CASE type[m] = "W" /\ writes[t][m] > 0
  <2>1. writes' = [writes EXCEPT ![t][m] = @ - 1] /\ reads' = [reads EXCEPT ![t][m] = @]
    BY <1>10 DEF RW!OSi_UnlockMutexCore
  <2>2. writes[t][m] - 1 \in Nat
    BY <1>2, <1>10
  <2>3. /\ writes' \in Table /\ reads' = reads /\ writes[t][m] = writes'[t][m] + 1
        /\ \A u \in Thread, k \in RWMutex : u # t \/ k # m => writes[u][k] = writes'[u][k]
    BY <1>1, <2>1, <2>2 DEF Table
  <2>4. OthersStay(t, m) /\ Tables'
    BY <1>1, <1>8, <2>3 DEF OthersStay, Tables
  <2>5. W = Held(writes', m) \cup {w} /\ w \notin Held(writes', m)
    BY <1>1, <2>3, HeldMore
  <2>6. Held(writes', m) = W \ {w} /\ Held(reads', m) = R /\ w \in W
    BY <2>3, <2>5
  <2> HIDE DEF R, W, w
  <2>7. /\ locks[m] = 1 => Agrees(0, "NONE", thread'[m], R, W \ {w})
        /\ locks[m] # 1 => Agrees(locks[m] - 1, "W", thread[m], R, W \ {w})
    BY <1>3, <1>10, <2>6, AgreesLess
  <2>8. Agrees(locks'[m], type'[m], thread'[m], Held(reads', m), Held(writes', m))
    <3>1. CASE locks[m] = 1
      BY <1>5, <1>8, <2>6, <2>7, <3>1
    <3>2. CASE locks[m] # 1
      BY <1>5, <1>8, <1>10, <2>6, <2>7, <3>2
    <3> QED BY <3>1, <3>2
  <2>9. /\ HeldOK'
        /\ reads' \in [Thread -> [RWMutex -> 0..MaxLocks]]
        /\ writes' \in [Thread -> [RWMutex -> 0..MaxLocks]]
    BY <1>1, <2>4, <2>8, TablesHold
  <2>10. ASSUME NEW u \in Thread \ {t} PROVE reads[u][m] = 0 /\ writes[u][m] = 0
    <3>1. R = {} /\ thread[m] = t
      BY <1>2, <1>3, <1>10
    <3>2. /\ reads[u][m] > 0 => <<u, reads[u][m]>> \in R
          /\ writes[u][m] > 0 => thread[m] = u
          /\ reads[u][m] \in Nat /\ writes[u][m] \in Nat
      BY <1>1, HoldsOrNot DEF R
    <3> QED BY <3>1, <3>2
  <2> QED BY <1>6, <1>7, <2>4, <2>9, <2>10
<1> QED BY <1>4, <1>9, <1>10

-----------------------------------------------------------------------------
(* The invariant.                                                             *)

LEMMA InitImpliesLocks ==
  ASSUME MaxLocks \in Nat \ {0}, RW!Init
  PROVE  LocksIInv
<1> USE DEF RW!Init
<1>1. RW!TypeOK
  BY DEF RW!TypeOK
<1>2. ASSUME NEW m \in RWMutex
      PROVE  Agrees(locks[m], type[m], thread[m], Held(reads, m), Held(writes, m))
  <2>1. Held(reads, m) = {} /\ Held(writes, m) = {}
    BY DEF Held
  <2>2. Agrees(0, "NONE", NULL, {}, {})
    BY FS_EmptySet DEF Agrees
  <2> QED BY <2>1, <2>2
<1>3. ConvertersHold /\ RW!NoLockForgotten
  BY DEF ConvertersHold, RW!NoLockForgotten, RW!NoCall
<1> QED BY <1>1, <1>2, <1>3 DEF LocksIInv, HeldOK

\* A call that gets its lock.
LEMMA LockedKeeps ==
  ASSUME MaxLocks \in Nat \ {0}, LocksIInv,
         NEW t \in Thread, NEW m \in RWMutex, NEW op \in RW!Ops, RW!TryLock(t, m, op),
         op = "RToW" => reads[t][m] > 0 /\ thread[m] = t,
         op = "WToR" => writes[t][m] > 0,
         call' = [call EXCEPT ![t] = RW!NoCall], UNCHANGED rwWaiters
  PROVE  LocksIInv'
<1> USE DEF LocksIInv
<1>1. TryLockResult(t, m)
  BY RWTryLockStep
<1>2. RW!TypeOK'
  BY <1>1 DEF RW!TypeOK, TryLockResult, LinkTypes, Tables
<1>3. ASSUME NEW u \in Thread, NEW k \in RWMutex
      PROVE  /\ call'[u] = <<"RToW", k>> => reads'[u][k] > 0 /\ thread'[k] = u
             /\ call'[u] = <<"WToR", k>> => writes'[u][k] > 0
  <2>1. CASE u = t
    BY <2>1 DEF RW!TypeOK, RW!NoCall
  <2>2. CASE u # t
    <3>1. call'[u] = call[u] /\ reads'[u][k] = reads[u][k] /\ writes'[u][k] = writes[u][k]
      BY <1>1, <2>2 DEF RW!TypeOK, TryLockResult, OthersStay
    <3>2. reads[u][k] > 0 => thread'[k] = thread[k]
      <4>1. reads[u][k] > 0 => type[k] = "R"
        <5>1. Tables
          BY DEF RW!TypeOK, Tables, Table
        <5> QED BY <5>1, HoldsOrNot
      <4> QED BY <1>1, <4>1 DEF TryLockResult, OthersStay
    <3> QED BY <3>1, <3>2 DEF ConvertersHold
  <2> QED BY <2>1, <2>2
<1>4. RW!NoLockForgotten'
  BY <1>1 DEF RW!NoLockForgotten, TryLockResult, OthersStay
<1> QED BY <1>1, <1>2, <1>3, <1>4 DEF ConvertersHold, TryLockResult

\* A call that has to wait: the mutex is not free.
LEMMA WaitKeeps ==
  ASSUME MaxLocks \in Nat \ {0}, LocksIInv,
         NEW t \in Thread, NEW m \in RWMutex, NEW op \in RW!Ops, ~RW!Locks(t, m, op),
         op = "RToW" => reads[t][m] > 0 /\ thread[m] = t,
         op = "WToR" => writes[t][m] > 0,
         call' = [call EXCEPT ![t] = <<op, m>>],
         rwWaiters' = [rwWaiters EXCEPT ![m] = @ \cup {t}],
         UNCHANGED <<type, locks, thread, RW!links, RW!holds>>
  PROVE  LocksIInv'
<1> USE DEF LocksIInv, RW!links, RW!holds
<1>1. RW!TypeOK'
  BY DEF RW!TypeOK
<1>2. HeldOK'
  BY DEF HeldOK, Held
<1>3. ConvertersHold'
  BY DEF ConvertersHold, RW!TypeOK
<1>4. type[m] # "NONE"
  <2>1. Tables
    BY DEF RW!TypeOK, Tables, Table
  <2>2. op \in {"R", "W"} \/ reads[t][m] > 0 \/ writes[t][m] > 0
    BY DEF RW!Ops
  <2> QED BY <2>1, <2>2, HoldsOrNot DEF RW!Locks
<1>5. RW!NoLockForgotten'
  BY <1>4 DEF RW!NoLockForgotten, RW!TypeOK
<1> QED BY <1>1, <1>2, <1>3, <1>5

LEMMA UnlockKeeps ==
  ASSUME MaxLocks \in Nat \ {0}, LocksIInv,
         NEW t \in Thread, NEW m \in RWMutex, NEW kind \in {"R", "W", "RW"},
         RW!OSi_UnlockMutexCore(t, m, kind)
  PROVE  LocksIInv'
<1> USE DEF LocksIInv
<1>1. /\ HeldOK' /\ LinkTypes' /\ Tables'
      /\ reads' \in [Thread -> [RWMutex -> 0..MaxLocks]]
      /\ writes' \in [Thread -> [RWMutex -> 0..MaxLocks]]
      /\ OthersStay(t, m)
      /\ \/ /\ rwWaiters' = [rwWaiters EXCEPT ![m] = {}]
            /\ \A u \in Thread \ {t} : reads[u][m] = 0 /\ writes[u][m] = 0
         \/ UNCHANGED <<type, thread, rwWaiters>>
  BY RWUnlockStep
<1>2. call' = call /\ call[t] = RW!NoCall
  BY DEF RW!OSi_UnlockMutexCore
<1>3. RW!TypeOK'
  BY <1>1, <1>2 DEF RW!TypeOK, LinkTypes, Tables
<1>4. ASSUME NEW u \in Thread, NEW k \in RWMutex
      PROVE  /\ call'[u] = <<"RToW", k>> => reads'[u][k] > 0 /\ thread'[k] = u
             /\ call'[u] = <<"WToR", k>> => writes'[u][k] > 0
  <2>1. CASE u = t
    BY <1>2, <2>1 DEF RW!NoCall
  <2>2. CASE u # t
    <3>1. reads'[u][k] = reads[u][k] /\ writes'[u][k] = writes[u][k]
      BY <1>1, <2>2 DEF OthersStay
    <3>2. reads[u][k] > 0 => thread'[k] = thread[k]
      BY <1>1, <2>2 DEF OthersStay
    <3> QED BY <1>2, <3>1, <3>2 DEF ConvertersHold
  <2> QED BY <2>1, <2>2
<1>5. RW!NoLockForgotten'
  BY <1>1 DEF RW!NoLockForgotten, OthersStay, RW!TypeOK
<1> QED BY <1>1, <1>3, <1>4, <1>5 DEF ConvertersHold

\* Calls(t, m, op) or the call the thread sleeps in: what it converts it holds.
LEMMA StepCases ==
  ASSUME LocksIInv, NEW t \in Thread, NEW m \in RWMutex, NEW op \in RW!Ops,
         call[t] = <<op, m>> \/ (call[t] = RW!NoCall /\ RW!Calls(t, m, op))
  PROVE  /\ op = "RToW" => reads[t][m] > 0 /\ thread[m] = t
         /\ op = "WToR" => writes[t][m] > 0
BY DEF LocksIInv, ConvertersHold, RW!Calls

LEMMA StepKeepsIInv ==
  ASSUME MaxLocks \in Nat \ {0}, LocksIInv, [RW!Next]_RW!vars
  PROVE  LocksIInv'
<1>1. ASSUME NEW t \in Thread, NEW m \in RWMutex, NEW op \in RW!Ops, RW!OS_TryLockMutex(t, m, op)
      PROVE  LocksIInv'
  <2>1. /\ RW!TryLock(t, m, op) /\ call[t] = RW!NoCall /\ RW!Calls(t, m, op)
        /\ UNCHANGED <<rwWaiters, call>>
    BY <1>1 DEF RW!OS_TryLockMutex
  <2>2. call' = [call EXCEPT ![t] = RW!NoCall]
    BY <2>1 DEF LocksIInv, RW!TypeOK
  <2> QED BY <2>1, <2>2, StepCases, LockedKeeps
<1>2. ASSUME NEW t \in Thread, NEW m \in RWMutex, NEW op \in RW!Ops, RW!OS_LockMutex(t, m, op)
      PROVE  LocksIInv'
  <2>1. /\ op = "RToW" => reads[t][m] > 0 /\ thread[m] = t
        /\ op = "WToR" => writes[t][m] > 0
    BY <1>2, StepCases DEF RW!OS_LockMutex
  <2> QED BY <1>2, <2>1, LockedKeeps, WaitKeeps DEF RW!OS_LockMutex
<1>3. ASSUME NEW t \in Thread, NEW m \in RWMutex, NEW kind \in {"R", "W", "RW"},
             RW!OSi_UnlockMutexCore(t, m, kind)
      PROVE  LocksIInv'
  BY <1>3, UnlockKeeps
<1>4. CASE UNCHANGED RW!vars
  <2>1. RW!TypeOK' /\ HeldOK' /\ ConvertersHold' /\ RW!NoLockForgotten'
    BY <1>4 DEF LocksIInv, RW!TypeOK, HeldOK, Held, ConvertersHold, RW!NoLockForgotten, RW!vars, RW!links, RW!holds
  <2> QED BY <2>1 DEF LocksIInv
<1> QED BY <1>1, <1>2, <1>3, <1>4 DEF RW!Next

-----------------------------------------------------------------------------
(* The results.                                                               *)

\* A behaviour of MCMutexes is one of the locks, which may stand still.
LEMMA PartOfMutexes == MCSpec => RW!Spec
<1>1. MCInit => RW!Init
  BY DEF MCInit
<1>2. [MCNext]_<<part, vars, rwVars, portVars>> => [RW!Next]_RW!vars
  BY DEF MCNext, rwVars, RW!vars, RW!links, RW!holds
<1> QED
  BY <1>1, <1>2, PTL DEF MCSpec, RW!Spec

\* However often threads lock recursively, read together and convert: a writer
\* is alone, the count of a mutex is that of the locks held, and its type and
\* owner are those of the threads that hold them.
THEOREM LocksAreCounted ==
  ASSUME MaxLocks \in Nat \ {0}
  PROVE  MCSpec => []LocksAgree
<1>1. ASSUME LocksIInv PROVE RW!LocksAgree
  <2>1. RW!TypeOK /\ Tables
    BY <1>1 DEF LocksIInv, RW!TypeOK, Tables, Table
  <2>2. RW!WritersExclude
    <3>1. ASSUME NEW m \in RWMutex, NEW t \in Thread, NEW u \in Thread, t # u, writes[t][m] > 0
          PROVE  reads[u][m] + writes[u][m] = 0
      <4>1. type[m] = "W" /\ thread[m] = t
        BY <1>1, <2>1, <3>1, HoldsOrNot DEF LocksIInv
      <4>2. /\ reads[u][m] \in Nat /\ writes[u][m] \in Nat
            /\ reads[u][m] > 0 => type[m] = "R"
            /\ writes[u][m] > 0 => thread[m] = u
        BY <1>1, <2>1, HoldsOrNot DEF LocksIInv
      <4> QED BY <3>1, <4>1, <4>2
    <3> QED BY <3>1 DEF RW!WritersExclude
  <2>3. RW!CountIsHeld
    <3>1. \A S : RW!Cardinality(S) = Cardinality(S)
      BY DEF RW!Cardinality, Cardinality
    <3> QED
      BY <1>1, <3>1 DEF LocksIInv, HeldOK, Agrees, RW!CountIsHeld, RW!ReadLocks, RW!WriteLocks, Held
  <2> QED BY <2>1, <2>2, <2>3 DEF RW!LocksAgree
<1>2. LocksIInv => LocksAgree
  BY <1>1 DEF LocksAgree
<1> QED BY <1>2, InitImpliesLocks, StepKeepsIInv, PartOfMutexes, PTL DEF RW!Spec

\* Nobody who waits to lock a mutex is left asleep when it is freed.
THEOREM NobodySleepsOnFreeLock ==
  ASSUME MaxLocks \in Nat \ {0}
  PROVE  MCSpec => []NoLockForgotten
<1>1. LocksIInv => NoLockForgotten
  BY DEF LocksIInv, NoLockForgotten
<1> QED BY <1>1, InitImpliesLocks, StepKeepsIInv, PartOfMutexes, PTL DEF RW!Spec

\* Whoever else reads or waits: a thread asleep to convert its lock is not woken
\* by any call, for only a free mutex wakes, and it holds this one itself.
THEOREM ConvertersAreNotWoken ==
  ASSUME MaxLocks \in Nat \ {0}
  PROVE  MCSpec => ConvertingSleepsForever
<1>1. ASSUME LocksIInv, [RW!Next]_RW!vars, NEW t \in Thread, NEW m \in RWMutex,
             call[t] \in {"RToW", "WToR"} \X {m}, t \in rwWaiters[m]
      PROVE  t \in rwWaiters'[m]
  <2>1. call[t] # RW!NoCall /\ (reads[t][m] > 0 \/ writes[t][m] > 0)
    <3>1. call[t] = <<"RToW", m>> \/ call[t] = <<"WToR", m>>
      BY <1>1
    <3> QED BY <1>1, <3>1 DEF LocksIInv, ConvertersHold, RW!NoCall
  <2>2. CASE \E u \in Thread, k \in RWMutex, op \in RW!Ops :
               RW!OS_TryLockMutex(u, k, op) \/ RW!OS_LockMutex(u, k, op)
    <3>1. PICK u \in Thread, k \in RWMutex :
            rwWaiters' = rwWaiters \/ rwWaiters' = [rwWaiters EXCEPT ![k] = @ \cup {u}]
      BY <2>2 DEF RW!OS_TryLockMutex, RW!OS_LockMutex
    <3> QED BY <1>1, <3>1 DEF LocksIInv, RW!TypeOK
  <2>3. ASSUME NEW u \in Thread, NEW k \in RWMutex, NEW kind \in {"R", "W", "RW"},
               RW!OSi_UnlockMutexCore(u, k, kind)
        PROVE  t \in rwWaiters'[m]
    <3>1. u # t
      BY <2>1, <2>3 DEF RW!OSi_UnlockMutexCore
    <3>2. \/ /\ rwWaiters' = [rwWaiters EXCEPT ![k] = {}]
             /\ reads[t][k] = 0 /\ writes[t][k] = 0
          \/ UNCHANGED rwWaiters
      BY <1>1, <2>3, <3>1, RWUnlockStep DEF LocksIInv
    <3>3. rwWaiters' = [rwWaiters EXCEPT ![k] = {}] /\ reads[t][k] = 0 /\ writes[t][k] = 0 => k # m
      BY <2>1
    <3> QED BY <1>1, <3>2, <3>3 DEF LocksIInv, RW!TypeOK
  <2>4. CASE UNCHANGED RW!vars
    BY <1>1, <2>4 DEF RW!vars
  <2> QED BY <1>1, <2>2, <2>3, <2>4 DEF RW!Next
<1>2. LocksIInv /\ [RW!Next]_RW!vars =>
        [\A t \in Thread, m \in RWMutex :
           call[t] \in {"RToW", "WToR"} \X {m} /\ t \in rwWaiters[m] => t \in rwWaiters'[m]]_RW!vars
  BY <1>1
<1> QED
  BY <1>2, InitImpliesLocks, StepKeepsIInv, PartOfMutexes, PTL
     DEF RW!Spec, ConvertingSleepsForever, RW!ConvertingSleepsForever
=============================================================================
