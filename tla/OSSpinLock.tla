----------------------------- MODULE OSSpinLock -----------------------------
(* One lock word (OSLockWord) in the memory the two processors of the console *)
(* share: OS_LockByWord, OS_TryLockByWord, OS_UnlockByWord and the card and   *)
(* cartridge locks built on them (libraries/os/src/os_spinLock.c).            *)
(*                                                                            *)
(* A thread is named by its lock ID.  An ID in MainID runs on the ARM9, one   *)
(* in SubID on the ARM7.  A processor that has disabled its interrupts runs   *)
(* only the thread that did so; the other processor is never held up.  Each   *)
(* store to the shared word is an action, and the swap instruction is one.    *)

EXTENDS Naturals, FiniteSets

CONSTANTS MainID, SubID

LockID == MainID \cup SubID

\* The stored ID 0 means "nobody", so no lock ID is 0.
ASSUME IDAssumption ==
  /\ MainID \subseteq Nat \ {0}
  /\ SubID \subseteq Nat \ {0}
  /\ MainID \cap SubID = {}

Processors == {"ARM9", "ARM7"}
Processor(id) == IF id \in MainID THEN "ARM9" ELSE "ARM7"

VARIABLES
  lockFlag,  \* OSLockWord.lockFlag, what the swap instruction exchanges
  ownerID,   \* OSLockWord.ownerID
  bus,       \* the processor the card (cartridge) bus is allocated to
  irqOff,    \* per processor: the ID that disabled its interrupts, or 0
  pc         \* per lock ID: where its thread is

vars == <<lockFlag, ownerID, bus, irqOff, pc>>

\* The places from the swap that took the word to the store that frees it.
Holding == {"swapped", "allocated", "held", "unlocking", "cleared", "freed"}

Places == {"idle", "spin", "loop", "try"} \cup Holding

TypeOK ==
  /\ lockFlag \in LockID \cup {0}
  /\ ownerID \in LockID \cup {0}
  /\ bus \in Processors
  /\ irqOff \in [Processors -> LockID \cup {0}]
  /\ pc \in [LockID -> Places]

\* OS_InitLock clears the shared words and gives both buses to the ARM7.
Init ==
  /\ lockFlag = 0
  /\ ownerID = 0
  /\ bus = "ARM7"
  /\ irqOff = [p \in Processors |-> 0]
  /\ pc = [id \in LockID |-> "idle"]

\* A thread steps when its processor takes interrupts or it disabled them.
Runs(id) == irqOff[Processor(id)] \in {0, id}

Goto(id, place) == pc' = [pc EXCEPT ![id] = place]
Disable(id) == irqOff' = [irqOff EXCEPT ![Processor(id)] = id]
Restore(id) == irqOff' = [irqOff EXCEPT ![Processor(id)] = 0]

-----------------------------------------------------------------------------
(* Slips one could make in this code; no action of Next uses them.  For each  *)
(* there is a property that is checked to be violated when it is made.        *)

\* A failed attempt puts the word back to free instead of leaving it taken.
SwapFailsResetting(id) ==
  /\ Runs(id) /\ pc[id] \in {"spin", "try"}
  /\ lockFlag # 0
  /\ lockFlag' = 0
  /\ Goto(id, IF pc[id] = "try" THEN "idle" ELSE "loop")
  /\ UNCHANGED <<ownerID, bus, irqOff>>

\* The ARM9 keeps the bus when it unlocks.
FreeBusNever(id) ==
  /\ Runs(id) /\ pc[id] = "cleared"
  /\ Goto(id, "freed")
  /\ UNCHANGED <<lockFlag, ownerID, bus, irqOff>>

\* The unlock frees the word only if no other ID has been swapped into it.
ClearFlagIfOwn(id) ==
  /\ Runs(id) /\ pc[id] = "freed"
  /\ lockFlag' = IF lockFlag = id THEN 0 ELSE lockFlag
  /\ Restore(id)
  /\ Goto(id, "idle")
  /\ UNCHANGED <<ownerID, bus>>

-----------------------------------------------------------------------------
\* OS_LockByWord and OS_TryLockByWord are entered.
Call(id) ==
  /\ Runs(id) /\ pc[id] = "idle"
  /\ Goto(id, "spin") \/ Goto(id, "try")
  /\ UNCHANGED <<lockFlag, ownerID, bus, irqOff>>

\* MI_SwapWord finds the word free: the thread goes on, interrupts disabled.
SwapTakes(id) ==
  /\ Runs(id) /\ pc[id] \in {"spin", "try"}
  /\ lockFlag = 0
  /\ lockFlag' = id
  /\ Disable(id)
  /\ Goto(id, "swapped")
  /\ UNCHANGED <<ownerID, bus>>

\* MI_SwapWord finds the word taken, and has written this thread's ID over the
\* holder's all the same.  OS_TryLockByWord returns, OS_LockByWord will retry.
SwapFails(id) ==
  /\ Runs(id) /\ pc[id] \in {"spin", "try"}
  /\ lockFlag # 0
  /\ lockFlag' = id
  /\ Goto(id, IF pc[id] = "try" THEN "idle" ELSE "loop")
  /\ UNCHANGED <<ownerID, bus, irqOff>>

\* A thread tries a word it holds: OS_TryLockByWord fails for it too.
HolderTries(id) ==
  /\ Runs(id) /\ pc[id] = "held"
  /\ lockFlag # 0
  /\ lockFlag' = id
  /\ UNCHANGED <<ownerID, bus, irqOff, pc>>

\* OSi_WaitByLoop ends: the next attempt.
WaitByLoop(id) ==
  /\ Runs(id) /\ pc[id] = "loop"
  /\ Goto(id, "spin")
  /\ UNCHANGED <<lockFlag, ownerID, bus, irqOff>>

\* ctrlFuncp of the lock: OSi_AllocateCardBus does nothing on the ARM7.
AllocateBus(id) ==
  /\ Runs(id) /\ pc[id] = "swapped"
  /\ bus' = IF id \in MainID THEN "ARM9" ELSE bus
  /\ Goto(id, "allocated")
  /\ UNCHANGED <<lockFlag, ownerID, irqOff>>

SetOwner(id) ==
  /\ Runs(id) /\ pc[id] = "allocated"
  /\ ownerID' = id
  /\ Restore(id)
  /\ Goto(id, "held")
  /\ UNCHANGED <<lockFlag, bus>>

\* OS_UnlockByWord compares ownerID before it disables interrupts.  Any thread
\* may call it; one that is not the owner gets OS_UNLOCK_ERROR.
Unlock(id) ==
  /\ Runs(id) /\ pc[id] \in {"idle", "held"}
  /\ ownerID = id
  /\ Goto(id, "unlocking")
  /\ UNCHANGED <<lockFlag, ownerID, bus, irqOff>>

ClearOwner(id) ==
  /\ Runs(id) /\ pc[id] = "unlocking"
  /\ Disable(id)
  /\ ownerID' = 0
  /\ Goto(id, "cleared")
  /\ UNCHANGED <<lockFlag, bus>>

\* ctrlFuncp of the unlock: OSi_FreeCardBus does nothing on the ARM7.
FreeBus(id) ==
  /\ Runs(id) /\ pc[id] = "cleared"
  /\ bus' = IF id \in MainID THEN "ARM7" ELSE bus
  /\ Goto(id, "freed")
  /\ UNCHANGED <<lockFlag, ownerID, irqOff>>

ClearFlag(id) ==
  /\ Runs(id) /\ pc[id] = "freed"
  /\ lockFlag' = 0
  /\ Restore(id)
  /\ Goto(id, "idle")
  /\ UNCHANGED <<ownerID, bus>>

\* The steps of a call that has begun, and the unlock the holder owes.
Attempt(id) == SwapTakes(id) \/ SwapFails(id)
Progress(id) ==
  \/ AllocateBus(id) \/ SetOwner(id) \/ WaitByLoop(id)
  \/ Unlock(id) \/ ClearOwner(id) \/ FreeBus(id) \/ ClearFlag(id)

Next == \E id \in LockID : Call(id) \/ Attempt(id) \/ HolderTries(id) \/ Progress(id)

Spec == Init /\ [][Next]_vars

\* Each processor executes instructions for ever, and a holder unlocks.  Which of
\* its threads a processor runs is the scheduler's choice: a thread that spins is
\* never preempted by a less urgent one, the holder it waits for among them.
Execute(p) ==
  \E id \in LockID : Processor(id) = p /\ (Attempt(id) \/ Progress(id))
Fairness == \A p \in Processors : WF_vars(Execute(p))

FairSpec == Spec /\ Fairness

-----------------------------------------------------------------------------
\* No two threads, on the same processor or not, are between taking the word
\* and freeing it, although every failed attempt overwrites lockFlag.
MutualExclusion ==
  \A i, j \in LockID : pc[i] \in Holding /\ pc[j] \in Holding => i = j

\* lockFlag is 0 exactly when nobody holds the word: an attempt that fails in
\* the middle of an unlock neither frees the word nor keeps it taken for ever.
FlagTellsFree == lockFlag = 0 <=> \A id \in LockID : pc[id] \notin Holding

\* While a thread may use the bus it is allocated to that thread's processor.
\* The ARM7 never allocates it: it relies on the ARM9 having given it back.
BusFollowsHolder ==
  \A id \in LockID :
    pc[id] \in {"allocated", "held", "unlocking"} => bus = Processor(id)

\* OS_ReadOwnerOfLockWord names nobody, or the thread that holds the word.
OwnerIsHolder ==
  \A id \in LockID : ownerID = id <=> pc[id] \in {"held", "unlocking"}

\* The word implements a lock.
Holder == IF \E id \in LockID : pc[id] \in Holding
          THEN CHOOSE id \in LockID : pc[id] \in Holding
          ELSE 0

Lock == INSTANCE OSLock WITH None <- 0, holder <- Holder

ImplementsLock == Lock!Spec

\* Each processor has one thread, if any, that uses the word.
OneEach ==
  \A i, j \in LockID :
    pc[i] # "idle" /\ pc[j] # "idle" /\ Processor(i) = Processor(j) => i = j

\* While some thread spins in OS_LockByWord, the word is taken by one again and
\* again: a free word is never left behind with an ID in lockFlag.  It is said of
\* the time from which on each processor has one thread that uses the word.
SomeoneGetsIt ==
  <>[]OneEach =>
    (\E id \in LockID : pc[id] \in {"spin", "loop"}) ~> (\E id \in LockID : pc[id] = "held")
=============================================================================
