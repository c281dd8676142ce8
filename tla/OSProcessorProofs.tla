-------------------------- MODULE OSProcessorProofs -------------------------
(* The safety properties of OSSpinLock for any sets of lock IDs, that the      *)
(* lock word implements OSLock, the safety properties of OSReset: what one     *)
(* processor finds of the other when it has started, and those of              *)
(* WMDataSharing for any children, that come and go, and any number of sets.   *)
(* OSProcessorInv has the inductive invariants.                                *)

EXTENDS OSProcessorInv, FiniteSetTheorems, TLAPS

\* The lock word begins free, with the bus at the ARM7.
LEMMA InitIInv == Init => IInv
BY IDAssumption DEF Init, IInv, TypeOK, MutualExclusion, FlagTellsFree, OwnerIsHolder,
   BusInv, LockID, Holding, Places, Processors

\* Every step of a thread keeps the invariant of the lock word.
LEMMA StepIInv == IInv /\ [Next]_vars => IInv'
<1> USE IDAssumption DEF LockID, IInv, TypeOK, MutualExclusion, FlagTellsFree,
        OwnerIsHolder, BusInv, Holding, Places, Processors, Processor, Goto
<1> SUFFICES ASSUME IInv, [Next]_vars PROVE IInv'
  OBVIOUS
<1>1. ASSUME NEW id \in LockID, Call(id) PROVE IInv'
  BY <1>1 DEF Call
<1>2. ASSUME NEW id \in LockID, SwapTakes(id) PROVE IInv'
  BY <1>2 DEF SwapTakes, Disable
<1>3. ASSUME NEW id \in LockID, SwapFails(id) PROVE IInv'
  BY <1>3 DEF SwapFails
<1>4. ASSUME NEW id \in LockID, HolderTries(id) PROVE IInv'
  BY <1>4 DEF HolderTries
<1>5. ASSUME NEW id \in LockID, WaitByLoop(id) PROVE IInv'
  BY <1>5 DEF WaitByLoop
<1>6. ASSUME NEW id \in LockID, AllocateBus(id) PROVE IInv'
  BY <1>6 DEF AllocateBus
<1>7. ASSUME NEW id \in LockID, SetOwner(id) PROVE IInv'
  BY <1>7 DEF SetOwner, Restore
<1>8. ASSUME NEW id \in LockID, Unlock(id) PROVE IInv'
  BY <1>8 DEF Unlock
<1>9. ASSUME NEW id \in LockID, ClearOwner(id) PROVE IInv'
  BY <1>9 DEF ClearOwner, Disable
<1>10. ASSUME NEW id \in LockID, FreeBus(id) PROVE IInv'
  BY <1>10 DEF FreeBus
<1>11. ASSUME NEW id \in LockID, ClearFlag(id) PROVE IInv'
  BY <1>11 DEF ClearFlag, Restore
<1>12. CASE UNCHANGED vars
  BY <1>12 DEF vars
<1> QED
  BY <1>1, <1>2, <1>3, <1>4, <1>5, <1>6, <1>7, <1>8, <1>9, <1>10, <1>11, <1>12
     DEF Next, Attempt, Progress

\* So it is always true.
LEMMA InductiveInvariant == Spec => []IInv
BY InitIInv, StepIInv, PTL DEF Spec

\* The variables of the lock word keep their types.
THEOREM TypeCorrect == Spec => []TypeOK
BY InductiveInvariant, PTL DEF IInv

\* Never two threads, on either processor, between taking and freeing the word.
THEOREM SpinLockExcludes == Spec => []MutualExclusion
BY InductiveInvariant, PTL DEF IInv

\* lockFlag is 0 exactly when nobody holds the word.
THEOREM FreeWordIsFree == Spec => []FlagTellsFree
BY InductiveInvariant, PTL DEF IInv

\* The bus belongs to the processor of the thread that may use it.
THEOREM BusIsHolders == Spec => []BusFollowsHolder
<1>1. IInv => BusFollowsHolder
  BY DEF IInv, BusInv, BusFollowsHolder
<1> QED
  BY <1>1, InductiveInvariant, PTL

\* ownerID names the holder, so that only the holder passes the test of unlock.
THEOREM OwnerIsTruthful == Spec => []OwnerIsHolder
BY InductiveInvariant, PTL DEF IInv

-----------------------------------------------------------------------------

\* The holder that OSLock has is the one that holds the word.
LEMMA HolderIsRight == IInv => HolderIs
<1> SUFFICES ASSUME IInv PROVE HolderIs
  OBVIOUS
<1>1. ASSUME NEW id \in LockID, pc[id] \in Holding PROVE Holder = id
  <2>1. \A j \in LockID : pc[j] \in Holding => j = id
    BY <1>1 DEF IInv, MutualExclusion
  <2>2. (CHOOSE j \in LockID : pc[j] \in Holding) = id
    BY <1>1, <2>1
  <2> QED
    BY <1>1, <2>2 DEF Holder
<1> QED
  BY <1>1 DEF Holder, HolderIs

\* The swap that takes the word acquires the lock, the store of 0 to lockFlag
\* releases it, and every other step leaves the lock alone.
LEMMA StepImplements == IInv /\ IInv' /\ [Next]_vars => [Lock!Next]_Holder
<1> SUFFICES ASSUME IInv, IInv', [Next]_vars PROVE [Lock!Next]_Holder
  OBVIOUS
<1>a. HolderIs
  BY HolderIsRight
<1>b. HolderIs'
  <2>1. (IInv => HolderIs)'
    BY HolderIsRight, PTL
  <2> QED
    BY <2>1
<1>c. pc \in [LockID -> Places]
  BY DEF IInv, TypeOK
<1>1. ASSUME NEW id \in LockID, SwapTakes(id) PROVE Lock!Acquire(id)
  <2>1. Holder = 0
    BY <1>1, <1>a DEF SwapTakes, HolderIs, IInv, FlagTellsFree
  <2>2. pc'[id] \in Holding
    BY <1>1, <1>c DEF SwapTakes, Goto, Holding
  <2> QED
    BY <2>1, <2>2, <1>b DEF HolderIs, Lock!Acquire
<1>2. ASSUME NEW id \in LockID, ClearFlag(id) PROVE Lock!Release(id)
  <2>1. Holder = id
    BY <1>2, <1>a DEF HolderIs, ClearFlag, Holding
  <2>2. \A j \in LockID : pc'[j] \notin Holding
    BY <1>2, <1>c DEF ClearFlag, Goto, Holding, IInv, MutualExclusion
  <2> QED
    BY <2>1, <2>2, <1>b DEF HolderIs, Lock!Release
<1>3. ASSUME \A j \in LockID : pc'[j] \in Holding <=> pc[j] \in Holding
      PROVE Holder' = Holder
  BY <1>3, <1>a, <1>b DEF HolderIs
<1>4. CASE UNCHANGED vars
  BY <1>3, <1>4 DEF vars
<1>5. ASSUME NEW id \in LockID, Progress(id) \/ Attempt(id) \/ HolderTries(id) \/ Call(id)
      PROVE SwapTakes(id) \/ ClearFlag(id)
            \/ \A j \in LockID : pc'[j] \in Holding <=> pc[j] \in Holding
  <2> USE <1>c DEF Goto, Holding
  <2>1. SwapFails(id) => \A j \in LockID : pc'[j] \in Holding <=> pc[j] \in Holding
    BY DEF SwapFails
  <2>2. HolderTries(id) \/ Call(id) => \A j \in LockID : pc'[j] \in Holding <=> pc[j] \in Holding
    BY DEF HolderTries, Call
  <2>3. WaitByLoop(id) \/ AllocateBus(id) \/ SetOwner(id)
        => \A j \in LockID : pc'[j] \in Holding <=> pc[j] \in Holding
    BY DEF WaitByLoop, AllocateBus, SetOwner
  <2>4. ClearOwner(id) \/ FreeBus(id) => \A j \in LockID : pc'[j] \in Holding <=> pc[j] \in Holding
    BY DEF ClearOwner, FreeBus
  <2>5. Unlock(id) => \A j \in LockID : pc'[j] \in Holding <=> pc[j] \in Holding
    BY DEF Unlock, IInv, OwnerIsHolder
  <2> QED
    BY <1>5, <2>1, <2>2, <2>3, <2>4, <2>5 DEF Progress, Attempt
<1>6. CASE Next
  BY <1>6, <1>1, <1>2, <1>3, <1>5 DEF Next, Lock!Next
<1> QED
  BY <1>4, <1>6

\* The lock word implements a lock: every behaviour of OSSpinLock is one of
\* OSLock with the ID between swap and store as the holder.
THEOREM SpinLockIsLock == Spec => ImplementsLock
<1>1. Init => Lock!Init
  <2> SUFFICES ASSUME Init PROVE Holder = 0
    BY DEF Lock!Init
  <2> QED
    BY DEF Init, Holder, Holding
<1> QED
  BY <1>1, StepImplements, InductiveInvariant, PTL DEF Spec, ImplementsLock, Lock!Spec

-----------------------------------------------------------------------------
(* The start and the reset.                                                   *)

\* The sequences of at most FifoDepth words are those a FIFO may hold.
LEMMA FifoIs ==
  ASSUME ResetAssumption
  PROVE  \A q : q \in Reset!FifoWords <=> q \in Seq(Reset!Word) /\ Len(q) <= FifoDepth
BY BoundedIs DEF ResetAssumption, Reset!FifoWords

\* A FIFO stays one when a word is added to it, if it has room, or taken from it.
LEMMA FifoFacts ==
  ASSUME ResetAssumption, NEW s \in Reset!FifoWords
  PROVE  /\ s \in Seq(Reset!Word) /\ Len(s) <= FifoDepth
         /\ <<>> \in Reset!FifoWords
         /\ \A e \in Reset!Word : Len(s) < FifoDepth => Append(s, e) \in Reset!FifoWords
         /\ s # <<>> => Tail(s) \in Reset!FifoWords
BY FifoIs, BoundedFacts DEF ResetAssumption

\* The types of the start and the reset, one by one.
LEMMA TypesSplit ==
  Reset!TypeOK' <=> /\ at' \in [Reset!Processor -> ResetPlaces]
                    /\ bits' \in [Reset!Processor -> 0..15]
                    /\ i' \in [Reset!Processor -> 0..8]
                    /\ c' \in 0..15
                    /\ {joined', wrote'} \subseteq BOOLEAN
                    /\ fifo' \in [Reset!Processor -> Reset!FifoWords]
                    /\ {callback', checker', occurred', idFlags'} \subseteq [Reset!Processor -> BOOLEAN]
                    /\ initOwner' \in {0, Reset!MAINP_SYSTEM - 1, Reset!MAINP_SYSTEM}
                    /\ extension' \in {0, Reset!SUBP_SYSTEM}
BY DEF Reset!TypeOK, ResetPlaces

\* What is known of the handshake stays true as long as nobody touches the bits and
\* the ARM9 stays out of the loop.
LEMMA HandshakeRests ==
  ASSUME ResetInv, PlacesOK', UNCHANGED Reset!handshake,
         at["ARM9"] \notin Opening, at'["ARM9"] \notin Opening,
         at'["ARM9"] \in {"clear", "await"} <=> at["ARM9"] \in {"clear", "await"},
         \A place \in {"fifo", "write", "wait", "signal", "await"} :
           at'["ARM7"] = place <=> at["ARM7"] = place
  PROVE  EchoOK' /\ CountOK' /\ SilentOK'
BY DEF ResetInv, Reset!TypeOK, EchoOK, CountOK, SilentOK, Reset!handshake, Opening,
   Reset!Processor

\* PXI_InitFifo clears the FIFO.
LEMMA InitFifoKeeps ==
  ASSUME ResetAssumption, ResetInv, NEW p \in Reset!Processor, Reset!InitFifo(p)
  PROVE  ResetInv'
<1> USE DEF Reset!InitFifo, Reset!Goto, Reset!Processor, Opening, Setup, Reset!Up
<1>0. fifo' = [fifo EXCEPT ![p] = <<>>] /\ Reset!TypeOK /\ at[p] = "fifo"
  BY DEF ResetInv
<1>1. Reset!TypeOK'
  <2>1. at' \in [Reset!Processor -> ResetPlaces]
    BY DEF ResetInv, Reset!TypeOK, ResetPlaces, Reset!Loop, Reset!Down
  <2>2. bits' \in [Reset!Processor -> 0..15] /\ i' \in [Reset!Processor -> 0..8] /\ c' \in 0..15
    BY DEF ResetInv, Reset!TypeOK
  <2>3. fifo' \in [Reset!Processor -> Reset!FifoWords]
    BY FifoFacts DEF ResetInv, Reset!TypeOK
  <2>4. /\ {joined', wrote'} \subseteq BOOLEAN
        /\ {callback', checker', occurred', idFlags'} \subseteq [Reset!Processor -> BOOLEAN]
        /\ initOwner' \in {0, Reset!MAINP_SYSTEM - 1, Reset!MAINP_SYSTEM}
        /\ extension' \in {0, Reset!SUBP_SYSTEM}
    BY DEF ResetInv, Reset!TypeOK
  <2> QED
    BY <2>1, <2>2, <2>3, <2>4, TypesSplit
<1>2. PlacesOK'
  BY DEF ResetInv, Reset!TypeOK, PlacesOK
<1>3. EchoOK'
  BY DEF ResetInv, Reset!TypeOK, PlacesOK, EchoOK
<1>4. CountOK'
  BY DEF ResetInv, Reset!TypeOK, PlacesOK, EchoOK, CountOK
<1>5. SilentOK'
  BY <1>2 DEF ResetInv, Reset!TypeOK, PlacesOK, SilentOK, Reset!Loop, Reset!Down
<1>6. WordsOK'
  <2>1. Len(fifo'[p]) = 0 /\ \A q \in Reset!Processor \ {p} : fifo'[q] = fifo[q]
    BY <1>0 DEF Reset!TypeOK
  <2>2. \A j : j \notin 1..Len(fifo'[p])
    BY <2>1
  <2> QED
    BY <2>1, <2>2 DEF ResetInv, Reset!TypeOK, WordsOK, PlacesOK
<1>7. LocksOK'
  BY DEF ResetInv, Reset!TypeOK, PlacesOK, WordsOK, LocksOK
<1> QED
  BY <1>1, <1>2, <1>3, <1>4, <1>5, <1>6, <1>7 DEF ResetInv

\* The ARM7 shows its count.
LEMMA Arm7_WriteKeeps ==
  ASSUME ResetAssumption, ResetInv, Reset!Arm7_Write
  PROVE  ResetInv'
<1> USE DEF Reset!Arm7_Write, Reset!Goto, Reset!Show, Reset!words, Reset!memory,
        Reset!Processor, Opening, Setup, Reset!Up
<1>1. Reset!TypeOK'
  <2>1. at' \in [Reset!Processor -> ResetPlaces] /\ bits' \in [Reset!Processor -> 0..15]
    BY DEF ResetInv, Reset!TypeOK, ResetPlaces, Reset!Loop
  <2> QED
    BY <2>1, TypesSplit DEF ResetInv, Reset!TypeOK
<1>2. PlacesOK'
  BY DEF ResetInv, Reset!TypeOK, PlacesOK
<1>3. EchoOK' /\ CountOK' /\ SilentOK'
  BY DEF ResetInv, Reset!TypeOK, PlacesOK, EchoOK, CountOK, SilentOK
<1>4. WordsOK' /\ LocksOK'
  BY DEF ResetInv, Reset!TypeOK, PlacesOK, WordsOK, LocksOK
<1> QED
  BY <1>1, <1>2, <1>3, <1>4 DEF ResetInv

\* The ARM7 looks at the ARM9's answer.
LEMMA Arm7_CheckKeeps ==
  ASSUME ResetAssumption, ResetInv, Reset!Arm7_Check
  PROVE  ResetInv'
<1> USE DEF Reset!Arm7_Check, Reset!Answered, Reset!Goto, Reset!words, Reset!memory,
        Reset!Processor, Opening, Setup, Reset!Up, Reset!Loop
<1>1. Reset!TypeOK'
  BY TypesSplit DEF ResetInv, Reset!TypeOK, ResetPlaces
<1>2. PlacesOK'
  <2>1. at["ARM7"] = "wait" /\ at'["ARM9"] = at["ARM9"] /\ at'["ARM7"] \in {"lock", "write"}
    BY DEF ResetInv, Reset!TypeOK
  <2>2. ASSUME at'["ARM7"] = "lock" PROVE at["ARM9"] \notin Opening
    <3>1. i["ARM7"] = 0 /\ bits["ARM9"] = 0 /\ bits["ARM7"] = 0
      BY <2>1, <2>2 DEF ResetInv, Reset!TypeOK, EchoOK
    <3> QED
      BY <2>1, <3>1 DEF ResetInv, Reset!TypeOK, EchoOK, CountOK
  <2>3. at'["ARM7"] = "write" => at["ARM9"] \in Opening
    BY <2>1 DEF ResetInv, Reset!TypeOK, PlacesOK, SilentOK, EchoOK
  <2> QED
    BY <2>1, <2>2, <2>3 DEF ResetInv, Reset!TypeOK, PlacesOK
<1>3. EchoOK' /\ CountOK' /\ SilentOK'
  <2>1. EchoOK'
    BY DEF ResetInv, Reset!TypeOK, PlacesOK, EchoOK
  <2>2. CountOK'
    BY DEF ResetInv, Reset!TypeOK, PlacesOK, EchoOK, CountOK
  <2>3. SilentOK'
    BY <1>2 DEF ResetInv, Reset!TypeOK, PlacesOK, EchoOK, CountOK, SilentOK
  <2> QED
    BY <2>1, <2>2, <2>3
<1>4. WordsOK' /\ LocksOK'
  BY DEF ResetInv, Reset!TypeOK, PlacesOK, WordsOK, LocksOK
<1> QED
  BY <1>1, <1>2, <1>3, <1>4 DEF ResetInv

\* The ARM9 answers, or leaves the loop.
LEMMA Arm9_LoopKeeps ==
  ASSUME ResetAssumption, ResetInv,
         \/ Reset!Arm9_Read
         \/ Reset!Arm9_Write
         \/ Reset!Arm9_Change
         \/ Reset!Arm9_Timeout
  PROVE  ResetInv'
<1> USE DEF Reset!Arm9_Read, Reset!Arm9_Write, Reset!Arm9_Change, Reset!Arm9_Timeout,
        Reset!Goto, Reset!Show, Reset!words, Reset!memory,
            Reset!Processor, Opening, Setup, Reset!Up, Reset!Loop, Reset!Started
<1>1. Reset!TypeOK'
  <2>1. at' \in [Reset!Processor -> ResetPlaces]
    BY DEF ResetInv, Reset!TypeOK, ResetPlaces
  <2>2. bits' \in [Reset!Processor -> 0..15] /\ i' \in [Reset!Processor -> 0..8] /\ c' \in 0..15
    BY DEF ResetInv, Reset!TypeOK, EchoOK
  <2>3. {joined', wrote'} \subseteq BOOLEAN
    BY DEF ResetInv, Reset!TypeOK
  <2> QED
    BY <2>1, <2>2, <2>3, TypesSplit DEF ResetInv, Reset!TypeOK
<1>2. PlacesOK'
  BY DEF ResetInv, Reset!TypeOK, PlacesOK, EchoOK, CountOK
<1>3. EchoOK'
  BY DEF ResetInv, Reset!TypeOK, PlacesOK, EchoOK
<1>4. CountOK'
  BY DEF ResetInv, Reset!TypeOK, PlacesOK, EchoOK, CountOK
<1>5. SilentOK'
  BY DEF ResetInv, Reset!TypeOK, PlacesOK, EchoOK, CountOK, SilentOK
<1>6. WordsOK' /\ LocksOK'
  <2>1. /\ at'["ARM7"] = at["ARM7"]
        /\ at["ARM9"] \in Reset!Loop
        /\ at'["ARM9"] \in Reset!Loop \cup {"lock"}
    BY DEF ResetInv, Reset!TypeOK
  <2>2. at'["ARM9"] = "lock" => at["ARM7"] = "wait"
    BY <1>2, <2>1 DEF ResetInv, PlacesOK
  <2> QED
    BY <2>1, <2>2 DEF ResetInv, Reset!TypeOK, PlacesOK, WordsOK, LocksOK
<1> QED
  BY <1>1, <1>2, <1>3, <1>4, <1>5, <1>6 DEF ResetInv

\* OS_InitLock, on either processor.
LEMMA InitLockKeeps ==
  ASSUME ResetAssumption, ResetInv,
         \/ Reset!Arm9_Lock \/ Reset!Arm9_InitIDs \/ Reset!Arm9_Unlock \/ Reset!Arm9_LockSystem
         \/ Reset!Arm7_ClearExtension \/ Reset!Arm7_InitIDs \/ Reset!Arm7_SetExtension
  PROVE  ResetInv'
<1> USE DEF Reset!Arm9_Lock, Reset!Arm9_InitIDs, Reset!Arm9_Unlock, Reset!Arm9_LockSystem,
            Reset!Arm7_ClearExtension, Reset!Arm7_InitIDs, Reset!Arm7_SetExtension,
            Reset!Goto, Reset!words, Reset!memory, Reset!Processor, Opening, Setup, Reset!Up
<1>1. Reset!TypeOK'
  <2>1. at' \in [Reset!Processor -> ResetPlaces]
    BY DEF ResetInv, Reset!TypeOK, ResetPlaces
  <2>2. UNCHANGED Reset!handshake /\ idFlags' \in [Reset!Processor -> BOOLEAN]
    BY DEF ResetInv, Reset!TypeOK
  <2> QED
    BY <2>1, <2>2, TypesSplit DEF ResetInv, Reset!TypeOK, Reset!handshake, Reset!MAINP_SYSTEM,
       Reset!SUBP_SYSTEM
<1>2. PlacesOK'
  BY DEF ResetInv, Reset!TypeOK, PlacesOK, LocksOK, Reset!MAINP_SYSTEM
<1>3. EchoOK' /\ CountOK' /\ SilentOK'
  BY <1>2, HandshakeRests DEF ResetInv, Reset!TypeOK, PlacesOK
<1>4. WordsOK'
  BY <1>2 DEF ResetInv, Reset!TypeOK, PlacesOK, WordsOK
<1>5. LocksOK'
  BY <1>2 DEF ResetInv, Reset!TypeOK, PlacesOK, LocksOK, Reset!MAINP_SYSTEM
<1> QED
  BY <1>1, <1>2, <1>3, <1>4, <1>5 DEF ResetInv

\* OS_InitReset sets the callback.
LEMMA OS_InitResetKeeps ==
  ASSUME ResetAssumption, ResetInv, NEW p \in Reset!Processor, Reset!OS_InitReset(p)
  PROVE  ResetInv'
<1> USE DEF Reset!OS_InitReset, Reset!Goto, Reset!Processor, Opening, Setup, Reset!Up
<1>1. Reset!TypeOK'
  BY TypesSplit DEF ResetInv, Reset!TypeOK, Reset!handshake, ResetPlaces
<1>2. PlacesOK'
  BY DEF ResetInv, Reset!TypeOK, PlacesOK, LocksOK
<1>3. EchoOK' /\ CountOK' /\ SilentOK'
  BY <1>2, HandshakeRests DEF ResetInv, Reset!TypeOK, PlacesOK
<1>4. WordsOK' /\ LocksOK'
  BY <1>2 DEF ResetInv, Reset!TypeOK, PlacesOK, WordsOK, LocksOK
<1> QED
  BY <1>1, <1>2, <1>3, <1>4 DEF ResetInv

\* OS_ResetSystem, and what the ARM9 does until it awaits the other.
LEMMA ResetKeeps ==
  ASSUME ResetAssumption, ResetInv,
         \/ (\E p \in Reset!Processor : Reset!OS_ResetSystem(p))
         \/ Reset!Reload
         \/ Reset!Reloaded
         \/ Reset!Arm9_Clear
  PROVE  ResetInv'
<1> USE DEF Reset!OS_ResetSystem, Reset!Reload, Reset!Reloaded, Reset!Arm9_Clear, Reset!Goto,
        Reset!words, Reset!memory,
            Reset!Processor, Opening, Setup, Reset!Up
<1>1. Reset!TypeOK'
  <2>1. at' \in [Reset!Processor -> ResetPlaces]
    BY DEF ResetInv, Reset!TypeOK, ResetPlaces, Reset!Down
  <2>2. UNCHANGED Reset!handshake /\ UNCHANGED Reset!words
    OBVIOUS
  <2>3. checker' \in [Reset!Processor -> BOOLEAN] /\ idFlags' \in [Reset!Processor -> BOOLEAN]
    BY DEF ResetInv, Reset!TypeOK, Reset!No
  <2>4. /\ initOwner' \in {0, Reset!MAINP_SYSTEM - 1, Reset!MAINP_SYSTEM}
        /\ extension' \in {0, Reset!SUBP_SYSTEM}
    BY DEF ResetInv, Reset!TypeOK
  <2> QED
    BY <2>1, <2>2, <2>3, <2>4, TypesSplit DEF ResetInv, Reset!TypeOK, Reset!handshake
<1>2. PlacesOK'
  BY DEF ResetInv, Reset!TypeOK, PlacesOK, WordsOK
<1>3. EchoOK' /\ CountOK' /\ SilentOK'
  BY <1>2, HandshakeRests DEF ResetInv, Reset!TypeOK, PlacesOK
<1>4. WordsOK'
  BY <1>2 DEF ResetInv, Reset!TypeOK, PlacesOK, WordsOK
<1>5. LocksOK'
  BY <1>2 DEF ResetInv, Reset!TypeOK, PlacesOK, WordsOK, LocksOK, Reset!No, Reset!Loop, Reset!Down
<1> QED
  BY <1>1, <1>2, <1>3, <1>4, <1>5 DEF ResetInv

\* The word that tells of a reset.
LEMMA SendResetKeeps ==
  ASSUME ResetAssumption, ResetInv, NEW p \in Reset!Processor, Reset!SendReset(p)
  PROVE  ResetInv'
<1> USE DEF Reset!SendReset, Reset!Send, Reset!Goto, Reset!memory, Reset!Processor, Opening,
        Setup, Reset!Up
<1>0. fifo' = [fifo EXCEPT ![p] = Append(fifo[p], "reset")]
  OBVIOUS
<1>1. Reset!TypeOK'
  <2>1. fifo' \in [Reset!Processor -> Reset!FifoWords]
    BY FifoFacts DEF ResetInv, Reset!TypeOK, Reset!Word
  <2> QED
    BY <2>1, TypesSplit DEF ResetInv, Reset!TypeOK, Reset!handshake, ResetPlaces, Reset!Down
<1>2. PlacesOK'
  BY DEF ResetInv, Reset!TypeOK, PlacesOK
<1>3. EchoOK' /\ CountOK' /\ SilentOK'
  BY <1>2, HandshakeRests DEF ResetInv, Reset!TypeOK, PlacesOK
<1>4. WordsOK'
  <2>1. fifo[p] \in Seq(Reset!Word)
    BY FifoFacts DEF ResetInv, Reset!TypeOK
  <2>2. \A j \in 1..Len(fifo'[p]) : fifo'[p][j] = IF j = Len(fifo'[p]) THEN "reset" ELSE fifo[p][j]
    BY <1>0, <2>1 DEF ResetInv, Reset!TypeOK
  <2>3. \A j \in 1..Len(fifo'[p]) : j # Len(fifo'[p]) => j \in 1..Len(fifo[p])
    BY <1>0, <2>1 DEF ResetInv, Reset!TypeOK
  <2>4. \A j \in 1..Len(fifo[p]) : fifo[p][j] \notin {"reset", "old"}
    BY DEF ResetInv, Reset!TypeOK, WordsOK
  <2>5. \A q \in Reset!Processor \ {p} : fifo'[q] = fifo[q]
    BY <1>0 DEF ResetInv, Reset!TypeOK
  <2> QED
    BY <1>2, <2>2, <2>3, <2>4, <2>5 DEF ResetInv, Reset!TypeOK, PlacesOK, WordsOK, Reset!Loop,
       Reset!Down
<1>5. LocksOK'
  BY <1>2 DEF ResetInv, Reset!TypeOK, PlacesOK, LocksOK
<1> QED
  BY <1>1, <1>2, <1>3, <1>4, <1>5 DEF ResetInv

\* A word that tells of something else.
LEMMA SendOtherKeeps ==
  ASSUME ResetAssumption, ResetInv, NEW p \in Reset!Processor, Reset!SendOther(p)
  PROVE  ResetInv'
<1> USE DEF Reset!SendOther, Reset!Send, Reset!handshake, Reset!memory
<1>0. fifo' = [fifo EXCEPT ![p] = Append(fifo[p], "other")]
  OBVIOUS
<1>1. Reset!TypeOK'
  <2>1. fifo' \in [Reset!Processor -> Reset!FifoWords]
    BY FifoFacts DEF ResetInv, Reset!TypeOK, Reset!Word
  <2> QED
    BY <2>1, TypesSplit DEF ResetInv, Reset!TypeOK, ResetPlaces
<1>2. PlacesOK' /\ EchoOK' /\ CountOK' /\ SilentOK' /\ LocksOK'
  BY DEF ResetInv, PlacesOK, EchoOK, CountOK, SilentOK, LocksOK
<1>3. WordsOK'
  <2>1. fifo[p] \in Seq(Reset!Word)
    BY FifoFacts DEF ResetInv, Reset!TypeOK
  <2>2. \A j \in 1..Len(fifo'[p]) : fifo'[p][j] = IF j = Len(fifo'[p]) THEN "other" ELSE fifo[p][j]
    BY <1>0, <2>1 DEF ResetInv, Reset!TypeOK
  <2>3. \A j \in 1..Len(fifo'[p]) : j # Len(fifo'[p]) => j \in 1..Len(fifo[p])
    BY <1>0, <2>1 DEF ResetInv, Reset!TypeOK
  <2>4. \A j \in 1..Len(fifo[p]) : fifo[p][j] \notin {"reset", "old"}
    BY DEF ResetInv, Reset!TypeOK, WordsOK, Reset!Processor
  <2>5. \A q \in Reset!Processor \ {p} : fifo'[q] = fifo[q]
    BY <1>0 DEF ResetInv, Reset!TypeOK
  <2> QED
    BY <2>2, <2>3, <2>4, <2>5 DEF ResetInv, WordsOK, Reset!Processor
<1> QED
  BY <1>1, <1>2, <1>3 DEF ResetInv

\* A word is received.
LEMMA ReceiveKeeps ==
  ASSUME ResetAssumption, ResetInv, NEW p \in Reset!Processor, Reset!Receive(p)
  PROVE  ResetInv'
<1> USE DEF Reset!Receive, Reset!handshake, Reset!memory, Reset!Other
<1> DEFINE q == Reset!Other(p)
<1>0. /\ fifo' = [fifo EXCEPT ![q] = Tail(fifo[q])] /\ fifo[q] # <<>>
      /\ q \in Reset!Processor /\ q # p
      /\ \A r \in Reset!Processor : r = p \/ r = q
  BY DEF Reset!Processor
<1>1. Reset!TypeOK'
  <2>1. fifo' \in [Reset!Processor -> Reset!FifoWords]
    <3>1. fifo \in [Reset!Processor -> Reset!FifoWords]
      BY DEF ResetInv, Reset!TypeOK
    <3>2. Tail(fifo[q]) \in Reset!FifoWords
      BY <1>0, <3>1, FifoFacts
    <3> QED
      BY <1>0, <3>1, <3>2
  <2>2. occurred' \in [Reset!Processor -> BOOLEAN]
    <3>1. callback \in [Reset!Processor -> BOOLEAN] /\ occurred \in [Reset!Processor -> BOOLEAN]
      BY DEF ResetInv, Reset!TypeOK
    <3> QED
      BY <3>1
  <2> QED
    BY <2>1, <2>2, TypesSplit DEF ResetInv, Reset!TypeOK, ResetPlaces
<1>2. PlacesOK' /\ EchoOK' /\ CountOK' /\ SilentOK' /\ LocksOK'
  BY DEF ResetInv, PlacesOK, EchoOK, CountOK, SilentOK, LocksOK
<1>3. WordsOK'
  <2>1. fifo[q] \in Seq(Reset!Word)
    BY <1>0, FifoFacts DEF ResetInv, Reset!TypeOK
  <2>2. /\ Len(fifo'[q]) = Len(fifo[q]) - 1
        /\ \A j \in 1..Len(fifo'[q]) : fifo'[q][j] = fifo[q][j + 1] /\ j + 1 \in 1..Len(fifo[q])
    BY <1>0, <2>1 DEF ResetInv, Reset!TypeOK
  <2>3. fifo'[p] = fifo[p] /\ Head(fifo[q]) = fifo[q][1] /\ 1 \in 1..Len(fifo[q])
    BY <1>0, <2>1 DEF ResetInv, Reset!TypeOK
  <2>4. ASSUME Head(fifo[q]) = "reset"
        PROVE  /\ \A j : j \notin 1..Len(fifo'[q])
               /\ at[q] = IF p = "ARM7" THEN "sent" ELSE at[q]
               /\ p = "ARM7" => at["ARM7"] = "run"
               /\ p = "ARM9" => at["ARM9"] = "sent" /\ at["ARM7"] \in {"boot", "signal"}
    <3>1. Len(fifo[q]) = 1
      BY <1>0, <2>3, <2>4 DEF ResetInv, WordsOK
    <3> QED
      BY <1>0, <2>2, <2>3, <2>4, <3>1 DEF ResetInv, WordsOK, Reset!Processor
  <2>5. \/ occurred' = occurred
        \/ /\ Head(fifo[q]) = "reset"
           /\ \A r \in Reset!Processor \ {p} : occurred'[r] = occurred[r]
    BY DEF ResetInv, Reset!TypeOK
  <2> HIDE DEF q
  <2> QED
    BY <1>0, <2>2, <2>3, <2>4, <2>5 DEF ResetInv, Reset!TypeOK, WordsOK, PlacesOK,
       Reset!Processor, Opening, Setup, Reset!Up
<1> QED
  BY <1>1, <1>2, <1>3 DEF ResetInv

\* Each tells the other that it is down, and both start again.
LEMMA BootKeeps ==
  ASSUME ResetAssumption, ResetInv,
         \/ Reset!Arm9_Signal
         \/ Reset!Arm9_Restart
         \/ Reset!Arm7_Signal
         \/ Reset!Arm7_Await
         \/ Reset!Arm7_Restart
  PROVE  ResetInv'
<1> USE DEF Reset!Arm9_Signal, Reset!Arm9_Restart, Reset!Arm7_Signal, Reset!Arm7_Await,
        Reset!Arm7_Restart, Reset!Restart, Reset!Goto, Reset!Show,
            Reset!words, Reset!memory, Reset!Processor, Opening, Setup, Reset!Up
<1>1. Reset!TypeOK'
  <2>1. at' \in [Reset!Processor -> ResetPlaces]
    BY DEF ResetInv, Reset!TypeOK, ResetPlaces, Reset!Down
  <2>2. bits' \in [Reset!Processor -> 0..15] /\ i' \in [Reset!Processor -> 0..8] /\ c' \in 0..15
    BY DEF ResetInv, Reset!TypeOK
  <2>3. callback' \in [Reset!Processor -> BOOLEAN] /\ occurred' \in [Reset!Processor -> BOOLEAN]
    <3>1. callback \in [Reset!Processor -> BOOLEAN] /\ occurred \in [Reset!Processor -> BOOLEAN]
      BY DEF ResetInv, Reset!TypeOK
    <3> QED
      BY <3>1
  <2> QED
    BY <2>1, <2>2, <2>3, TypesSplit DEF ResetInv, Reset!TypeOK
<1>2. PlacesOK'
  BY DEF ResetInv, Reset!TypeOK, PlacesOK, SilentOK
<1>3. EchoOK'
  BY DEF ResetInv, Reset!TypeOK, PlacesOK, EchoOK, SilentOK
<1>4. CountOK'
  BY <1>2 DEF ResetInv, Reset!TypeOK, PlacesOK, CountOK, SilentOK
<1>5. SilentOK'
  BY <1>2 DEF ResetInv, Reset!TypeOK, PlacesOK, SilentOK
<1>6. WordsOK'
  BY DEF ResetInv, Reset!TypeOK, PlacesOK, WordsOK, SilentOK
<1>7. LocksOK'
  BY DEF ResetInv, Reset!TypeOK, PlacesOK, LocksOK, SilentOK
<1> QED
  BY <1>1, <1>2, <1>3, <1>4, <1>5, <1>6, <1>7 DEF ResetInv

\* What is true at power on.
LEMMA InitHolds == ASSUME ResetAssumption PROVE Reset!Init => ResetInv
<1> SUFFICES ASSUME Reset!Init PROVE ResetInv
  OBVIOUS
<1> USE DEF Reset!Init, Reset!Processor
<1>1. Reset!TypeOK
  <2>1. <<>> \in Reset!FifoWords
    <3>1. <<>> \in Seq(Reset!Word) /\ Len(<<>>) = 0 /\ 0 <= FifoDepth
      BY DEF ResetAssumption
    <3> QED
      BY <3>1, FifoIs, Zenon
  <2>2. <<"old">> \in Reset!FifoWords
    <3>1. <<"old">> \in Seq(Reset!Word) /\ Len(<<"old">>) = 1 /\ 1 <= FifoDepth
      BY DEF ResetAssumption, Reset!Word
    <3>2. Len(<<"old">>) <= FifoDepth
      BY <3>1
    <3> QED
      BY <3>1, <3>2, FifoIs, Zenon
  <2>3. fifo \in [Reset!Processor -> Reset!FifoWords]
    BY <2>1, <2>2
  <2>4. at \in [Reset!Processor -> Reset!Loop \cup Reset!Down \cup Reset!Up \cup {"reset", "sent"}]
    BY DEF Reset!Down
  <2>5. bits \in [Reset!Processor -> 0..15]
    BY DEF ResetAssumption
  <2>6. i \in [Reset!Processor -> 0..8] /\ c \in 0..15
    OBVIOUS
  <2>7. {callback, checker, occurred, idFlags} \subseteq [Reset!Processor -> BOOLEAN]
    BY DEF Reset!No
  <2> QED
    BY <2>3, <2>4, <2>5, <2>6, <2>7 DEF Reset!Init, Reset!TypeOK
<1>2. PlacesOK /\ EchoOK /\ CountOK /\ SilentOK /\ LocksOK
  BY DEF ResetAssumption, PlacesOK, EchoOK, CountOK, SilentOK, LocksOK, Opening, Reset!No
<1>3. WordsOK
  BY DEF WordsOK, Opening, Setup, Reset!Up, Reset!No
<1> QED
  BY <1>1, <1>2, <1>3 DEF ResetInv

\* Every step of the start and the reset keeps the invariant.
LEMMA StepKeeps ==
  ASSUME ResetAssumption, ResetInv, [Reset!Next]_Reset!vars
  PROVE  ResetInv'
<1>1. CASE UNCHANGED Reset!vars
  BY <1>1 DEF Reset!vars, Reset!handshake, Reset!words, Reset!memory, ResetInv, Reset!TypeOK,
     PlacesOK, EchoOK, CountOK, SilentOK, WordsOK, LocksOK
<1>2. CASE Reset!Arm9
  BY <1>2, InitFifoKeeps, Arm9_LoopKeeps, InitLockKeeps, OS_InitResetKeeps, SendResetKeeps,
     ResetKeeps, BootKeeps DEF Reset!Arm9, Reset!Processor
<1>3. CASE Reset!Arm7
  BY <1>3, InitFifoKeeps, Arm7_WriteKeeps, Arm7_CheckKeeps, InitLockKeeps, OS_InitResetKeeps,
     SendResetKeeps, ResetKeeps, BootKeeps DEF Reset!Arm7, Reset!Processor
<1>4. CASE Reset!OS_ResetSystem("ARM9")
  BY <1>4, ResetKeeps DEF Reset!Processor
<1> QED
  BY <1>1, <1>2, <1>3, <1>4, SendOtherKeeps, ReceiveKeeps DEF Reset!Next

\* What the invariant says of processors that are up.
LEMMA ProcessorsMeet ==
  ASSUME ResetAssumption, ResetInv
  PROVE  Reset!UpTogether /\ Reset!LocksFirst /\ Reset!ResetIsHeard
<1> USE DEF ResetInv, Reset!Processor, Reset!Other, Reset!Down, Reset!Up, Opening, Setup,
        Reset!Range
<1>1. \A p \in Reset!Processor : fifo[p] \in Seq(Reset!Word)
  BY FifoFacts DEF Reset!TypeOK
<1>2. Reset!UpTogether
  BY <1>1 DEF Reset!UpTogether, PlacesOK, WordsOK
<1>3. Reset!LocksFirst
  BY DEF Reset!LocksFirst, PlacesOK, LocksOK, Reset!TypeOK, Reset!Loop
<1>4. Reset!ResetIsHeard
  BY <1>1 DEF Reset!ResetIsHeard, PlacesOK, WordsOK, LocksOK, Reset!TypeOK, Reset!Loop
<1> QED
  BY <1>2, <1>3, <1>4

-----------------------------------------------------------------------------
(* Data sharing: the slots, the callbacks counted, and what sets agree.       *)

\* Sets that follow each other are in slots that follow each other, round the
\* ring.
LEMMA SlotFacts ==
  /\ \A m \in Nat : SlotOf(m) \in Slot
  /\ \A m \in Nat : Sharing!Next4(SlotOf(m)) = SlotOf(m + 1)
  /\ \A m \in Nat \ {0} : Sharing!Prev4(SlotOf(m)) = SlotOf(m - 1)
  /\ \A m, n \in Nat : m < n /\ n < m + 4 => SlotOf(m) # SlotOf(n)
  /\ \A m \in Nat : SlotOf(m + 4) = SlotOf(m)
  /\ \A k \in Slot : Sharing!Next4(k) \in Slot
  /\ Slot = 0..3
<1> USE DEF SlotOf, Slot, Sharing!Slot, Sharing!DATASET_NUM, Sharing!Next4, Sharing!Prev4
<1>1. \A m \in Nat : SlotOf(m) \in Slot
  OBVIOUS
<1>2. \A m \in Nat : Sharing!Next4(SlotOf(m)) = SlotOf(m + 1)
  OBVIOUS
<1>3. \A m \in Nat \ {0} : Sharing!Prev4(SlotOf(m)) = SlotOf(m - 1)
  OBVIOUS
<1>4. \A m, n \in Nat : m < n /\ n < m + 4 => SlotOf(m) # SlotOf(n)
  OBVIOUS
<1>5. \A m \in Nat : SlotOf(m + 4) = SlotOf(m)
  OBVIOUS
<1>6. \A k \in Slot : Sharing!Next4(k) \in Slot
  OBVIOUS
<1> QED BY <1>1, <1>2, <1>3, <1>4, <1>5, <1>6

\* The parent's callbacks can be counted.
LEMMA NoticeCounts ==
  ASSUME NEW t \in Seq(Notices)
  PROVE  Len(t) \in Nat /\ \A k \in Nat : \A S : Later(t, k, S) \in Nat
BY LaterIsCount

\* Sets known before, and one that is new.
LEMMA AgreeKept ==
  ASSUME NEW S, Agree(S), NEW R, \A d \in R : \E f \in S : d.no = f.no /\ d.data = f.data
  PROVE  Agree(R)
BY DEF Agree

\* How far a set is ahead of the pieces it has, and up to which set pieces are
\* given.
LEMMA ShareNumbers ==
  ASSUME ShareAssumption, StateTypes
  PROVE  /\ Ahead \in 1..2 /\ (doubleMode <=> Ahead = 2) /\ (~doubleMode <=> Ahead = 1)
         /\ HasRead \in Nat /\ Given \in HasRead - 1 + Ahead..HasRead + Ahead
         /\ Sharing!LastSet = MaxSets + Ahead /\ MaxSets \in Nat
         /\ Sharing!Piece = 0..MaxSets + 6 /\ Sharing!Station = Child \cup {0} /\ 0 \notin Child
<1>1. Ahead \in 1..2 /\ (doubleMode <=> Ahead = 2) /\ (~doubleMode <=> Ahead = 1)
  BY DEF StateTypes, Ahead, Sharing!Ahead
<1>2. HasRead \in Nat
  <2>1. last[0] \in Sharing!DataSet \cup {NULL}
    BY DEF StateTypes, Sharing!Station
  <2>2. last[0] # NULL => last[0].no \in Nat
    BY <2>1 DEF Sharing!DataSet, Sharing!Piece, Sharing!DATASET_NUM
  <2> QED BY <2>2 DEF HasRead, Sharing!ReadNo
<1>3. Given \in HasRead - 1 + Ahead..HasRead + Ahead
  BY <1>1, <1>2 DEF Given
<1> QED
  BY <1>1, <1>2, <1>3
  DEF ShareAssumption, Sharing!LastSet, Ahead, Sharing!Piece, Sharing!DATASET_NUM,
      Sharing!Station

\* The set in a slot.
LEMMA RingNumbers ==
  ASSUME ShareAssumption, StateTypes, NEW q \in Rings, RingOK(q)
  PROVE  /\ Under(q) \in Nat /\ Top(q) \in Nat /\ Top(q) = Under(q) + Ahead - 1
         /\ Under(q) > HasRead /\ Under(q) <= Given + 1 /\ Under(q) > Ahead
         /\ Held(q, Under(q)) = q.ds[q.writeIndex]
         /\ \A m \in Nat : Held(q, m) \in Sharing!DataSet
         /\ \A m \in 1..Top(q) : m + 4 > Top(q) => Held(q, m).no = m
<1>1. q.writeIndex \in Slot /\ q.ds \in [Slot -> Sharing!DataSet]
  BY DEF Rings
<1>2. Under(q) \in Nat
  BY <1>1 DEF Under, Sharing!DataSet, Sharing!Piece, Sharing!DATASET_NUM
<1>3. \A m \in Nat : Held(q, m) \in Sharing!DataSet
  BY <1>1, SlotFacts DEF Held
<1>4. Held(q, Under(q)) = q.ds[q.writeIndex]
  BY DEF Held, RingOK
<1> QED BY <1>2, <1>3, <1>4, ShareNumbers DEF RingOK, Top

\* What a set has.
LEMMA DataSetFields ==
  ASSUME NEW d \in Sharing!DataSet
  PROVE  /\ d.no \in Sharing!Piece /\ d.aidBitmap \subseteq Sharing!Station
         /\ d.data \in [Sharing!Station -> Sharing!Piece] /\ d.no \in Nat
BY DEF Sharing!DataSet, Sharing!Piece, Sharing!DATASET_NUM

-----------------------------------------------------------------------------
(* A set is finished, and put.                                                *)

\* WmDataSharingSendDataSet as far as it finishes a set and begins another.
LEMMA FinishFacts ==
  ASSUME ShareAssumption, StateTypes, NEW q \in Rings, RingOK(q), Sharing!Complete(q),
         NEW con \in SUBSET Child, NEW delayed \in BOOLEAN
  PROVE  FinishedInto(q, Sharing!FinishDataSet(q, con, delayed), con)
<1> DEFINE f == Sharing!FinishDataSet(q, con, delayed)
<1> DEFINE w == Under(q)
<1> DEFINE new == Sharing!Fresh(w + Ahead, con \cup {0})
<1> DEFINE old == [q.ds[q.writeIndex] EXCEPT !.aidBitmap =
                     IF delayed THEN Child ELSE Sharing!Station]
<1>1. /\ w \in Nat /\ q.writeIndex = SlotOf(w) /\ Held(q, w) = q.ds[q.writeIndex]
      /\ w <= Given + 1
  BY RingNumbers DEF RingOK
<1>2. w <= Given /\ Held(q, w).aidBitmap = {}
  <2>1. Held(q, w).aidBitmap = {}
    BY <1>1 DEF Sharing!Complete
  <2>2. w \in w..Top(q)
    <3>1. Ahead \in 1..2 /\ Top(q) = w + Ahead - 1
      BY ShareNumbers DEF Top
    <3> QED BY <1>1, <3>1
  <2>3. ~(w > Given)
    BY <2>1, <2>2 DEF RingOK
  <2> QED BY <1>1, <2>1, <2>3, ShareNumbers
<1>3. SlotOf(w) \in Slot /\ SlotOf(w + 1) \in Slot /\ SlotOf(w + Ahead) \in Slot
      /\ SlotOf(w) # SlotOf(w + Ahead)
  <2>1. w + 1 \in Nat /\ w + Ahead \in Nat /\ w < w + Ahead /\ w + Ahead < w + 4
    <3>1. w \in Nat /\ Ahead \in 1..2
      BY <1>1, ShareNumbers
    <3> HIDE DEF w
    <3> QED BY <3>1
  <2>2. \A m \in Nat : SlotOf(m) \in Slot
    BY SlotFacts
  <2>3. \A m, n \in Nat : m < n /\ n < m + 4 => SlotOf(m) # SlotOf(n)
    BY SlotFacts
  <2> HIDE DEF w
  <2>4. SlotOf(w) # SlotOf(w + Ahead)
    BY <1>1, <2>1, <2>3
  <2> QED BY <1>1, <2>1, <2>2, <2>4
<1>4. f = [q EXCEPT !.writeIndex = SlotOf(w + 1),
             !.ds = [@ EXCEPT ![SlotOf(w + Ahead)] = new,
                              ![SlotOf(w)].aidBitmap = IF delayed THEN Child
                                                       ELSE Sharing!Station]]
  <2>1. Sharing!Next4(SlotOf(w)) = SlotOf(w + 1)
    BY <1>1, SlotFacts
  <2>2. (IF doubleMode THEN Sharing!Next4(SlotOf(w + 1)) ELSE SlotOf(w + 1)) = SlotOf(w + Ahead)
    <3>1. Sharing!Next4(SlotOf(w + 1)) = SlotOf((w + 1) + 1) /\ (w + 1) + 1 = w + 2
      BY <1>1, SlotFacts
    <3> QED BY <3>1, ShareNumbers
  <2>3. q.ds[q.writeIndex].no = w
    BY DEF Under
  <2> HIDE DEF w
  <2> QED BY <1>1, <2>1, <2>2, <2>3 DEF Sharing!FinishDataSet, Ahead
<1>5. q.ds \in [Slot -> Sharing!DataSet] /\ q.retry \in BOOLEAN /\ q.readIndex \in Slot
      /\ q.sendIndex \in Slot /\ q.writeIndex \in Slot
  BY DEF Rings
<1>6. f.ds = [q.ds EXCEPT ![SlotOf(w + Ahead)] = new, ![SlotOf(w)] = old]
  <2> HIDE DEF new, w
  <2> QED BY <1>1, <1>3, <1>4, <1>5 DEF Rings
<1>7. new \in Sharing!DataSet /\ new.no = w + Ahead
  <2>1. w + Ahead \in Sharing!Piece
    BY <1>1, <1>2, ShareNumbers DEF RingOK
  <2>2. Sharing!NoData \in [Sharing!Station -> Sharing!Piece]
    BY ShareNumbers DEF Sharing!NoData
  <2> HIDE DEF w
  <2> QED BY <2>1, <2>2, ShareNumbers DEF Sharing!Fresh, Sharing!DataSet
<1>8. old \in Sharing!DataSet /\ old.no = w /\ old.data = Held(q, w).data
      /\ Child \subseteq old.aidBitmap
  <2>1. q.ds[q.writeIndex] \in Sharing!DataSet
    BY <1>5
  <2> QED BY <1>1, <2>1, ShareNumbers DEF Sharing!DataSet, Under
<1> HIDE DEF new, old, w, f
<1>9. /\ f.ds[SlotOf(w + Ahead)] = new /\ f.ds[SlotOf(w)] = old
      /\ \A k \in Slot : k # SlotOf(w) /\ k # SlotOf(w + Ahead) => f.ds[k] = q.ds[k]
      /\ f.ds \in [Slot -> Sharing!DataSet]
  BY <1>3, <1>5, <1>6, <1>7, <1>8
<1>10. /\ f.writeIndex = SlotOf(w + 1) /\ f.readIndex = q.readIndex
       /\ f.sendIndex = q.sendIndex /\ f.retry = q.retry
  BY <1>4 DEF Rings
<1>11. f \in Rings
  BY <1>3, <1>4, <1>5, <1>6, <1>9, <1>10 DEF Rings
<1>12. \A m \in Nat : m # w /\ m < w + Ahead /\ m + 4 > w + Ahead => Held(f, m) = Held(q, m)
  <2> SUFFICES ASSUME NEW m \in Nat, m # w, m < w + Ahead, m + 4 > w + Ahead
               PROVE  Held(f, m) = Held(q, m)
    OBVIOUS
  <2>1. SlotOf(m) \in Slot /\ SlotOf(m) # SlotOf(w + Ahead)
    <3>1. w + Ahead \in Nat /\ w + Ahead < m + 4
      <4>1. Ahead \in 1..2
        BY ShareNumbers
      <4> QED BY <1>1, <4>1
    <3> QED BY <3>1, SlotFacts
  <2>2. SlotOf(m) # SlotOf(w)
    <3>1. m < w \/ w < m
      BY <1>1
    <3>2. m < w + 4 /\ w < m + 4
      BY <1>1, ShareNumbers
    <3> QED BY <1>1, <3>1, <3>2, SlotFacts
  <2> QED BY <1>9, <2>1, <2>2 DEF Held
<1>13. Under(f) = w + 1
  <2>1. CASE Ahead = 1
    BY <1>7, <1>9, <1>10, <2>1 DEF Under
  <2>2. CASE Ahead = 2
    <3>1. Held(f, w + 1) = Held(q, w + 1)
      BY <1>1, <1>12, <2>2
    <3>2. Held(q, w + 1).no = w + 1
      BY <1>1, <2>2, RingNumbers DEF w
    <3> QED BY <1>10, <3>1, <3>2 DEF Under, Held
  <2> QED BY <2>1, <2>2, ShareNumbers
<1> QED
  BY <1>2, <1>7, <1>8, <1>9, <1>10, <1>11, <1>12, <1>13 DEF FinishedInto, Held, w, f, new

\* What is counted is a number.
LEMMA CountsAreNumbers ==
  ASSUME ShareAssumption, StateTypes, NEW q, NEW p, NEW t, NEW con, ParentTypes(q, p, t, con),
         NEW o, NEW e \in Child
  PROVE  /\ InPort(p, e) \in 0..2 /\ Unread(e) \in 0..3 /\ Retries(e) \in 0..1
         /\ Len(reply[e]) \in Nat /\ Owed(q, t, o, e) \in 0..1 /\ Lacks(q, e) \in 0..2
         /\ \A k \in Nat : Later(t, k, DataOf(e)) \in Nat /\ Later(t, k, Reports) \in Nat
         /\ Len(p) \in Nat /\ Len(t) \in Nat /\ Unput(q, t, o) \in 0..1
         /\ OnTheWay(p, t, e) \in Nat /\ info[e] \in Rings
         /\ Unanswered(q, p, t, o, e) = Owed(q, t, o, e) + OnTheWay(p, t, e)
<1>1. InPort(p, e) \in 0..2 /\ Retries(e) \in 0..1
  BY DEF InPort, One, Unput, Retries
<1>7. Owed(q, t, o, e) \in 0..1 /\ Lacks(q, e) \in 0..2 /\ Unput(q, t, o) \in 0..1
  BY DEF One, Unput, Owed, Lacks
<1>2. info[e] \in Rings /\ Unread(e) \in 0..3
  <2>1. info[e] \in Rings
    BY ShareNumbers DEF StateTypes
  <2>2. info[e].writeIndex \in 0..3 /\ info[e].readIndex \in 0..3
    BY <2>1, SlotFacts DEF Rings
  <2> QED BY <2>1, <2>2 DEF Unread
<1>3. Len(reply[e]) \in Nat
  BY DEF StateTypes
<1>4. \A k \in Nat : Later(t, k, DataOf(e)) \in Nat /\ Later(t, k, Reports) \in Nat
  BY LaterIsCount DEF ParentTypes
<1>5. Len(p) \in Nat /\ Len(t) \in Nat
  BY DEF ParentTypes
<1>6. OnTheWay(p, t, e) \in Nat
  <2>1. Later(t, 1, DataOf(e)) \in Nat
    BY <1>4
  <2>2. InPort(p, e) \in Nat /\ Retries(e) \in Nat /\ Unread(e) \in Nat
    BY <1>1, <1>2
  <2>3. \A k, l, m, n, b \in Nat : k + l + m + n + b \in Nat
    OBVIOUS
  <2> QED BY <1>3, <2>1, <2>2, <2>3 DEF OnTheWay
<1> QED BY <1>1, <1>2, <1>3, <1>4, <1>5, <1>6, <1>7 DEF Unanswered

\* Sets that are known have a number.
LEMMA KnownNumbers ==
  ASSUME ShareAssumption, StateTypes, NEW q \in Rings, NEW p \in Seq(Packets)
  PROVE  \A d \in Known(q, p) : d \in Sharing!DataSet /\ d.no \in Nat
<1>1. q.ds \in [Slot -> Sharing!DataSet] /\ \A k \in DOMAIN p : p[k].set \in Sharing!DataSet
  <2>1. q.ds \in [Slot -> Sharing!DataSet]
    BY DEF Rings
  <2>2. \A k \in DOMAIN p : p[k] \in Packets
    OBVIOUS
  <2> QED BY <2>1, <2>2 DEF Packets
<1>2. \A s \in Sharing!Station : last[s] \in Sharing!DataSet \cup {NULL}
  BY DEF StateTypes
<1>3. \A e \in Child : info[e].ds \in [Slot -> Sharing!DataSet]
  <2>1. \A e \in Child : info[e] \in Rings
    <3>1. Child \subseteq Sharing!Station
      BY ShareNumbers
    <3> QED BY <3>1 DEF StateTypes
  <2> QED BY <2>1 DEF Rings
<1>4. \A d \in Known(q, p) : d \in Sharing!DataSet
  BY <1>1, <1>2, <1>3 DEF Known
<1> QED BY <1>4, DataSetFields

\* A callback that tells of no child.
LEMMA ToldAppended ==
  ASSUME NEW t, NEW u, NEW con, NEW o, ToldOK(t, con, o), Len(t) \in Nat,
         Len(u) = Len(t) + 1, \A k \in 1..Len(t) : u[k] = t[k],
         DOMAIN t = 1..Len(t), DOMAIN u = 1..Len(u),
         \/ u[Len(u)].is \in {"sent", "full"}
         \/ u[Len(u)].is = "data" /\ u[Len(u)].child \in linked \cap con
  PROVE  ToldOK(u, con, {}) /\ ToldOK(u, con, o)
<1>1. ToldOK(u, con, o)
  BY DEF ToldOK, NoticeOK
<1> QED BY <1>1 DEF ToldOK, NoticeOK

\* A set that is refused is the last of those the parent has given its piece
\* for.
LEMMA NothingRefused ==
  ASSUME ShareAssumption, StateTypes, NEW q, NEW p, NEW t, NEW con, AllOK(q, p, t, con, {}),
         Under(q) <= Given
  PROVE  ~Refusal(q, t)
<1> SUFFICES ASSUME Refusal(q, t) PROVE FALSE
  OBVIOUS
<1>1. ~doubleMode /\ Pending(q, t, {})
  BY DEF AllOK, ParentOK, PendingOK, Pending
<1>2. Later(t, 1, Reports) \in Nat /\ Len(p) \in Nat
  BY LaterIsCount DEF AllOK, ParentTypes
<1>3. Out(q, p, t, {}) \in Nat /\ Out(q, p, t, {}) >= 1
  BY <1>1, <1>2 DEF Out, One, Unput
<1>4. HasRead < Under(q) - Out(q, p, t, {})
  BY DEF AllOK, ParentOK, SentOK
<1>5. Under(q) \in Nat
  BY RingNumbers DEF AllOK, ParentOK, ParentTypes
<1> QED BY <1>1, <1>3, <1>4, <1>5, ShareNumbers

\* The set under collection is finished, and is to be put to whom is there.
LEMMA FinishKeeps ==
  ASSUME ShareAssumption, StateTypes, NEW q, NEW p, NEW t, NEW con, AllOK(q, p, t, con, {}),
         NEW f, FinishedInto(q, f, con)
  PROVE  AllOK(f, p, t, con, {[slot |-> q.writeIndex, dest |-> con]})
<1> DEFINE w == Under(q)
<1> DEFINE h == [slot |-> q.writeIndex, dest |-> con]
<1>1. /\ ParentTypes(q, p, t, con) /\ RingOK(q) /\ LackOK(q, con) /\ PendingOK(q, t, {})
      /\ SentOK(q, p, t, {}) /\ PortOK(q, p, t, con, {}) /\ ToldOK(t, con, {})
      /\ NoneLeftOut(q, p, t, {}) /\ KnownOK(q, p) /\ CollectOK(q) /\ FirstOK(q, p)
  BY DEF AllOK, ParentOK
<1>2. /\ q \in Rings /\ p \in Seq(Packets) /\ t \in Seq(Notices) /\ con \subseteq Child
      /\ f \in Rings
  BY <1>1 DEF ParentTypes, FinishedInto
<1>3. /\ w \in Nat /\ w <= Given /\ w > Ahead /\ w > HasRead /\ Top(q) = w + Ahead - 1
      /\ Under(f) = w + 1 /\ Top(f) = w + Ahead
  BY <1>1, <1>2, RingNumbers, ShareNumbers DEF FinishedInto, Top
<1>4. ~Refusal(q, t) /\ ~Refusal(f, t) /\ ~Pending(q, t, {}) /\ Pending(f, t, {h})
  <2>1. ~Refusal(q, t)
    BY <1>3, NothingRefused
  <2> QED BY <2>1 DEF FinishedInto, Refusal, Pending
<1>5. NextPut(f, t, {h}) = w /\ NextPut(q, t, {}) = w
  BY <1>3, <1>4 DEF NextPut, One, Unput
<1>6. /\ Held(f, w + Ahead) = Sharing!Fresh(w + Ahead, con \cup {0})
      /\ Held(f, w).no = w /\ Held(f, w).data = Held(q, w).data
      /\ Child \subseteq Held(f, w).aidBitmap
      /\ \A m \in Nat : m # w /\ m < w + Ahead /\ m + 4 > w + Ahead => Held(f, m) = Held(q, m)
      /\ Held(q, w).aidBitmap = {}
  BY DEF FinishedInto
<1>7. /\ Held(f, w + Ahead).no = w + Ahead /\ Held(f, w + Ahead).aidBitmap = con \cup {0}
      /\ Held(f, w + Ahead).data = [s \in Sharing!Station |-> 0]
  BY <1>6 DEF Sharing!Fresh, Sharing!NoData
<1> HIDE DEF w, h
<1>8. RingOK(f)
  <2>1. f.writeIndex = SlotOf(w + 1) /\ f.readIndex = SlotOf(HasRead + 1)
    BY <1>1 DEF FinishedInto, RingOK, w
  <2>2. \A m \in 1..Top(f) : m + 4 > Top(f) => Held(f, m).no = m
    <3> SUFFICES ASSUME NEW m \in 1..w + Ahead, m + 4 > w + Ahead PROVE Held(f, m).no = m
      BY <1>3
    <3>1. CASE m = w \/ m = w + Ahead
      BY <1>6, <1>7, <3>1
    <3>2. CASE m # w /\ m # w + Ahead
      <4>1. m \in Nat /\ m \in 1..Top(q) /\ m + 4 > Top(q) /\ m < w + Ahead
        BY <1>3, <3>2, ShareNumbers
      <4> QED BY <1>1, <1>6, <3>2, <4>1 DEF RingOK
    <3> QED BY <3>1, <3>2
  <2>3. ASSUME NEW m \in w + 1..w + Ahead
        PROVE  /\ 0 \in Held(f, m).aidBitmap <=> m > Given
               /\ 0 \notin Held(f, m).aidBitmap => Held(f, m).data[0] = m - Ahead
    <3>1. CASE m = w + Ahead
      <4>1. m > Given
        BY <1>1, <1>3, <3>1, ShareNumbers DEF RingOK, w
      <4> QED BY <1>7, <3>1, <4>1
    <3>2. CASE m # w + Ahead
      <4>1. m \in Nat /\ m \in Under(q)..Top(q) /\ m # w /\ m < w + Ahead /\ m + 4 > w + Ahead
        BY <1>3, <3>2, ShareNumbers DEF w
      <4> QED BY <1>1, <1>6, <4>1 DEF RingOK
    <3> QED BY <3>1, <3>2
  <2>4. ASSUME NEW m \in Ahead+1..w, m + 4 > w + Ahead
        PROVE  Child \subseteq Held(f, m).aidBitmap
    <3>1. CASE m = w
      BY <1>6, <3>1
    <3>2. CASE m # w
      <4>1. m \in Nat /\ m \in Ahead+1..w-1 /\ m + 4 > Top(q) /\ m < w + Ahead
        BY <1>3, <2>4, <3>2, ShareNumbers
      <4> QED BY <1>1, <1>6, <2>4, <3>2, <4>1 DEF RingOK, w
    <3> QED BY <3>1, <3>2
  <2>5. Under(f) > Ahead /\ Under(f) <= Given + 1 /\ Under(f) > HasRead
        /\ HasRead <= Sharing!LastSet
    BY <1>1, <1>3, ShareNumbers DEF RingOK
  <2>6. Under(f)..Top(f) = w + 1..w + Ahead /\ Under(f) - 1 = w
    BY <1>3
  <2>7. \A k \in Slot : k = SlotOf(f.ds[k].no)
    <3> SUFFICES ASSUME NEW k \in Slot PROVE k = SlotOf(f.ds[k].no)
      OBVIOUS
    <3>1. CASE k = SlotOf(w) \/ k = SlotOf(w + Ahead)
      BY <1>6, <1>7, <3>1 DEF Held
    <3>2. CASE k # SlotOf(w) /\ k # SlotOf(w + Ahead)
      BY <1>1, <3>2 DEF FinishedInto, RingOK, w
    <3> QED BY <3>1, <3>2
  <2> QED BY <1>3, <2>1, <2>2, <2>3, <2>4, <2>5, <2>6, <2>7 DEF RingOK
<1>9. LackOK(f, con)
  <2> SUFFICES ASSUME NEW m \in w + 1..w + Ahead
               PROVE  /\ Held(f, m).aidBitmap \subseteq con \cup {0}
                      /\ m < w + Ahead =>
                           Held(f, m).aidBitmap \subseteq Held(f, m + 1).aidBitmap \cup {0}
    BY <1>3 DEF LackOK
  <2>1. CASE m = w + Ahead
    BY <1>7, <2>1
  <2>2. CASE m # w + Ahead
    <3>1. /\ m \in Nat /\ m \in Under(q)..Top(q) /\ m # w /\ m < w + Ahead
          /\ m + 4 > w + Ahead /\ m + 1 = w + Ahead
      BY <1>3, <2>2, ShareNumbers DEF w
    <3>2. Held(f, m) = Held(q, m) /\ Held(q, m).aidBitmap \subseteq con \cup {0}
      BY <1>1, <1>6, <3>1 DEF LackOK
    <3> QED BY <1>7, <3>1, <3>2
  <2> QED BY <2>1, <2>2
<1>10. PendingOK(f, t, {h})
  <2>1. h.slot = SlotOf(Under(f) - 1) /\ Under(f) - 1 > Ahead
    BY <1>1, <1>3 DEF h, RingOK, w
  <2>2. f.retry = q.retry
    BY DEF FinishedInto
  <2> QED BY <1>1, <1>4, <2>1, <2>2 DEF PendingOK
<1>11. SentOK(f, p, t, {h})
  <2>1. Later(t, 1, Reports) \in Nat /\ Len(p) \in Nat
    BY <1>2, LaterIsCount
  <2>2. Out(q, p, t, {}) \in Nat /\ Out(f, p, t, {h}) = Out(q, p, t, {}) + 1
    BY <1>4, <2>1 DEF Out, One, Unput
  <2>3. f.sendIndex = q.sendIndex /\ Under(f) - Out(f, p, t, {h}) = Under(q) - Out(q, p, t, {})
    BY <1>3, <2>2 DEF FinishedInto, w
  <2> QED BY <1>1, <2>3 DEF SentOK
<1>12. PortOK(f, p, t, con, {h})
  <2>1. \A k \in DOMAIN p : p[k].rest \subseteq h.dest
    BY <1>1 DEF PortOK, h
  <2> QED BY <1>1, <1>5, <2>1 DEF PortOK
<1>13. ToldOK(t, con, {h})
  BY <1>1 DEF ToldOK, NoticeOK, h
<1>14. NoneLeftOut(f, p, t, {h})
  BY <1>4 DEF NoneLeftOut
<1>15. KnownOK(f, p) /\ CollectOK(f)
  <2>1. \A d \in Known(f, p) : \E g \in Known(q, p) \cup {Held(q, w)} :
          d.no = g.no /\ d.data = g.data
    <3> SUFFICES ASSUME NEW k \in Slot, f.ds[k].no < w + 1
                 PROVE  \E g \in Known(q, p) \cup {Held(q, w)} :
                          f.ds[k].no = g.no /\ f.ds[k].data = g.data
      BY <1>3 DEF Known
    <3>1. CASE k = SlotOf(w)
      <4>1. Held(q, w).no = w
        BY <1>1, <1>2, <1>3, RingNumbers, ShareNumbers DEF Under, w
      <4> QED BY <1>6, <3>1, <4>1 DEF Held
    <3>2. k # SlotOf(w + Ahead)
      BY <1>3, <1>7, ShareNumbers DEF Held
    <3>3. CASE k # SlotOf(w)
      <4>1. f.ds[k] = q.ds[k] /\ q.ds[k].no # w
        BY <1>1, <3>2, <3>3 DEF FinishedInto, RingOK, w
      <4>2. q.ds[k].no < Under(q)
        <5>1. q.ds[k].no \in Nat
          BY <1>2, DataSetFields DEF Rings
        <5> QED BY <1>3, <4>1, <5>1 DEF w
      <4>3. q.ds[k] \in Known(q, p)
        BY <4>2 DEF Known
      <4> QED BY <4>1, <4>3
    <3> QED BY <3>1, <3>3
  <2>2. Held(q, w).no = w
    BY <1>1, <1>2, <1>3, RingNumbers, ShareNumbers DEF Under, w
  <2>3. IsRight(Held(q, w))
    <3>1. w \in Under(q)..Top(q)
      BY <1>3, ShareNumbers DEF w
    <3>2. Held(q, w).data[0] = PieceOf(0, w)
      BY <1>1, <1>3, <1>6, <3>1 DEF RingOK, PieceOf
    <3>3. changes = 0 => \A e \in Child : Held(q, w).data[e] = PieceOf(e, w)
      BY <1>1, <1>6, <3>1 DEF CollectOK
    <3>4. w # 0
      BY <1>3, ShareNumbers
    <3> QED BY <2>2, <3>2, <3>3, <3>4 DEF IsRight
  <2>4. \A d \in Known(q, p) : d.no < w /\ IsRight(d)
    BY <1>1 DEF KnownOK, w
  <2>5. \A d \in Known(f, p) : d.no < Under(f) /\ IsRight(d)
    <3> SUFFICES ASSUME NEW d \in Known(f, p) PROVE d.no < w + 1 /\ IsRight(d)
      BY <1>3
    <3>1. PICK g \in Known(q, p) \cup {Held(q, w)} : d.no = g.no /\ d.data = g.data
      BY <2>1
    <3>2. IsRight(d)
      BY <2>3, <2>4, <3>1 DEF IsRight
    <3>3. CASE g = Held(q, w)
      BY <1>3, <2>2, <3>1, <3>2, <3>3
    <3>4. CASE g \in Known(q, p)
      <4>1. d.no < w
        BY <2>4, <3>1, <3>4
      <4>2. d.no \in Nat
        BY <1>2, KnownNumbers DEF ParentTypes
      <4> QED BY <1>3, <3>2, <4>1, <4>2
    <3> QED BY <3>1, <3>3, <3>4
  <2>6. Agree(Known(f, p))
    <3>1. ASSUME NEW d \in Known(q, p) PROVE d.no # w
      <4>1. d.no < w /\ d.no \in Nat
        BY <1>2, <2>4, KnownNumbers
      <4> QED BY <1>3, <4>1
    <3>2. Agree(Known(q, p) \cup {Held(q, w)})
      BY <1>1, <2>2, <3>1 DEF KnownOK, Agree
    <3> QED BY <2>1, <3>2, AgreeKept
  <2>7. CollectOK(f)
    <3> SUFFICES ASSUME changes = 0, NEW m \in w + 1..w + Ahead, NEW e \in Child
                 PROVE  Held(f, m).data[e] =
                          IF e \in Held(f, m).aidBitmap THEN 0 ELSE PieceOf(e, m)
      BY <1>3 DEF CollectOK
    <3>1. CASE m = w + Ahead
      <4>1. con = linked /\ e # 0 /\ e \in Sharing!Station
        BY <1>1, ShareNumbers DEF ToldOK, NoticeOK
      <4> QED BY <1>7, <3>1, <4>1 DEF PieceOf
    <3>2. CASE m # w + Ahead
      <4>1. m \in Nat /\ m \in Under(q)..Top(q) /\ m # w /\ m < w + Ahead /\ m + 4 > w + Ahead
        BY <1>3, <3>2, ShareNumbers DEF w
      <4> QED BY <1>1, <1>6, <4>1 DEF CollectOK
    <3> QED BY <3>1, <3>2
  <2> QED BY <2>5, <2>6, <2>7 DEF KnownOK
<1>16. KidsOK(f, p, t, con, {h})
  <2> SUFFICES ASSUME NEW e \in Child
               PROVE  /\ KidOK(e) /\ ReadsOK(f, p, t, con, {h}, e)
                      /\ PiecesOK(t, e) /\ BalanceOK(f, p, t, con, {h}, e)
    BY DEF KidsOK
  <2>1. /\ KidOK(e) /\ ReadsOK(q, p, t, con, {}, e)
        /\ PiecesOK(t, e) /\ BalanceOK(q, p, t, con, {}, e)
    BY DEF AllOK, KidsOK
  <2>2. ReadsOK(f, p, t, con, {h}, e)
    <3>1. FirstUnread(f, p, t, {h}, e) = FirstUnread(q, p, t, {}, e)
      BY <1>5 DEF FirstUnread
    <3>2. e \in con => e \in h.dest
      BY DEF h
    <3> QED BY <2>1, <3>1, <3>2 DEF ReadsOK
  <2>3. BalanceOK(f, p, t, con, {h}, e)
    <3> SUFFICES ASSUME e \in linked \cap con
                 PROVE  /\ Unanswered(f, p, t, {h}, e) - Lacks(f, e) \in 0..1
                        /\ Exact(p, {h}, e) => Unanswered(f, p, t, {h}, e) = Lacks(f, e)
      BY DEF BalanceOK
    <3>1. Owed(f, t, {h}, e) = 1 /\ Owed(q, t, {}, e) = 0
      BY <1>4 DEF Owed, One, Unput, h
    <3>2. Exact(p, {h}, e) => Exact(p, {}, e)
      BY DEF Exact, h
    <3>3. Lacks(f, e) = Lacks(q, e) + 1 /\ Lacks(q, e) \in Nat
      <4>1. CASE doubleMode
        <5>1. Ahead = 2 /\ w + 1 \in Nat /\ w + 1 + 4 > w + 2
          BY <1>3, <4>1, ShareNumbers
        <5>2. Held(f, w + 1) = Held(q, w + 1) /\ Held(f, w + 1 + 1).aidBitmap = con \cup {0}
          BY <1>3, <1>6, <1>7, <5>1
        <5> QED BY <1>3, <1>6, <4>1, <5>2 DEF Lacks, One, Unput, w
      <4>2. CASE ~doubleMode
        <5>1. Held(f, w + 1).aidBitmap = con \cup {0}
          BY <1>7, <4>2, ShareNumbers
        <5> QED BY <1>3, <1>6, <4>2, <5>1 DEF Lacks, One, Unput, w
      <4> QED BY <4>1, <4>2
    <3>4. Unanswered(f, p, t, {h}, e) = Unanswered(q, p, t, {}, e) + 1
          /\ Unanswered(q, p, t, {}, e) \in Nat
      <4>1. OnTheWay(p, t, e) \in Nat
        BY <1>1, CountsAreNumbers
      <4> QED BY <3>1, <4>1 DEF Unanswered
    <3> QED BY <2>1, <3>2, <3>3, <3>4 DEF BalanceOK
  <2> QED BY <2>1, <2>2, <2>3
<1>17. ParentTypes(f, p, t, con) /\ FirstOK(f, p)
  <2>1. Under(f) # 2
    BY <1>3, ShareNumbers
  <2> QED BY <1>2, <2>1 DEF ParentTypes, FirstOK
<1> QED
  BY <1>8, <1>9, <1>10, <1>11, <1>12, <1>13, <1>14, <1>15, <1>16, <1>17
  DEF AllOK, ParentOK, h

\* What is said of the ring does not depend on what has been put out of it.
LEMMA SameRingKeeps ==
  ASSUME NEW q, NEW f, SameRing(q, f), NEW p, NEW con
  PROVE  /\ Under(f) = Under(q) /\ Top(f) = Top(q) /\ \A m : Held(f, m) = Held(q, m)
         /\ RingOK(q) => RingOK(f)
         /\ LackOK(q, con) => LackOK(f, con)
         /\ CollectOK(q) => CollectOK(f)
         /\ PlaceOK(q) => PlaceOK(f)
         /\ KnownOK(q, p) => KnownOK(f, p)
         /\ FirstOK(q, p) => FirstOK(f, p)
         /\ \A e : Lacks(f, e) = Lacks(q, e)
<1>1. Under(f) = Under(q) /\ Top(f) = Top(q) /\ \A m : Held(f, m) = Held(q, m)
  BY DEF SameRing, Under, Top, Held
<1>2. Known(f, p) = Known(q, p)
  BY <1>1 DEF Known, SameRing
<1>3. RingOK(q) => RingOK(f)
  BY <1>1 DEF RingOK, SameRing
<1> QED BY <1>1, <1>2, <1>3 DEF LackOK, CollectOK, PlaceOK, KnownOK, FirstOK, Lacks

\* Without children there is nothing to send.
LEMMA PutAlone ==
  ASSUME ShareAssumption, StateTypes, NEW q, NEW p, NEW t, NEW con, NEW h,
         AllOK(q, p, t, con, {h}), linked = {}
  PROVE  AllOK([q EXCEPT !.sendIndex = Sharing!Next4(@)], p, t, con, {})
<1> DEFINE f == [q EXCEPT !.sendIndex = Sharing!Next4(@)]
<1>1. /\ ParentTypes(q, p, t, con) /\ RingOK(q) /\ LackOK(q, con) /\ PendingOK(q, t, {h})
      /\ SentOK(q, p, t, {h}) /\ PortOK(q, p, t, con, {h}) /\ ToldOK(t, con, {h})
      /\ KnownOK(q, p) /\ CollectOK(q) /\ FirstOK(q, p)
  BY DEF AllOK, ParentOK
<1>2. q \in Rings /\ p \in Seq(Packets) /\ t \in Seq(Notices)
  BY <1>1 DEF ParentTypes
<1>3. f \in Rings /\ SameRing(q, f) /\ f.retry = q.retry
      /\ f.sendIndex = Sharing!Next4(q.sendIndex)
  <2>1. Sharing!Next4(q.sendIndex) \in Slot
    BY <1>2, SlotFacts DEF Rings
  <2> QED BY <1>2, <2>1 DEF Rings, SameRing
<1> HIDE DEF f
<1>4. ~Refusal(q, t) /\ ~Refusal(f, t) /\ Pending(q, t, {h}) /\ ~Pending(f, t, {})
  <2>1. ~Refusal(q, t)
    BY <1>1 DEF PendingOK
  <2> QED BY <1>3, <2>1 DEF Refusal, Pending
<1>5. SentOK(f, p, t, {})
  <2>1. Later(t, 1, Reports) \in Nat /\ Len(p) \in Nat
    BY <1>2, NoticeCounts
  <2>2. Out(f, p, t, {}) \in Nat /\ Out(q, p, t, {h}) = Out(f, p, t, {}) + 1
    BY <1>4, <2>1 DEF Out, One, Unput
  <2>3. Under(f) = Under(q) /\ Under(q) \in Nat /\ HasRead \in Nat
    BY <1>1, <1>2, <1>3, SameRingKeeps, RingNumbers, ShareNumbers
  <2>4. Under(f) - Out(f, p, t, {}) = Under(q) - Out(q, p, t, {h}) + 1
    BY <2>2, <2>3
  <2>5. Under(q) - Out(q, p, t, {h}) \in Nat
    BY <1>1, <2>2, <2>3 DEF SentOK
  <2>6. Sharing!Next4(SlotOf(Under(q) - Out(q, p, t, {h}))) = SlotOf(Under(f) - Out(f, p, t, {}))
    BY <2>4, <2>5, SlotFacts
  <2> QED BY <1>1, <1>3, <2>3, <2>4, <2>5, <2>6 DEF SentOK
<1>6. PendingOK(f, t, {})
  BY <1>1, <1>3, <1>4 DEF PendingOK
<1>7. PortOK(f, p, t, con, {})
  <2>1. \A k \in DOMAIN p : p[k].rest = {}
    BY <1>1 DEF PortOK
  <2> QED BY <2>1 DEF PortOK
<1>8. ToldOK(t, con, {}) /\ NoneLeftOut(f, p, t, {})
  BY <1>1 DEF ToldOK, NoticeOK, NoneLeftOut
<1>9. RingOK(f) /\ LackOK(f, con) /\ KnownOK(f, p) /\ CollectOK(f) /\ FirstOK(f, p)
  BY <1>1, <1>3, SameRingKeeps
<1>10. KidsOK(f, p, t, con, {})
  BY DEF AllOK, KidsOK, ReadsOK, BalanceOK
<1>11. ParentTypes(f, p, t, con)
  BY <1>1, <1>3 DEF ParentTypes
<1> QED
  BY <1>5, <1>6, <1>7, <1>8, <1>9, <1>10, <1>11 DEF AllOK, ParentOK, f

\* None is left of those it is meant for: it is reported at once.
LEMMA PutToNobody ==
  ASSUME ShareAssumption, StateTypes, NEW q, NEW p, NEW t, NEW con, NEW h,
         AllOK(q, p, t, con, {h}), h.dest \cap linked = {}
  PROVE  AllOK(q, p, Append(t, [is |-> "sent"]), con, {})
<1> DEFINE u == Append(t, [is |-> "sent"])
<1>1. /\ ParentTypes(q, p, t, con) /\ RingOK(q) /\ LackOK(q, con) /\ PendingOK(q, t, {h})
      /\ SentOK(q, p, t, {h}) /\ PortOK(q, p, t, con, {h}) /\ ToldOK(t, con, {h})
      /\ NoneLeftOut(q, p, t, {h}) /\ KnownOK(q, p) /\ CollectOK(q) /\ FirstOK(q, p)
  BY DEF AllOK, ParentOK
<1>2. q \in Rings /\ p \in Seq(Packets) /\ t \in Seq(Notices)
  BY <1>1 DEF ParentTypes
<1>3. /\ u \in Seq(Notices) /\ Len(u) = Len(t) + 1 /\ u[Len(t) + 1] = [is |-> "sent"]
      /\ \A k \in 1..Len(t) : u[k] = t[k]
      /\ Len(t) \in Nat /\ [is |-> "sent"] \in Notices
  BY <1>2 DEF Notices
<1>4. ~Refusal(q, t) /\ ~Refusal(q, u) /\ Pending(q, t, {h}) /\ ~Pending(q, u, {})
  <2>1. ~Refusal(q, t)
    BY <1>1 DEF PendingOK
  <2> HIDE DEF u
  <2>2. ~Refusal(q, u)
    BY <1>3, <2>1 DEF Refusal
  <2> QED BY <2>1, <2>2 DEF Pending
<1>5. SentOK(q, p, u, {})
  <2>1. Later(t, 1, Reports) \in Nat /\ Len(p) \in Nat
    BY <1>2, NoticeCounts
  <2>2. Later(u, 1, Reports) = Later(t, 1, Reports) + 1
    <3>1. [is |-> "sent"] \in Reports
      BY DEF Reports
    <3>2. Later(u, 1, Reports) = Later(t, 1, Reports) + One([is |-> "sent"] \in Reports)
      <4> DEFINE x == [is |-> "sent"]
      <4>1. x \in Notices /\ 1 \in 1..Len(t) + 1
        BY <1>3
      <4> HIDE DEF x
      <4>2. Later(Append(t, x), 1, Reports) = Later(t, 1, Reports) + One(x \in Reports)
        BY <1>2, <4>1, LaterAppended
      <4> QED BY <4>2 DEF u, x
    <3> QED BY <3>1, <3>2 DEF One, Unput
  <2>3. Out(q, p, u, {}) = Out(q, p, t, {h})
    BY <1>4, <2>1, <2>2 DEF Out, One, Unput
  <2> QED BY <1>1, <2>3 DEF SentOK
<1> HIDE DEF u
<1>6. PendingOK(q, u, {})
  BY <1>1, <1>4, <1>3 DEF PendingOK, Refusal
<1>7. PortOK(q, p, u, con, {})
  <2>1. \A k \in DOMAIN p : p[k].rest = {}
    BY <1>1 DEF PortOK
  <2> QED BY <2>1 DEF PortOK
<1>8. ToldOK(u, con, {})
  BY <1>1, <1>3, ToldAppended
<1>9. NoneLeftOut(q, p, u, {})
  BY <1>1 DEF NoneLeftOut, ToldOK, NoticeOK
<1>10. KidsOK(q, p, u, con, {})
  <2> SUFFICES ASSUME NEW e \in Child
               PROVE  /\ KidOK(e) /\ ReadsOK(q, p, u, con, {}, e)
                      /\ PiecesOK(u, e) /\ BalanceOK(q, p, u, con, {}, e)
    BY DEF KidsOK
  <2>1. /\ KidOK(e) /\ ReadsOK(q, p, t, con, {h}, e)
        /\ PiecesOK(t, e) /\ BalanceOK(q, p, t, con, {h}, e)
    BY DEF AllOK, KidsOK
  <2>2. ReadsOK(q, p, u, con, {}, e)
    BY <2>1 DEF ReadsOK
  <2>3. [is |-> "sent"] \notin DataOf(e)
    BY DEF DataOf
  <2>4. \A k \in 1..Len(t) + 1 : Later(u, k, DataOf(e)) = Later(t, k, DataOf(e))
    <3> SUFFICES ASSUME NEW k \in 1..Len(t) + 1
                 PROVE  Later(u, k, DataOf(e)) = Later(t, k, DataOf(e))
      OBVIOUS
    <3>1. Later(u, k, DataOf(e)) = Later(t, k, DataOf(e)) + One([is |-> "sent"] \in DataOf(e))
      <4> DEFINE x == [is |-> "sent"]
      <4>1. x \in Notices
        BY <1>3
      <4> HIDE DEF x
      <4>2. Later(Append(t, x), k, DataOf(e)) = Later(t, k, DataOf(e)) + One(x \in DataOf(e))
        BY <1>2, <4>1, LaterAppended
      <4> QED BY <4>2 DEF u, x
    <3>2. Later(t, k, DataOf(e)) \in Nat
      <4>1. k \in Nat
        BY <1>3
      <4> QED BY <1>2, <4>1, NoticeCounts
    <3> QED BY <2>3, <3>1, <3>2 DEF One, Unput
  <2>5. PiecesOK(u, e)
    BY <1>3, <2>1, <2>4 DEF PiecesOK
  <2>6. BalanceOK(q, p, u, con, {}, e)
    <3>1. OnTheWay(p, u, e) = OnTheWay(p, t, e)
      BY <1>3, <2>4 DEF OnTheWay
    <3>2. e \in linked => Owed(q, u, {}, e) = 0 /\ Owed(q, t, {h}, e) = 0
                          /\ Exact(p, {h}, e)
      BY <1>4 DEF Owed, One, Unput, Exact
    <3> QED BY <2>1, <3>1, <3>2 DEF BalanceOK, Unanswered
  <2> QED BY <2>1, <2>2, <2>5, <2>6
<1> QED
  BY <1>1, <1>3, <1>5, <1>6, <1>7, <1>8, <1>9, <1>10 DEF AllOK, ParentOK, ParentTypes, u

\* Little is in the port.
LEMMA FewPut ==
  ASSUME ShareAssumption, StateTypes, NEW q, NEW p, NEW t, NEW con, ParentTypes(q, p, t, con),
         RingOK(q), NEW o, SentOK(q, p, t, o)
  PROVE  /\ Len(p) \in 0..2 /\ Len(p) + Unput(q, t, o) <= Ahead
         /\ Later(t, 1, Reports) + Len(p) + Unput(q, t, o) <= Under(q) - HasRead - 1
         /\ Under(q) <= HasRead + Ahead + 1
<1>1. Later(t, 1, Reports) \in Nat /\ Len(p) \in Nat
  BY NoticeCounts DEF ParentTypes
<1>2. Under(q) \in Nat /\ Under(q) <= Given + 1 /\ Given <= HasRead + Ahead /\ HasRead \in Nat
      /\ Ahead \in 1..2 /\ Given \in Int
  BY RingNumbers, ShareNumbers DEF ParentTypes
<1> DEFINE one == Unput(q, t, o)
<1>3. one \in 0..1
  BY DEF One, Unput
<1>4. HasRead < Under(q) - (Later(t, 1, Reports) + Len(p) + one)
  BY DEF SentOK, Out
<1> HIDE DEF one
<1>5. \A w, r, a, g, k, l \in Int : \A b \in 0..1 :
        /\ w <= g + 1 /\ g <= r + a /\ a <= 2 /\ k >= 0 /\ l >= 0 /\ r < w - (k + l + b)
        => l <= 2 /\ l + b <= a /\ k + l + b <= w - r - 1 /\ w <= r + a + 1
  OBVIOUS
<1>6. /\ Len(p) <= 2 /\ Len(p) + one <= Ahead
      /\ Later(t, 1, Reports) + Len(p) + one <= Under(q) - HasRead - 1
      /\ Under(q) <= HasRead + Ahead + 1
  <2> DEFINE k == Later(t, 1, Reports)
  <2> DEFINE l == Len(p)
  <2> DEFINE w == Under(q)
  <2>1. k \in Int /\ l \in Int /\ k >= 0 /\ l >= 0 /\ w \in Int /\ HasRead \in Int
        /\ Ahead \in Int /\ Ahead <= 2 /\ w <= Given + 1 /\ HasRead < w - (k + l + one)
    BY <1>1, <1>2, <1>4
  <2> HIDE DEF k, l, w
  <2>2. l <= 2 /\ l + one <= Ahead /\ k + l + one <= w - HasRead - 1 /\ w <= HasRead + Ahead + 1
    BY <1>2, <1>3, <1>5, <2>1
  <2> QED BY <2>2 DEF k, l, w
<1>7. Len(p) \in 0..2
  <2>1. Len(p) <= 2
    BY <1>6
  <2>2. \A k \in Nat : k <= 2 => k \in 0..2
    OBVIOUS
  <2> QED BY <1>1, <2>1, <2>2
<1> QED
  <2> HIDE DEF one
  <2> QED BY <1>6, <1>7, Zenon DEF one

\* It is sent to those who are there.
LEMMA PutToSome ==
  ASSUME ShareAssumption, StateTypes, NEW q, NEW p, NEW t, NEW con, NEW h \in Puts,
         AllOK(q, p, t, con, {h}), h.dest \cap linked # {},
         NEW pk, pk = [slot |-> h.slot, set |-> q.ds[h.slot], rest |-> h.dest \cap linked,
                       new |-> TRUE]
  PROVE  AllOK(q, Append(p, pk), t, con, {})
<1> DEFINE u == Append(p, pk)
<1> DEFINE n == Len(p)
<1>1. /\ ParentTypes(q, p, t, con) /\ RingOK(q) /\ LackOK(q, con) /\ PendingOK(q, t, {h})
      /\ SentOK(q, p, t, {h}) /\ PortOK(q, p, t, con, {h}) /\ ToldOK(t, con, {h})
      /\ NoneLeftOut(q, p, t, {h}) /\ KnownOK(q, p) /\ CollectOK(q) /\ FirstOK(q, p)
  BY DEF AllOK, ParentOK
<1>2. q \in Rings /\ p \in Seq(Packets) /\ t \in Seq(Notices) /\ con \subseteq Child
  BY <1>1 DEF ParentTypes
<1>3. /\ pk.slot = h.slot /\ pk.set = q.ds[h.slot] /\ pk.rest = h.dest \cap linked
      /\ pk.new = TRUE
  OBVIOUS
<1>4. ~Refusal(q, t) /\ Pending(q, t, {h}) /\ ~Pending(q, t, {})
  <2>1. ~Refusal(q, t)
    BY <1>1 DEF PendingOK
  <2> QED BY <2>1 DEF Pending
<1>5. /\ n \in 0..1 /\ Under(q) \in Nat /\ Under(q) > 1 /\ Ahead \in 1..2
      /\ Top(q) = Under(q) + Ahead - 1
  <2>1. Unput(q, t, {h}) = 1
    BY <1>4 DEF One, Unput
  <2>2. n \in 0..2 /\ n + Unput(q, t, {h}) <= Ahead
    BY <1>1, FewPut
  <2>3. Ahead \in 1..2
    BY ShareNumbers
  <2>4. Under(q) \in Nat /\ Under(q) > Ahead /\ Top(q) = Under(q) + Ahead - 1
    BY <1>1, <1>2, RingNumbers
  <2>5. \A k \in 0..2 : \A a \in 1..2 : k + 1 <= a => k \in 0..1
    OBVIOUS
  <2>6. n \in 0..1
    BY <2>1, <2>2, <2>3, <2>5
  <2> QED BY <2>3, <2>4, <2>6
<1>6. NextPut(q, t, {h}) = Under(q) - 1 /\ NextPut(q, t, {}) = Under(q)
  BY <1>4, <1>5 DEF NextPut, One, Unput
<1>7. /\ pk.set = Held(q, Under(q) - 1) /\ pk.set.no = Under(q) - 1 /\ pk.set \in Sharing!DataSet
      /\ pk.slot = SlotOf(Under(q) - 1)
      /\ Under(q) - 1 > Ahead => Child \subseteq pk.set.aidBitmap
  <2>1. h.slot = SlotOf(Under(q) - 1)
    BY <1>1 DEF PendingOK
  <2>2. Under(q) - 1 \in 1..Top(q) /\ (Under(q) - 1) + 4 > Top(q) /\ Under(q) - 1 \in Nat
    BY <1>5
  <2>3. Held(q, Under(q) - 1).no = Under(q) - 1 /\ Held(q, Under(q) - 1) \in Sharing!DataSet
    BY <1>1, <1>2, <2>2, RingNumbers
  <2>4. Under(q) - 1 > Ahead => Child \subseteq Held(q, Under(q) - 1).aidBitmap
    BY <1>1, <1>5, <2>2 DEF RingOK
  <2> QED BY <1>3, <2>1, <2>3, <2>4 DEF Held
<1>19. ~doubleMode => n = 0
  <2>1. Unput(q, t, {h}) = 1
    BY <1>4 DEF One, Unput
  <2>2. n \in 0..2 /\ n + Unput(q, t, {h}) <= Ahead
    BY <1>1, FewPut
  <2> QED BY <2>1, <2>2, ShareNumbers
<1>8. /\ pk \in Packets /\ u \in Seq(Packets) /\ Len(u) = n + 1 /\ u[n + 1] = pk
      /\ \A k \in 1..n : u[k] = p[k]
  <2>1. pk \in Packets
    BY <1>3, <1>7 DEF Packets, Puts
  <2> QED BY <1>2, <2>1
<1>9. DOMAIN u = 1..n + 1 /\ DOMAIN p = 1..n /\ u # <<>>
  BY <1>2, <1>8
<1> HIDE DEF u, n
<1>10. pk.rest \subseteq linked \cap con /\ \A k \in 1..n : p[k].rest \subseteq pk.rest
  <2>1. \A e \in linked \ con : e \notin h.dest
    BY <1>1 DEF ToldOK, NoticeOK
  <2> QED BY <1>1, <1>3, <1>9, <2>1 DEF PortOK
<1>11. SentOK(q, u, t, {})
  <2>1. Later(t, 1, Reports) \in Nat
    BY <1>2, NoticeCounts
  <2>2. Out(q, u, t, {}) = Out(q, p, t, {h})
    BY <1>4, <1>5, <1>8, <2>1 DEF Out, One, Unput, n
  <2> QED BY <1>1, <2>2 DEF SentOK
<1>12. PendingOK(q, t, {}) /\ ToldOK(t, con, {})
  BY <1>1, <1>4 DEF PendingOK, ToldOK, NoticeOK
<1>13. PortOK(q, u, t, con, {})
  <2> SUFFICES ASSUME NEW k \in 1..n + 1
               PROVE  /\ u[k].rest \subseteq linked \cap con
                      /\ doubleMode => u[k].rest \subseteq u[k].set.aidBitmap
                      /\ \A m \in 1..n + 1 : k < m => u[k].rest \subseteq u[m].rest
                      /\ u[k].rest # {} =>
                           /\ u[k].set.no = Under(q) + k - (n + 1) - 1
                           /\ u[k].slot = SlotOf(u[k].set.no)
                           /\ Child \subseteq u[k].set.aidBitmap \/ u[k].set.no <= Ahead
    BY <1>6, <1>8, <1>9 DEF PortOK
  <2>1. CASE k = n + 1
    <3>1. doubleMode => Under(q) - 1 > Ahead
      BY <1>1 DEF PendingOK
    <3>2. pk.rest \subseteq Child
      BY DEF StateTypes
    <3> QED BY <1>5, <1>7, <1>8, <1>10, <2>1, <3>1, <3>2
  <2>2. CASE k # n + 1
    <3>1. k \in 1..n /\ u[k] = p[k]
      BY <1>5, <1>8, <2>2
    <3>2. p[k].rest # {} => p[k].set.no = (Under(q) - 1) + k - n - 1
      BY <1>1, <1>6, <1>9, <3>1 DEF PortOK, n
    <3>3. \A m \in 1..n + 1 : k < m => u[k].rest \subseteq u[m].rest
      <4> SUFFICES ASSUME NEW m \in 1..n + 1, k < m PROVE p[k].rest \subseteq u[m].rest
        BY <3>1
      <4>1. CASE m = n + 1
        BY <1>8, <1>10, <3>1, <4>1
      <4>2. CASE m # n + 1
        <5>1. m \in 1..n /\ u[m] = p[m]
          BY <1>5, <1>8, <4>2
        <5> QED BY <1>1, <1>9, <3>1, <5>1 DEF PortOK
      <4> QED BY <4>1, <4>2
    <3>4. /\ p[k].rest \subseteq linked \cap con
          /\ doubleMode => p[k].rest \subseteq p[k].set.aidBitmap
          /\ p[k].rest # {} =>
               /\ p[k].slot = SlotOf(p[k].set.no)
               /\ Child \subseteq p[k].set.aidBitmap \/ p[k].set.no <= Ahead
      BY <1>1, <1>9, <3>1 DEF PortOK
    <3> QED BY <1>5, <3>1, <3>2, <3>3, <3>4
  <2> QED BY <2>1, <2>2
<1>14. KnownOK(q, u)
  <2>1. pk.set \in {q.ds[k] : k \in {m \in Slot : q.ds[m].no < Under(q)}}
    <3>1. h.slot \in Slot
      BY DEF Puts
    <3>2. Under(q) - 1 < Under(q)
      BY <1>5
    <3> QED BY <1>3, <1>7, <3>1, <3>2
  <2>2. {u[k].set : k \in {m \in DOMAIN u : u[m].rest # {}}} \subseteq
          {p[k].set : k \in {m \in DOMAIN p : p[m].rest # {}}} \cup {pk.set}
    BY <1>5, <1>8, <1>9
  <2>3. Known(q, u) \subseteq Known(q, p)
    BY <2>1, <2>2 DEF Known
  <2> QED BY <1>1, <2>3 DEF KnownOK, Agree
<1>15. ASSUME NEW e \in Child
       PROVE  InPort(u, e) = InPort(p, e) + One(e \in pk.rest) /\ InPort(p, e) \in 0..2
  <2>1. InPort(p, e) \in 0..2
    BY DEF InPort, One, Unput
  <2>2. CASE n = 0
    BY <1>8, <2>2 DEF InPort, One, Unput, n
  <2>3. CASE n = 1
    BY <1>8, <2>3 DEF InPort, One, Unput, n
  <2> QED BY <1>5, <2>1, <2>2, <2>3
<1>16. NoneLeftOut(q, u, t, {})
  <2> SUFFICES ASSUME changes = 0, NEW e \in linked PROVE Begun(u, e)
    BY DEF NoneLeftOut
  <2>1. e \in pk.rest /\ e \in Child
    BY <1>1, <1>3 DEF ToldOK, NoticeOK, StateTypes
  <2> QED BY <1>15, <2>1 DEF Begun, One, Unput
<1>18. FirstOK(q, u)
  <2> SUFFICES ASSUME ~doubleMode, Under(q) = 2, NEW k \in 1..n + 1
               PROVE  Held(q, 2).aidBitmap \subseteq u[k].set.aidBitmap \cup {0}
    BY <1>1, <1>9 DEF FirstOK
  <2>1. k = n + 1 /\ u[k] = pk
    <3>1. n = 0
      BY <1>19
    <3> QED BY <1>8, <3>1
  <2> QED BY <1>1, <1>7, <2>1 DEF FirstOK
<1>17. KidsOK(q, u, t, con, {})
  <2> SUFFICES ASSUME NEW e \in Child
               PROVE  /\ KidOK(e) /\ ReadsOK(q, u, t, con, {}, e)
                      /\ PiecesOK(t, e) /\ BalanceOK(q, u, t, con, {}, e)
    BY DEF KidsOK
  <2>1. /\ KidOK(e) /\ ReadsOK(q, p, t, con, {h}, e)
        /\ PiecesOK(t, e) /\ BalanceOK(q, p, t, con, {h}, e)
    BY DEF AllOK, KidsOK
  <2>2. Unread(e) \in 0..3 /\ OnTheWay(p, t, e) \in Nat
    BY <1>1, CountsAreNumbers
  <2>3. ReadsOK(q, u, t, con, {}, e)
    <3>3. e \in pk.rest /\ ~doubleMode => \A k \in DOMAIN u : e \in u[k].rest
      BY <1>8, <1>9, <1>19
    <3>1. CASE e \in pk.rest
      <4>1. FirstUnread(q, u, t, {}, e) = FirstUnread(q, p, t, {h}, e)
        BY <1>5, <1>6, <1>15, <2>2, <3>1 DEF FirstUnread, One, Unput
      <4>2. CASE Begun(p, e)
        BY <2>1, <3>3, <4>1, <4>2 DEF ReadsOK
      <4>3. CASE ~Begun(p, e)
        <5>1. last[e] = NULL /\ Unread(e) = 0 /\ InPort(p, e) = 0
          BY <1>15, <2>2, <4>3 DEF Begun
        <5>2. FirstUnread(q, u, t, {}, e) >= 1
          BY <1>5, <1>6, <4>1, <5>1 DEF FirstUnread
        <5> QED BY <1>10, <3>1, <3>3, <5>1, <5>2 DEF ReadsOK
      <4> QED BY <4>2, <4>3
    <3>2. CASE e \notin pk.rest
      <4>1. InPort(u, e) = InPort(p, e)
        BY <1>15, <3>2 DEF One, Unput
      <4>2. Begun(p, e) => e \in linked /\ e \in h.dest
        BY <2>1 DEF ReadsOK
      <4> QED BY <1>3, <3>2, <4>1, <4>2 DEF ReadsOK, Begun
    <3> QED BY <3>1, <3>2
  <2>4. BalanceOK(q, u, t, con, {}, e)
    <3> SUFFICES ASSUME e \in linked \cap con
                 PROVE  /\ Unanswered(q, u, t, {}, e) - Lacks(q, e) \in 0..1
                        /\ Exact(u, {}, e) => Unanswered(q, u, t, {}, e) = Lacks(q, e)
      BY DEF BalanceOK
    <3>1. Owed(q, t, {}, e) = 0 /\ Owed(q, t, {h}, e) = One(e \in h.dest)
      BY <1>4 DEF Owed, One, Unput
    <3>2. One(e \in pk.rest) = One(e \in h.dest)
      BY <1>3 DEF One, Unput
    <3>3. OnTheWay(u, t, e) = OnTheWay(p, t, e) + One(e \in h.dest)
      <4>1. Unread(e) \in Nat /\ Retries(e) \in Nat /\ Len(reply[e]) \in Nat
            /\ Later(t, 1, DataOf(e)) \in Nat
        <5>1. Later(t, 1, DataOf(e)) \in Nat
          BY <1>2, NoticeCounts
        <5>2. Retries(e) \in 0..1 /\ Len(reply[e]) \in Nat
          BY <1>1, CountsAreNumbers
        <5> QED BY <2>2, <5>1, <5>2
      <4>2. One(e \in h.dest) \in Nat
        BY DEF One, Unput
      <4>3. \A k, l, m, a, b, c1 \in Nat : (k + c1) + l + m + a + b = (k + l + m + a + b) + c1
        OBVIOUS
      <4>4. InPort(u, e) = InPort(p, e) + One(e \in h.dest) /\ InPort(p, e) \in Nat
        BY <1>15, <3>2
      <4> QED BY <4>1, <4>2, <4>3, <4>4 DEF OnTheWay
    <3>4. Unanswered(q, u, t, {}, e) = Unanswered(q, p, t, {h}, e)
      <4>1. One(e \in h.dest) \in 0..1
        BY DEF One, Unput
      <4> QED BY <2>2, <3>1, <3>3, <4>1 DEF Unanswered
    <3>5. Exact(u, {}, e) => Exact(p, {h}, e)
      BY <1>3, <1>8 DEF Exact
    <3> QED BY <2>1, <3>4, <3>5 DEF BalanceOK
  <2> QED BY <2>1, <2>3, <2>4
<1> QED
  BY <1>1, <1>2, <1>8, <1>11, <1>12, <1>13, <1>14, <1>16, <1>17, <1>18
  DEF AllOK, ParentOK, ParentTypes, u

\* WmDataSharingSetMPDataToPort: to nobody, to nobody who is left, or to some.
LEMMA PutKeeps ==
  ASSUME ShareAssumption, StateTypes, NEW q, NEW p, NEW t, NEW con, NEW h \in Puts,
         AllOK(q, p, t, con, {h}),
         NEW v, v = Sharing!SetMPDataToPort([info |-> q, port |-> p, told |-> t], h.slot, h.dest)
  PROVE  IsParent(v) /\ SameRing(q, v.info) /\ AllOK(v.info, v.port, v.told, con, {})
<1> DEFINE old == [info |-> q, port |-> p, told |-> t]
<1> DEFINE pk == [slot |-> h.slot, set |-> q.ds[h.slot], rest |-> h.dest \cap linked,
                  new |-> TRUE]
<1> DEFINE f == [q EXCEPT !.sendIndex = Sharing!Next4(@)]
<1>1. q \in Rings /\ SameRing(q, q) /\ SameRing(q, f)
  <2>1. q \in Rings
    BY DEF AllOK, ParentTypes
  <2>2. Sharing!Next4(q.sendIndex) \in Slot
    BY <2>1, SlotFacts DEF Rings
  <2> QED BY <2>1, <2>2 DEF Rings, SameRing
<1>2. CASE linked = {}
  <2>1. v = [old EXCEPT !.info.sendIndex = Sharing!Next4(@)]
    BY <1>2 DEF Sharing!SetMPDataToPort
  <2>2. v = [info |-> f, port |-> p, told |-> t]
    BY <2>1
  <2>3. AllOK(f, p, t, con, {})
    BY <1>2, PutAlone
  <2> HIDE DEF f
  <2>4. v.info = f /\ v.port = p /\ v.told = t
    BY <2>2
  <2> QED BY <1>1, <2>2, <2>3, <2>4 DEF IsParent
<1>3. CASE linked # {} /\ h.dest \cap linked = {}
  <2>1. v = [old EXCEPT !.told = Append(@, [is |-> "sent"])]
    BY <1>3 DEF Sharing!SetMPDataToPort
  <2>2. v = [info |-> q, port |-> p, told |-> Append(t, [is |-> "sent"])]
    BY <2>1
  <2>3. AllOK(q, p, Append(t, [is |-> "sent"]), con, {})
    BY <1>3, PutToNobody
  <2>4. v.info = q /\ v.port = p /\ v.told = Append(t, [is |-> "sent"])
    BY <2>2
  <2> QED BY <1>1, <2>2, <2>3, <2>4 DEF IsParent
<1>4. CASE h.dest \cap linked # {}
  <2>1. v = [old EXCEPT !.port = Append(@, pk)]
    BY <1>4 DEF Sharing!SetMPDataToPort
  <2> HIDE DEF pk
  <2>2. v = [info |-> q, port |-> Append(p, pk), told |-> t]
    BY <2>1
  <2>3. AllOK(q, Append(p, pk), t, con, {})
    BY <1>4, PutToSome DEF pk
  <2>4. v.info = q /\ v.port = Append(p, pk) /\ v.told = t
    BY <2>2
  <2> QED BY <1>1, <2>2, <2>3, <2>4 DEF IsParent
<1> QED BY <1>2, <1>3, <1>4

\* Of the step nothing is disturbed when a callback finishes a set.
LEMMA FinishPlace ==
  ASSUME ShareAssumption, StateTypes, NEW q \in Rings, RingOK(q), NEW f, NEW con,
         FinishedInto(q, f, con), RingOK(f), PlaceLeft(q), step.at \notin {"put", "reput"}
  PROVE  PlaceOK(f)
<1>1. /\ Under(q) \in Nat /\ Under(q) <= Given /\ Under(q) > HasRead
      /\ Under(f) = Under(q) + 1 /\ f \in Rings
  BY RingNumbers DEF FinishedInto
<1>2. ASSUME doubleMode PROVE ~(Under(f) < Given)
  BY <1>1, <1>2, ShareNumbers
<1>3. ASSUME doubleMode, step.at \in {"give", "next"} PROVE Held(f, Under(f)).aidBitmap # {}
  <2>1. Given = HasRead - 1 + Ahead
    BY <1>3 DEF Given, Giving, PlaceLeft
  <2>2. Under(f) > Given /\ Under(f) \in Under(f)..Top(f)
    BY <1>1, <1>3, <2>1, ShareNumbers DEF Top
  <2> QED BY <2>2 DEF RingOK
<1> QED BY <1>2, <1>3 DEF PlaceOK, PlaceLeft

\* WmDataSharingSendDataSet in a callback.
LEMMA SendKeeps ==
  ASSUME ShareAssumption, StateTypes, NEW v, IsParent(v), NEW con,
         AllOK(v.info, v.port, v.told, con, Sending), PlaceLeft(v.info)
  PROVE  LET u == Sharing!SendDataSet(v, con)
         IN  /\ IsParent(u) /\ AllOK(u.info, u.port, u.told, con, Sending) /\ PlaceOK(u.info)
             /\ PlaceLeft(u.info)
<1> DEFINE u == Sharing!SendDataSet(v, con)
<1> DEFINE q == v.info
<1> DEFINE f == Sharing!FinishDataSet(q, con, FALSE)
<1> DEFINE h == [slot |-> q.writeIndex, dest |-> con]
<1>1. q \in Rings /\ RingOK(q) /\ con \in SUBSET Child
  BY DEF AllOK, ParentOK, ParentTypes
<1>2. CASE ~Sharing!Complete(q)
  <2>1. u = v
    BY <1>2 DEF Sharing!SendDataSet
  <2>2. Held(q, Under(q)).aidBitmap # {}
    BY <1>1, <1>2, RingNumbers DEF Sharing!Complete
  <2>3. PlaceOK(q)
    BY <2>2 DEF PlaceOK, PlaceLeft
  <2> HIDE DEF u
  <2> QED BY <2>1, <2>3 DEF u
<1>3. CASE Sharing!Complete(q)
  <2> HIDE DEF f
  <2>1. FinishedInto(q, f, con)
    BY <1>1, <1>3, FinishFacts DEF f
  <2>2. step.at \notin {"put", "reput"} /\ Sending = {}
    <3>1. Under(q) \in Nat /\ Under(q) <= Given
      BY <1>1, <2>1, RingNumbers DEF FinishedInto
    <3>2. Given \in Int
      BY ShareNumbers
    <3> HIDE DEF q
    <3>3. step.at \notin {"put", "reput"}
      BY <3>1, <3>2 DEF PlaceLeft, q
    <3> QED BY <3>3 DEF Sending
  <2> HIDE DEF q
  <2>3. AllOK(f, v.port, v.told, con, {h})
    BY <2>1, <2>2, FinishKeeps DEF q
  <2>4. h \in Puts
    BY <1>1 DEF Rings, Puts
  <2>5. u = Sharing!SetMPDataToPort([info |-> f, port |-> v.port, told |-> v.told],
                                    h.slot, h.dest)
    <3>1. [v EXCEPT !.info = Sharing!FinishDataSet(@, con, FALSE)]
            = [info |-> f, port |-> v.port, told |-> v.told]
      <4>1. \A g : [v EXCEPT !.info = g] = [info |-> g, port |-> v.port, told |-> v.told]
        BY DEF IsParent
      <4>2. [v EXCEPT !.info = f] = [info |-> f, port |-> v.port, told |-> v.told]
        BY <4>1
      <4> QED BY <4>2 DEF f, q
    <3> QED BY <1>3, <3>1 DEF Sharing!SendDataSet, q
  <2> HIDE DEF h, u
  <2>6. IsParent(u) /\ SameRing(f, u.info) /\ AllOK(u.info, u.port, u.told, con, {})
    BY <2>3, <2>4, <2>5, PutKeeps
  <2>7. RingOK(f)
    BY <2>3 DEF AllOK, ParentOK
  <2>8. PlaceOK(f)
    BY <1>1, <2>1, <2>2, <2>7, FinishPlace DEF q
  <2>9. PlaceOK(u.info)
    BY <2>6, <2>8, SameRingKeeps
  <2> QED BY <2>2, <2>6, <2>9 DEF u, PlaceOK, PlaceLeft
<1> QED BY <1>2, <1>3

\* The set that a full queue refused is put again.
LEMMA RetryKeeps ==
  ASSUME ShareAssumption, StateTypes, NEW q, NEW p, NEW t, NEW con, AllOK(q, p, t, con, {}),
         q.retry
  PROVE  LET f == [q EXCEPT !.retry = FALSE]
             h == [slot |-> Sharing!Prev4(q.writeIndex), dest |-> con]
         IN  h \in Puts /\ SameRing(q, f) /\ AllOK(f, p, t, con, {h})
<1> DEFINE f == [q EXCEPT !.retry = FALSE]
<1> DEFINE h == [slot |-> Sharing!Prev4(q.writeIndex), dest |-> con]
<1>1. /\ ParentTypes(q, p, t, con) /\ RingOK(q) /\ LackOK(q, con) /\ PendingOK(q, t, {})
      /\ SentOK(q, p, t, {}) /\ PortOK(q, p, t, con, {}) /\ ToldOK(t, con, {})
      /\ NoneLeftOut(q, p, t, {}) /\ KnownOK(q, p) /\ CollectOK(q) /\ FirstOK(q, p)
  BY DEF AllOK, ParentOK
<1>2. q \in Rings /\ con \subseteq Child
  BY <1>1 DEF ParentTypes
<1>3. f \in Rings /\ SameRing(q, f) /\ f.retry = FALSE /\ f.sendIndex = q.sendIndex
  BY <1>2 DEF Rings, SameRing
<1>4. h.slot = SlotOf(Under(q) - 1) /\ h \in Puts
  <2>1. Under(q) \in Nat \ {0} /\ Under(q) - 1 \in Nat /\ q.writeIndex = SlotOf(Under(q))
    <3>1. Under(q) \in Nat
      BY <1>1, <1>2, RingNumbers
    <3>2. Ahead \in 1..2
      BY ShareNumbers
    <3>3. Under(q) > Ahead /\ q.writeIndex = SlotOf(Under(q))
      BY <1>1 DEF RingOK
    <3> QED BY <3>1, <3>2, <3>3
  <2>2. h.slot = SlotOf(Under(q) - 1)
    BY <2>1, SlotFacts
  <2>3. SlotOf(Under(q) - 1) \in Slot
    BY <2>1, SlotFacts
  <2> QED BY <1>2, <2>2, <2>3 DEF Puts
<1> HIDE DEF f
<1>5. Refusal(q, t) /\ ~Refusal(f, t) /\ Pending(q, t, {}) /\ Pending(f, t, {h})
      /\ ~doubleMode
  BY <1>1, <1>3 DEF PendingOK, Refusal, Pending
<1>6. Under(f) = Under(q)
  BY <1>3, SameRingKeeps
<1>7. Unput(f, t, {h}) = Unput(q, t, {}) /\ NextPut(f, t, {h}) = NextPut(q, t, {})
      /\ Out(f, p, t, {h}) = Out(q, p, t, {})
  BY <1>5, <1>6 DEF Unput, NextPut, Out
<1>8. PendingOK(f, t, {h})
  BY <1>1, <1>3, <1>4, <1>5, <1>6 DEF PendingOK, Refusal
<1>9. SentOK(f, p, t, {h}) /\ PortOK(f, p, t, con, {h}) /\ ToldOK(t, con, {h})
      /\ NoneLeftOut(f, p, t, {h})
  <2>1. SentOK(f, p, t, {h})
    BY <1>1, <1>3, <1>6, <1>7 DEF SentOK
  <2>2. PortOK(f, p, t, con, {h})
    BY <1>1, <1>7 DEF PortOK
  <2>3. ToldOK(t, con, {h})
    BY <1>1 DEF ToldOK, NoticeOK
  <2> QED BY <1>5, <2>1, <2>2, <2>3 DEF NoneLeftOut
<1>10. RingOK(f) /\ LackOK(f, con) /\ KnownOK(f, p) /\ CollectOK(f) /\ FirstOK(f, p)
  BY <1>1, <1>3, SameRingKeeps
<1>11. KidsOK(f, p, t, con, {h})
  <2> SUFFICES ASSUME NEW e \in Child
               PROVE  /\ KidOK(e) /\ ReadsOK(f, p, t, con, {h}, e)
                      /\ PiecesOK(t, e) /\ BalanceOK(f, p, t, con, {h}, e)
    BY DEF KidsOK
  <2>1. /\ KidOK(e) /\ ReadsOK(q, p, t, con, {}, e)
        /\ PiecesOK(t, e) /\ BalanceOK(q, p, t, con, {}, e)
    BY DEF AllOK, KidsOK
  <2>2. FirstUnread(f, p, t, {h}, e) = FirstUnread(q, p, t, {}, e)
    BY <1>7 DEF FirstUnread
  <2>3. ReadsOK(f, p, t, con, {h}, e)
    <3>1. \A k \in {h} : k.dest = con
      OBVIOUS
    <3> HIDE DEF h
    <3> QED BY <2>1, <2>2, <3>1 DEF ReadsOK
  <2>4. BalanceOK(f, p, t, con, {h}, e)
    <3> SUFFICES ASSUME e \in linked \cap con
                 PROVE  /\ Unanswered(f, p, t, {h}, e) - Lacks(f, e) \in 0..1
                        /\ Exact(p, {h}, e) => Unanswered(f, p, t, {h}, e) = Lacks(f, e)
      BY DEF BalanceOK
    <3>1. Owed(f, t, {h}, e) = Owed(q, t, {}, e)
      BY <1>5 DEF Owed, One
    <3>2. Lacks(f, e) = Lacks(q, e)
      BY <1>3, SameRingKeeps
    <3>3. Exact(p, {h}, e) => Exact(p, {}, e)
      BY DEF Exact
    <3> QED BY <2>1, <3>1, <3>2, <3>3 DEF BalanceOK, Unanswered
  <2> QED BY <2>1, <2>3, <2>4
<1>12. ParentTypes(f, p, t, con)
  BY <1>1, <1>3 DEF ParentTypes
<1>13. ParentOK(f, p, t, con, {h})
  <2> HIDE DEF h
  <2> QED BY <1>8, <1>9, <1>10 DEF ParentOK
<1>14. AllOK(f, p, t, con, {h})
  BY <1>11, <1>12, <1>13 DEF AllOK
<1> QED BY <1>3, <1>4, <1>14 DEF f

-----------------------------------------------------------------------------
(* The callbacks.  The first one is taken from those on their way.            *)

\* The callbacks that stay, told in terms of those there were.
LEMMA TailTold ==
  ASSUME NEW t \in Seq(Notices), t # <<>>, NEW con, NEW o, ToldOK(t, con, o),
         Head(t).is \notin {"connected", "disconnected"}
  PROVE  ToldOK(Tail(t), con, o)
<1> DEFINE u == Tail(t)
<1>1. /\ DOMAIN t = 1..Len(t) /\ DOMAIN u = 1..Len(u)
      /\ Len(t) \in Nat \ {0} /\ Len(u) = Len(t) - 1 /\ Head(t) = t[1]
      /\ \A k \in 1..Len(u) : k + 1 \in 1..Len(t) /\ u[k] = t[k + 1]
      /\ \A k \in 2..Len(t) : k - 1 \in 1..Len(u) /\ t[k] = u[k - 1]
  BY TailFacts
<1> HIDE DEF u
<1>2. ASSUME NEW k \in DOMAIN u
      PROVE  NoticeOK(u, k, con, o)
  <2>1. k + 1 \in DOMAIN t /\ u[k] = t[k + 1] /\ k \in Nat
    BY <1>1
  <2>2. \A n \in DOMAIN u : n + 1 \in DOMAIN t /\ u[n] = t[n + 1]
                            /\ (n + 1 = k + 1 => n = k) /\ (n + 1 < k + 1 => n < k)
    BY <1>1, <2>1
  <2> QED BY <2>1, <2>2 DEF ToldOK, NoticeOK
<1>3. \A k \in DOMAIN t : t[k].is \in {"connected", "disconnected"} =>
        \E n \in DOMAIN u : u[n] = t[k]
  <2> SUFFICES ASSUME NEW k \in 1..Len(t), t[k].is \in {"connected", "disconnected"}
               PROVE  \E n \in 1..Len(u) : u[n] = t[k]
    BY <1>1
  <2>1. k \in 2..Len(t)
    BY <1>1
  <2> QED BY <1>1, <2>1
<1>4. ASSUME NEW k \in DOMAIN u, u[k].is = "connected", u[k].child \notin linked
      PROVE  \E n \in DOMAIN u : u[n].is = "disconnected" /\ u[n].child = u[k].child
  <2>1. PICK n \in DOMAIN t : t[n].is = "disconnected" /\ t[n].child = u[k].child
    BY <1>1, <1>4 DEF ToldOK, NoticeOK
  <2> QED BY <1>3, <2>1
<1>5. /\ \A e \in linked \ con : \E k \in DOMAIN u : u[k].is = "connected" /\ u[k].child = e
      /\ \A e \in con \ linked : \E k \in DOMAIN u : u[k].is = "disconnected" /\ u[k].child = e
      /\ changes = 0 => con = linked /\ \A h \in o : h.dest = linked
  <2>1. ASSUME NEW e \in linked \ con
        PROVE  \E k \in DOMAIN u : u[k].is = "connected" /\ u[k].child = e
    <3>1. PICK k \in DOMAIN t : t[k].is = "connected" /\ t[k].child = e
      BY DEF ToldOK, NoticeOK
    <3> QED BY <1>3, <3>1
  <2>2. ASSUME NEW e \in con \ linked
        PROVE  \E k \in DOMAIN u : u[k].is = "disconnected" /\ u[k].child = e
    <3>1. PICK k \in DOMAIN t : t[k].is = "disconnected" /\ t[k].child = e
      BY DEF ToldOK, NoticeOK
    <3> QED BY <1>3, <3>1
  <2> QED BY <2>1, <2>2 DEF ToldOK, NoticeOK
<1>6. ToldOK(u, con, o)
  BY <1>2, <1>4, <1>5 DEF ToldOK, NoticeOK
<1> QED BY <1>6 DEF u

\* The pieces that are on their way stay in order when the first callback is
\* taken.
LEMMA TailPieces ==
  ASSUME NEW t \in Seq(Notices), t # <<>>, NEW e \in Child, PiecesOK(t, e)
  PROVE  PiecesOK(Tail(t), e)
<1> DEFINE u == Tail(t)
<1>1. /\ DOMAIN t = 1..Len(t) /\ DOMAIN u = 1..Len(u) /\ Len(u) = Len(t) - 1
      /\ Len(t) \in Nat
      /\ \A k \in 1..Len(u) : k + 1 \in 1..Len(t) /\ u[k] = t[k + 1]
      /\ \A k \in 1..Len(t) : \A S : Later(u, k, S) = Later(t, k + 1, S)
  BY TailFacts
<1> HIDE DEF u
<1> SUFFICES ASSUME NEW k \in 1..Len(u), u[k].is = "data", u[k].child = e, e \in linked
             PROVE  /\ last[e] # NULL
                    /\ u[k].piece = last[e].no - Retries(e) - Len(reply[e]) + 1
                                      - Later(u, k, DataOf(e))
  BY <1>1 DEF PiecesOK, u
<1>2. k \in 1..Len(t) /\ k + 1 \in DOMAIN t /\ u[k] = t[k + 1]
  BY <1>1
<1>3. Later(u, k, DataOf(e)) = Later(t, k + 1, DataOf(e))
  BY <1>1, <1>2
<1> QED BY <1>2, <1>3 DEF PiecesOK

\* A refusal that is on its way is no other callback.
LEMMA TailRefusal ==
  ASSUME NEW t \in Seq(Notices), t # <<>>, NEW q, NEW o, Head(t).is # "full"
  PROVE  /\ Refusal(q, Tail(t)) <=> Refusal(q, t)
         /\ PendingOK(q, t, o) => PendingOK(q, Tail(t), o)
<1> DEFINE u == Tail(t)
<1>1. /\ DOMAIN t = 1..Len(t) /\ DOMAIN u = 1..Len(u)
      /\ Len(t) \in Nat \ {0} /\ Len(u) = Len(t) - 1 /\ Head(t) = t[1]
      /\ \A k \in 1..Len(u) : k + 1 \in 1..Len(t) /\ u[k] = t[k + 1]
      /\ \A k \in 2..Len(t) : k - 1 \in 1..Len(u) /\ t[k] = u[k - 1]
  BY TailFacts
<1> HIDE DEF u
<1>2. \A k \in DOMAIN t : t[k].is = "full" => k - 1 \in DOMAIN u /\ u[k - 1] = t[k]
  <2> SUFFICES ASSUME NEW k \in 1..Len(t), t[k].is = "full"
               PROVE  k - 1 \in 1..Len(u) /\ u[k - 1] = t[k]
    BY <1>1
  <2>1. k \in 2..Len(t)
    BY <1>1
  <2> QED BY <1>1, <2>1
<1>3. \A k \in DOMAIN u : k + 1 \in DOMAIN t /\ u[k] = t[k + 1]
  BY <1>1
<1>4. Refusal(q, u) <=> Refusal(q, t)
  BY <1>2, <1>3 DEF Refusal
<1>5. PendingOK(q, t, o) => PendingOK(q, u, o)
  <2> SUFFICES ASSUME PendingOK(q, t, o), NEW k \in DOMAIN u, u[k].is = "full"
               PROVE  ~q.retry /\ \A n \in DOMAIN u : u[n].is = "full" => n = k
    BY <1>4 DEF PendingOK
  <2>1. \A n \in DOMAIN u : n + 1 = k + 1 => n = k
    BY <1>1
  <2> QED BY <1>3, <2>1 DEF PendingOK
<1> QED BY <1>4, <1>5 DEF u

\* What of the children is left as it is when a callback tells of none of them.
LEMMA TailKids ==
  ASSUME ShareAssumption, StateTypes, NEW q, NEW p, NEW t, NEW con, AllOK(q, p, t, con, Sending),
         t # <<>>, Head(t).is \in {"sent", "full"}, NEW f, SameRing(q, f),
         Refusal(f, Tail(t)) <=> Refusal(q, t)
  PROVE  KidsOK(f, p, Tail(t), con, Sending)
<1> DEFINE u == Tail(t)
<1>1. t \in Seq(Notices)
  BY DEF AllOK, ParentTypes
<1>2. /\ Head(t) = t[1] /\ \A S : Later(t, 1, S) = Later(u, 1, S) + One(t[1] \in S)
      /\ u \in Seq(Notices)
  BY <1>1, TailFacts
<1> HIDE DEF u
<1>3. Under(f) = Under(q) /\ NextPut(f, u, Sending) = NextPut(q, t, Sending)
  <2>1. Under(f) = Under(q)
    BY SameRingKeeps
  <2> QED BY <2>1 DEF NextPut, Unput, Pending, u
<1> SUFFICES ASSUME NEW e \in Child
             PROVE  /\ KidOK(e) /\ ReadsOK(f, p, u, con, Sending, e)
                    /\ PiecesOK(u, e) /\ BalanceOK(f, p, u, con, Sending, e)
  BY DEF KidsOK, u
<1>4. /\ KidOK(e) /\ ReadsOK(q, p, t, con, Sending, e)
      /\ PiecesOK(t, e) /\ BalanceOK(q, p, t, con, Sending, e)
  BY DEF AllOK, KidsOK
<1>5. FirstUnread(f, p, u, Sending, e) = FirstUnread(q, p, t, Sending, e)
  BY <1>3 DEF FirstUnread
<1>6. ReadsOK(f, p, u, con, Sending, e)
  BY <1>4, <1>5 DEF ReadsOK
<1>7. PiecesOK(u, e)
  BY <1>1, <1>4, TailPieces DEF u
<1>8. BalanceOK(f, p, u, con, Sending, e)
  <2>1. Lacks(f, e) = Lacks(q, e)
    BY SameRingKeeps
  <2>2. Later(t, 1, DataOf(e)) = Later(u, 1, DataOf(e))
    <3>1. t[1] \notin DataOf(e)
      BY <1>2 DEF DataOf
    <3>2. Later(u, 1, DataOf(e)) \in Nat
      BY <1>2, NoticeCounts
    <3>3. Later(t, 1, DataOf(e)) = Later(u, 1, DataOf(e)) + One(t[1] \in DataOf(e))
      BY <1>2
    <3> QED BY <3>1, <3>2, <3>3 DEF One
  <2>3. Owed(f, u, Sending, e) = Owed(q, t, Sending, e)
    BY DEF Owed, u
  <2>4. Unanswered(f, p, u, Sending, e) = Unanswered(q, p, t, Sending, e)
    BY <2>2, <2>3 DEF Unanswered, OnTheWay
  <2> QED BY <1>4, <2>1, <2>4 DEF BalanceOK
<1> QED BY <1>4, <1>6, <1>7, <1>8

\* WmDataSharingSetDataCallback: a set has been sent ...
LEMMA SentKeeps ==
  ASSUME ShareAssumption, StateTypes, NEW q, NEW p, NEW t, NEW con, AllOK(q, p, t, con, Sending),
         t # <<>>, Head(t).is = "sent"
  PROVE  LET f == [q EXCEPT !.sendIndex = Sharing!Next4(@)]
         IN  SameRing(q, f) /\ AllOK(f, p, Tail(t), con, Sending)
<1> DEFINE f == [q EXCEPT !.sendIndex = Sharing!Next4(@)]
<1> DEFINE u == Tail(t)
<1>1. /\ ParentTypes(q, p, t, con) /\ RingOK(q) /\ LackOK(q, con) /\ PendingOK(q, t, Sending)
      /\ SentOK(q, p, t, Sending) /\ PortOK(q, p, t, con, Sending) /\ ToldOK(t, con, Sending)
      /\ NoneLeftOut(q, p, t, Sending) /\ KnownOK(q, p) /\ CollectOK(q) /\ FirstOK(q, p)
  BY DEF AllOK, ParentOK
<1>2. q \in Rings /\ p \in Seq(Packets) /\ t \in Seq(Notices)
  BY <1>1 DEF ParentTypes
<1>3. f \in Rings /\ SameRing(q, f) /\ f.retry = q.retry
      /\ f.sendIndex = Sharing!Next4(q.sendIndex)
  <2>1. Sharing!Next4(q.sendIndex) \in Slot
    BY <1>2, SlotFacts DEF Rings
  <2> QED BY <1>2, <2>1 DEF Rings, SameRing
<1> HIDE DEF f
<1>4. (Refusal(f, u) <=> Refusal(q, t)) /\ PendingOK(q, u, Sending) /\ ToldOK(u, con, Sending)
  <2>1. Refusal(q, u) <=> Refusal(q, t)
    BY <1>2, TailRefusal
  <2>2. PendingOK(q, u, Sending)
    BY <1>1, <1>2, TailRefusal
  <2>3. ToldOK(u, con, Sending)
    BY <1>1, <1>2, TailTold
  <2> HIDE DEF u
  <2> QED BY <1>3, <2>1, <2>2, <2>3 DEF Refusal
<1>5. u \in Seq(Notices) /\ Later(t, 1, Reports) = Later(u, 1, Reports) + 1
  <2>1. /\ Head(t) = t[1] /\ t[1] \in Notices /\ u \in Seq(Notices)
        /\ \A S : Later(t, 1, S) = Later(u, 1, S) + One(t[1] \in S)
    BY <1>2, TailFacts
  <2> HIDE DEF u
  <2>2. t[1] \in Reports
    BY <2>1 DEF Notices, Reports
  <2>3. Later(t, 1, Reports) = Later(u, 1, Reports) + One(t[1] \in Reports)
    BY <2>1
  <2> QED BY <2>1, <2>2, <2>3 DEF One
<1>6. KidsOK(f, p, u, con, Sending)
  BY <1>3, <1>4, TailKids
<1> HIDE DEF u
<1>7. Under(f) = Under(q) /\ Unput(f, u, Sending) = Unput(q, t, Sending)
      /\ NextPut(f, u, Sending) = NextPut(q, t, Sending)
      /\ (Pending(f, u, Sending) <=> Pending(q, t, Sending))
  <2>1. Under(f) = Under(q)
    BY <1>3, SameRingKeeps
  <2> QED BY <1>4, <2>1 DEF NextPut, Unput, Pending
<1>8. PendingOK(f, u, Sending) /\ PortOK(f, p, u, con, Sending)
      /\ NoneLeftOut(f, p, u, Sending)
  <2>1. PendingOK(f, u, Sending)
    BY <1>3, <1>4, <1>7 DEF PendingOK, Refusal
  <2>2. PortOK(f, p, u, con, Sending)
    BY <1>1, <1>7 DEF PortOK
  <2>3. NoneLeftOut(f, p, u, Sending)
    BY <1>1, <1>7 DEF NoneLeftOut
  <2> QED BY <2>1, <2>2, <2>3
<1>9. SentOK(f, p, u, Sending)
  <2>1. Later(u, 1, Reports) \in Nat /\ Len(p) \in Nat /\ Unput(f, u, Sending) \in 0..1
    <3>1. Later(u, 1, Reports) \in Nat
      BY <1>5, NoticeCounts
    <3>2. Len(p) \in Nat
      BY <1>2
    <3> QED BY <3>1, <3>2 DEF Unput
  <2>2. Out(q, p, t, Sending) = Out(f, p, u, Sending) + 1 /\ Out(f, p, u, Sending) \in Nat
    <3>1. \A k, l, m \in Nat : (k + 1) + l + m = (k + l + m) + 1 /\ k + l + m \in Nat
      OBVIOUS
    <3>2. Unput(f, u, Sending) \in Nat
      BY <2>1
    <3>3. /\ Out(f, p, u, Sending) = Later(u, 1, Reports) + Len(p) + Unput(f, u, Sending)
          /\ Out(q, p, t, Sending) = (Later(u, 1, Reports) + 1) + Len(p) + Unput(f, u, Sending)
      BY <1>5, <1>7 DEF Out
    <3> QED BY <2>1, <3>1, <3>2, <3>3
  <2>3. Under(q) \in Nat /\ HasRead \in Nat
    BY <1>1, <1>2, RingNumbers, ShareNumbers
  <2>4. Under(f) - Out(f, p, u, Sending) = Under(q) - Out(q, p, t, Sending) + 1
    BY <1>7, <2>2, <2>3
  <2>5. Under(q) - Out(q, p, t, Sending) \in Nat
    BY <1>1, <2>2, <2>3 DEF SentOK
  <2>6. Sharing!Next4(SlotOf(Under(q) - Out(q, p, t, Sending)))
          = SlotOf(Under(f) - Out(f, p, u, Sending))
    BY <2>4, <2>5, SlotFacts
  <2>7. HasRead < Under(f) - Out(f, p, u, Sending)
    BY <1>1, <2>3, <2>4, <2>5 DEF SentOK
  <2> QED BY <1>1, <1>3, <2>6, <2>7 DEF SentOK
<1>10. RingOK(f) /\ LackOK(f, con) /\ KnownOK(f, p) /\ CollectOK(f) /\ FirstOK(f, p)
  BY <1>1, <1>3, SameRingKeeps
<1>11. ParentTypes(f, p, u, con)
  BY <1>1, <1>3, <1>5 DEF ParentTypes
<1>12. ParentOK(f, p, u, con, Sending)
  BY <1>4, <1>8, <1>9, <1>10 DEF ParentOK
<1> QED BY <1>3, <1>6, <1>11, <1>12 DEF AllOK, f, u

\* ... or the queue was full.
LEMMA RefusedKeeps ==
  ASSUME ShareAssumption, StateTypes, NEW q, NEW p, NEW t, NEW con, AllOK(q, p, t, con, Sending),
         t # <<>>, Head(t).is = "full"
  PROVE  LET f == [q EXCEPT !.retry = TRUE]
         IN  SameRing(q, f) /\ AllOK(f, p, Tail(t), con, Sending)
<1> DEFINE f == [q EXCEPT !.retry = TRUE]
<1> DEFINE u == Tail(t)
<1>1. /\ ParentTypes(q, p, t, con) /\ RingOK(q) /\ LackOK(q, con) /\ PendingOK(q, t, Sending)
      /\ SentOK(q, p, t, Sending) /\ PortOK(q, p, t, con, Sending) /\ ToldOK(t, con, Sending)
      /\ NoneLeftOut(q, p, t, Sending) /\ KnownOK(q, p) /\ CollectOK(q) /\ FirstOK(q, p)
  BY DEF AllOK, ParentOK
<1>2. q \in Rings /\ p \in Seq(Packets) /\ t \in Seq(Notices)
  BY <1>1 DEF ParentTypes
<1>3. f \in Rings /\ SameRing(q, f) /\ f.retry /\ f.sendIndex = q.sendIndex
  BY <1>2 DEF Rings, SameRing
<1> HIDE DEF f
<1>4. /\ DOMAIN t = 1..Len(t) /\ DOMAIN u = 1..Len(u) /\ 1 \in 1..Len(t) /\ Head(t) = t[1]
      /\ \A k \in 1..Len(u) : k + 1 \in 1..Len(t) /\ u[k] = t[k + 1]
      /\ u \in Seq(Notices)
      /\ \A S : Later(t, 1, S) = Later(u, 1, S) + One(t[1] \in S)
  BY <1>2, TailFacts
<1>5. ToldOK(u, con, Sending)
  BY <1>1, <1>2, TailTold
<1>6. Refusal(f, u) /\ Refusal(q, t) /\ Sending = {} /\ ~doubleMode
  <2> HIDE DEF u
  <2>1. Refusal(f, u) /\ Refusal(q, t)
    BY <1>3, <1>4 DEF Refusal
  <2> QED BY <1>1, <2>1 DEF PendingOK
<1>7. KidsOK(f, p, u, con, Sending)
  BY <1>3, <1>6, TailKids
<1> HIDE DEF u
<1>8. Under(f) = Under(q) /\ Unput(f, u, Sending) = Unput(q, t, Sending)
      /\ NextPut(f, u, Sending) = NextPut(q, t, Sending)
      /\ (Pending(f, u, Sending) <=> Pending(q, t, Sending))
  <2>1. Under(f) = Under(q)
    BY <1>3, SameRingKeeps
  <2> QED BY <1>6, <2>1 DEF NextPut, Unput, Pending
<1>9. PendingOK(f, u, Sending)
  <2>1. ASSUME NEW k \in 1..Len(u) PROVE u[k].is # "full"
    <3>1. k + 1 # 1
      OBVIOUS
    <3> QED BY <1>1, <1>4, <3>1 DEF PendingOK
  <2> QED BY <1>4, <1>6, <2>1 DEF PendingOK
<1>10. PortOK(f, p, u, con, Sending) /\ NoneLeftOut(f, p, u, Sending)
  <2>1. PortOK(f, p, u, con, Sending)
    BY <1>1, <1>8 DEF PortOK
  <2>2. NoneLeftOut(f, p, u, Sending)
    BY <1>1, <1>8 DEF NoneLeftOut
  <2> QED BY <2>1, <2>2
<1>11. SentOK(f, p, u, Sending)
  <2>1. t[1] \notin Reports
    BY <1>4 DEF Reports
  <2>2. Later(t, 1, Reports) = Later(u, 1, Reports) + One(t[1] \in Reports)
    BY <1>4
  <2>3. Later(u, 1, Reports) \in Nat
    BY <1>4, NoticeCounts
  <2>4. Later(t, 1, Reports) = Later(u, 1, Reports)
    BY <2>1, <2>2, <2>3 DEF One
  <2> QED BY <1>1, <1>3, <1>8, <2>4 DEF SentOK, Out
<1>12. RingOK(f) /\ LackOK(f, con) /\ KnownOK(f, p) /\ CollectOK(f) /\ FirstOK(f, p)
  BY <1>1, <1>3, SameRingKeeps
<1>13. ParentTypes(f, p, u, con)
  BY <1>1, <1>3, <1>4 DEF ParentTypes
<1>14. ParentOK(f, p, u, con, Sending)
  BY <1>5, <1>9, <1>10, <1>11, <1>12 DEF ParentOK
<1> QED BY <1>3, <1>7, <1>13, <1>14 DEF AllOK, f, u

-----------------------------------------------------------------------------
(* A piece is put into the first set under collection that lacks it.          *)

\* WmDataSharingReceiveData: the piece goes to the first set that waits for it,
\* if any.
LEMMA ReceiveFacts ==
  ASSUME ShareAssumption, StateTypes, NEW q \in Rings, RingOK(q), NEW s \in Sharing!Station,
         NEW piece \in Sharing!Piece
  PROVE  LET f == Sharing!ReceiveData(q, s, piece)
         IN  \/ f = q /\ \A m \in Under(q)..Top(q) : s \notin Held(q, m).aidBitmap
             \/ \E m \in Nat : ReceivedInto(q, f, s, m, piece)
<1> DEFINE f == Sharing!ReceiveData(q, s, piece)
<1> DEFINE w == Under(q)
<1>1. /\ w \in Nat /\ Top(q) = w + Ahead - 1 /\ q.writeIndex = SlotOf(w)
      /\ Sharing!Next4(q.writeIndex) = SlotOf(w + 1) /\ SlotOf(w) \in Slot
      /\ SlotOf(w + 1) \in Slot /\ w \in w..Top(q)
  <2>1. w \in Nat /\ Top(q) = w + Ahead - 1 /\ q.writeIndex = SlotOf(w) /\ w + 1 \in Nat
    BY RingNumbers DEF RingOK
  <2>2. w \in w..Top(q)
    BY <2>1, ShareNumbers
  <2>3. Sharing!Next4(q.writeIndex) = SlotOf(w + 1) /\ SlotOf(w) \in Slot
        /\ SlotOf(w + 1) \in Slot
    BY <2>1, SlotFacts
  <2> QED BY <2>1, <2>2, <2>3
<1> DEFINE Taken(k) ==
      [q EXCEPT !.ds[k].aidBitmap = @ \ {s}, !.ds[k].data[s] = piece]
<1> HIDE DEF w, Taken
<1>2. ASSUME NEW m \in w..Top(q), s \in Held(q, m).aidBitmap, SlotOf(m) \in Slot,
             \A n \in w..Top(q) : n < m => s \notin Held(q, n).aidBitmap,
             f = Taken(SlotOf(m))
      PROVE  ReceivedInto(q, f, s, m, piece)
  <2> DEFINE old == q.ds[SlotOf(m)]
  <2> DEFINE new == [old EXCEPT !.aidBitmap = @ \ {s}, !.data[s] = piece]
  <2> DEFINE k == SlotOf(m)
  <2>1. q.ds \in [Slot -> Sharing!DataSet] /\ old \in Sharing!DataSet
    BY <1>2 DEF Rings
  <2>2. /\ new \in Sharing!DataSet /\ new.no = old.no /\ new.aidBitmap = old.aidBitmap \ {s}
        /\ new.data[s] = piece
        /\ \A r \in Sharing!Station : r # s => new.data[r] = old.data[r]
    BY <2>1 DEF Sharing!DataSet
  <2>3. f = [q EXCEPT !.ds = [@ EXCEPT ![k] = new]]
    <3>1. f = [q EXCEPT !.ds[k].aidBitmap = @ \ {s}, !.ds[k].data[s] = piece]
      BY <1>2 DEF Taken
    <3> HIDE DEF f, k
    <3>2. k \in Slot /\ q.ds[k] = old
      BY <1>2 DEF k
    <3> QED BY <2>1, <3>1, <3>2 DEF Rings, Sharing!DataSet
  <2> HIDE DEF f, new, k
  <2>4. f.ds = [q.ds EXCEPT ![k] = new] /\ f \in Rings
        /\ f.writeIndex = q.writeIndex /\ f.readIndex = q.readIndex
        /\ f.sendIndex = q.sendIndex /\ f.retry = q.retry
    BY <2>1, <2>2, <2>3 DEF Rings
  <2>5. f.ds[k] = new /\ \A n \in Slot : n # k => f.ds[n] = q.ds[n]
    BY <1>2, <2>1, <2>4 DEF k
  <2> QED BY <1>2, <2>2, <2>4, <2>5 DEF ReceivedInto, Held, k, w
<1>3. CASE s \in Held(q, w).aidBitmap
  <2>1. f = Taken(SlotOf(w))
    BY <1>1, <1>3 DEF Sharing!ReceiveData, Sharing!PutIn, Sharing!Lacks, Held, Taken
  <2> HIDE DEF f
  <2>2. ReceivedInto(q, f, s, w, piece)
    BY <1>1, <1>2, <1>3, <2>1
  <2> QED BY <1>1, <2>2 DEF f
<1>4. CASE s \notin Held(q, w).aidBitmap /\ doubleMode /\ s \in Held(q, w + 1).aidBitmap
  <2>1. f = Taken(SlotOf(w + 1))
    BY <1>1, <1>4 DEF Sharing!ReceiveData, Sharing!PutIn, Sharing!Lacks, Held, Taken
  <2> HIDE DEF f
  <2>2. w + 1 \in w..Top(q) /\ \A n \in w..Top(q) : n < w + 1 => n = w
    BY <1>1, <1>4, ShareNumbers
  <2>3. ReceivedInto(q, f, s, w + 1, piece)
    BY <1>1, <1>2, <1>4, <2>1, <2>2
  <2> QED BY <1>1, <2>3 DEF f
<1>5. CASE s \notin Held(q, w).aidBitmap /\ ~(doubleMode /\ s \in Held(q, w + 1).aidBitmap)
  <2>1. f = q
    BY <1>1, <1>5 DEF Sharing!ReceiveData, Sharing!PutIn, Sharing!Lacks, Held
  <2>2. \A m \in w..Top(q) : m = w \/ (doubleMode /\ m = w + 1)
    BY <1>1, ShareNumbers
  <2> HIDE DEF f
  <2> QED BY <1>5, <2>1, <2>2 DEF f, w
<1> QED BY <1>3, <1>4, <1>5

\* What a piece leaves as it is.
LEMMA ReceivedKeeps ==
  ASSUME ShareAssumption, StateTypes, NEW q \in Rings, RingOK(q), NEW f,
         NEW s \in Sharing!Station, NEW m \in Nat, NEW piece, ReceivedInto(q, f, s, m, piece)
  PROVE  /\ Under(f) = Under(q) /\ Top(f) = Top(q)
         /\ \A n \in Nat : n # m /\ n <= Top(q) /\ n + 4 > Top(q) => Held(f, n) = Held(q, n)
         /\ Top(q) <= Under(q) + 1
         /\ \A p : Known(f, p) = Known(q, p)
         /\ \A p : KnownOK(q, p) => KnownOK(f, p)
         /\ \A p : FirstOK(q, p) => FirstOK(f, p)
         /\ \A con : LackOK(q, con) => LackOK(f, con)
         /\ \A e \in Child : Lacks(q, e) = Lacks(f, e) + IF e = s THEN 1 ELSE 0
<1> DEFINE w == Under(q)
<1>1. /\ w \in Nat /\ Top(q) = w + Ahead - 1 /\ Ahead \in 1..2 /\ (doubleMode <=> Ahead = 2)
      /\ m \in w..Top(q) /\ Held(q, m).no = m /\ w > Ahead
  <2>1. w \in Nat /\ Top(q) = w + Ahead - 1 /\ w > Ahead
    BY RingNumbers
  <2>2. Ahead \in 1..2 /\ (doubleMode <=> Ahead = 2)
    BY ShareNumbers
  <2>3. m \in w..Top(q)
    BY DEF ReceivedInto
  <2>4. m \in 1..Top(q) /\ m + 4 > Top(q)
    BY <2>1, <2>2, <2>3
  <2> QED BY <2>1, <2>2, <2>3, <2>4, RingNumbers
<1> HIDE DEF w
<1>2. /\ \A k \in Slot : k # SlotOf(m) => f.ds[k] = q.ds[k]
      /\ Held(f, m).no = m /\ Held(f, m).aidBitmap = Held(q, m).aidBitmap \ {s}
      /\ f.writeIndex = q.writeIndex /\ f \in Rings /\ s \in Held(q, m).aidBitmap
      /\ \A n \in w..Top(q) : n < m => s \notin Held(q, n).aidBitmap
  BY <1>1 DEF ReceivedInto, w
<1>3. \A n \in Nat : n # m /\ n <= Top(q) /\ n + 4 > Top(q) => Held(f, n) = Held(q, n)
  <2> SUFFICES ASSUME NEW n \in Nat, n # m, n <= Top(q), n + 4 > Top(q)
               PROVE  Held(f, n) = Held(q, n)
    OBVIOUS
  <2>1. (n < m /\ m < n + 4) \/ (m < n /\ n < m + 4)
    BY <1>1
  <2>2. SlotOf(n) # SlotOf(m) /\ SlotOf(n) \in Slot
    BY <1>1, <2>1, SlotFacts
  <2> QED BY <1>2, <2>2 DEF Held
<1>4. Under(f) = w /\ Top(f) = Top(q) /\ Held(q, w).no = w
  <2>1. q.writeIndex = SlotOf(w)
    BY DEF RingOK, w
  <2>2. Held(q, w).no = w
    BY <2>1 DEF Held, Under, w
  <2>3. Held(f, w).no = w
    BY <1>1, <1>2, <1>3, <2>2
  <2>4. Under(f) = w
    BY <1>2, <2>1, <2>3 DEF Under, Held
  <2> QED BY <1>1, <2>2, <2>4 DEF Top
<1>5. Top(q) <= w + 1 /\ w <= Top(q)
  BY <1>1
<1>6. Held(f, w - 1) = Held(q, w - 1) /\ w - 1 \in Nat
  <2>1. w - 1 \in Nat /\ w - 1 # m /\ w - 1 <= Top(q) /\ (w - 1) + 4 > Top(q)
    BY <1>1
  <2> QED BY <1>3, <2>1
<1>7. ASSUME NEW p PROVE Known(f, p) = Known(q, p)
  <2>1. ~(f.ds[SlotOf(m)].no < w) /\ ~(q.ds[SlotOf(m)].no < w)
    BY <1>1, <1>2 DEF Held
  <2>2. {f.ds[k] : k \in {n \in Slot : f.ds[n].no < Under(f)}}
          = {q.ds[k] : k \in {n \in Slot : q.ds[n].no < Under(q)}}
    BY <1>2, <1>4, <2>1 DEF w
  <2> QED BY <2>2 DEF Known
<1>8. ASSUME NEW p, KnownOK(q, p) PROVE KnownOK(f, p)
  BY <1>4, <1>7, <1>8 DEF KnownOK, w
<1>9. ASSUME NEW n \in w..Top(q)
      PROVE  /\ Held(f, n).aidBitmap \subseteq Held(q, n).aidBitmap
             /\ Held(q, n).aidBitmap \subseteq Held(f, n).aidBitmap \cup {s}
             /\ n # m => Held(f, n) = Held(q, n)
  <2>1. n \in Nat /\ n + 4 > Top(q)
    BY <1>1
  <2> QED BY <1>2, <1>3, <2>1
<1>10. ASSUME NEW p, FirstOK(q, p) PROVE FirstOK(f, p)
  <2> SUFFICES ASSUME ~doubleMode, w = 2
               PROVE  /\ Held(f, 2).aidBitmap \subseteq Held(f, 1).aidBitmap \cup {0}
                      /\ \A k \in DOMAIN p :
                           Held(f, 2).aidBitmap \subseteq p[k].set.aidBitmap \cup {0}
    BY <1>4 DEF FirstOK
  <2>1. Held(f, 2).aidBitmap \subseteq Held(q, 2).aidBitmap
    BY <1>5, <1>9
  <2>2. Held(f, 1) = Held(q, 1)
    BY <1>6
  <2> QED BY <1>10, <2>1, <2>2 DEF FirstOK, w
<1>11. ASSUME NEW con, LackOK(q, con) PROVE LackOK(f, con)
  <2> SUFFICES ASSUME NEW n \in w..Top(q)
               PROVE  /\ Held(f, n).aidBitmap \subseteq con \cup {0}
                      /\ n < Top(q) =>
                           Held(f, n).aidBitmap \subseteq Held(f, n + 1).aidBitmap \cup {0}
    BY <1>4 DEF LackOK
  <2>1. /\ Held(q, n).aidBitmap \subseteq con \cup {0}
        /\ n < Top(q) => Held(q, n).aidBitmap \subseteq Held(q, n + 1).aidBitmap \cup {0}
    BY <1>11 DEF LackOK, w
  <2>2. ASSUME n < Top(q)
        PROVE  Held(f, n).aidBitmap \subseteq Held(f, n + 1).aidBitmap \cup {0}
    <3>1. n + 1 \in w..Top(q) /\ n = w /\ (m = n \/ m = n + 1)
      BY <1>1, <2>2
    <3>2. s \notin Held(f, n).aidBitmap
      BY <1>1, <1>2, <1>9, <3>1
    <3> QED BY <1>9, <2>1, <2>2, <3>1, <3>2
  <2> QED BY <1>9, <2>1, <2>2
<1>12. ASSUME NEW e \in Child PROVE Lacks(q, e) = Lacks(f, e) + IF e = s THEN 1 ELSE 0
  <2>1. CASE e # s
    <3>1. \A n \in w..Top(q) : e \in Held(f, n).aidBitmap <=> e \in Held(q, n).aidBitmap
      BY <1>9, <2>1
    <3>2. e \in Held(f, w).aidBitmap <=> e \in Held(q, w).aidBitmap
      BY <1>5, <1>1, <3>1
    <3>3. doubleMode => (e \in Held(f, w + 1).aidBitmap <=> e \in Held(q, w + 1).aidBitmap)
      BY <1>1, <3>1
    <3>4. Lacks(f, e) = Lacks(q, e) /\ Lacks(f, e) \in Nat
      BY <1>4, <3>2, <3>3 DEF Lacks, One, w
    <3> QED BY <2>1, <3>4
  <2>2. CASE e = s /\ m = w
    <3>1. e \in Held(q, w).aidBitmap /\ e \notin Held(f, w).aidBitmap
      BY <1>2, <2>2
    <3>2. doubleMode => Held(f, w + 1) = Held(q, w + 1)
      BY <1>1, <1>9, <2>2
    <3> QED BY <1>4, <2>2, <3>1, <3>2 DEF Lacks, One, w
  <2>3. CASE e = s /\ m # w
    <3>1. doubleMode /\ m = w + 1 /\ e \notin Held(q, w).aidBitmap /\ Held(f, w) = Held(q, w)
      BY <1>1, <1>2, <1>9, <2>3
    <3>2. e \in Held(q, w + 1).aidBitmap /\ e \notin Held(f, w + 1).aidBitmap
      BY <1>2, <2>3, <3>1
    <3> QED BY <1>4, <2>3, <3>1, <3>2 DEF Lacks, One, w
  <2> QED BY <2>1, <2>2, <2>3
<1> QED BY <1>3, <1>4, <1>5, <1>7, <1>8, <1>10, <1>11, <1>12 DEF w

\* The ring is in order after a piece has come.
LEMMA RingStays ==
  ASSUME ShareAssumption, StateTypes, NEW q \in Rings, RingOK(q), NEW f, NEW s \in Child,
         NEW m \in Nat, NEW piece, ReceivedInto(q, f, s, m, piece)
  PROVE  RingOK(f)
<1>1. /\ Under(f) = Under(q) /\ Top(f) = Top(q) /\ Top(q) <= Under(q) + 1
      /\ \A n \in Nat : n # m /\ n <= Top(q) /\ n + 4 > Top(q) => Held(f, n) = Held(q, n)
  <2>1. s \in Sharing!Station
    BY ShareNumbers
  <2> QED BY <2>1, ReceivedKeeps
<1>2. /\ f.writeIndex = q.writeIndex /\ f.readIndex = q.readIndex /\ m \in Under(q)..Top(q)
      /\ Held(f, m).no = Held(q, m).no /\ Held(f, m).aidBitmap = Held(q, m).aidBitmap \ {s}
      /\ \A r \in Sharing!Station : r # s => Held(f, m).data[r] = Held(q, m).data[r]
      /\ \A k \in Slot : k # SlotOf(m) => f.ds[k] = q.ds[k]
  BY DEF ReceivedInto
<1>3. Under(q) \in Nat /\ Top(q) \in Nat /\ Under(q) > Ahead /\ Ahead \in 1..2
  BY RingNumbers, ShareNumbers
<1>4. \A n \in 1..Top(q) : n + 4 > Top(q) => Held(f, n).no = n
  <2> SUFFICES ASSUME NEW n \in 1..Top(q), n + 4 > Top(q) PROVE Held(f, n).no = n
    OBVIOUS
  <2>1. Held(q, n).no = n
    BY DEF RingOK
  <2>2. n \in Nat /\ n <= Top(q)
    BY <1>3
  <2> QED BY <1>1, <1>2, <2>1, <2>2
<1>5. ASSUME NEW n \in Under(q)..Top(q)
      PROVE  /\ 0 \in Held(f, n).aidBitmap <=> n > Given
             /\ 0 \notin Held(f, n).aidBitmap => Held(f, n).data[0] = n - Ahead
  <2>1. /\ 0 \in Held(q, n).aidBitmap <=> n > Given
        /\ 0 \notin Held(q, n).aidBitmap => Held(q, n).data[0] = n - Ahead
    BY DEF RingOK
  <2>2. CASE n = m
    <3>1. 0 # s /\ 0 \in Sharing!Station
      BY ShareNumbers
    <3> QED BY <1>2, <2>1, <2>2, <3>1
  <2>3. CASE n # m
    <3>1. n \in Nat /\ n <= Top(q) /\ n + 4 > Top(q)
      BY <1>1, <1>3
    <3> QED BY <1>1, <2>1, <2>3, <3>1
  <2> QED BY <2>2, <2>3
<1>6. ASSUME NEW n \in Ahead+1..Under(q)-1, n + 4 > Top(q)
      PROVE  Child \subseteq Held(f, n).aidBitmap
  <2>1. n \in Nat /\ n # m /\ n <= Top(q)
    BY <1>2, <1>3
  <2> QED BY <1>1, <1>6, <2>1 DEF RingOK
<1>7. \A k \in Slot : k = SlotOf(f.ds[k].no)
  <2> SUFFICES ASSUME NEW k \in Slot PROVE k = SlotOf(f.ds[k].no)
    OBVIOUS
  <2>1. CASE k = SlotOf(m)
    BY <1>2, <2>1 DEF RingOK, Held
  <2>2. CASE k # SlotOf(m)
    BY <1>2, <2>2 DEF RingOK
  <2> QED BY <2>1, <2>2
<1> QED BY <1>1, <1>2, <1>4, <1>5, <1>6, <1>7 DEF RingOK

\* As long as nobody comes or goes, a child answers the sets one after the other.
LEMMA AnswersInOrder ==
  ASSUME ShareAssumption, StateTypes, NEW q, NEW p, NEW t, NEW con, AllOK(q, p, t, con, Sending),
         t # <<>>, Head(t).is = "data", changes = 0
  PROVE  /\ Head(t).child \in linked
         /\ Head(t).piece = Under(q) - Lacks(q, Head(t).child)
<1> DEFINE e == Head(t).child
<1>1. /\ t \in Seq(Notices) /\ RingOK(q) /\ q \in Rings /\ ToldOK(t, con, Sending)
      /\ ParentTypes(q, p, t, con)
  BY DEF AllOK, ParentOK, ParentTypes
<1>2. Head(t) = t[1] /\ 1 \in DOMAIN t /\ t[1] \in Notices
  BY <1>1, TailFacts
<1>3. e \in Child /\ e \in con /\ e \in linked
  BY <1>1, <1>2 DEF ToldOK, NoticeOK, Notices
<1> HIDE DEF e
<1>4. /\ ReadsOK(q, p, t, con, Sending, e) /\ PiecesOK(t, e)
      /\ BalanceOK(q, p, t, con, Sending, e)
  BY <1>3 DEF AllOK, KidsOK
<1>5. /\ last[e] # NULL
      /\ t[1].piece = last[e].no - Retries(e) - Len(reply[e]) + 1 - Later(t, 1, DataOf(e))
  BY <1>2, <1>3, <1>4 DEF PiecesOK, e
<1>6. last[e].no = FirstUnread(q, p, t, Sending, e) - 1
  <2>1. Begun(p, e)
    BY <1>5 DEF Begun
  <2> QED BY <1>4, <1>5, <2>1 DEF ReadsOK
<1>7. Unanswered(q, p, t, Sending, e) = Lacks(q, e)
  <2>1. Exact(p, Sending, e)
    BY DEF Exact
  <2> QED BY <1>3, <1>4, <2>1 DEF BalanceOK
<1>8. Owed(q, t, Sending, e) = Unput(q, t, Sending)
  <2>1. Sending # {} <=> \E h \in Sending : e \in h.dest
    BY <1>1, <1>3 DEF ToldOK, NoticeOK
  <2> QED BY <2>1 DEF Owed, Unput, Pending, One
<1>9. /\ InPort(p, e) \in Nat /\ Unread(e) \in Nat /\ Retries(e) \in Nat
      /\ Len(reply[e]) \in Nat /\ Unput(q, t, Sending) \in Nat
      /\ Later(t, 1, DataOf(e)) \in Nat /\ Under(q) \in Nat
  <2>1. Later(t, 1, DataOf(e)) \in Nat
    BY <1>1, NoticeCounts
  <2>2. InPort(p, e) \in 0..2 /\ Unread(e) \in 0..3 /\ Retries(e) \in 0..1
        /\ Len(reply[e]) \in Nat
    BY <1>1, <1>3, CountsAreNumbers
  <2>3. Under(q) \in Nat
    BY <1>1, RingNumbers
  <2> QED BY <2>1, <2>2, <2>3 DEF Unput
<1>10. /\ last[e].no = Under(q) - Unput(q, t, Sending) - InPort(p, e) - Unread(e) - 1
       /\ Lacks(q, e) = Unput(q, t, Sending) + (InPort(p, e) + Unread(e) + Retries(e)
                          + Len(reply[e]) + Later(t, 1, DataOf(e)))
  BY <1>6, <1>7, <1>8 DEF FirstUnread, NextPut, Unanswered, OnTheWay
<1>11. t[1].piece = Under(q) - Lacks(q, e)
  <2> DEFINE y == Len(reply[e])
  <2> DEFINE d == Later(t, 1, DataOf(e))
  <2> DEFINE w == Under(q)
  <2> DEFINE b == Unput(q, t, Sending)
  <2> DEFINE n == InPort(p, e)
  <2> DEFINE r == Unread(e)
  <2> DEFINE g == Retries(e)
  <2> DEFINE l == last[e].no
  <2> DEFINE k == Lacks(q, e)
  <2>1. t[1].piece = l - g - y + 1 - d /\ l = w - b - n - r - 1 /\ k = b + (n + r + g + y + d)
    BY <1>5, <1>10
  <2>2. /\ y \in Nat /\ d \in Nat /\ w \in Nat /\ b \in Nat /\ n \in Nat /\ r \in Nat
        /\ g \in Nat
    BY <1>9
  <2> HIDE DEF y, d, w, b, n, r, g, l, k
  <2>3. l - g - y + 1 - d = w - k
    BY <2>1, <2>2
  <2>4. t[1].piece = w - k
    BY <2>1, <2>3
  <2> QED BY <2>4 DEF w, k
<1> QED BY <1>2, <1>3, <1>11 DEF e

\* A child's piece has come: WmDataSharingReceiveCallback_Parent.
LEMMA AnswerKeeps ==
  ASSUME ShareAssumption, StateTypes, NEW q, NEW p, NEW t, NEW con, AllOK(q, p, t, con, Sending),
         t # <<>>, Head(t).is = "data"
  PROVE  LET f == Sharing!ReceiveData(q, Head(t).child, Head(t).piece)
         IN  Under(f) = Under(q) /\ AllOK(f, p, Tail(t), con, Sending)
<1> DEFINE f == Sharing!ReceiveData(q, Head(t).child, Head(t).piece)
<1> DEFINE u == Tail(t)
<1> DEFINE s == Head(t).child
<1> DEFINE piece == Head(t).piece
<1> DEFINE taken == \E m \in Nat : ReceivedInto(q, f, s, m, piece)
<1>1. /\ ParentTypes(q, p, t, con) /\ RingOK(q) /\ LackOK(q, con) /\ PendingOK(q, t, Sending)
      /\ SentOK(q, p, t, Sending) /\ PortOK(q, p, t, con, Sending) /\ ToldOK(t, con, Sending)
      /\ NoneLeftOut(q, p, t, Sending) /\ KnownOK(q, p) /\ CollectOK(q) /\ FirstOK(q, p)
  BY DEF AllOK, ParentOK
<1>2. q \in Rings /\ p \in Seq(Packets) /\ t \in Seq(Notices)
  BY <1>1 DEF ParentTypes
<1>3. /\ u \in Seq(Notices) /\ Head(t) = t[1] /\ t[1] \in Notices /\ 1 \in DOMAIN t
      /\ \A S : Later(t, 1, S) = Later(u, 1, S) + One(t[1] \in S)
  BY <1>2, TailFacts
<1>4. s \in Child /\ piece \in Sharing!Piece /\ s \in Sharing!Station
  <2>1. s \in Child /\ piece \in Sharing!Piece
    BY <1>3 DEF Notices
  <2> QED BY <2>1, ShareNumbers
<1>5. \/ f = q /\ \A m \in Under(q)..Top(q) : s \notin Held(q, m).aidBitmap
      \/ taken
  <2> HIDE DEF s, piece
  <2>1. f = Sharing!ReceiveData(q, s, piece)
    BY DEF s, piece
  <2> HIDE DEF f
  <2> QED BY <1>1, <1>2, <1>4, <2>1, ReceiveFacts
<1>6. (Refusal(q, u) <=> Refusal(q, t)) /\ PendingOK(q, u, Sending) /\ ToldOK(u, con, Sending)
  <2>1. Refusal(q, u) <=> Refusal(q, t)
    BY <1>2, TailRefusal
  <2>2. PendingOK(q, u, Sending)
    BY <1>1, <1>2, TailRefusal
  <2>3. ToldOK(u, con, Sending)
    BY <1>1, <1>2, TailTold
  <2> QED BY <2>1, <2>2, <2>3
<1>7. \A e \in Child : PiecesOK(u, e)
  <2> SUFFICES ASSUME NEW e \in Child PROVE PiecesOK(u, e)
    OBVIOUS
  <2>1. PiecesOK(t, e)
    BY DEF AllOK, KidsOK
  <2> QED BY <1>2, <2>1, TailPieces
<1>8. Later(u, 1, Reports) = Later(t, 1, Reports)
  <2>1. t[1] \notin Reports
    BY <1>3 DEF Reports
  <2>2. Later(t, 1, Reports) = Later(u, 1, Reports) + One(t[1] \in Reports)
    BY <1>3
  <2>3. Later(u, 1, Reports) \in Nat
    BY <1>3, NoticeCounts
  <2> QED BY <2>1, <2>2, <2>3 DEF One
<1>9. changes = 0 => s \in linked /\ piece = Under(q) - Lacks(q, s)
  BY AnswersInOrder
<1> HIDE DEF f, u, s, piece
<1>10. /\ f \in Rings /\ Under(f) = Under(q) /\ Top(f) = Top(q)
       /\ f.sendIndex = q.sendIndex /\ f.retry = q.retry
       /\ RingOK(f) /\ LackOK(f, con) /\ KnownOK(f, p) /\ FirstOK(f, p)
       /\ \A e \in Child : Lacks(q, e) = Lacks(f, e) + IF e = s /\ taken THEN 1 ELSE 0
  <2>1. CASE taken
    <3>1. PICK m \in Nat : ReceivedInto(q, f, s, m, piece)
      BY <2>1
    <3>2. RingOK(f)
      BY <1>1, <1>2, <1>4, <3>1, RingStays
    <3>3. /\ Under(f) = Under(q) /\ Top(f) = Top(q)
          /\ LackOK(f, con) /\ KnownOK(f, p) /\ FirstOK(f, p)
          /\ \A e \in Child : Lacks(q, e) = Lacks(f, e) + IF e = s THEN 1 ELSE 0
      BY <1>1, <1>2, <1>4, <3>1, ReceivedKeeps
    <3> HIDE DEF taken
    <3> QED BY <2>1, <3>1, <3>2, <3>3 DEF ReceivedInto
  <2>2. CASE ~taken
    <3> HIDE DEF taken
    <3>1. f = q
      BY <1>5, <2>2
    <3>2. \A e \in Child : Lacks(q, e) \in Nat
      BY DEF Lacks, One
    <3> QED BY <1>1, <1>2, <2>2, <3>1, <3>2
  <2> QED BY <2>1, <2>2
<1>11. /\ (Refusal(f, u) <=> Refusal(q, t)) /\ Unput(f, u, Sending) = Unput(q, t, Sending)
       /\ NextPut(f, u, Sending) = NextPut(q, t, Sending)
       /\ (Pending(f, u, Sending) <=> Pending(q, t, Sending))
  <2>1. Refusal(f, u) <=> Refusal(q, t)
    BY <1>6, <1>10 DEF Refusal
  <2> QED BY <1>10, <2>1 DEF Unput, NextPut, Pending
<1>12. PendingOK(f, u, Sending) /\ PortOK(f, p, u, con, Sending)
       /\ NoneLeftOut(f, p, u, Sending)
  <2>1. PendingOK(f, u, Sending)
    BY <1>6, <1>10, <1>11 DEF PendingOK
  <2>2. PortOK(f, p, u, con, Sending)
    BY <1>1, <1>11 DEF PortOK
  <2>3. NoneLeftOut(f, p, u, Sending)
    BY <1>1, <1>11 DEF NoneLeftOut
  <2> QED BY <2>1, <2>2, <2>3
<1>13. SentOK(f, p, u, Sending)
  BY <1>1, <1>8, <1>10, <1>11 DEF SentOK, Out
<1>14. CollectOK(f)
  <2>1. CASE taken
    <3>1. PICK m \in Nat : ReceivedInto(q, f, s, m, piece)
      BY <2>1
    <3>2. /\ Held(f, m).aidBitmap = Held(q, m).aidBitmap \ {s} /\ Held(f, m).data[s] = piece
          /\ \A r \in Sharing!Station : r # s => Held(f, m).data[r] = Held(q, m).data[r]
          /\ m \in Under(q)..Top(q) /\ s \in Held(q, m).aidBitmap
          /\ \A n \in Under(q)..Top(q) : n < m => s \notin Held(q, n).aidBitmap
      BY <3>1 DEF ReceivedInto
    <3>3. /\ \A n \in Nat : n # m /\ n <= Top(q) /\ n + 4 > Top(q) => Held(f, n) = Held(q, n)
          /\ Top(q) <= Under(q) + 1
      <4>1. /\ Under(f) = Under(q) /\ Top(f) = Top(q) /\ Top(q) <= Under(q) + 1
            /\ \A n \in Nat :
                 n # m /\ n <= Top(q) /\ n + 4 > Top(q) => Held(f, n) = Held(q, n)
        BY <1>1, <1>2, <1>4, <3>1, ReceivedKeeps
      <4> QED BY <4>1
    <3>4. /\ Under(q) \in Nat /\ Top(q) = Under(q) + Ahead - 1 /\ Under(q) > Ahead
          /\ Ahead \in 1..2 /\ (doubleMode <=> Ahead = 2)
      BY <1>1, <1>2, RingNumbers, ShareNumbers
    <3>5. Lacks(q, s) = Under(q) + Ahead - m
      <4>1. CASE m = Under(q) /\ doubleMode
        <5>1. Under(q) + 1 \in Under(q)..Top(q) /\ Under(q) \in Under(q)..Top(q)
              /\ Under(q) < Top(q)
          BY <3>4, <4>1
        <5>2. s \in Held(q, Under(q) + 1).aidBitmap
          <6>1. s # 0
            BY <1>4, ShareNumbers
          <6> QED BY <1>1, <3>2, <4>1, <5>1, <6>1 DEF LackOK
        <5> QED BY <3>2, <3>4, <4>1, <5>2 DEF Lacks, One
      <4>2. CASE m = Under(q) /\ ~doubleMode
        BY <3>2, <3>4, <4>2 DEF Lacks, One
      <4>3. CASE m # Under(q)
        <5>1. m = Under(q) + 1 /\ doubleMode /\ Under(q) \in Under(q)..Top(q)
          BY <3>2, <3>3, <3>4, <4>3
        <5>2. s \notin Held(q, Under(q)).aidBitmap
          BY <3>2, <3>4, <5>1
        <5> QED BY <3>2, <3>4, <5>1, <5>2 DEF Lacks, One
      <4> QED BY <4>1, <4>2, <4>3
    <3> SUFFICES ASSUME changes = 0, NEW n \in Under(q)..Top(q), NEW e \in Child
                 PROVE  Held(f, n).data[e] =
                          IF e \in Held(f, n).aidBitmap THEN 0 ELSE PieceOf(e, n)
      BY <1>10 DEF CollectOK
    <3>6. Held(q, n).data[e] = IF e \in Held(q, n).aidBitmap THEN 0 ELSE PieceOf(e, n)
      BY <1>1 DEF CollectOK
    <3>7. CASE n # m
      <4>1. n \in Nat /\ n <= Top(q) /\ n + 4 > Top(q)
        BY <3>3, <3>4
      <4> QED BY <3>3, <3>6, <3>7, <4>1
    <3>8. CASE n = m /\ e # s
      <4>1. e \in Sharing!Station
        BY ShareNumbers
      <4> QED BY <3>2, <3>6, <3>8, <4>1
    <3>9. CASE n = m /\ e = s
      <4>1. piece = m - Ahead /\ s \in linked /\ m > Ahead
        BY <1>9, <3>2, <3>4, <3>5
      <4> QED BY <3>2, <3>9, <4>1 DEF PieceOf
    <3> QED BY <3>7, <3>8, <3>9
  <2>2. CASE ~taken
    BY <1>1, <1>5, <2>2
  <2> QED BY <2>1, <2>2
<1>15. KidsOK(f, p, u, con, Sending)
  <2> SUFFICES ASSUME NEW e \in Child
               PROVE  /\ KidOK(e) /\ ReadsOK(f, p, u, con, Sending, e)
                      /\ BalanceOK(f, p, u, con, Sending, e)
    BY <1>7 DEF KidsOK
  <2>1. /\ KidOK(e) /\ ReadsOK(q, p, t, con, Sending, e)
        /\ BalanceOK(q, p, t, con, Sending, e)
    BY DEF AllOK, KidsOK
  <2>2. FirstUnread(f, p, u, Sending, e) = FirstUnread(q, p, t, Sending, e)
    BY <1>11 DEF FirstUnread
  <2>3. ReadsOK(f, p, u, con, Sending, e)
    BY <2>1, <2>2 DEF ReadsOK
  <2>4. /\ Owed(f, u, Sending, e) = Owed(q, t, Sending, e) /\ Owed(q, t, Sending, e) \in Nat
        /\ Lacks(f, e) \in Nat /\ Lacks(q, e) \in Nat
    BY <1>11 DEF Owed, Lacks, One
  <2>5. /\ InPort(p, e) \in Nat /\ Unread(e) \in Nat /\ Retries(e) \in Nat
        /\ Len(reply[e]) \in Nat /\ Later(u, 1, DataOf(e)) \in Nat
    <3>1. Later(u, 1, DataOf(e)) \in Nat
      BY <1>3, NoticeCounts
    <3>2. InPort(p, e) \in 0..2 /\ Unread(e) \in 0..3 /\ Retries(e) \in 0..1
          /\ Len(reply[e]) \in Nat
      BY <1>1, CountsAreNumbers
    <3> QED BY <3>1, <3>2
  <2>6. OnTheWay(p, u, e) \in Nat
    <3>1. \A k, l, m, n, b \in Nat : k + l + m + n + b \in Nat
      OBVIOUS
    <3> QED BY <2>5, <3>1 DEF OnTheWay
  <2>7. CASE e # s
    <3>1. t[1] \notin DataOf(e)
      BY <1>3, <2>7 DEF DataOf, s
    <3>2. Later(t, 1, DataOf(e)) = Later(u, 1, DataOf(e)) + One(t[1] \in DataOf(e))
      BY <1>3
    <3>3. Later(t, 1, DataOf(e)) = Later(u, 1, DataOf(e))
      BY <2>5, <3>1, <3>2 DEF One
    <3>4. Lacks(q, e) = Lacks(f, e)
      BY <1>10, <2>4, <2>7
    <3>5. Unanswered(f, p, u, Sending, e) = Unanswered(q, p, t, Sending, e)
      BY <2>4, <3>3 DEF Unanswered, OnTheWay
    <3> QED BY <2>1, <2>3, <3>4, <3>5 DEF BalanceOK
  <2>8. CASE e = s
    <3>1. t[1] \in DataOf(e)
      BY <1>3, <1>4, <2>8 DEF DataOf, Notices, s
    <3>2. Later(t, 1, DataOf(e)) = Later(u, 1, DataOf(e)) + One(t[1] \in DataOf(e))
      BY <1>3
    <3>3. Later(t, 1, DataOf(e)) = Later(u, 1, DataOf(e)) + 1
      BY <3>1, <3>2 DEF One
    <3>4. OnTheWay(p, t, e) = OnTheWay(p, u, e) + 1
      <4> DEFINE k == InPort(p, e)
                 l == Unread(e)
                 m == Retries(e)
                 n == Len(reply[e])
                 b == Later(u, 1, DataOf(e))
      <4>1. OnTheWay(p, u, e) = k + l + m + n + b
        BY DEF OnTheWay
      <4>2. OnTheWay(p, t, e) = k + l + m + n + (b + 1)
        BY <3>3 DEF OnTheWay
      <4>3. k \in Nat /\ l \in Nat /\ m \in Nat /\ n \in Nat /\ b \in Nat
        BY <2>5
      <4> HIDE DEF k, l, m, n, b
      <4>4. k + l + m + n + (b + 1) = (k + l + m + n + b) + 1
        BY <4>3
      <4> QED BY <4>1, <4>2, <4>4
    <3>5. Unanswered(q, p, t, Sending, e) = Unanswered(f, p, u, Sending, e) + 1
          /\ Unanswered(f, p, u, Sending, e) \in Nat
      BY <2>4, <2>6, <3>4 DEF Unanswered
    <3>6. CASE taken
      <4>1. Lacks(q, e) = Lacks(f, e) + 1
        BY <1>10, <2>8, <3>6
      <4> QED BY <2>1, <2>3, <2>4, <3>5, <4>1 DEF BalanceOK
    <3>7. CASE ~taken
      <4>1. Lacks(q, e) = 0 /\ Lacks(f, e) = 0
        <5>1. /\ Under(q) \in Under(q)..Top(q)
              /\ doubleMode => Under(q) + 1 \in Under(q)..Top(q)
          <6>1. Under(q) \in Nat /\ Top(q) = Under(q) + Ahead - 1
            BY <1>1, <1>2, RingNumbers
          <6>2. Ahead \in 1..2 /\ (doubleMode => Ahead = 2)
            BY ShareNumbers
          <6> QED BY <6>1, <6>2
        <5>2. \A m \in Under(q)..Top(q) : e \notin Held(q, m).aidBitmap
          BY <1>5, <2>8, <3>7
        <5>3. Lacks(q, e) = 0
          BY <5>1, <5>2 DEF Lacks, One
        <5> QED BY <1>5, <3>7, <5>3
      <4> QED BY <2>1, <2>3, <3>5, <4>1 DEF BalanceOK
    <3> QED BY <3>6, <3>7
  <2> QED BY <2>1, <2>7, <2>8, <2>3
<1>16. ParentTypes(f, p, u, con)
  BY <1>1, <1>3, <1>10 DEF ParentTypes
<1>17. ParentOK(f, p, u, con, Sending)
  BY <1>6, <1>10, <1>12, <1>13, <1>14 DEF ParentOK
<1> QED BY <1>10, <1>15, <1>16, <1>17 DEF AllOK, f, u, s, piece

\* A child has come: it has no part in the sets under collection.
LEMMA ConnectedKeeps ==
  ASSUME ShareAssumption, StateTypes, NEW q, NEW p, NEW t, NEW con, AllOK(q, p, t, con, Sending),
         t # <<>>, Head(t).is = "connected"
  PROVE  AllOK(q, p, Tail(t), con \cup {Head(t).child}, Sending)
<1> DEFINE s == Head(t).child
<1> DEFINE u == Tail(t)
<1> DEFINE now == con \cup {s}
<1>1. /\ ParentTypes(q, p, t, con) /\ RingOK(q) /\ LackOK(q, con) /\ PendingOK(q, t, Sending)
      /\ SentOK(q, p, t, Sending) /\ PortOK(q, p, t, con, Sending) /\ ToldOK(t, con, Sending)
      /\ NoneLeftOut(q, p, t, Sending) /\ KnownOK(q, p) /\ CollectOK(q) /\ FirstOK(q, p)
  BY DEF AllOK, ParentOK
<1>2. q \in Rings /\ p \in Seq(Packets) /\ t \in Seq(Notices) /\ con \subseteq Child
  BY <1>1 DEF ParentTypes
<1>3. /\ DOMAIN t = 1..Len(t) /\ DOMAIN u = 1..Len(u) /\ 1 \in 1..Len(t) /\ Head(t) = t[1]
      /\ Len(t) \in Nat /\ Len(u) = Len(t) - 1 /\ t[1] \in Notices
      /\ \A k \in 1..Len(u) : k + 1 \in 1..Len(t) /\ u[k] = t[k + 1]
      /\ \A k \in 2..Len(t) : k - 1 \in 1..Len(u) /\ t[k] = u[k - 1]
      /\ u \in Seq(Notices)
      /\ \A S : Later(t, 1, S) = Later(u, 1, S) + One(t[1] \in S)
  BY <1>2, TailFacts
<1>4. /\ t[1].is = "connected" /\ t[1].child = s /\ s \in Child /\ s \notin con
      /\ \A h \in Sending : s \notin h.dest
      /\ changes > 0 /\ changes # 0 /\ 1 \in DOMAIN t
  <2>1. t[1].is = "connected" /\ t[1].child = s
    BY <1>3
  <2>2. s \in Child
    BY <1>3, <2>1 DEF Notices
  <2>3. changes > 0 /\ changes # 0
    BY <1>1, <1>3, <2>1 DEF ToldOK, NoticeOK
  <2> QED BY <1>1, <1>3, <2>1, <2>2, <2>3 DEF ToldOK, NoticeOK
<1>5. (Refusal(q, u) <=> Refusal(q, t)) /\ PendingOK(q, u, Sending)
  BY <1>1, <1>2, TailRefusal
<1>6. \A e \in Child : PiecesOK(u, e)
  <2> SUFFICES ASSUME NEW e \in Child PROVE PiecesOK(u, e)
    OBVIOUS
  <2>1. PiecesOK(t, e)
    BY DEF AllOK, KidsOK
  <2> QED BY <1>2, <2>1, TailPieces
<1>7. Later(u, 1, Reports) = Later(t, 1, Reports)
      /\ \A e \in Child : Later(u, 1, DataOf(e)) = Later(t, 1, DataOf(e))
  <2>1. ASSUME NEW S, t[1] \notin S PROVE Later(u, 1, S) = Later(t, 1, S)
    <3>1. Later(t, 1, S) = Later(u, 1, S) + One(t[1] \in S)
      BY <1>3
    <3>2. Later(u, 1, S) \in Nat
      BY <1>3, NoticeCounts
    <3> QED BY <2>1, <3>1, <3>2 DEF One
  <2>2. t[1] \notin Reports /\ \A e \in Child : t[1] \notin DataOf(e)
    BY <1>4 DEF Reports, DataOf
  <2> QED BY <2>1, <2>2
<1> HIDE DEF u, s
<1>8. ToldOK(u, now, Sending)
  <2>1. ASSUME NEW k \in DOMAIN u
        PROVE  NoticeOK(u, k, now, Sending)
    <3>1. k + 1 \in DOMAIN t /\ u[k] = t[k + 1] /\ k \in Nat /\ k + 1 # 1
      BY <1>3
    <3>2. \A n \in DOMAIN u : n + 1 \in DOMAIN t /\ u[n] = t[n + 1]
                              /\ (n + 1 = k + 1 => n = k) /\ (n + 1 < k + 1 => n < k)
      BY <1>3, <3>1
    <3>3. u[k].is = "connected" => u[k].child \notin con /\ u[k].child # s
      BY <1>1, <1>4, <3>1 DEF ToldOK, NoticeOK
    <3> QED BY <1>1, <3>1, <3>2, <3>3 DEF ToldOK, NoticeOK
  <2>2. \A k \in DOMAIN t : k # 1 => \E n \in DOMAIN u : u[n] = t[k]
    <3> SUFFICES ASSUME NEW k \in 1..Len(t), k # 1 PROVE \E n \in 1..Len(u) : u[n] = t[k]
      BY <1>3
    <3>1. k \in 2..Len(t)
      BY <1>3
    <3> QED BY <1>3, <3>1
  <2>3. \A e : (\E k \in DOMAIN t : t[k].is = "disconnected" /\ t[k].child = e)
               => \E n \in DOMAIN u : u[n].is = "disconnected" /\ u[n].child = e
    BY <1>4, <2>2
  <2>4. ASSUME NEW k \in DOMAIN u, u[k].is = "connected", u[k].child \notin linked
        PROVE  \E n \in DOMAIN u : u[n].is = "disconnected" /\ u[n].child = u[k].child
    <3>1. k + 1 \in DOMAIN t /\ u[k] = t[k + 1]
      BY <1>3
    <3>2. \E n \in DOMAIN t : t[n].is = "disconnected" /\ t[n].child = t[k + 1].child
      BY <1>1, <2>4, <3>1 DEF ToldOK, NoticeOK
    <3> QED BY <2>3, <3>1, <3>2
  <2>5. ASSUME NEW e \in linked \ now
        PROVE  \E k \in DOMAIN u : u[k].is = "connected" /\ u[k].child = e
    <3>1. PICK k \in DOMAIN t : t[k].is = "connected" /\ t[k].child = e
      BY <1>1 DEF ToldOK, NoticeOK
    <3>2. k # 1
      BY <1>4, <3>1
    <3> QED BY <2>2, <3>1, <3>2
  <2>6. ASSUME NEW e \in now \ linked
        PROVE  \E k \in DOMAIN u : u[k].is = "disconnected" /\ u[k].child = e
    <3>1. \E k \in DOMAIN t : t[k].is = "disconnected" /\ t[k].child = e
      BY <1>1, <1>4 DEF ToldOK, NoticeOK
    <3> QED BY <2>3, <3>1
  <2> QED BY <1>4, <2>1, <2>4, <2>5, <2>6 DEF ToldOK, NoticeOK
<1> HIDE DEF now
<1>9. Unput(q, u, Sending) = Unput(q, t, Sending) /\ NextPut(q, u, Sending) = NextPut(q, t, Sending)
      /\ (Pending(q, u, Sending) <=> Pending(q, t, Sending))
  BY <1>5 DEF Unput, NextPut, Pending
<1>10. SentOK(q, p, u, Sending)
  BY <1>1, <1>7, <1>9 DEF SentOK, Out
<1>11. PortOK(q, p, u, now, Sending)
  BY <1>1, <1>9 DEF PortOK, now
<1>12. LackOK(q, now) /\ NoneLeftOut(q, p, u, Sending)
  <2>1. LackOK(q, now)
    BY <1>1 DEF LackOK, now
  <2>2. NoneLeftOut(q, p, u, Sending)
    BY <1>1, <1>9 DEF NoneLeftOut
  <2> QED BY <2>1, <2>2
<1>13. KidsOK(q, p, u, now, Sending)
  <2> SUFFICES ASSUME NEW e \in Child
               PROVE  /\ KidOK(e) /\ ReadsOK(q, p, u, now, Sending, e)
                      /\ BalanceOK(q, p, u, now, Sending, e)
    BY <1>6 DEF KidsOK
  <2>1. /\ KidOK(e) /\ ReadsOK(q, p, t, con, Sending, e)
        /\ PiecesOK(t, e) /\ BalanceOK(q, p, t, con, Sending, e)
    BY DEF AllOK, KidsOK
  <2>2. FirstUnread(q, p, u, Sending, e) = FirstUnread(q, p, t, Sending, e)
    BY <1>9 DEF FirstUnread
  <2>3. ReadsOK(q, p, u, now, Sending, e)
    BY <2>1, <2>2 DEF ReadsOK, now
  <2>4. Unanswered(q, p, u, Sending, e) = Unanswered(q, p, t, Sending, e)
    <3>1. OnTheWay(p, u, e) = OnTheWay(p, t, e)
      BY <1>7 DEF OnTheWay
    <3>2. Owed(q, u, Sending, e) = Owed(q, t, Sending, e)
      BY <1>5 DEF Owed
    <3> QED BY <3>1, <3>2 DEF Unanswered
  <2>5. CASE e # s
    BY <2>1, <2>3, <2>4, <2>5 DEF BalanceOK, now
  <2>6. CASE e = s
    <3>1. ~Begun(p, e)
      BY <1>4, <2>1, <2>6 DEF ReadsOK
    <3>2. InPort(p, e) \in 0..2 /\ Unread(e) \in 0..3 /\ Len(reply[e]) \in Nat
      BY <1>1, CountsAreNumbers
    <3>3. InPort(p, e) = 0 /\ Unread(e) = 0 /\ last[e] = NULL
      BY <3>1, <3>2 DEF Begun
    <3>4. Retries(e) = 0 /\ Len(reply[e]) = 0
      BY <2>1, <3>3 DEF KidOK, Retries
    <3>5. Later(t, 1, DataOf(e)) = 0
      <4>1. \A n \in 1..Len(t) : t[n] \notin DataOf(e)
        BY <1>1, <1>3, <1>4, <2>6 DEF ToldOK, NoticeOK, DataOf
      <4> QED BY <1>2, <4>1, LaterIsCount
    <3>6. OnTheWay(p, t, e) = 0
      <4> DEFINE a == InPort(p, e)
      <4> DEFINE b == Unread(e)
      <4> DEFINE d == Retries(e)
      <4> DEFINE g == Len(reply[e])
      <4> DEFINE k == Later(t, 1, DataOf(e))
      <4>1. a = 0 /\ b = 0 /\ d = 0 /\ g = 0 /\ k = 0 /\ OnTheWay(p, t, e) = a + b + d + g + k
        BY <3>3, <3>4, <3>5 DEF OnTheWay
      <4> HIDE DEF a, b, d, g, k
      <4> QED BY <4>1
    <3>7. Lacks(q, e) = 0
      <4>1. /\ Under(q) \in Under(q)..Top(q)
            /\ doubleMode => Under(q) + 1 \in Under(q)..Top(q)
        <5>1. Under(q) \in Nat /\ Top(q) = Under(q) + Ahead - 1
          BY <1>1, <1>2, RingNumbers
        <5>2. Ahead \in 1..2 /\ (doubleMode => Ahead = 2)
          BY ShareNumbers
        <5> QED BY <5>1, <5>2
      <4>2. e # 0
        BY ShareNumbers
      <4>3. \A m \in Under(q)..Top(q) : e \notin Held(q, m).aidBitmap
        BY <1>1, <1>4, <2>6, <4>2 DEF LackOK
      <4> QED BY <4>1, <4>3 DEF Lacks, One
    <3>8. Unanswered(q, p, u, Sending, e) = Owed(q, t, Sending, e)
          /\ Owed(q, t, Sending, e) \in 0..1
      BY <2>4, <3>6 DEF Unanswered, Owed, One
    <3>9. Exact(p, Sending, e) => Owed(q, t, Sending, e) = 0
      <4> SUFFICES ASSUME Refusal(q, t), Exact(p, Sending, e) PROVE FALSE
        BY <1>4, <2>6 DEF Owed, One
      <4>1. ~doubleMode /\ Sending = {}
        BY <1>1 DEF PendingOK
      <4>2. Len(p) = 0
        <5>1. Unput(q, t, Sending) = 1
          BY DEF Unput, Pending
        <5>2. Len(p) \in 0..2 /\ Len(p) + Unput(q, t, Sending) <= Ahead
          BY <1>1, FewPut
        <5>3. Ahead = 1
          BY <4>1, ShareNumbers
        <5> QED BY <5>1, <5>2, <5>3
      <4>3. p = <<>>
        BY <1>2, <4>2
      <4> QED BY <1>4, <4>1, <4>3 DEF Exact
    <3> QED BY <2>3, <2>1, <3>7, <3>8, <3>9 DEF BalanceOK
  <2> QED BY <2>1, <2>3, <2>5, <2>6
<1>14. ParentTypes(q, p, u, now)
  BY <1>1, <1>3, <1>4 DEF ParentTypes, now
<1>15. ParentOK(q, p, u, now, Sending)
  BY <1>1, <1>5, <1>8, <1>10, <1>11, <1>12 DEF ParentOK
<1> QED BY <1>13, <1>14, <1>15 DEF AllOK, now, s, u

\* The ring is in order without the child that has left.
LEMMA LeftKeeps ==
  ASSUME ShareAssumption, StateTypes, NEW q \in Rings, RingOK(q), NEW s \in Child, NEW f,
         LeftBy(q, f, s)
  PROVE  /\ Under(f) = Under(q) /\ Top(f) = Top(q) /\ RingOK(f)
         /\ \A p : KnownOK(q, p) => KnownOK(f, p)
         /\ \A p : FirstOK(q, p) => FirstOK(f, p)
         /\ \A con : LackOK(q, con) => LackOK(f, con \ {s})
         /\ \A e \in Child : e # s => Lacks(f, e) = Lacks(q, e)
<1> DEFINE w == Under(q)
<1>1. /\ w \in Nat /\ Top(q) = w + Ahead - 1 /\ Ahead \in 1..2 /\ (doubleMode <=> Ahead = 2)
      /\ w > Ahead
  BY RingNumbers, ShareNumbers
<1>2. /\ f.writeIndex = q.writeIndex /\ f.readIndex = q.readIndex /\ f \in Rings
      /\ \A k \in Slot : f.ds[k].no = q.ds[k].no /\ f.ds[k].data = q.ds[k].data
      /\ \A n \in w..Top(q) : Held(f, n).aidBitmap = Held(q, n).aidBitmap \ {s}
      /\ \A n \in Nat : n < w /\ n + 4 > Top(q) => Held(f, n) = Held(q, n)
  BY DEF LeftBy
<1>3. s # 0
  BY ShareNumbers
<1>4. Under(f) = w /\ Top(f) = Top(q)
  <2>1. q.writeIndex \in Slot
    BY DEF Rings
  <2>2. Under(f) = w
    BY <1>2, <2>1 DEF Under
  <2> QED BY <1>1, <2>2 DEF Top
<1>5. \A n \in Nat : Held(f, n).no = Held(q, n).no /\ Held(f, n).data = Held(q, n).data
  <2> SUFFICES ASSUME NEW n \in Nat
               PROVE  Held(f, n).no = Held(q, n).no /\ Held(f, n).data = Held(q, n).data
    OBVIOUS
  <2>1. SlotOf(n) \in Slot
    BY SlotFacts
  <2> QED BY <1>2, <2>1 DEF Held
<1> HIDE DEF w
<1>6. RingOK(f)
  <2>1. \A n \in 1..Top(q) : n + 4 > Top(q) => Held(f, n).no = n
    BY <1>5 DEF RingOK
  <2>2. ASSUME NEW n \in w..Top(q)
        PROVE  /\ 0 \in Held(f, n).aidBitmap <=> n > Given
               /\ 0 \notin Held(f, n).aidBitmap => Held(f, n).data[0] = n - Ahead
    <3>1. n \in Nat
      BY <1>1
    <3>2. Held(f, n).data = Held(q, n).data
      BY <1>5, <3>1
    <3>3. 0 \in Held(f, n).aidBitmap <=> 0 \in Held(q, n).aidBitmap
      BY <1>2, <1>3
    <3> QED BY <3>2, <3>3 DEF RingOK, w
  <2>3. ASSUME NEW n \in Ahead+1..w-1, n + 4 > Top(q)
        PROVE  Child \subseteq Held(f, n).aidBitmap
    <3>1. n \in Nat /\ n < w
      BY <1>1
    <3>2. Held(f, n) = Held(q, n)
      BY <1>2, <2>3, <3>1
    <3> QED BY <2>3, <3>2 DEF RingOK, w
  <2>4. \A k \in Slot : k = SlotOf(f.ds[k].no)
    BY <1>2 DEF RingOK
  <2> QED BY <1>2, <1>4, <2>1, <2>2, <2>3, <2>4 DEF RingOK, w
<1>7. ASSUME NEW p, KnownOK(q, p) PROVE KnownOK(f, p)
  <2>1. \A d \in Known(f, p) : \E g \in Known(q, p) : d.no = g.no /\ d.data = g.data
    BY <1>2, <1>4 DEF Known, w
  <2>2. Agree(Known(f, p))
    BY <1>7, <2>1, AgreeKept DEF KnownOK
  <2> QED BY <1>4, <1>7, <2>1, <2>2 DEF KnownOK, IsRight, w
<1>8. ASSUME NEW p, FirstOK(q, p) PROVE FirstOK(f, p)
  <2> SUFFICES ASSUME ~doubleMode, w = 2
               PROVE  /\ Held(f, 2).aidBitmap \subseteq Held(f, 1).aidBitmap \cup {0}
                      /\ \A k \in DOMAIN p :
                           Held(f, 2).aidBitmap \subseteq p[k].set.aidBitmap \cup {0}
    BY <1>4 DEF FirstOK
  <2>1. Held(f, 2).aidBitmap = Held(q, 2).aidBitmap \ {s}
    <3>1. 2 \in w..Top(q)
      BY <1>1
    <3> QED BY <1>2, <3>1
  <2>2. Held(f, 1) = Held(q, 1)
    <3>1. 1 < w /\ 1 + 4 > Top(q)
      BY <1>1
    <3> QED BY <1>2, <3>1
  <2> QED BY <1>8, <2>1, <2>2 DEF FirstOK, w
<1>9. ASSUME NEW con, LackOK(q, con) PROVE LackOK(f, con \ {s})
  <2> SUFFICES ASSUME NEW n \in w..Top(q)
               PROVE  /\ Held(f, n).aidBitmap \subseteq (con \ {s}) \cup {0}
                      /\ n < Top(q) =>
                           Held(f, n).aidBitmap \subseteq Held(f, n + 1).aidBitmap \cup {0}
    BY <1>4 DEF LackOK
  <2>1. n < Top(q) => n + 1 \in w..Top(q)
    BY <1>1
  <2> QED BY <1>2, <1>9, <2>1 DEF LackOK, w
<1>10. ASSUME NEW e \in Child, e # s PROVE Lacks(f, e) = Lacks(q, e)
  <2>1. w \in w..Top(q) /\ (doubleMode => w + 1 \in w..Top(q))
    BY <1>1
  <2>2. e \in Held(f, w).aidBitmap <=> e \in Held(q, w).aidBitmap
    BY <1>2, <1>10, <2>1
  <2>3. doubleMode => (e \in Held(f, w + 1).aidBitmap <=> e \in Held(q, w + 1).aidBitmap)
    BY <1>2, <1>10, <2>1
  <2> QED BY <1>4, <2>2, <2>3 DEF Lacks, One, w
<1> QED BY <1>4, <1>6, <1>7, <1>8, <1>9, <1>10 DEF w

\* WmDataSharingPortCallback: the sets under collection stop waiting for who
\* leaves.
LEMMA LeftFacts ==
  ASSUME ShareAssumption, StateTypes, NEW q \in Rings, RingOK(q), NEW s \in Child,
         NEW slots, slots = IF doubleMode THEN {q.writeIndex, Sharing!Next4(q.writeIndex)}
                            ELSE {q.writeIndex}
  PROVE  LeftBy(q, [q EXCEPT !.ds = [k \in Slot |->
                      IF k \in slots THEN [q.ds[k] EXCEPT !.aidBitmap = @ \ {s}] ELSE q.ds[k]]],
                s)
<1> DEFINE New(k) == IF k \in slots THEN [q.ds[k] EXCEPT !.aidBitmap = @ \ {s}] ELSE q.ds[k]
<1> DEFINE ds == [k \in Slot |-> New(k)]
<1> DEFINE f == [q EXCEPT !.ds = ds]
<1> DEFINE w == Under(q)
<1>1. q.ds \in [Slot -> Sharing!DataSet]
  BY DEF Rings
<1>2. ASSUME NEW k \in Slot
      PROVE  /\ New(k) \in Sharing!DataSet /\ New(k).no = q.ds[k].no
             /\ New(k).data = q.ds[k].data
             /\ New(k).aidBitmap = IF k \in slots THEN q.ds[k].aidBitmap \ {s}
                                   ELSE q.ds[k].aidBitmap
             /\ k \notin slots => New(k) = q.ds[k]
  <2>1. q.ds[k] \in Sharing!DataSet
    BY <1>1
  <2> QED BY <2>1 DEF Sharing!DataSet
<1> HIDE DEF New
<1>3. ds \in [Slot -> Sharing!DataSet] /\ \A k \in Slot : ds[k] = New(k)
  BY <1>2
<1> HIDE DEF ds
<1>4. /\ f \in Rings /\ f.ds = ds /\ f.writeIndex = q.writeIndex /\ f.readIndex = q.readIndex
      /\ f.sendIndex = q.sendIndex /\ f.retry = q.retry
  BY <1>3 DEF Rings
<1> HIDE DEF f
<1>5. /\ w \in Nat /\ Top(q) = w + Ahead - 1 /\ Ahead \in 1..2 /\ (doubleMode <=> Ahead = 2)
      /\ q.writeIndex = SlotOf(w)
  BY RingNumbers, ShareNumbers DEF RingOK
<1>6. slots = {SlotOf(n) : n \in w..Top(q)}
  <2>1. Sharing!Next4(SlotOf(w)) = SlotOf(w + 1)
    BY <1>5, SlotFacts
  <2>2. CASE doubleMode
    <3>1. w..Top(q) = {w, w + 1}
      BY <1>5, <2>2
    <3> QED BY <1>5, <2>1, <2>2, <3>1
  <2>3. CASE ~doubleMode
    <3>1. w..Top(q) = {w}
      BY <1>5, <2>3
    <3> QED BY <1>5, <2>3, <3>1
  <2> QED BY <2>2, <2>3
<1> HIDE DEF w
<1>7. \A n \in w..Top(q) : Held(f, n).aidBitmap = Held(q, n).aidBitmap \ {s}
  <2> SUFFICES ASSUME NEW n \in w..Top(q)
               PROVE  Held(f, n).aidBitmap = Held(q, n).aidBitmap \ {s}
    OBVIOUS
  <2>1. n \in Nat
    BY <1>5
  <2>2. SlotOf(n) \in Slot /\ SlotOf(n) \in slots
    BY <1>6, <2>1, SlotFacts
  <2> QED BY <1>2, <1>3, <1>4, <2>2 DEF Held
<1>8. \A n \in Nat : n < w /\ n + 4 > Top(q) => Held(f, n) = Held(q, n)
  <2> SUFFICES ASSUME NEW n \in Nat, n < w, n + 4 > Top(q) PROVE Held(f, n) = Held(q, n)
    OBVIOUS
  <2>1. ASSUME NEW m \in w..Top(q) PROVE SlotOf(m) # SlotOf(n)
    <3>1. m \in Nat /\ n < m /\ m < n + 4
      BY <1>5
    <3> QED BY <3>1, SlotFacts
  <2>2. SlotOf(n) \in Slot /\ SlotOf(n) \notin slots
    BY <1>6, <2>1, SlotFacts
  <2> QED BY <1>2, <1>3, <1>4, <2>2 DEF Held
<1>9. LeftBy(q, f, s)
  BY <1>2, <1>3, <1>4, <1>7, <1>8 DEF LeftBy, w
<1> QED BY <1>9 DEF f, ds, New

\* A child has left, and no set under collection waits for it.
LEMMA DisconnectedKeeps ==
  ASSUME ShareAssumption, StateTypes, NEW q, NEW p, NEW t, NEW con, AllOK(q, p, t, con, Sending),
         t # <<>>, Head(t).is = "disconnected", NEW f, LeftBy(q, f, Head(t).child)
  PROVE  Under(f) = Under(q) /\ AllOK(f, p, Tail(t), con \ {Head(t).child}, Sending)
<1> DEFINE s == Head(t).child
<1> DEFINE u == Tail(t)
<1> DEFINE now == con \ {s}
<1>1. /\ ParentTypes(q, p, t, con) /\ RingOK(q) /\ LackOK(q, con) /\ PendingOK(q, t, Sending)
      /\ SentOK(q, p, t, Sending) /\ PortOK(q, p, t, con, Sending) /\ ToldOK(t, con, Sending)
      /\ NoneLeftOut(q, p, t, Sending) /\ KnownOK(q, p) /\ CollectOK(q) /\ FirstOK(q, p)
  BY DEF AllOK, ParentOK
<1>2. q \in Rings /\ p \in Seq(Packets) /\ t \in Seq(Notices) /\ con \subseteq Child
  BY <1>1 DEF ParentTypes
<1>3. /\ DOMAIN t = 1..Len(t) /\ DOMAIN u = 1..Len(u) /\ 1 \in 1..Len(t) /\ Head(t) = t[1]
      /\ Len(t) \in Nat /\ Len(u) = Len(t) - 1 /\ t[1] \in Notices
      /\ \A k \in 1..Len(u) : k + 1 \in 1..Len(t) /\ u[k] = t[k + 1]
      /\ \A k \in 2..Len(t) : k - 1 \in 1..Len(u) /\ t[k] = u[k - 1]
      /\ u \in Seq(Notices)
      /\ \A S : Later(t, 1, S) = Later(u, 1, S) + One(t[1] \in S)
  BY <1>2, TailFacts
<1>4. /\ t[1].is = "disconnected" /\ t[1].child = s /\ s \in Child /\ s \notin linked
      /\ changes # 0 /\ 1 \in DOMAIN t
  <2>1. t[1].is = "disconnected" /\ t[1].child = s
    BY <1>3
  <2>2. s \in Child
    BY <1>3, <2>1 DEF Notices
  <2>3. changes > 0 /\ changes # 0
    BY <1>1, <1>3, <2>1 DEF ToldOK, NoticeOK
  <2> QED BY <1>1, <1>3, <2>1, <2>2, <2>3 DEF ToldOK, NoticeOK
<1>5. (Refusal(q, u) <=> Refusal(q, t)) /\ PendingOK(q, u, Sending)
  BY <1>1, <1>2, TailRefusal
<1>6. \A e \in Child : PiecesOK(u, e)
  <2> SUFFICES ASSUME NEW e \in Child PROVE PiecesOK(u, e)
    OBVIOUS
  <2>1. PiecesOK(t, e)
    BY DEF AllOK, KidsOK
  <2> QED BY <1>2, <2>1, TailPieces
<1>7. Later(u, 1, Reports) = Later(t, 1, Reports)
      /\ \A e \in Child : Later(u, 1, DataOf(e)) = Later(t, 1, DataOf(e))
  <2>1. ASSUME NEW S, t[1] \notin S PROVE Later(u, 1, S) = Later(t, 1, S)
    <3>1. Later(t, 1, S) = Later(u, 1, S) + One(t[1] \in S)
      BY <1>3
    <3>2. Later(u, 1, S) \in Nat
      BY <1>3, NoticeCounts
    <3> QED BY <2>1, <3>1, <3>2 DEF One
  <2>2. t[1] \notin Reports /\ \A e \in Child : t[1] \notin DataOf(e)
    BY <1>4 DEF Reports, DataOf
  <2> QED BY <2>1, <2>2
<1>8. LeftBy(q, f, s)
  OBVIOUS
<1> HIDE DEF u, s
<1>9. /\ Under(f) = Under(q) /\ RingOK(f) /\ KnownOK(f, p) /\ FirstOK(f, p)
      /\ LackOK(f, now) /\ \A e \in Child : e # s => Lacks(f, e) = Lacks(q, e)
  BY <1>1, <1>2, <1>4, <1>8, LeftKeeps
<1>10. f \in Rings /\ f.sendIndex = q.sendIndex /\ f.retry = q.retry
  BY <1>8 DEF LeftBy
<1>11. ToldOK(u, now, Sending)
  <2>1. ASSUME NEW k \in DOMAIN u
        PROVE  NoticeOK(u, k, now, Sending)
    <3>1. k + 1 \in DOMAIN t /\ u[k] = t[k + 1] /\ k \in Nat /\ k + 1 # 1 /\ ~(k + 1 < 1)
      BY <1>3
    <3>2. \A n \in DOMAIN u : n + 1 \in DOMAIN t /\ u[n] = t[n + 1]
                              /\ (n + 1 = k + 1 => n = k) /\ (n + 1 < k + 1 => n < k)
      BY <1>3, <3>1
    <3>3. u[k].is = "data" => u[k].child # s
      BY <1>1, <1>4, <3>1 DEF ToldOK, NoticeOK
    <3> QED BY <1>1, <3>1, <3>2, <3>3 DEF ToldOK, NoticeOK
  <2>2. \A k \in DOMAIN t : k # 1 => \E n \in DOMAIN u : u[n] = t[k]
    <3> SUFFICES ASSUME NEW k \in 1..Len(t), k # 1 PROVE \E n \in 1..Len(u) : u[n] = t[k]
      BY <1>3
    <3>1. k \in 2..Len(t)
      BY <1>3
    <3> QED BY <1>3, <3>1
  <2>3. ASSUME NEW k \in DOMAIN u, u[k].is = "connected", u[k].child \notin linked
        PROVE  \E n \in DOMAIN u : u[n].is = "disconnected" /\ u[n].child = u[k].child
    <3>1. k + 1 \in DOMAIN t /\ u[k] = t[k + 1] /\ ~(k + 1 < 1)
      BY <1>3
    <3>2. PICK n \in DOMAIN t : t[n].is = "disconnected" /\ t[n].child = t[k + 1].child
      BY <1>1, <2>3, <3>1 DEF ToldOK, NoticeOK
    <3>3. n # 1
      BY <1>1, <2>3, <3>1, <3>2 DEF ToldOK, NoticeOK
    <3> QED BY <2>2, <3>1, <3>2, <3>3
  <2>4. ASSUME NEW e \in linked \ now
        PROVE  \E k \in DOMAIN u : u[k].is = "connected" /\ u[k].child = e
    <3>1. PICK k \in DOMAIN t : t[k].is = "connected" /\ t[k].child = e
      BY <1>1, <1>4 DEF ToldOK, NoticeOK
    <3>2. k # 1
      BY <1>4, <3>1
    <3> QED BY <2>2, <3>1, <3>2
  <2>5. ASSUME NEW e \in now \ linked
        PROVE  \E k \in DOMAIN u : u[k].is = "disconnected" /\ u[k].child = e
    <3>1. PICK k \in DOMAIN t : t[k].is = "disconnected" /\ t[k].child = e
      BY <1>1 DEF ToldOK, NoticeOK
    <3>2. k # 1
      BY <1>4, <3>1
    <3> QED BY <2>2, <3>1, <3>2
  <2> QED BY <1>4, <2>1, <2>3, <2>4, <2>5 DEF ToldOK, NoticeOK
<1> HIDE DEF now
<1>12. /\ (Refusal(f, u) <=> Refusal(q, t)) /\ Unput(f, u, Sending) = Unput(q, t, Sending)
       /\ NextPut(f, u, Sending) = NextPut(q, t, Sending)
       /\ (Pending(f, u, Sending) <=> Pending(q, t, Sending))
  <2>1. Refusal(f, u) <=> Refusal(q, t)
    BY <1>5, <1>10 DEF Refusal
  <2> QED BY <1>9, <2>1 DEF Unput, NextPut, Pending
<1>13. SentOK(f, p, u, Sending)
  BY <1>1, <1>7, <1>9, <1>10, <1>12 DEF SentOK, Out
<1>14. PortOK(f, p, u, now, Sending) /\ PendingOK(f, u, Sending)
  <2>1. \A k \in DOMAIN p : p[k].rest \subseteq linked \cap now
    BY <1>1, <1>4 DEF PortOK, now
  <2>2. PortOK(f, p, u, now, Sending)
    BY <1>1, <1>12, <2>1 DEF PortOK
  <2>3. PendingOK(f, u, Sending)
    BY <1>5, <1>9, <1>10, <1>12 DEF PendingOK
  <2> QED BY <2>2, <2>3
<1>15. CollectOK(f) /\ NoneLeftOut(f, p, u, Sending)
  BY <1>4 DEF CollectOK, NoneLeftOut
<1>16. KidsOK(f, p, u, now, Sending)
  <2> SUFFICES ASSUME NEW e \in Child
               PROVE  /\ KidOK(e) /\ ReadsOK(f, p, u, now, Sending, e)
                      /\ BalanceOK(f, p, u, now, Sending, e)
    BY <1>6 DEF KidsOK
  <2>1. /\ KidOK(e) /\ ReadsOK(q, p, t, con, Sending, e)
        /\ BalanceOK(q, p, t, con, Sending, e)
    BY DEF AllOK, KidsOK
  <2>2. FirstUnread(f, p, u, Sending, e) = FirstUnread(q, p, t, Sending, e)
    BY <1>12 DEF FirstUnread
  <2>3. ReadsOK(f, p, u, now, Sending, e)
    BY <1>4, <2>1, <2>2 DEF ReadsOK, now
  <2>4. Unanswered(f, p, u, Sending, e) = Unanswered(q, p, t, Sending, e)
    <3>1. OnTheWay(p, u, e) = OnTheWay(p, t, e)
      BY <1>7 DEF OnTheWay
    <3>2. Owed(f, u, Sending, e) = Owed(q, t, Sending, e)
      BY <1>12 DEF Owed
    <3> QED BY <3>1, <3>2 DEF Unanswered
  <2>5. BalanceOK(f, p, u, now, Sending, e)
    BY <1>4, <1>9, <2>1, <2>4 DEF BalanceOK, now
  <2> QED BY <2>1, <2>3, <2>5
<1>17. ParentTypes(f, p, u, now)
  BY <1>1, <1>3, <1>10 DEF ParentTypes, now
<1>18. ParentOK(f, p, u, now, Sending)
  BY <1>9, <1>11, <1>13, <1>14, <1>15 DEF ParentOK
<1> QED BY <1>9, <1>16, <1>17, <1>18 DEF AllOK, now, s, u

-----------------------------------------------------------------------------
(* The steps.  What they leave alone stays true.                              *)

\* The parent's state and what it is called by: what is said of the ring carries
\* over.
LEMMA ParentCarried ==
  ASSUME NEW q, NEW p, NEW t, NEW con, NEW o,
         info'[0] = q, port' = p, told' = t, connected' = con, Sending' = o,
         doubleMode' = doubleMode
  PROVE  /\ Under(info[0])' = Under(q) /\ Top(info[0])' = Top(q)
         /\ (Refusal(info[0], told)' <=> Refusal(q, t))
         /\ (Pending(info[0], told, Sending)' <=> Pending(q, t, o))
         /\ NextPut(info[0], told, Sending)' = NextPut(q, t, o)
         /\ Given' = Given /\ HasRead' = HasRead /\ RingOK(q) => RingOK(info[0])'
         /\ LackOK(q, con) => LackOK(info[0], connected)'
         /\ PendingOK(q, t, o) => PendingOK(info[0], told, Sending)'
         /\ HasRead' = HasRead /\ SentOK(q, p, t, o) => SentOK(info[0], port, told, Sending)'
         /\ FirstOK(q, p) => FirstOK(info[0], port)'
         /\ ParentTypes(q, p, t, con) => ParentTypes(info[0], port, told, connected)'
<1>1. Ahead' = Ahead /\ Sharing!LastSet' = Sharing!LastSet
  BY DEF Ahead, Sharing!Ahead, Sharing!LastSet
<1>2. Under(info[0])' = Under(q) /\ Top(info[0])' = Top(q)
  BY <1>1 DEF Under, Top
<1>3. Refusal(info[0], told)' <=> Refusal(q, t)
  BY DEF Refusal
<1>4. Pending(info[0], told, Sending)' <=> Pending(q, t, o)
  BY <1>3 DEF Pending
<1>5. Unput(info[0], told, Sending)' = Unput(q, t, o)
  BY <1>4 DEF Unput
<1>6. NextPut(info[0], told, Sending)' = NextPut(q, t, o)
  BY <1>2, <1>5 DEF NextPut
<1>7. Given' = Given /\ HasRead' = HasRead /\ RingOK(q) => RingOK(info[0])'
  BY <1>1, <1>2 DEF RingOK, Held
<1>8. LackOK(q, con) => LackOK(info[0], connected)'
  BY <1>2 DEF LackOK, Held
<1>9. PendingOK(q, t, o) => PendingOK(info[0], told, Sending)'
  BY <1>1, <1>2, <1>3 DEF PendingOK
<1>10. HasRead' = HasRead /\ SentOK(q, p, t, o) => SentOK(info[0], port, told, Sending)'
  BY <1>2, <1>5 DEF SentOK, Out, Later, Hits
<1>11. FirstOK(q, p) => FirstOK(info[0], port)'
  BY <1>2 DEF FirstOK, Held
<1>12. ParentTypes(q, p, t, con) => ParentTypes(info[0], port, told, connected)'
  BY DEF ParentTypes
<1> QED BY <1>2, <1>3, <1>4, <1>6, <1>7, <1>8, <1>9, <1>10, <1>11, <1>12

\* The same for the port, the callbacks and the sets.
LEMMA TellCarried ==
  ASSUME NEW q, NEW p, NEW t, NEW con, NEW o,
         info'[0] = q, port' = p, told' = t, connected' = con, Sending' = o,
         doubleMode' = doubleMode,
         linked' = linked, changes' = changes
  PROVE  /\ PortOK(q, p, t, con, o) => PortOK(info[0], port, told, connected, Sending)'
         /\ ToldOK(t, con, o) => ToldOK(told, connected, Sending)'
         /\ CollectOK(q) => CollectOK(info[0])'
         /\ \A d : IsRight(d) => IsRight(d)'
<1>1. Ahead' = Ahead
  BY DEF Ahead, Sharing!Ahead
<1>2. /\ Under(info[0])' = Under(q) /\ Top(info[0])' = Top(q)
      /\ NextPut(info[0], told, Sending)' = NextPut(q, t, o)
  BY ParentCarried
<1>3. PortOK(q, p, t, con, o) => PortOK(info[0], port, told, connected, Sending)'
  BY <1>1, <1>2 DEF PortOK
<1>4. ToldOK(t, con, o) => ToldOK(told, connected, Sending)'
  BY DEF ToldOK, NoticeOK
<1>5. CollectOK(q) => CollectOK(info[0])'
  BY <1>1, <1>2 DEF CollectOK, Held, PieceOf
<1>6. \A d : IsRight(d) => IsRight(d)'
  BY <1>1 DEF IsRight, PieceOf
<1> QED BY <1>3, <1>4, <1>5, <1>6

\* The same for a child that does nothing itself.
LEMMA KidCarried ==
  ASSUME NEW q, NEW p, NEW t, NEW con, NEW o,
         info'[0] = q, port' = p, told' = t, connected' = con, Sending' = o,
         doubleMode' = doubleMode,
         linked' = linked, changes' = changes, NEW e \in Child, Idle(e)
  PROVE  /\ Begun(port, e)' <=> Begun(p, e)
         /\ KidOK(e) => KidOK(e)'
         /\ ReadsOK(q, p, t, con, o, e) => ReadsOK(info[0], port, told, connected, Sending, e)'
         /\ PiecesOK(t, e) => PiecesOK(told, e)'
         /\ BalanceOK(q, p, t, con, o, e)
              => BalanceOK(info[0], port, told, connected, Sending, e)'
<1>1. /\ Under(info[0])' = Under(q) /\ NextPut(info[0], told, Sending)' = NextPut(q, t, o)
      /\ (Refusal(info[0], told)' <=> Refusal(q, t))
  BY ParentCarried
<1>2. /\ InPort(port, e)' = InPort(p, e) /\ Unread(e)' = Unread(e) /\ Retries(e)' = Retries(e)
      /\ (Begun(port, e)' <=> Begun(p, e))
  BY DEF InPort, Unread, Retries, Begun, Idle, One
<1>3. KidOK(e) => KidOK(e)'
  BY SMTT(30), <1>2 DEF KidOK, Idle
<1>4. FirstUnread(info[0], port, told, Sending, e)' = FirstUnread(q, p, t, o, e)
  BY <1>1, <1>2 DEF FirstUnread
<1>5. ReadsOK(q, p, t, con, o, e) => ReadsOK(info[0], port, told, connected, Sending, e)'
  BY <1>2, <1>4 DEF ReadsOK, Idle
<1>6. PiecesOK(t, e) => PiecesOK(told, e)'
  BY <1>2 DEF PiecesOK, Idle
<1>7. Unanswered(info[0], port, told, Sending, e)' = Unanswered(q, p, t, o, e)
  <2>1. Owed(info[0], told, Sending, e)' = Owed(q, t, o, e)
    BY <1>1 DEF Owed, One
  <2>2. OnTheWay(port, told, e)' = OnTheWay(p, t, e)
    BY <1>2 DEF OnTheWay, Idle
  <2> QED BY <2>1, <2>2 DEF Unanswered
<1>8. Lacks(info[0], e)' = Lacks(q, e)
  BY <1>1 DEF Lacks, Held, One
<1>9. Exact(port, Sending, e)' <=> Exact(p, o, e)
  BY DEF Exact
<1>10. BalanceOK(q, p, t, con, o, e)
         => BalanceOK(info[0], port, told, connected, Sending, e)'
  BY <1>7, <1>8, <1>9 DEF BalanceOK
<1> QED BY <1>2, <1>3, <1>5, <1>6, <1>10

\* A step of the parent: what it reads and gives is told by its ring.
LEMMA MostCarried ==
  ASSUME NEW q, NEW p, NEW t, NEW con, NEW o,
         ParentTypes(q, p, t, con), KidsOK(q, p, t, con, o), LackOK(q, con),
         PendingOK(q, t, o), PortOK(q, p, t, con, o), ToldOK(t, con, o), FirstOK(q, p),
         NoneLeftOut(q, p, t, o), CollectOK(q),
         info'[0] = q, port' = p, told' = t, connected' = con, Sending' = o,
         doubleMode' = doubleMode, linked' = linked, changes' = changes, linked \subseteq Child,
         \A e \in Child : Idle(e),
         RingOK(info[0])', SentOK(info[0], port, told, Sending)', KnownOK(info[0], port)'
  PROVE  AllOK(info[0], port, told, connected, Sending)'
<1>1. /\ LackOK(info[0], connected)' /\ PendingOK(info[0], told, Sending)'
      /\ FirstOK(info[0], port)' /\ ParentTypes(info[0], port, told, connected)'
  BY ParentCarried
<1>2. /\ PortOK(info[0], port, told, connected, Sending)' /\ ToldOK(told, connected, Sending)'
      /\ CollectOK(info[0])'
  BY TellCarried
<1>3. KidsOK(info[0], port, told, connected, Sending)'
  <2> SUFFICES ASSUME NEW e \in Child
               PROVE  /\ KidOK(e)' /\ ReadsOK(info[0], port, told, connected, Sending, e)'
                      /\ PiecesOK(told, e)'
                      /\ BalanceOK(info[0], port, told, connected, Sending, e)'
    BY DEF KidsOK
  <2>1. /\ KidOK(e) /\ ReadsOK(q, p, t, con, o, e) /\ PiecesOK(t, e)
        /\ BalanceOK(q, p, t, con, o, e)
    BY DEF KidsOK
  <2> QED BY <2>1, KidCarried
<1>4. NoneLeftOut(info[0], port, told, Sending)'
  <2>1. Pending(info[0], told, Sending)' <=> Pending(q, t, o)
    BY ParentCarried
  <2>2. \A e \in Child : Begun(port, e)' <=> Begun(p, e)
    BY KidCarried
  <2> QED BY <2>1, <2>2 DEF NoneLeftOut
<1> QED BY <1>1, <1>2, <1>3, <1>4 DEF AllOK, ParentOK

\* A step that does nothing but what the parent's parts tell.
LEMMA Carried ==
  ASSUME NEW q, NEW p, NEW t, NEW con, NEW o, AllOK(q, p, t, con, o),
         info'[0] = q, port' = p, told' = t, connected' = con, Sending' = o,
         Given' = Given, doubleMode' = doubleMode, last' = last,
         linked' = linked, changes' = changes, linked \subseteq Child,
         \A e \in Child : Idle(e)
  PROVE  AllOK(info[0], port, told, connected, Sending)'
<1>1. HasRead' = HasRead
  BY DEF HasRead, Sharing!ReadNo
<1>2. RingOK(info[0])' /\ SentOK(info[0], port, told, Sending)'
  BY <1>1, ParentCarried DEF AllOK, ParentOK
<1>3. KnownOK(info[0], port)'
  <2>1. Under(info[0])' = Under(q)
    BY ParentCarried
  <2>2. Known(info[0], port)' = Known(q, p)
    BY <2>1 DEF Known, Idle
  <2>3. \A d : IsRight(d) => IsRight(d)'
    BY TellCarried
  <2>4. KnownOK(q, p)
    BY DEF AllOK, ParentOK
  <2> QED BY <2>1, <2>2, <2>3, <2>4 DEF KnownOK, Agree
<1> QED BY <1>2, <1>3, MostCarried DEF AllOK, ParentOK

-----------------------------------------------------------------------------
(* The callbacks of the parent.                                               *)

\* What a callback leaves of the step that it interrupts.
LEMMA Lands ==
  ASSUME ShareAssumption, StateTypes, UNCHANGED <<last, linked, reply, changes, doubleMode>>,
         NEW v, NEW con, NEW o, info' = [info EXCEPT ![0] = v.info], port' = v.port,
         told' = v.told, connected' = con, AllOK(v.info, v.port, v.told, con, o),
         Given' = Given, Sending' = o, step' \in Steps
  PROVE  /\ StateTypes' /\ info'[0] = v.info /\ HasRead' = HasRead
         /\ AllOK(info[0], port, told, connected, Sending)'
<1>1. 0 \in Sharing!Station /\ \A e \in Child : e \in Sharing!Station /\ e # 0
  BY DEF Sharing!Station, ShareAssumption
<1>2. v.info \in Rings
  BY DEF AllOK, ParentTypes
<1>3. info'[0] = v.info /\ \A e \in Child : info'[e] = info[e]
  BY <1>1 DEF StateTypes
<1>4. StateTypes'
  <2>1. info' \in [Sharing!Station -> Rings]
    BY <1>2 DEF StateTypes
  <2>2. Sharing!Piece' = Sharing!Piece /\ Sharing!Station' = Sharing!Station
    BY DEF Sharing!Piece, Sharing!Station
  <2> QED BY <2>1, <2>2 DEF StateTypes
<1>5. AllOK(info[0], port, told, connected, Sending)'
  <2>1. \A e \in Child : Idle(e)
    BY <1>3 DEF Idle
  <2>2. linked \subseteq Child
    BY DEF StateTypes
  <2> QED BY <1>3, <2>1, <2>2, Carried
<1>6. HasRead' = HasRead
  BY DEF HasRead, Sharing!ReadNo
<1> QED BY <1>3, <1>4, <1>5, <1>6

\* What a callback leaves, if it does not disturb the step it interrupts.
LEMMA CallbackLands ==
  ASSUME ShareAssumption, StateTypes,
         UNCHANGED <<last, step, linked, reply, changes, doubleMode>>,
         NEW v, NEW con, Sharing!SetParent(v), connected' = con,
         AllOK(v.info, v.port, v.told, con, Sending), PlaceOK(v.info)
  PROVE  ShareInv'
<1>1. Given' = Given /\ Sending' = Sending /\ step' \in Steps
  BY DEF Given, Giving, HasRead, Sharing!ReadNo, Ahead, Sharing!Ahead, Sending, StateTypes
<1>2. /\ info' = [info EXCEPT ![0] = v.info] /\ port' = v.port /\ told' = v.told
  BY DEF Sharing!SetParent
<1>3. /\ StateTypes' /\ info'[0] = v.info /\ HasRead' = HasRead
      /\ AllOK(info[0], port, told, connected, Sending)'
  BY <1>1, <1>2, Lands
<1>4. PlaceOK(info[0])'
  <2>1. Under(info[0])' = Under(v.info)
    BY <1>3 DEF Under
  <2>2. Held(info[0], Under(info[0]))' = Held(v.info, Under(v.info))
    BY <1>3, <2>1 DEF Held
  <2> QED BY <1>1, <2>1, <2>2 DEF PlaceOK
<1> QED BY <1>3, <1>4 DEF ShareInv

\* The state of the parent without the callback that is called.
LEMMA ParentWaits ==
  LET v == [info |-> info[0], port |-> port, told |-> Tail(told)]
  IN  /\ Sharing!Parent = [info |-> info[0], port |-> port, told |-> told]
      /\ Sharing!Waiting = v
      /\ \A f : [v EXCEPT !.info = f] = [info |-> f, port |-> port, told |-> Tail(told)]
<1> DEFINE u == [info |-> info[0], port |-> port, told |-> told]
           v == [info |-> info[0], port |-> port, told |-> Tail(told)]
<1>1. /\ u.info = info[0] /\ u.port = port /\ u.told = told
      /\ v.info = info[0] /\ v.port = port /\ v.told = Tail(told)
  OBVIOUS
<1>2. IsParent(u) /\ IsParent(v)
  BY DEF IsParent
<1>3. Sharing!Parent = u /\ Sharing!Waiting = [u EXCEPT !.told = Tail(told)]
  BY DEF Sharing!Parent, Sharing!Waiting
<1> HIDE DEF u, v
<1>4. [u EXCEPT !.told = Tail(told)] = [info |-> info[0], port |-> port, told |-> Tail(told)]
  <2>1. \A g : [u EXCEPT !.told = g] = [info |-> u.info, port |-> u.port, told |-> g]
    BY <1>2 DEF IsParent
  <2>2. [u EXCEPT !.told = Tail(told)] = [info |-> u.info, port |-> u.port, told |-> Tail(told)]
    BY <2>1
  <2> QED BY <1>1, <2>2
<1>5. \A f : [v EXCEPT !.info = f] = [info |-> f, port |-> port, told |-> Tail(told)]
  <2>1. \A f : [v EXCEPT !.info = f] = [info |-> f, port |-> v.port, told |-> v.told]
    BY <1>2 DEF IsParent
  <2> QED BY <1>1, <2>1
<1> QED BY <1>3, <1>4, <1>5 DEF u, v

\* The callback of a set that has been sent.
LEMMA StepSent ==
  ASSUME ShareAssumption, ShareInv, Sharing!Sent, UNCHANGED doubleMode
  PROVE  ShareInv'
<1> DEFINE f == [info[0] EXCEPT !.sendIndex = Sharing!Next4(@)]
           v == [info |-> f, port |-> port, told |-> Tail(told)]
<1>1. /\ told # <<>> /\ Head(told).is = "sent" /\ connected' = connected
      /\ Sharing!SetParent([Sharing!Waiting EXCEPT !.info.sendIndex = Sharing!Next4(@)])
      /\ UNCHANGED <<last, step, linked, reply, changes, doubleMode>>
  BY DEF Sharing!Sent, Sharing!Callback
<1>2. [Sharing!Waiting EXCEPT !.info.sendIndex = Sharing!Next4(@)] = v
  BY ParentWaits
<1>3. /\ StateTypes /\ AllOK(info[0], port, told, connected, Sending) /\ PlaceOK(info[0])
  BY DEF ShareInv
<1>4. SameRing(info[0], f) /\ AllOK(f, port, Tail(told), connected, Sending)
  BY <1>1, <1>3, SentKeeps
<1>5. PlaceOK(f)
  BY <1>3, <1>4, SameRingKeeps
<1>6. v.info = f /\ v.port = port /\ v.told = Tail(told)
  OBVIOUS
<1> HIDE DEF v
<1> QED BY <1>1, <1>2, <1>3, <1>4, <1>5, <1>6, CallbackLands

\* The callback of a set for which the queue was full.
LEMMA StepRefused ==
  ASSUME ShareAssumption, ShareInv, Sharing!Refused, UNCHANGED doubleMode
  PROVE  ShareInv'
<1> DEFINE f == [info[0] EXCEPT !.retry = TRUE]
           v == [info |-> f, port |-> port, told |-> Tail(told)]
<1>1. /\ told # <<>> /\ Head(told).is = "full" /\ connected' = connected
      /\ Sharing!SetParent([Sharing!Waiting EXCEPT !.info.retry = TRUE])
      /\ UNCHANGED <<last, step, linked, reply, changes, doubleMode>>
  BY DEF Sharing!Refused, Sharing!Callback
<1>2. [Sharing!Waiting EXCEPT !.info.retry = TRUE] = v
  BY ParentWaits
<1>3. /\ StateTypes /\ AllOK(info[0], port, told, connected, Sending) /\ PlaceOK(info[0])
  BY DEF ShareInv
<1>4. SameRing(info[0], f) /\ AllOK(f, port, Tail(told), connected, Sending)
  BY <1>1, <1>3, RefusedKeeps
<1>5. PlaceOK(f)
  BY <1>3, <1>4, SameRingKeeps
<1>6. v.info = f /\ v.port = port /\ v.told = Tail(told)
  OBVIOUS
<1> HIDE DEF v
<1> QED BY <1>1, <1>2, <1>3, <1>4, <1>5, <1>6, CallbackLands

\* The callback of a piece that has come.
LEMMA StepReceived ==
  ASSUME ShareAssumption, ShareInv, Sharing!Received, UNCHANGED doubleMode
  PROVE  ShareInv'
<1> DEFINE f == Sharing!ReceiveData(info[0], Head(told).child, Head(told).piece)
           v == [info |-> f, port |-> port, told |-> Tail(told)]
           u == Sharing!SendDataSet(v, connected)
<1>1. /\ told # <<>> /\ Head(told).is = "data" /\ connected' = connected
      /\ Sharing!SetParent(Sharing!SendDataSet(
           [Sharing!Waiting EXCEPT !.info =
              Sharing!ReceiveData(@, Head(told).child, Head(told).piece)], connected))
      /\ UNCHANGED <<last, step, linked, reply, changes, doubleMode>>
  BY DEF Sharing!Received, Sharing!Callback
<1>2. [Sharing!Waiting EXCEPT !.info =
         Sharing!ReceiveData(@, Head(told).child, Head(told).piece)] = v
  BY ParentWaits
<1>3. /\ StateTypes /\ AllOK(info[0], port, told, connected, Sending) /\ PlaceOK(info[0])
  BY DEF ShareInv
<1>4. Under(f) = Under(info[0]) /\ AllOK(f, port, Tail(told), connected, Sending)
  BY <1>1, <1>3, AnswerKeeps
<1>5. PlaceLeft(f)
  BY <1>3, <1>4 DEF PlaceOK, PlaceLeft
<1>6. v.info = f /\ v.port = port /\ v.told = Tail(told) /\ IsParent(v)
  BY DEF IsParent
<1> HIDE DEF v, f
<1>7. AllOK(u.info, u.port, u.told, connected, Sending) /\ PlaceOK(u.info)
  BY <1>3, <1>4, <1>5, <1>6, SendKeeps
<1> HIDE DEF u
<1>8. Sharing!SetParent(u)
  BY <1>1, <1>2 DEF u
<1> QED BY <1>1, <1>3, <1>7, <1>8, CallbackLands

\* The callback of a child that has come.
LEMMA StepConnected ==
  ASSUME ShareAssumption, ShareInv, Sharing!Connected, UNCHANGED doubleMode
  PROVE  ShareInv'
<1> DEFINE con == connected \cup {Head(told).child}
           v == Sharing!Waiting
           u == Sharing!SendDataSet(v, con)
<1>1. /\ told # <<>> /\ Head(told).is = "connected" /\ connected' = con
      /\ Sharing!SetParent(u)
      /\ UNCHANGED <<last, step, linked, reply, changes, doubleMode>>
  BY DEF Sharing!Connected, Sharing!Callback
<1>2. v.info = info[0] /\ v.port = port /\ v.told = Tail(told) /\ IsParent(v)
  BY ParentWaits DEF IsParent
<1>3. /\ StateTypes /\ AllOK(info[0], port, told, connected, Sending) /\ PlaceOK(info[0])
  BY DEF ShareInv
<1> HIDE DEF v, con
<1>4. AllOK(info[0], port, Tail(told), con, Sending)
  BY <1>1, <1>3, ConnectedKeeps DEF con
<1>5. PlaceLeft(info[0])
  BY <1>3 DEF PlaceOK, PlaceLeft
<1>6. AllOK(u.info, u.port, u.told, con, Sending) /\ PlaceOK(u.info)
  BY <1>2, <1>3, <1>4, <1>5, SendKeeps
<1> HIDE DEF u
<1> QED BY <1>1, <1>3, <1>6, CallbackLands

\* The callback of a child that has left.
LEMMA StepDisconnected ==
  ASSUME ShareAssumption, ShareInv, Sharing!Disconnected, UNCHANGED doubleMode
  PROVE  ShareInv'
<1> DEFINE s == Head(told).child
           con == connected \ {s}
           w == info[0].writeIndex
           slots == IF doubleMode THEN {w, Sharing!Next4(w)} ELSE {w}
           ds == [k \in Slot |-> IF k \in slots THEN [info[0].ds[k] EXCEPT !.aidBitmap = @ \ {s}]
                                  ELSE info[0].ds[k]]
           f == [info[0] EXCEPT !.ds = ds]
           v == [info |-> f, port |-> port, told |-> Tail(told)]
           left == [Sharing!Waiting EXCEPT !.info.ds = ds]
           u == Sharing!SendDataSet(v, con)
           x == IF doubleMode THEN Sharing!SendDataSet(u, con) ELSE u
<1>1. /\ told # <<>> /\ Head(told).is = "disconnected" /\ connected' = con
      /\ UNCHANGED <<last, step, linked, reply, changes, doubleMode>>
  BY DEF Sharing!Disconnected, Sharing!Callback
<1>2. left = v
  BY ParentWaits
<1>3. Sharing!SetParent(x)
  <2>1. Sharing!SetParent(IF doubleMode THEN Sharing!SendDataSet(Sharing!SendDataSet(left, con), con)
                          ELSE Sharing!SendDataSet(left, con))
    BY <1>1 DEF Sharing!Disconnected, Slot
  <2> QED BY <1>2, <2>1
<1>4. /\ StateTypes /\ AllOK(info[0], port, told, connected, Sending) /\ PlaceOK(info[0])
  BY DEF ShareInv
<1>5. s \in Child
  BY <1>1, <1>4, TailFacts DEF AllOK, ParentTypes, Notices
<1>6. LeftBy(info[0], f, s)
  BY <1>4, <1>5, LeftFacts DEF AllOK, ParentTypes, ParentOK
<1>7. v.info = f /\ v.port = port /\ v.told = Tail(told) /\ IsParent(v)
  BY DEF IsParent
<1> HIDE DEF v, f
<1>8. Under(f) = Under(info[0]) /\ AllOK(f, port, Tail(told), con, Sending)
  BY <1>1, <1>4, <1>6, DisconnectedKeeps
<1>9. PlaceLeft(f)
  BY <1>4, <1>8 DEF PlaceOK, PlaceLeft
<1> HIDE DEF con
<1>10. /\ IsParent(u) /\ AllOK(u.info, u.port, u.told, con, Sending) /\ PlaceOK(u.info)
       /\ PlaceLeft(u.info)
  BY <1>4, <1>7, <1>8, <1>9, SendKeeps
<1> HIDE DEF u
<1>11. AllOK(x.info, x.port, x.told, con, Sending) /\ PlaceOK(x.info)
  <2>1. LET y == Sharing!SendDataSet(u, con)
        IN  AllOK(y.info, y.port, y.told, con, Sending) /\ PlaceOK(y.info)
    BY <1>4, <1>10, SendKeeps
  <2> QED BY <1>10, <2>1
<1> HIDE DEF x
<1> QED BY <1>1, <1>3, <1>4, <1>11, CallbackLands

-----------------------------------------------------------------------------
(* The parent's WM_StepDataSharing.                                           *)

\* What is said of the places of the step.
LEMMA StepFacts ==
  ASSUME StateTypes
  PROVE  /\ step = Sharing!NoStep => step.at = "idle" /\ Sending = {} /\ ~Giving
         /\ step.at = "read" => Sending = {} /\ ~Giving /\ step.aids \subseteq Child
         /\ step.at \in {"send", "give", "next", "resend", "put", "reput"} =>
              step.give \in BOOLEAN /\ step.delayed \in BOOLEAN
         /\ step.at \in {"send", "give", "next", "resend"} => Sending = {}
         /\ step.at \in {"put", "reput"} =>
              /\ step.slot \in Slot /\ step.dest \subseteq Child
              /\ Sending = {[slot |-> step.slot, dest |-> step.dest]}
         /\ step.at \in {"send", "put", "give", "next"} => (Giving <=> step.give)
         /\ step.at \in {"resend", "reput"} => ~Giving
<1>1. step = Sharing!NoStep => step.at = "idle"
  BY DEF Sharing!NoStep
<1>2. step \in Steps
  BY DEF StateTypes
<1> QED BY <1>1, <1>2 DEF Steps, Sending, Giving, Sharing!NoStep

\* A set is put: what is left.
LEMMA ParentPuts ==
  ASSUME ShareAssumption, ShareInv, Sharing!Put(step.at, step'), step.at \in {"put", "reput"},
         UNCHANGED doubleMode, step' \in Steps, step'.at \in {"idle", "give"},
         step'.at = "give" => step.at = "put" /\ step.give /\ step'.give,
         step'.at = "idle" => step.at = "reput" \/ ~step.give
  PROVE  ShareInv'
<1> DEFINE q == info[0]
           h == [slot |-> step.slot, dest |-> step.dest]
           v == Sharing!SetMPDataToPort([info |-> q, port |-> port, told |-> told],
                                        h.slot, h.dest)
<1>1. /\ StateTypes /\ PlaceOK(q) /\ AllOK(q, port, told, connected, Sending)
  BY DEF ShareInv
<1>2. /\ step.slot \in Slot /\ step.dest \subseteq Child /\ Sending = {h}
      /\ step.give \in BOOLEAN /\ (step.at = "put" => (Giving <=> step.give))
      /\ (step.at = "reput" => ~Giving)
  BY <1>1, StepFacts
<1>3. h \in Puts
  BY <1>2 DEF Puts
<1>4. /\ Sharing!SetParent(v) /\ UNCHANGED <<last, connected, linked, reply, changes>>
  BY ParentWaits DEF Sharing!Put
<1> HIDE DEF h
<1>5. IsParent(v) /\ SameRing(q, v.info) /\ AllOK(v.info, v.port, v.told, connected, {})
  BY <1>1, <1>2, <1>3, PutKeeps
<1> HIDE DEF v
<1>6. Given' = Given /\ Sending' = {}
  <2>1. Giving' <=> Giving
    BY <1>2 DEF Giving
  <2>2. Ahead' = Ahead /\ HasRead' = HasRead
    BY <1>4 DEF Ahead, Sharing!Ahead, HasRead, Sharing!ReadNo
  <2> QED BY <2>1, <2>2 DEF Given, Sending
<1>7. /\ StateTypes' /\ info'[0] = v.info
      /\ AllOK(info[0], port, told, connected, Sending)'
  BY <1>1, <1>4, <1>5, <1>6, Lands DEF Sharing!SetParent
<1>8. PlaceOK(info[0])'
  <2>1. Under(v.info) = Under(q) /\ \A m : Held(v.info, m) = Held(q, m)
    BY <1>5, SameRingKeeps
  <2>2. Under(info[0])' = Under(q) /\ Held(info[0], Under(info[0]))' = Held(q, Under(q))
    BY <1>7, <2>1 DEF Under, Held
  <2>3. Under(q) = Given + 1
    BY <1>1 DEF PlaceOK
  <2>4. 0 \in Held(q, Under(q)).aidBitmap
    <3>1. q \in Rings /\ RingOK(q)
      BY <1>1 DEF AllOK, ParentOK, ParentTypes
    <3>2. /\ Under(q) \in Nat /\ Top(q) = Under(q) + Ahead - 1 /\ Ahead \in 1..2 /\ Given \in Int
      BY <1>1, <3>1, RingNumbers, ShareNumbers
    <3>3. Under(q) \in Under(q)..Top(q) /\ Under(q) > Given
      BY <2>3, <3>2
    <3> QED BY <3>1, <3>3 DEF RingOK
  <2> QED BY <2>2, <2>4 DEF PlaceOK
<1> QED BY <1>7, <1>8 DEF ShareInv

\* The step puts the set it has finished.
LEMMA StepStepPut ==
  ASSUME ShareAssumption, ShareInv, Sharing!StepPut, UNCHANGED doubleMode
  PROVE  ShareInv'
<1>1. step.at = "put" /\ step' = Sharing!Giving /\ Sharing!Put("put", Sharing!Giving)
  BY DEF Sharing!StepPut, Sharing!Put
<1>2. step \in Steps
  BY DEF ShareInv, StateTypes
<1>3. step' \in Steps /\ step'.at \in {"idle", "give"} /\ (step'.at = "give" <=> step.give)
      /\ (step'.at = "give" => step'.give)
  <2>1. CASE step.give
    <3>1. step' = [step EXCEPT !.at = "give"]
      BY <1>1, <2>1 DEF Sharing!Giving
    <3>2. step \in [at : {"put", "give", "next", "reput", "resend"}, give : BOOLEAN,
                    delayed : BOOLEAN, slot : Slot, dest : SUBSET Child]
      BY <1>1, <1>2 DEF Steps, Sharing!NoStep
    <3>3. step' \in [at : {"put", "give", "next", "reput", "resend"}, give : BOOLEAN,
                     delayed : BOOLEAN, slot : Slot, dest : SUBSET Child]
      BY <3>1, <3>2
    <3>4. step'.at = "give" /\ step'.give = step.give
      BY <3>1, <3>2
    <3> QED BY <2>1, <3>3, <3>4 DEF Steps
  <2>2. CASE ~step.give
    BY <1>1, <2>2 DEF Sharing!Giving, Sharing!NoStep, Steps
  <2> QED BY <2>1, <2>2
<1>4. Sharing!Put(step.at, step')
  BY <1>1
<1> QED BY <1>1, <1>3, <1>4, ParentPuts

\* The same for the second set of a step, in double mode.
LEMMA StepStepPutAgain ==
  ASSUME ShareAssumption, ShareInv, Sharing!StepPutAgain, UNCHANGED doubleMode
  PROVE  ShareInv'
<1>1. /\ step.at = "reput" /\ step' = Sharing!NoStep
      /\ Sharing!Put("reput", Sharing!NoStep)
  BY DEF Sharing!StepPutAgain, Sharing!Put
<1>2. step' \in Steps /\ step'.at = "idle"
  BY <1>1 DEF Sharing!NoStep, Steps
<1>3. Sharing!Put(step.at, step')
  BY <1>1
<1> QED BY <1>1, <1>2, <1>3, ParentPuts

\* The step begins with the set that was refused.
LEMMA StepStepRetry ==
  ASSUME ShareAssumption, ShareInv, Sharing!StepRetry, UNCHANGED doubleMode
  PROVE  ShareInv'
<1> DEFINE q == info[0]
           f == [q EXCEPT !.retry = FALSE]
           h == [slot |-> Sharing!Prev4(q.writeIndex), dest |-> connected]
           w == [info |-> f, port |-> port, told |-> told]
           v == Sharing!SetMPDataToPort(w, h.slot, h.dest)
<1>1. /\ StateTypes /\ PlaceOK(q) /\ AllOK(q, port, told, connected, Sending)
  BY DEF ShareInv
<1>2. /\ step = Sharing!NoStep /\ q.retry /\ step' = [at |-> "read", aids |-> connected]
      /\ UNCHANGED <<last, connected, linked, reply, changes>>
      /\ Sharing!SetParent(Sharing!SetMPDataToPort([Sharing!Parent EXCEPT !.info.retry = FALSE],
                             Sharing!Prev4(q.writeIndex), connected))
  BY DEF Sharing!StepRetry
<1>3. [Sharing!Parent EXCEPT !.info.retry = FALSE] = w
  <2> DEFINE u == Sharing!Parent
  <2>1. u.info = q /\ u.port = port /\ u.told = told /\ IsParent(u)
    BY ParentWaits DEF IsParent
  <2> HIDE DEF u
  <2>2. \A g : [u EXCEPT !.info = g] = [info |-> g, port |-> u.port, told |-> u.told]
    BY <2>1 DEF IsParent
  <2>3. [u EXCEPT !.info.retry = FALSE] = w
    BY <2>1, <2>2
  <2> QED BY <2>3 DEF u
<1>4. Sharing!SetParent(v)
  BY <1>2, <1>3
<1>5. step.at = "idle" /\ Sending = {} /\ ~Giving
  BY <1>1, <1>2, StepFacts
<1>6. h \in Puts /\ SameRing(q, f) /\ AllOK(f, port, told, connected, {h})
  BY <1>1, <1>2, <1>5, RetryKeeps
<1> HIDE DEF f, h
<1>7. IsParent(v) /\ SameRing(f, v.info) /\ AllOK(v.info, v.port, v.told, connected, {})
  BY <1>1, <1>6, PutKeeps
<1> HIDE DEF v, w
<1>8. Given' = Given /\ Sending' = {} /\ step' \in Steps
  <2>1. ~Giving'
    BY <1>2 DEF Giving
  <2>2. Ahead' = Ahead /\ HasRead' = HasRead
    BY <1>2 DEF Ahead, Sharing!Ahead, HasRead, Sharing!ReadNo
  <2>3. connected \subseteq Child
    BY <1>1 DEF AllOK, ParentTypes
  <2> QED BY <1>2, <1>5, <2>1, <2>2, <2>3 DEF Given, Sending, Steps
<1>9. /\ StateTypes' /\ info'[0] = v.info
      /\ AllOK(info[0], port, told, connected, Sending)'
  BY <1>1, <1>2, <1>4, <1>7, <1>8, Lands DEF Sharing!SetParent
<1>10. PlaceOK(info[0])'
  <2>1. SameRing(q, v.info)
    BY <1>6, <1>7 DEF SameRing
  <2>2. Under(v.info) = Under(q) /\ \A m : Held(v.info, m) = Held(q, m)
    BY <2>1, SameRingKeeps
  <2>3. Under(info[0])' = Under(q) /\ Held(info[0], Under(info[0]))' = Held(q, Under(q))
    BY <1>9, <2>2 DEF Under, Held
  <2> QED BY <1>1, <1>2, <1>8, <2>3 DEF PlaceOK
<1> QED BY <1>9, <1>10 DEF ShareInv

\* A step that leaves all but what is done next.
LEMMA OnlyStep ==
  ASSUME ShareAssumption, ShareInv, step' \in Steps, Given' = Given, Sending' = Sending,
         UNCHANGED <<info, port, told, connected, last, linked, reply, changes, doubleMode>>
  PROVE  /\ StateTypes' /\ info'[0] = info[0]
         /\ AllOK(info[0], port, told, connected, Sending)'
         /\ Under(info[0])' = Under(info[0])
         /\ Held(info[0], Under(info[0]))' = Held(info[0], Under(info[0]))
<1> DEFINE v == [info |-> info[0], port |-> port, told |-> told]
<1>1. /\ StateTypes /\ AllOK(info[0], port, told, connected, Sending)
  BY DEF ShareInv
<1>2. info' = [info EXCEPT ![0] = info[0]]
  BY <1>1 DEF StateTypes
<1>3. v.info = info[0] /\ v.port = port /\ v.told = told
  OBVIOUS
<1> HIDE DEF v
<1>4. /\ StateTypes' /\ info'[0] = v.info
      /\ AllOK(info[0], port, told, connected, Sending)'
  BY <1>1, <1>2, <1>3, Lands
<1>5. Under(info[0])' = Under(info[0])
  BY DEF Under
<1> QED BY <1>3, <1>4, <1>5 DEF Held

\* A set is finished, or the parent goes on.
LEMMA ParentFinishes ==
  ASSUME ShareAssumption, ShareInv, NEW from, NEW to, NEW after, NEW delayed \in BOOLEAN,
         Sharing!Finish(from, to, after, delayed), UNCHANGED doubleMode,
         \/ from = "send" /\ to = "put" /\ after = Sharing!Giving
         \/ from = "resend" /\ to = "reput" /\ after = Sharing!NoStep
  PROVE  ShareInv'
<1> DEFINE q == info[0]
           f == Sharing!FinishDataSet(q, connected, delayed)
           o == {[slot |-> q.writeIndex, dest |-> connected]}
<1>1. /\ StateTypes /\ PlaceOK(q) /\ AllOK(q, port, told, connected, Sending)
  BY DEF ShareInv
<1>2. /\ step.at = from /\ UNCHANGED <<last, connected, linked, told, port, reply, changes>>
  BY DEF Sharing!Finish
<1>3. /\ step.give \in BOOLEAN /\ step.delayed \in BOOLEAN /\ Sending = {}
      /\ (from = "send" => (Giving <=> step.give)) /\ (from = "resend" => ~Giving)
  BY <1>1, <1>2, StepFacts
<1>4. q \in Rings /\ RingOK(q) /\ connected \subseteq Child
  BY <1>1 DEF AllOK, ParentOK, ParentTypes
<1>5. /\ Under(q) \in Nat /\ Under(q) > HasRead /\ Held(q, Under(q)) = q.ds[q.writeIndex]
  BY <1>1, <1>4, RingNumbers
<1>6. /\ Ahead \in 1..2 /\ (doubleMode <=> Ahead = 2) /\ HasRead \in Nat
      /\ Given \in HasRead - 1 + Ahead..HasRead + Ahead
  BY <1>1, ShareNumbers
<1>7. Ahead' = Ahead /\ HasRead' = HasRead
  BY <1>2 DEF Ahead, Sharing!Ahead, HasRead, Sharing!ReadNo
<1>8. CASE Sharing!Complete(q)
  <2>1. info' = [info EXCEPT ![0] = f]
    BY <1>8 DEF Sharing!Finish
  <2>2. step' = [at |-> to, give |-> step.give, delayed |-> step.delayed,
                 slot |-> q.writeIndex, dest |-> connected]
    BY <1>8 DEF Sharing!Finish
  <2>3. FinishedInto(q, f, connected)
    BY <1>1, <1>4, <1>8, FinishFacts
  <2> HIDE DEF f
  <2>4. AllOK(f, port, told, connected, o)
    BY <1>1, <1>3, <2>3, FinishKeeps
  <2>5. q.writeIndex \in Slot
    BY <1>4 DEF Rings
  <2>6. step' \in Steps
    BY <1>2, <1>3, <1>4, <2>2, <2>5 DEF Steps
  <2>7. Given' = Given /\ Sending' = o
    <3>1. Giving' <=> Giving
      BY <1>2, <1>3, <2>2 DEF Giving
    <3> QED BY <1>7, <2>2, <3>1 DEF Given, Sending
  <2> DEFINE v == [info |-> f, port |-> port, told |-> told]
  <2>8. v.info = f /\ v.port = port /\ v.told = told
    OBVIOUS
  <2> HIDE DEF v
  <2>9. /\ StateTypes' /\ info'[0] = f
        /\ AllOK(info[0], port, told, connected, Sending)'
    BY <1>1, <1>2, <2>1, <2>4, <2>6, <2>7, <2>8, Lands
  <2>10. PlaceOK(info[0])'
    <3>1. Under(info[0])' = Under(f)
      BY <2>9 DEF Under
    <3>2. Under(f) = Under(q) + 1 /\ Under(q) <= Given /\ Held(q, Under(q)).aidBitmap = {}
      BY <2>3 DEF FinishedInto
    <3>3. Under(q) = Given
      <4>1. CASE doubleMode
        BY <1>1, <1>5, <1>6, <3>2, <4>1 DEF PlaceOK
      <4>2. CASE ~doubleMode
        BY <1>5, <1>6, <3>2, <4>2
      <4> QED BY <4>1, <4>2
    <3>4. Under(info[0])' = Given' + 1 /\ ~(Under(info[0])' < Given')
      BY <1>6, <2>7, <3>1, <3>2, <3>3
    <3> QED BY <1>2, <2>2, <3>4 DEF PlaceOK
  <2> QED BY <2>9, <2>10 DEF ShareInv
<1>9. CASE ~Sharing!Complete(q)
  <2>1. step' = after /\ UNCHANGED info
    BY <1>9 DEF Sharing!Finish
  <2>2. CASE from = "send" /\ step.give
    <3>1. step \in [at : {"send", "give", "next", "resend"}, give : BOOLEAN, delayed : BOOLEAN]
      BY <1>1, <1>2, <2>2 DEF StateTypes, Steps, Sharing!NoStep
    <3>2. step' = [step EXCEPT !.at = "give"]
      BY <2>1, <2>2 DEF Sharing!Giving
    <3>3. /\ step'.at = "give" /\ step'.give /\ step' \in Steps
      BY <2>2, <3>1, <3>2 DEF Steps
    <3>4. Given' = Given /\ Sending' = Sending
      <4>1. Giving /\ Giving'
        BY <1>3, <2>2, <3>3 DEF Giving
      <4> QED BY <1>3, <1>7, <3>3, <4>1 DEF Given, Sending
    <3>5. /\ StateTypes' /\ info'[0] = info[0]
          /\ AllOK(info[0], port, told, connected, Sending)'
          /\ Under(info[0])' = Under(info[0])
          /\ Held(info[0], Under(info[0]))' = Held(info[0], Under(info[0]))
      BY <1>2, <2>1, <3>3, <3>4, OnlyStep
    <3>6. PlaceOK(info[0])'
      <4>1. Held(q, Under(q)).aidBitmap # {}
        BY <1>5, <1>9 DEF Sharing!Complete
      <4> QED BY <3>3, <3>5, <4>1 DEF PlaceOK
    <3> QED BY <3>5, <3>6 DEF ShareInv
  <2>3. CASE ~(from = "send" /\ step.give)
    <3>1. step' = Sharing!NoStep
      BY <2>1, <2>3 DEF Sharing!Giving
    <3>2. step'.at = "idle" /\ step' \in Steps
      BY <3>1 DEF Sharing!NoStep, Steps
    <3>3. Given' = Given /\ Sending' = Sending
      <4>1. ~Giving /\ ~Giving'
        BY <1>3, <2>3, <3>2 DEF Giving
      <4> QED BY <1>3, <1>7, <3>2, <4>1 DEF Given, Sending
    <3>4. /\ StateTypes' /\ info'[0] = info[0]
          /\ AllOK(info[0], port, told, connected, Sending)'
          /\ Under(info[0])' = Under(info[0])
          /\ Held(info[0], Under(info[0]))' = Held(info[0], Under(info[0]))
      BY <1>2, <2>1, <3>2, <3>3, OnlyStep
    <3>5. PlaceOK(info[0])'
      BY <1>1, <3>2, <3>3, <3>4 DEF PlaceOK
    <3> QED BY <3>4, <3>5 DEF ShareInv
  <2> QED BY <2>2, <2>3
<1> QED BY <1>8, <1>9

\* The step finishes a set, or finds that it cannot.
LEMMA StepStepFinish ==
  ASSUME ShareAssumption, ShareInv, Sharing!StepFinish, UNCHANGED doubleMode
  PROVE  ShareInv'
<1>1. Sharing!Finish("send", "put", Sharing!Giving, FALSE)
  BY Zenon DEF Sharing!StepFinish
<1> QED BY <1>1, ParentFinishes

\* The same for the second set of a step.
LEMMA StepStepFinishAgain ==
  ASSUME ShareAssumption, ShareInv, Sharing!StepFinishAgain, UNCHANGED doubleMode
  PROVE  ShareInv'
<1>1. Sharing!Finish("resend", "reput", Sharing!NoStep, step.delayed)
  BY DEF Sharing!StepFinishAgain
<1>2. step.delayed \in BOOLEAN
  BY <1>1, StepFacts DEF ShareInv, Sharing!Finish
<1> QED BY <1>1, <1>2, ParentFinishes

\* A set gets the parent's piece, or is marked as read: the callbacks and the
\* children see the same numbers of it.
LEMMA NumbersKept ==
  ASSUME NEW q, NEW f, Under(f) = Under(q), f.retry = q.retry, NEW p, NEW t, NEW con, NEW o
  PROVE  /\ NextPut(f, t, o) = NextPut(q, t, o) /\ Unput(f, t, o) = Unput(q, t, o)
         /\ (Refusal(f, t) <=> Refusal(q, t)) /\ (Pending(f, t, o) <=> Pending(q, t, o))
         /\ PendingOK(q, t, o) => PendingOK(f, t, o)
         /\ PortOK(q, p, t, con, o) => PortOK(f, p, t, con, o)
         /\ NoneLeftOut(q, p, t, o) => NoneLeftOut(f, p, t, o)
         /\ (\A e \in Child : Lacks(f, e) = Lacks(q, e))
              => (KidsOK(q, p, t, con, o) => KidsOK(f, p, t, con, o))
<1>1. Refusal(f, t) <=> Refusal(q, t)
  BY DEF Refusal
<1>2. Pending(f, t, o) <=> Pending(q, t, o)
  BY <1>1 DEF Pending
<1>3. NextPut(f, t, o) = NextPut(q, t, o) /\ Unput(f, t, o) = Unput(q, t, o)
  BY <1>2 DEF NextPut, Unput
<1>4. PendingOK(q, t, o) => PendingOK(f, t, o)
  BY <1>1 DEF PendingOK
<1>5. PortOK(q, p, t, con, o) => PortOK(f, p, t, con, o)
  BY <1>3 DEF PortOK
<1>6. NoneLeftOut(q, p, t, o) => NoneLeftOut(f, p, t, o)
  BY <1>2 DEF NoneLeftOut
<1>7. ASSUME \A e \in Child : Lacks(f, e) = Lacks(q, e), KidsOK(q, p, t, con, o)
      PROVE  KidsOK(f, p, t, con, o)
  <2> SUFFICES ASSUME NEW e \in Child
               PROVE  /\ KidOK(e) /\ ReadsOK(f, p, t, con, o, e) /\ PiecesOK(t, e)
                      /\ BalanceOK(f, p, t, con, o, e)
    BY DEF KidsOK
  <2>1. /\ KidOK(e) /\ ReadsOK(q, p, t, con, o, e) /\ PiecesOK(t, e)
        /\ BalanceOK(q, p, t, con, o, e)
    BY <1>7 DEF KidsOK
  <2>2. FirstUnread(f, p, t, o, e) = FirstUnread(q, p, t, o, e)
    BY <1>3 DEF FirstUnread
  <2>3. Owed(f, t, o, e) = Owed(q, t, o, e)
    BY <1>1 DEF Owed, One
  <2>4. Unanswered(f, p, t, o, e) = Unanswered(q, p, t, o, e)
    BY <2>3 DEF Unanswered
  <2>5. ReadsOK(f, p, t, con, o, e)
    BY <2>1, <2>2 DEF ReadsOK
  <2>6. BalanceOK(f, p, t, con, o, e)
    BY <1>7, <2>1, <2>4 DEF BalanceOK
  <2> QED BY <2>1, <2>5, <2>6
<1> QED BY <1>1, <1>2, <1>3, <1>4, <1>5, <1>6, <1>7

\* The parent's piece is the next of its sets that has none.
LEMMA OwnPiece ==
  ASSUME ShareAssumption, ShareInv, step.at \in {"give", "next"}, NEW q, q = info[0],
         NEW f, f = Sharing!ReceiveData(q, 0, Sharing!ReadNo(0))
  PROVE  /\ ReceivedInto(q, f, 0, Given + 1, HasRead) /\ Given = HasRead - 1 + Ahead
         /\ Given \in Nat /\ Sending = {} /\ Giving
<1>1. /\ StateTypes /\ PlaceOK(q) /\ q \in Rings /\ RingOK(q)
  BY DEF ShareInv, AllOK, ParentOK, ParentTypes
<1>2. Giving /\ Sending = {}
  BY <1>1, StepFacts DEF PlaceOK
<1>3. /\ Ahead \in 1..2 /\ HasRead \in Nat /\ Sharing!Station = Child \cup {0}
      /\ Sharing!Piece = 0..MaxSets + 6 /\ MaxSets \in Nat /\ Sharing!LastSet = MaxSets + Ahead
  BY <1>1, ShareNumbers
<1>4. Given = HasRead - 1 + Ahead /\ Given \in Nat
  BY <1>2, <1>3 DEF Given
<1>5. /\ Under(q) \in Nat /\ Top(q) = Under(q) + Ahead - 1 /\ Under(q) > HasRead
      /\ Under(q) <= Given + 1
  BY <1>1, RingNumbers
<1>6. 0 \in Sharing!Station /\ HasRead \in Sharing!Piece /\ HasRead = Sharing!ReadNo(0)
  <2>1. HasRead <= Sharing!LastSet
    BY <1>1 DEF RingOK
  <2> QED BY <1>3, <2>1 DEF HasRead
<1>7. Given + 1 \in Under(q)..Top(q)
  BY <1>3, <1>4, <1>5
<1>8. \A m \in Under(q)..Top(q) : 0 \in Held(q, m).aidBitmap <=> m > Given
  BY <1>1 DEF RingOK
<1>9. \/ f = q /\ \A m \in Under(q)..Top(q) : 0 \notin Held(q, m).aidBitmap
      \/ \E m \in Nat : ReceivedInto(q, f, 0, m, HasRead)
  BY <1>1, <1>6, ReceiveFacts
<1>10. PICK m \in Nat : ReceivedInto(q, f, 0, m, HasRead)
  BY <1>4, <1>7, <1>8, <1>9
<1>11. m = Given + 1
  <2>1. /\ m \in Under(q)..Top(q) /\ 0 \in Held(q, m).aidBitmap
        /\ \A n \in Under(q)..Top(q) : n < m => 0 \notin Held(q, n).aidBitmap
    BY <1>10 DEF ReceivedInto
  <2>2. m > Given /\ ~(Given + 1 < m)
    BY <1>4, <1>7, <1>8, <2>1
  <2> QED BY <1>4, <2>2
<1> QED BY <1>2, <1>4, <1>10, <1>11

\* The parent's own piece is in the set that lacks it.
LEMMA ParentGives ==
  ASSUME ShareAssumption, ShareInv, step.at \in {"give", "next"}, UNCHANGED doubleMode,
         info' = [info EXCEPT ![0] = Sharing!ReceiveData(@, 0, Sharing!ReadNo(0))],
         step' = IF doubleMode THEN Sharing!NoStep ELSE [step EXCEPT !.at = "resend"],
         UNCHANGED <<last, connected, linked, told, port, reply, changes>>
  PROVE  ShareInv'
<1> DEFINE q == info[0]
           f == Sharing!ReceiveData(q, 0, Sharing!ReadNo(0))
           g == Given + 1
<1>1. /\ StateTypes /\ PlaceOK(q) /\ AllOK(q, port, told, connected, Sending)
  BY DEF ShareInv
<1>2. /\ step.at \in {"give", "next"} /\ info' = [info EXCEPT ![0] = f]
      /\ step' = IF doubleMode THEN Sharing!NoStep ELSE [step EXCEPT !.at = "resend"]
      /\ UNCHANGED <<last, connected, linked, told, port, reply, changes>>
  OBVIOUS
<1>3. /\ ReceivedInto(q, f, 0, g, HasRead) /\ Given = HasRead - 1 + Ahead
      /\ Given \in Nat /\ Sending = {} /\ Giving
  BY <1>2, OwnPiece
<1> HIDE DEF f
<1>4. /\ q \in Rings /\ RingOK(q) /\ f \in Rings
  BY <1>1, <1>3 DEF AllOK, ParentOK, ParentTypes, ReceivedInto
<1>5. /\ Ahead \in 1..2 /\ HasRead \in Nat /\ (doubleMode <=> Ahead = 2)
      /\ Sharing!Station = Child \cup {0} /\ 0 \notin Child
  BY <1>1, ShareNumbers
<1>6. /\ Under(q) \in Nat /\ Top(q) = Under(q) + Ahead - 1 /\ Under(q) > HasRead
      /\ Under(q) <= Given + 1
  BY <1>1, <1>4, RingNumbers
<1>7. /\ Under(f) = Under(q) /\ Top(f) = Top(q)
      /\ \A n \in Nat : n # g /\ n <= Top(q) /\ n + 4 > Top(q) => Held(f, n) = Held(q, n)
      /\ \A p : KnownOK(q, p) => KnownOK(f, p)
      /\ \A p : Known(f, p) = Known(q, p)
      /\ \A p : FirstOK(q, p) => FirstOK(f, p)
      /\ \A con : LackOK(q, con) => LackOK(f, con)
      /\ \A e \in Child : Lacks(q, e) = Lacks(f, e) + IF e = 0 THEN 1 ELSE 0
  <2>1. g \in Nat /\ 0 \in Sharing!Station
    BY <1>3, <1>5
  <2>2. StateTypes /\ q \in Rings /\ RingOK(q) /\ ReceivedInto(q, f, 0, g, HasRead)
    BY <1>1, <1>3, <1>4
  <2> HIDE DEF q, g
  <2> QED
    BY <2>1, <2>2, ReceivedKeeps, SMTT(60)
<1>8. \A e \in Child : Lacks(f, e) = Lacks(q, e)
  <2> SUFFICES ASSUME NEW e \in Child PROVE Lacks(f, e) = Lacks(q, e)
    OBVIOUS
  <2>1. Lacks(q, e) = Lacks(f, e) + 0
    BY <1>5, <1>7
  <2>2. Lacks(f, e) \in Int
    BY DEF Lacks, One
  <2> QED BY <2>1, <2>2
<1>9. f.retry = q.retry /\ f.writeIndex = q.writeIndex /\ f.readIndex = q.readIndex
      /\ f.sendIndex = q.sendIndex
  BY <1>3 DEF ReceivedInto
<1>10. /\ step' \in Steps /\ step'.at \in {"idle", "resend"}
       /\ (doubleMode => step'.at = "idle")
  <2>1. CASE doubleMode
    BY <1>2, <2>1 DEF Sharing!NoStep, Steps
  <2>2. CASE ~doubleMode
    <3>1. \/ step \in [at : {"send", "give", "next", "resend"}, give : BOOLEAN, delayed : BOOLEAN]
          \/ step \in [at : {"put", "give", "next", "reput", "resend"}, give : BOOLEAN,
                       delayed : BOOLEAN, slot : Slot, dest : SUBSET Child]
      BY <1>1, <1>2 DEF StateTypes, Steps, Sharing!NoStep
    <3>2. step' = [step EXCEPT !.at = "resend"]
      BY <1>2, <2>2
    <3>3. step' \in Steps
      BY <3>1, <3>2 DEF Steps
    <3>4. step'.at = "resend"
      BY <3>1, <3>2
    <3> QED BY <2>2, <3>3, <3>4
  <2> QED BY <2>1, <2>2
<1>11. Ahead' = Ahead /\ HasRead' = HasRead /\ Sharing!LastSet' = Sharing!LastSet
  BY <1>2 DEF Ahead, Sharing!Ahead, HasRead, Sharing!ReadNo, Sharing!LastSet
<1>12. Given' = Given + 1 /\ Sending' = {}
  BY <1>3, <1>5, <1>10, <1>11 DEF Given, Giving, Sending
<1>13. /\ info'[0] = f /\ \A e \in Child : info'[e] = info[e]
       /\ info' \in [Sharing!Station -> Rings]
  BY <1>1, <1>2, <1>4, <1>5 DEF StateTypes
<1>14. StateTypes'
  <2>1. Sharing!Piece' = Sharing!Piece /\ Sharing!Station' = Sharing!Station
    BY DEF Sharing!Piece, Sharing!Station
  <2> QED BY <1>1, <1>2, <1>10, <1>13, <2>1 DEF StateTypes
<1>15. Under(info[0])' = Under(q) /\ Top(info[0])' = Top(q)
  BY <1>7, <1>11, <1>13 DEF Under, Top
<1>16. /\ Held(f, g).no = Held(q, g).no /\ Held(f, g).data[0] = HasRead
       /\ Held(f, g).aidBitmap = Held(q, g).aidBitmap \ {0}
       /\ \A r \in Child : Held(f, g).data[r] = Held(q, g).data[r]
       /\ \A k \in Slot : k # SlotOf(g) => f.ds[k] = q.ds[k]
       /\ g \in Under(q)..Top(q)
  BY <1>3, <1>5 DEF ReceivedInto
<1> HIDE DEF q
<1>17. RingOK(info[0])'
  <2>1. \A k \in Slot : k = SlotOf(f.ds[k].no)
    <3> SUFFICES ASSUME NEW k \in Slot PROVE k = SlotOf(f.ds[k].no)
      OBVIOUS
    <3>1. k = SlotOf(q.ds[k].no)
      BY <1>4 DEF RingOK
    <3>2. f.ds[k].no = q.ds[k].no
      BY <1>16 DEF Held
    <3> QED BY <3>1, <3>2
  <2>2. \A m \in 1..Top(q) : m + 4 > Top(q) => Held(f, m).no = m
    BY <1>4, <1>6, <1>7, <1>16 DEF RingOK
  <2>3. \A m \in Under(q)..Top(q) :
          /\ 0 \in Held(f, m).aidBitmap <=> m > Given + 1
          /\ 0 \notin Held(f, m).aidBitmap => Held(f, m).data[0] = m - Ahead
    <3> SUFFICES ASSUME NEW m \in Under(q)..Top(q)
                 PROVE  /\ 0 \in Held(f, m).aidBitmap <=> m > Given + 1
                        /\ 0 \notin Held(f, m).aidBitmap => Held(f, m).data[0] = m - Ahead
      OBVIOUS
    <3>1. /\ 0 \in Held(q, m).aidBitmap <=> m > Given
          /\ 0 \notin Held(q, m).aidBitmap => Held(q, m).data[0] = m - Ahead
      BY <1>4 DEF RingOK
    <3>2. CASE m = g
      <4>1. 0 \notin Held(f, m).aidBitmap /\ Held(f, m).data[0] = HasRead
        BY <1>16, <3>2
      <4>2. HasRead = m - Ahead /\ ~(m > Given + 1)
        BY <1>3, <1>5, <3>2
      <4> QED BY <4>1, <4>2
    <3>3. CASE m # g
      <4>1. m \in Nat /\ m <= Top(q) /\ m + 4 > Top(q)
        BY <1>5, <1>6
      <4>2. Held(f, m) = Held(q, m)
        BY <1>7, <3>3, <4>1
      <4>3. m > Given <=> m > Given + 1
        BY <1>3, <1>6, <3>3, <4>1
      <4> QED BY <3>1, <4>2, <4>3
    <3> QED BY <3>2, <3>3
  <2>4. \A m \in Ahead+1..Under(q)-1 : m + 4 > Top(q) => Child \subseteq Held(f, m).aidBitmap
    <3> SUFFICES ASSUME NEW m \in Ahead+1..Under(q)-1, m + 4 > Top(q)
                 PROVE  Child \subseteq Held(f, m).aidBitmap
      OBVIOUS
    <3>1. Child \subseteq Held(q, m).aidBitmap
      BY <1>4 DEF RingOK
    <3>2. m \in Nat /\ m # g /\ m <= Top(q)
      BY <1>3, <1>5, <1>6
    <3> QED BY <1>7, <3>1, <3>2
  <2>5. /\ Under(q) > Ahead /\ Under(q) <= Given + 2 /\ Under(q) > HasRead
        /\ HasRead <= Sharing!LastSet
        /\ f.writeIndex = SlotOf(Under(q)) /\ f.readIndex = SlotOf(HasRead + 1)
    BY <1>3, <1>4, <1>6, <1>9 DEF RingOK
  <2>6. Given + 2 = Given' + 1 /\ (\A m \in Nat : m > Given + 1 <=> m > Given')
    BY <1>3, <1>12
  <2>7. Under(q)..Top(q) \subseteq Nat
    BY <1>6
  <2>8. \A m \in Under(q)..Top(q) :
          /\ 0 \in Held(f, m).aidBitmap <=> m > Given'
          /\ 0 \notin Held(f, m).aidBitmap => Held(f, m).data[0] = m - Ahead
    BY <2>3, <2>6, <2>7
  <2> QED BY <1>11, <1>13, <1>15, <2>1, <2>2, <2>4, <2>5, <2>6, <2>8 DEF RingOK, Held
<1>18. PlaceOK(info[0])'
  <2> SUFFICES ASSUME doubleMode, Under(q) < Given'
               PROVE  Held(info[0], Under(info[0]))'.aidBitmap # {}
    BY <1>2, <1>10, <1>15 DEF PlaceOK
  <2>1. Under(q) # g /\ Under(q) <= Top(q) /\ Under(q) + 4 > Top(q)
    BY <1>3, <1>5, <1>6, <1>12
  <2>2. Held(f, Under(q)) = Held(q, Under(q))
    BY <1>6, <1>7, <2>1
  <2>3. Held(q, Under(q)).aidBitmap # {}
    BY <1>1, <1>2 DEF PlaceOK, q
  <2> QED BY <1>13, <1>15, <2>2, <2>3 DEF Held
<1>19. AllOK(info[0], port, told, connected, Sending)'
  <2>1. /\ KidsOK(q, port, told, connected, {}) /\ LackOK(q, connected)
        /\ PendingOK(q, told, {}) /\ PortOK(q, port, told, connected, {})
        /\ ToldOK(told, connected, {}) /\ FirstOK(q, port) /\ NoneLeftOut(q, port, told, {})
        /\ CollectOK(q) /\ KnownOK(q, port) /\ SentOK(q, port, told, {})
        /\ ParentTypes(q, port, told, connected)
    BY <1>1, <1>3 DEF AllOK, ParentOK, q
  <2>2. /\ LackOK(f, connected) /\ FirstOK(f, port) /\ KnownOK(f, port)
    BY <1>7, <2>1
  <2>3. /\ PendingOK(f, told, {}) /\ PortOK(f, port, told, connected, {})
        /\ NoneLeftOut(f, port, told, {}) /\ KidsOK(f, port, told, connected, {})
    BY <1>7, <1>8, <1>9, <2>1, NumbersKept
  <2>4. CollectOK(f)
    <3> SUFFICES ASSUME changes = 0, NEW m \in Under(q)..Top(q), NEW e \in Child
                 PROVE  Held(f, m).data[e]
                          = IF e \in Held(f, m).aidBitmap THEN 0 ELSE PieceOf(e, m)
      BY <1>7 DEF CollectOK
    <3>1. Held(q, m).data[e] = IF e \in Held(q, m).aidBitmap THEN 0 ELSE PieceOf(e, m)
      BY <2>1 DEF CollectOK
    <3>2. m \in Nat /\ m <= Top(q) /\ m + 4 > Top(q)
      BY <1>5, <1>6
    <3>3. Held(f, m).data[e] = Held(q, m).data[e]
          /\ (e \in Held(f, m).aidBitmap <=> e \in Held(q, m).aidBitmap)
      BY <1>5, <1>7, <1>16, <3>2
    <3> QED BY <3>1, <3>3
  <2>5. ParentTypes(f, port, told, connected)
    BY <1>4, <2>1 DEF ParentTypes
  <2>6. \A e \in Child : Idle(e)
    BY <1>2, <1>13 DEF Idle
  <2>7. SentOK(info[0], port, told, Sending)'
    <3>1. SentOK(f, port, told, {})
      <4>1. Unput(f, told, {}) = Unput(q, told, {})
        BY <1>7, <1>9, NumbersKept
      <4> QED BY <1>7, <1>9, <2>1, <4>1 DEF SentOK, Out
    <3> QED BY <1>2, <1>11, <1>12, <1>13, <3>1, ParentCarried
  <2>8. KnownOK(info[0], port)'
    <3>1. Known(info[0], port)' = Known(f, port)
      BY <1>2, <1>13, <1>15, <1>7, <2>6 DEF Known, Idle
    <3>2. \A d : IsRight(d) => IsRight(d)'
      BY <1>2, <1>12, <1>13, TellCarried
    <3> QED BY <1>7, <1>15, <2>2, <3>1, <3>2 DEF KnownOK, Agree
  <2>9. linked \subseteq Child
    BY <1>1 DEF StateTypes
  <2> QED BY <1>2, <1>12, <1>13, <1>17, <2>1, <2>2, <2>3, <2>4, <2>5, <2>6, <2>7, <2>8, <2>9,
             MostCarried
<1> QED BY <1>14, <1>18, <1>19 DEF ShareInv

\* The step gives the parent's own piece, or finds that it is in the set under way.
LEMMA StepStepGive ==
  ASSUME ShareAssumption, ShareInv, Sharing!StepGive, UNCHANGED doubleMode
  PROVE  ShareInv'
<1>1. /\ step.at = "give"
      /\ UNCHANGED <<last, connected, linked, told, port, reply, changes, doubleMode>>
  BY DEF Sharing!StepGive
<1>2. CASE doubleMode /\ ~Sharing!Lacks(info[0], info[0].writeIndex, 0)
  <2>1. step' = [step EXCEPT !.at = "next"] /\ UNCHANGED info
    BY <1>2 DEF Sharing!StepGive
  <2>2. StateTypes /\ PlaceOK(info[0])
    BY DEF ShareInv
  <2>3. \/ step \in [at : {"send", "give", "next", "resend"}, give : BOOLEAN, delayed : BOOLEAN]
        \/ step \in [at : {"put", "give", "next", "reput", "resend"}, give : BOOLEAN,
                     delayed : BOOLEAN, slot : Slot, dest : SUBSET Child]
    BY <1>1, <2>2 DEF StateTypes, Steps, Sharing!NoStep
  <2>4. step' \in Steps
    BY <2>1, <2>3 DEF Steps
  <2>5. step'.at = "next" /\ step'.give = step.give
    BY <2>1, <2>3
  <2>6. Given' = Given /\ Sending' = Sending
    <3>1. Giving' <=> Giving
      BY <1>1, <2>5 DEF Giving
    <3>2. Ahead' = Ahead /\ HasRead' = HasRead
      BY <1>1 DEF Ahead, Sharing!Ahead, HasRead, Sharing!ReadNo
    <3> QED BY <1>1, <2>5, <3>1, <3>2 DEF Given, Sending
  <2>7. /\ StateTypes' /\ info'[0] = info[0]
        /\ AllOK(info[0], port, told, connected, Sending)'
        /\ Under(info[0])' = Under(info[0])
        /\ Held(info[0], Under(info[0]))' = Held(info[0], Under(info[0]))
    BY <1>1, <2>1, <2>4, <2>6, OnlyStep
  <2>8. PlaceOK(info[0])'
    BY <1>1, <1>2, <2>2, <2>5, <2>7 DEF PlaceOK
  <2> QED BY <2>7, <2>8 DEF ShareInv
<1>3. CASE ~(doubleMode /\ ~Sharing!Lacks(info[0], info[0].writeIndex, 0))
  BY <1>1, <1>3, ParentGives DEF Sharing!StepGive
<1> QED BY <1>2, <1>3

\* It is given to the next set, if that one is still the next.
LEMMA StepStepGiveNext ==
  ASSUME ShareAssumption, ShareInv, Sharing!StepGiveNext, UNCHANGED doubleMode, ~strayed'
  PROVE  ShareInv'
<1>1. /\ step.at = "next" /\ step' = Sharing!NoStep
      /\ info' = [info EXCEPT ![0] = Sharing!PutIn(@, Sharing!Next4(@.writeIndex), 0,
                                                    Sharing!ReadNo(0))]
      /\ ~Sharing!Lacks(info[0], info[0].writeIndex, 0)
      /\ UNCHANGED <<last, connected, linked, told, port, reply, changes>>
  BY DEF Sharing!StepGiveNext
<1>2. doubleMode
  BY <1>1 DEF ShareInv, PlaceOK
<1>3. info' = [info EXCEPT ![0] = Sharing!ReceiveData(@, 0, Sharing!ReadNo(0))]
  BY <1>1, <1>2 DEF Sharing!ReceiveData
<1> QED BY <1>1, <1>2, <1>3, ParentGives

\* The set that is read next is the one after the last, and has been sent.
LEMMA ReadFacts ==
  ASSUME ShareAssumption, StateTypes, NEW q \in Rings, RingOK(q),
         NEW p, NEW t, NEW con, NEW o, ParentTypes(q, p, t, con), SentOK(q, p, t, o),
         q.readIndex # q.sendIndex,
         NEW d, NEW f, ReadAs(q, f, d)
  PROVE  /\ ReadInto(q, f, d) /\ HasRead + 1 < Under(q) - Out(q, p, t, o)
         /\ HasRead + 1 < Under(q) /\ HasRead + 5 > Top(q)
<1>1. /\ Ahead \in 1..2 /\ HasRead \in Nat /\ Given \in HasRead - 1 + Ahead..HasRead + Ahead
      /\ Sharing!Station = Child \cup {0}
  BY ShareNumbers
<1>2. /\ Under(q) \in Nat /\ Top(q) = Under(q) + Ahead - 1 /\ Under(q) <= Given + 1
      /\ \A m \in Nat : Held(q, m) \in Sharing!DataSet
      /\ \A m \in 1..Top(q) : m + 4 > Top(q) => Held(q, m).no = m
  BY RingNumbers
<1>3. Out(q, p, t, o) \in Nat
  <2>1. Later(t, 1, Reports) \in Nat
    BY NoticeCounts DEF ParentTypes
  <2>2. Len(p) \in Nat /\ Unput(q, t, o) \in Nat
    BY DEF ParentTypes, Unput
  <2> QED BY <2>1, <2>2 DEF Out
<1>4. /\ q.sendIndex = SlotOf(Under(q) - Out(q, p, t, o))
      /\ HasRead < Under(q) - Out(q, p, t, o)
  BY DEF SentOK
<1>5. q.readIndex = SlotOf(HasRead + 1)
  BY DEF RingOK
<1>6. HasRead + 1 # Under(q) - Out(q, p, t, o)
  BY <1>4, <1>5
<1>7. /\ HasRead + 1 < Under(q) - Out(q, p, t, o) /\ HasRead + 1 < Under(q)
      /\ HasRead + 5 > Top(q)
  <2>1. \A k, l \in Nat : HasRead < l - k /\ HasRead + 1 # l - k
          => HasRead + 1 < l - k /\ HasRead + 1 < l
    BY <1>1
  <2>2. HasRead + 1 < Under(q) - Out(q, p, t, o) /\ HasRead + 1 < Under(q)
    BY <1>2, <1>3, <1>4, <1>6, <2>1
  <2> QED BY <1>1, <1>2, <2>2
<1>8. HasRead + 1 \in 1..Top(q) /\ HasRead + 1 + 4 > Top(q) /\ HasRead + 1 \in Nat
  BY <1>1, <1>2, <1>7
<1>9. Held(q, HasRead + 1).no = HasRead + 1 /\ Held(q, HasRead + 1) \in Sharing!DataSet
  BY <1>2, <1>8
<1>10. Held(q, HasRead + 1) = q.ds[q.readIndex]
  BY <1>5 DEF Held
<1>11. /\ SlotOf(HasRead + 1) \in Slot /\ SlotOf(HasRead + 2) \in Slot
       /\ Sharing!Next4(SlotOf(HasRead + 1)) = SlotOf(HasRead + 2)
  <2>1. HasRead + 2 \in Nat /\ HasRead + 1 + 1 = HasRead + 2
    BY <1>1
  <2> QED BY <1>8, <2>1, SlotFacts
<1>12. d = [Held(q, HasRead + 1) EXCEPT !.aidBitmap = @ \cup {0}]
  BY <1>10 DEF ReadAs
<1>13. /\ d \in Sharing!DataSet /\ d.no = HasRead + 1 /\ d.data = Held(q, HasRead + 1).data
       /\ d.aidBitmap = Held(q, HasRead + 1).aidBitmap \cup {0}
  BY <1>1, <1>9, <1>12 DEF Sharing!DataSet
<1>14. f = [q EXCEPT !.ds[q.readIndex] = d, !.readIndex = Sharing!Next4(@)]
  BY DEF ReadAs
<1>15. /\ f.writeIndex = q.writeIndex /\ f.sendIndex = q.sendIndex /\ f.retry = q.retry
       /\ f.ds = [q.ds EXCEPT ![q.readIndex] = d]
       /\ f.readIndex = Sharing!Next4(q.readIndex)
       /\ DOMAIN f = DOMAIN q
  BY <1>14 DEF Rings
<1>16. f \in Rings
  <2>1. f.ds \in [Slot -> Sharing!DataSet]
    BY <1>5, <1>11, <1>13, <1>15 DEF Rings
  <2>2. f = [q EXCEPT !.ds = [q.ds EXCEPT ![q.readIndex] = d],
                      !.readIndex = Sharing!Next4(q.readIndex)]
    BY <1>14
  <2>3. Sharing!Next4(q.readIndex) \in Slot
    BY <1>5, <1>11
  <2> QED BY <1>15, <2>1, <2>2, <2>3 DEF Rings
<1>17. Held(f, HasRead + 1) = d /\ \A k \in Slot : k # SlotOf(HasRead + 1) => f.ds[k] = q.ds[k]
  BY <1>5, <1>11, <1>15 DEF Held, Rings
<1> QED BY <1>5, <1>7, <1>9, <1>11, <1>13, <1>15, <1>16, <1>17 DEF ReadInto

\* Nothing else changes in the ring, and who sees it sees the same sets.
LEMMA ReadKeeps ==
  ASSUME ShareAssumption, StateTypes, NEW q \in Rings, RingOK(q), NEW f, NEW d,
         ReadInto(q, f, d), HasRead + 1 < Under(q), HasRead + 5 > Top(q)
  PROVE  /\ Under(f) = Under(q) /\ Top(f) = Top(q) /\ Ahead \in 1..2
         /\ \A m \in Under(q)..Top(q) : Held(f, m) = Held(q, m)
         /\ \A k \in Slot : /\ f.ds[k].no = q.ds[k].no /\ f.ds[k].data = q.ds[k].data
                            /\ q.ds[k].aidBitmap \subseteq f.ds[k].aidBitmap
         /\ \A con : LackOK(q, con) => LackOK(f, con)
         /\ CollectOK(q) => CollectOK(f)
         /\ \A p : FirstOK(q, p) => FirstOK(f, p)
         /\ \A e \in Child : Lacks(f, e) = Lacks(q, e)
<1>1. /\ Ahead \in 1..2 /\ HasRead \in Nat /\ (doubleMode <=> Ahead = 2)
  BY ShareNumbers
<1>2. /\ Under(q) \in Nat /\ Top(q) = Under(q) + Ahead - 1
      /\ \A m \in 1..Top(q) : m + 4 > Top(q) => Held(q, m).no = m
  BY RingNumbers
<1>3. q.writeIndex = SlotOf(Under(q))
  BY DEF RingOK
<1>4. \A m \in Under(q)..Top(q) : SlotOf(m) \in Slot /\ SlotOf(m) # SlotOf(HasRead + 1)
  <2> SUFFICES ASSUME NEW m \in Under(q)..Top(q)
               PROVE  SlotOf(m) \in Slot /\ SlotOf(m) # SlotOf(HasRead + 1)
    OBVIOUS
  <2>1. m \in Nat /\ HasRead + 1 \in Nat /\ HasRead + 1 < m /\ m < HasRead + 1 + 4
    BY <1>1, <1>2
  <2> QED BY <2>1, SlotFacts
<1>5. \A m \in Under(q)..Top(q) : Held(f, m) = Held(q, m)
  BY <1>4 DEF ReadInto, Held
<1>6. Under(q) \in Under(q)..Top(q)
  BY <1>1, <1>2
<1>7. Under(f) = Under(q)
  BY <1>3, <1>5, <1>6 DEF ReadInto, Under, Held
<1>8. Top(f) = Top(q)
  BY <1>7 DEF Top
<1>9. \A k \in Slot : /\ f.ds[k].no = q.ds[k].no /\ f.ds[k].data = q.ds[k].data
                      /\ q.ds[k].aidBitmap \subseteq f.ds[k].aidBitmap
  <2> SUFFICES ASSUME NEW k \in Slot
               PROVE  /\ f.ds[k].no = q.ds[k].no /\ f.ds[k].data = q.ds[k].data
                      /\ q.ds[k].aidBitmap \subseteq f.ds[k].aidBitmap
    OBVIOUS
  <2>1. CASE k = SlotOf(HasRead + 1)
    BY <2>1 DEF ReadInto, Held
  <2>2. CASE k # SlotOf(HasRead + 1)
    BY <2>2 DEF ReadInto
  <2> QED BY <2>1, <2>2
<1>10. ASSUME NEW con, LackOK(q, con) PROVE LackOK(f, con)
  <2> SUFFICES ASSUME NEW m \in Under(q)..Top(q)
               PROVE  /\ Held(f, m).aidBitmap \subseteq con \cup {0}
                      /\ m < Top(q) => Held(f, m).aidBitmap
                                         \subseteq Held(f, m + 1).aidBitmap \cup {0}
    BY <1>7, <1>8 DEF LackOK
  <2>1. m < Top(q) => m + 1 \in Under(q)..Top(q)
    BY <1>1, <1>2
  <2> QED BY <1>5, <1>10, <2>1 DEF LackOK
<1>11. CollectOK(q) => CollectOK(f)
  BY <1>5, <1>7, <1>8 DEF CollectOK
<1>12. ASSUME NEW p, FirstOK(q, p) PROVE FirstOK(f, p)
  <2> SUFFICES ASSUME ~doubleMode, Under(q) = 2
               PROVE  /\ Held(f, 2).aidBitmap \subseteq Held(f, 1).aidBitmap \cup {0}
                      /\ \A k \in DOMAIN p :
                           Held(f, 2).aidBitmap \subseteq p[k].set.aidBitmap \cup {0}
    BY <1>7 DEF FirstOK
  <2>1. Held(f, 2) = Held(q, 2)
    BY <1>5, <1>6
  <2>2. Held(q, 1).aidBitmap \subseteq Held(f, 1).aidBitmap
    <3>1. SlotOf(1) \in Slot
      BY SlotFacts
    <3> QED BY <1>9, <3>1 DEF Held
  <2> QED BY <1>12, <2>1, <2>2 DEF FirstOK
<1>13. \A e \in Child : Lacks(f, e) = Lacks(q, e)
  <2>1. Held(f, Under(q)) = Held(q, Under(q))
    BY <1>5, <1>6
  <2>2. doubleMode => Held(f, Under(q) + 1) = Held(q, Under(q) + 1)
    <3>1. doubleMode => Under(q) + 1 \in Under(q)..Top(q)
      BY <1>1, <1>2
    <3> QED BY <1>5, <3>1
  <2>3. \A e \in Child : doubleMode /\ e \in Held(f, Under(q) + 1).aidBitmap
                           <=> doubleMode /\ e \in Held(q, Under(q) + 1).aidBitmap
    BY <2>2
  <2> QED BY <1>7, <2>1, <2>3 DEF Lacks, One
<1> QED BY <1>1, <1>5, <1>7, <1>8, <1>9, <1>10, <1>11, <1>12, <1>13

\* The step reads the next set.
LEMMA StepStepRead ==
  ASSUME ShareAssumption, ShareInv, Sharing!StepRead, UNCHANGED doubleMode
  PROVE  ShareInv'
<1> DEFINE q == info[0]
           d == [q.ds[q.readIndex] EXCEPT !.aidBitmap = @ \cup {0}]
           f == [q EXCEPT !.ds[q.readIndex] = d, !.readIndex = Sharing!Next4(@)]
           aids == IF step = Sharing!NoStep THEN connected ELSE step.aids
           late == ~doubleMode /\ aids # {} /\ q.ds[q.writeIndex].aidBitmap = {0}
<1>1. /\ StateTypes /\ PlaceOK(q) /\ AllOK(q, port, told, connected, Sending)
  BY DEF ShareInv
<1>2. /\ step.at = "read" \/ step = Sharing!NoStep
      /\ UNCHANGED <<connected, linked, told, port, reply, changes>>
      /\ IF q.readIndex = q.sendIndex
         THEN /\ step' = [at |-> "send", give |-> FALSE, delayed |-> FALSE]
              /\ UNCHANGED <<info, last>>
         ELSE /\ Sharing!ReadNo(0) < Sharing!LastSet
              /\ info' = [info EXCEPT ![0].ds[q.readIndex] = d,
                                      ![0].readIndex = Sharing!Next4(@)]
              /\ last' = [last EXCEPT ![0] = d]
              /\ step' = [at |-> "send", give |-> TRUE, delayed |-> late]
  BY DEF Sharing!StepRead
<1>3. Sending = {} /\ ~Giving /\ step.at \notin {"put", "reput", "give"}
  BY <1>1, <1>2, StepFacts
<1>4. Ahead' = Ahead /\ Sharing!LastSet' = Sharing!LastSet
  BY <1>2 DEF Ahead, Sharing!Ahead, Sharing!LastSet
<1>5. CASE q.readIndex = q.sendIndex
  <2>1. step' = [at |-> "send", give |-> FALSE, delayed |-> FALSE] /\ UNCHANGED <<info, last>>
    BY <1>2, <1>5
  <2>2. step' \in Steps /\ Sending' = Sending
    BY <1>3, <2>1 DEF Steps, Sending
  <2>3. Given' = Given
    <3>1. ~Giving'
      BY <2>1 DEF Giving
    <3>2. HasRead' = HasRead
      BY <2>1 DEF HasRead, Sharing!ReadNo
    <3> QED BY <1>3, <1>4, <3>1, <3>2 DEF Given
  <2>4. /\ StateTypes' /\ info'[0] = info[0]
        /\ AllOK(info[0], port, told, connected, Sending)'
        /\ Under(info[0])' = Under(info[0])
        /\ Held(info[0], Under(info[0]))' = Held(info[0], Under(info[0]))
    BY <1>2, <2>1, <2>2, <2>3, OnlyStep
  <2>5. PlaceOK(info[0])'
    BY <1>1, <2>1, <2>3, <2>4 DEF PlaceOK
  <2> QED BY <2>4, <2>5 DEF ShareInv
<1>6. CASE q.readIndex # q.sendIndex
  <2>1. /\ Sharing!ReadNo(0) < Sharing!LastSet
        /\ last' = [last EXCEPT ![0] = d]
        /\ step' = [at |-> "send", give |-> TRUE, delayed |-> late]
        /\ info' = [info EXCEPT ![0].ds[q.readIndex] = d, ![0].readIndex = Sharing!Next4(@)]
    BY <1>2, <1>6
  <2>2. late \in BOOLEAN
    OBVIOUS
  <2> HIDE DEF late
  <2>3. /\ q \in Rings /\ RingOK(q) /\ ParentTypes(q, port, told, connected)
        /\ SentOK(q, port, told, Sending)
    BY <1>1 DEF AllOK, ParentOK, ParentTypes
  <2>4. /\ ReadInto(q, f, d) /\ HasRead + 1 < Under(q) - Out(q, port, told, Sending)
        /\ HasRead + 1 < Under(q) /\ HasRead + 5 > Top(q)
    <3>1. ReadAs(q, f, d)
      BY DEF ReadAs
    <3> HIDE DEF f, d, q
    <3> QED BY <1>1, <1>6, <2>3, <3>1, ReadFacts
  <2>5. info' = [info EXCEPT ![0] = f]
    BY <1>1, <2>1 DEF StateTypes
  <2> HIDE DEF f, d
  <2>6. /\ Sharing!Station = Child \cup {0} /\ 0 \notin Child /\ HasRead \in Nat
        /\ Given \in HasRead - 1 + Ahead..HasRead + Ahead /\ Ahead \in 1..2
    BY <1>1, ShareNumbers
  <2>7. /\ d \in Sharing!DataSet /\ d.no = HasRead + 1 /\ d # NULL /\ f \in Rings
    BY <2>4 DEF ReadInto, ShareAssumption
  <2>8. /\ info'[0] = f /\ \A e \in Child : info'[e] = info[e]
        /\ info' \in [Sharing!Station -> Rings]
    BY <1>1, <2>5, <2>6, <2>7 DEF StateTypes
  <2>9. /\ last'[0] = d /\ \A e \in Child : last'[e] = last[e]
        /\ last' \in [Sharing!Station -> Sharing!DataSet \cup {NULL}]
    BY <1>1, <2>1, <2>6, <2>7 DEF StateTypes
  <2>10. StateTypes'
    <3>1. /\ Sharing!Piece' = Sharing!Piece /\ Sharing!Station' = Sharing!Station
          /\ Sharing!DataSet' = Sharing!DataSet
      BY DEF Sharing!Piece, Sharing!Station, Sharing!DataSet
    <3>2. step' \in Steps
      BY <2>1, <2>2 DEF Steps
    <3> QED BY <1>1, <1>2, <2>8, <2>9, <3>1, <3>2 DEF StateTypes
  <2>11. HasRead' = HasRead + 1
    BY <2>7, <2>9 DEF HasRead, Sharing!ReadNo
  <2>12. Given' = Given /\ Sending' = {}
    <3>1. Giving'
      BY <2>1 DEF Giving
    <3>2. Given = HasRead + Ahead /\ Given' = HasRead' - 1 + Ahead'
      BY <1>3, <3>1 DEF Given
    <3> QED BY <1>4, <2>1, <2>6, <2>11, <3>2 DEF Sending
  <2>13. /\ Under(f) = Under(q) /\ Top(f) = Top(q)
         /\ \A m \in Under(q)..Top(q) : Held(f, m) = Held(q, m)
         /\ \A k \in Slot : /\ f.ds[k].no = q.ds[k].no /\ f.ds[k].data = q.ds[k].data
                            /\ q.ds[k].aidBitmap \subseteq f.ds[k].aidBitmap
         /\ \A con : LackOK(q, con) => LackOK(f, con)
         /\ CollectOK(q) => CollectOK(f)
         /\ \A p : FirstOK(q, p) => FirstOK(f, p)
         /\ \A e \in Child : Lacks(f, e) = Lacks(q, e)
    BY <1>1, <2>3, <2>4, ReadKeeps
  <2>14. Under(info[0])' = Under(q) /\ Top(info[0])' = Top(q)
    BY <1>4, <2>8, <2>13 DEF Under, Top
  <2>15. /\ Under(q) \in Nat /\ Top(q) \in Nat /\ Top(q) = Under(q) + Ahead - 1
    BY <1>1, <2>3, RingNumbers
  <2>16. /\ f.retry = q.retry /\ f.writeIndex = q.writeIndex /\ f.sendIndex = q.sendIndex
         /\ f.readIndex = SlotOf(HasRead + 2)
    BY <2>4 DEF ReadInto
  <2> HIDE DEF q
  <2>17. RingOK(info[0])'
    <3>1. \A k \in Slot : k = SlotOf(f.ds[k].no)
      BY <2>3, <2>13 DEF RingOK
    <3>2. \A m \in 1..Top(q) : SlotOf(m) \in Slot
      BY <2>15, SlotFacts
    <3>3. \A m \in 1..Top(q) : m + 4 > Top(q) => Held(f, m).no = m
      <4>1. \A m \in 1..Top(q) : m + 4 > Top(q) => Held(q, m).no = m
        BY <2>3 DEF RingOK
      <4>2. \A m \in 1..Top(q) : Held(f, m).no = Held(q, m).no
        BY <2>13, <3>2 DEF Held
      <4> QED BY <4>1, <4>2
    <3>4. \A m \in Under(q)..Top(q) :
            /\ 0 \in Held(f, m).aidBitmap <=> m > Given
            /\ 0 \notin Held(f, m).aidBitmap => Held(f, m).data[0] = m - Ahead
      BY <2>3, <2>13 DEF RingOK
    <3>5. \A m \in Ahead+1..Under(q)-1 : m + 4 > Top(q) => Child \subseteq Held(f, m).aidBitmap
      <4>1. \A m \in Ahead+1..Under(q)-1 : m + 4 > Top(q)
              => Child \subseteq Held(q, m).aidBitmap
        BY <2>3 DEF RingOK
      <4>2. \A m \in Ahead+1..Under(q)-1 : m \in 1..Top(q)
        BY <2>6, <2>15
      <4>3. \A m \in Ahead+1..Under(q)-1 : Held(q, m).aidBitmap \subseteq Held(f, m).aidBitmap
        BY <2>13, <3>2, <4>2 DEF Held
      <4> QED BY <4>1, <4>3
    <3>6. /\ Under(q) > Ahead /\ Under(q) <= Given + 1 /\ q.writeIndex = SlotOf(Under(q))
          /\ HasRead <= Sharing!LastSet
      BY <2>3 DEF RingOK
    <3>7. HasRead + 1 <= Sharing!LastSet
      <4>1. HasRead < Sharing!LastSet
        BY <2>1 DEF HasRead
      <4>2. Sharing!LastSet \in Int
        BY <1>1, <2>6, ShareNumbers
      <4> QED BY <2>6, <4>1, <4>2
    <3>8. HasRead + 1 + 1 = HasRead + 2
      BY <2>6
    <3> QED BY <1>4, <2>4, <2>8, <2>11, <2>12, <2>14, <2>16, <3>1, <3>3, <3>4, <3>5, <3>6,
               <3>7, <3>8 DEF RingOK, Held
  <2>18. PlaceOK(info[0])'
    <3>1. Under(q) \in Under(q)..Top(q)
      BY <2>6, <2>15
    <3>2. Held(f, Under(q)) = Held(q, Under(q))
      BY <2>13, <3>1
    <3>3. Held(info[0], Under(info[0]))' = Held(q, Under(q))
      BY <2>8, <2>14, <3>2 DEF Held
    <3> QED BY <1>1, <2>1, <2>12, <2>14, <3>3 DEF PlaceOK, q
  <2>19. AllOK(info[0], port, told, connected, Sending)'
    <3>1. /\ KidsOK(q, port, told, connected, {}) /\ LackOK(q, connected)
          /\ PendingOK(q, told, {}) /\ PortOK(q, port, told, connected, {})
          /\ ToldOK(told, connected, {}) /\ FirstOK(q, port) /\ NoneLeftOut(q, port, told, {})
          /\ CollectOK(q) /\ KnownOK(q, port) /\ SentOK(q, port, told, {})
          /\ ParentTypes(q, port, told, connected)
      BY <1>1, <1>3 DEF AllOK, ParentOK, q
    <3>2. LackOK(f, connected) /\ FirstOK(f, port) /\ CollectOK(f)
      BY <2>13, <3>1
    <3>3. /\ PendingOK(f, told, {}) /\ PortOK(f, port, told, connected, {})
          /\ NoneLeftOut(f, port, told, {}) /\ KidsOK(f, port, told, connected, {})
          /\ Unput(f, told, {}) = Unput(q, told, {})
      BY <2>13, <2>16, <3>1, NumbersKept
    <3>4. ParentTypes(f, port, told, connected)
      BY <2>7, <3>1 DEF ParentTypes
    <3>5. \A e \in Child : Idle(e)
      BY <1>2, <2>8, <2>9 DEF Idle
    <3>6. SentOK(info[0], port, told, Sending)'
      <4>1. Out(f, port, told, {}) = Out(q, port, told, {})
        BY <3>3 DEF Out
      <4>2. Out(info[0], port, told, Sending)' = Out(f, port, told, {})
        <5>1. Unput(info[0], told, Sending)' = Unput(f, told, {})
          BY <1>2, <2>8, <2>12 DEF Unput, Pending, Refusal
        <5> QED BY <1>2, <5>1 DEF Out, Later, Hits
      <4>3. f.sendIndex = SlotOf(Under(q) - Out(q, port, told, {}))
        BY <2>16, <3>1 DEF SentOK
      <4>4. HasRead + 1 < Under(q) - Out(q, port, told, {})
        BY <1>3, <2>4
      <4> QED BY <2>8, <2>11, <2>14, <4>1, <4>2, <4>3, <4>4 DEF SentOK
    <3>7. KnownOK(info[0], port)'
      <4>1. \A x \in Known(info[0], port)' :
              \E y \in Known(q, port) : x.no = y.no /\ x.data = y.data
        <5> SUFFICES ASSUME NEW x \in Known(info[0], port)'
                     PROVE  \E y \in Known(q, port) : x.no = y.no /\ x.data = y.data
          OBVIOUS
        <5>1. CASE \E k \in Slot : x = f.ds[k] /\ f.ds[k].no < Under(q)
          <6>1. PICK k \in Slot : x = f.ds[k] /\ f.ds[k].no < Under(q)
            BY <5>1
          <6>2. q.ds[k].no < Under(q) /\ q.ds[k].no = x.no /\ q.ds[k].data = x.data
            BY <2>13, <6>1
          <6>3. q.ds[k] \in Known(q, port)
            BY <6>2 DEF Known
          <6> QED BY <6>2, <6>3
        <5>2. CASE x = d
          <6>1. SlotOf(HasRead + 1) \in Slot
            BY <2>6, SlotFacts
          <6>2. /\ d.data = q.ds[SlotOf(HasRead + 1)].data
                /\ d.no = q.ds[SlotOf(HasRead + 1)].no
            BY <2>4 DEF ReadInto, Held
          <6>3. q.ds[SlotOf(HasRead + 1)] \in Known(q, port)
            BY <2>4, <2>7, <6>1, <6>2 DEF Known
          <6> QED BY <5>2, <6>2, <6>3
        <5>3. CASE \/ \E k \in DOMAIN port : port[k].rest # {} /\ x = port[k].set
                   \/ \E e \in Child : last[e] # NULL /\ x = last[e]
                   \/ \E e \in Child, k \in Slot : x = info[e].ds[k]
          <6>1. x \in Known(q, port)
            BY <2>6, <5>3 DEF Known
          <6> QED BY <6>1
        <5> QED
          <6>1. \/ x \in {info'[0].ds[k] : k \in {n \in Slot : info'[0].ds[n].no < Under(q)}}
                \/ x \in {port'[k].set : k \in {n \in DOMAIN port' : port'[n].rest # {}}}
                \/ x \in {last'[s] : s \in {e \in Sharing!Station : last'[e] # NULL}}
                \/ x \in UNION {{info'[e].ds[k] : k \in Slot} : e \in Child}
            <7>1. Sharing!Station' = Sharing!Station /\ Slot' = Slot
              BY DEF Sharing!Station, Slot, Sharing!Slot
            <7> QED BY <2>14, <7>1 DEF Known
          <6>2. x \in {info'[0].ds[k] : k \in {n \in Slot : info'[0].ds[n].no < Under(q)}}
                  => \E k \in Slot : x = f.ds[k] /\ f.ds[k].no < Under(q)
            BY <2>8
          <6>3. x \in {last'[s] : s \in {e \in Sharing!Station : last'[e] # NULL}}
                  => x = d \/ \E e \in Child : last[e] # NULL /\ x = last[e]
            BY <2>6, <2>9
          <6>4. x \in {port'[k].set : k \in {n \in DOMAIN port' : port'[n].rest # {}}}
                  => \E k \in DOMAIN port : port[k].rest # {} /\ x = port[k].set
            BY <1>2
          <6>5. x \in UNION {{info'[e].ds[k] : k \in Slot} : e \in Child}
                  => \E e \in Child, k \in Slot : x = info[e].ds[k]
            BY <2>8
          <6> QED BY <5>1, <5>2, <5>3, <6>1, <6>2, <6>3, <6>4, <6>5
      <4>2. Agree(Known(info[0], port)')
        BY <3>1, <4>1, AgreeKept DEF KnownOK
      <4>3. \A x : IsRight(x) => IsRight(x)'
        BY <1>2, <2>8, <2>12, TellCarried
      <4>4. ASSUME NEW x \in Known(info[0], port)' PROVE x.no < Under(q) /\ IsRight(x)'
        <5>1. PICK y \in Known(q, port) : x.no = y.no /\ x.data = y.data
          BY <4>1, <4>4
        <5>2. y.no < Under(q) /\ IsRight(y)
          BY <3>1 DEF KnownOK
        <5>3. IsRight(x)
          BY <5>1, <5>2 DEF IsRight
        <5> QED BY <4>3, <5>1, <5>2, <5>3
      <4> QED BY <2>14, <4>2, <4>4 DEF KnownOK, Agree
    <3>8. linked \subseteq Child
      BY <1>1 DEF StateTypes
    <3> QED BY <1>2, <2>8, <2>12, <2>17, <3>1, <3>2, <3>3, <3>4, <3>5, <3>6, <3>7, <3>8,
               MostCarried
  <2> QED BY <2>10, <2>18, <2>19 DEF ShareInv
<1> QED BY <1>5, <1>6

-----------------------------------------------------------------------------
(* The ARM7 of the parent and the radio.                                      *)

\* A packet is reported: it was on its way to nobody.
LEMMA ReportKeeps ==
  ASSUME ShareAssumption, StateTypes, NEW q, NEW p, NEW t, NEW con, AllOK(q, p, t, con, Sending),
         p # <<>>, Head(p).rest = {}, NEW u, u = Append(t, [is |-> "sent"])
  PROVE  AllOK(q, Tail(p), u, con, Sending)
<1> DEFINE o == Sending
           r == Tail(p)
           x == [is |-> "sent"]
<1>1. /\ ParentTypes(q, p, t, con) /\ RingOK(q) /\ LackOK(q, con) /\ PendingOK(q, t, o)
      /\ SentOK(q, p, t, o) /\ PortOK(q, p, t, con, o) /\ ToldOK(t, con, o)
      /\ NoneLeftOut(q, p, t, o) /\ KnownOK(q, p) /\ CollectOK(q) /\ FirstOK(q, p)
  BY DEF AllOK, ParentOK
<1>2. q \in Rings /\ p \in Seq(Packets) /\ t \in Seq(Notices) /\ con \subseteq Child
  BY <1>1 DEF ParentTypes
<1>3. x \in Notices /\ x \in Reports /\ (\A e : x \notin DataOf(e)) /\ x.is = "sent"
      /\ u = Append(t, x)
  BY DEF Notices, Reports, DataOf
<1> HIDE DEF x, o
<1>4. /\ u \in Seq(Notices) /\ Len(t) \in Nat /\ Len(u) = Len(t) + 1
      /\ DOMAIN t = 1..Len(t) /\ DOMAIN u = 1..Len(u) /\ u[Len(u)] = x
      /\ \A k \in 1..Len(t) : u[k] = t[k]
      /\ \A k \in 1..Len(t) + 1 : \A S : x \notin S => Later(u, k, S) = Later(t, k, S)
      /\ \A k \in 1..Len(t) + 1 : \A S : x \in S => Later(u, k, S) = Later(t, k, S) + 1
      /\ 1 \in 1..Len(t) + 1
  <2>1. More(Notices, u, t, x)
    BY <1>2, <1>3, OneMore
  <2> QED BY <2>1 DEF More
<1>5. x.is = "sent"
  BY <1>3
<1>6. Refusal(q, u) <=> Refusal(q, t)
  BY <1>4, <1>5 DEF Refusal
<1>7. /\ Unput(q, u, o) = Unput(q, t, o) /\ NextPut(q, u, o) = NextPut(q, t, o)
      /\ (Pending(q, u, o) <=> Pending(q, t, o))
  BY <1>6 DEF Unput, NextPut, Pending
<1>8. Len(p) \in 1..2 /\ Len(r) = Len(p) - 1 /\ r \in Seq(Packets) /\ DOMAIN p = 1..Len(p)
      /\ DOMAIN r = 1..Len(r)
  <2>1. Len(p) \in 0..2
    BY <1>1, FewPut
  <2>2. Len(p) # 0 /\ Len(r) = Len(p) - 1 /\ r \in Seq(Packets) /\ DOMAIN p = 1..Len(p)
        /\ DOMAIN r = 1..Len(r)
    BY <1>2
  <2> QED BY <2>1, <2>2
<1>9. /\ \A k \in 1..Len(r) : r[k] = p[k + 1] /\ k + 1 \in 1..Len(p)
      /\ p[1].rest = {} /\ (r # <<>> => p[Len(p)] = r[Len(r)])
  <2>1. \A k \in 1..Len(r) : r[k] = p[k + 1]
    BY <1>2
  <2>2. \A k \in 1..Len(r) : k + 1 \in 1..Len(p)
    BY <1>8
  <2>3. Head(p) = p[1]
    BY <1>2
  <2>4. r # <<>> => Len(r) = 1
    <3>1. \A s \in Seq(Packets) : s # <<>> => Len(s) # 0
      OBVIOUS
    <3> QED BY <1>8, <3>1
  <2>5. r # <<>> => p[Len(p)] = r[Len(r)]
    BY <1>8, <2>1, <2>4
  <2> QED BY <2>1, <2>2, <2>3, <2>5
<1> HIDE DEF r
<1>10. ASSUME NEW e PROVE InPort(r, e) = InPort(p, e)
  <2>1. CASE Len(p) = 1
    BY <1>8, <1>9, <2>1 DEF InPort, One
  <2>2. CASE Len(p) = 2
    <3>1. Len(r) = 1 /\ r[1] = p[2]
      BY <1>8, <1>9, <2>2
    <3> QED BY <1>9, <2>2, <3>1 DEF InPort, One
  <2> QED BY <1>8, <2>1, <2>2
<1>11. PendingOK(q, u, o)
  <2>1. \A h \in o : /\ h.slot = SlotOf(Under(q) - 1) /\ ~Refusal(q, u)
                     /\ doubleMode => Under(q) - 1 > Ahead
    BY <1>1, <1>6 DEF PendingOK
  <2>2. Refusal(q, u) => ~doubleMode
    BY <1>1, <1>6 DEF PendingOK
  <2>3. \A k \in DOMAIN u : u[k].is = "full" =>
          ~q.retry /\ \A n \in DOMAIN u : u[n].is = "full" => n = k
    <3>1. \A k \in DOMAIN u : u[k].is = "full" => k \in DOMAIN t /\ t[k].is = "full"
      BY <1>4, <1>5
    <3> QED BY <1>1, <3>1 DEF PendingOK
  <2> QED BY <2>1, <2>2, <2>3 DEF PendingOK
<1>12. SentOK(q, r, u, o)
  <2>1. Later(u, 1, Reports) = Later(t, 1, Reports) + 1 /\ Later(t, 1, Reports) \in Nat
    BY <1>2, <1>3, <1>4, NoticeCounts
  <2>2. Unput(q, t, o) \in Nat
    BY DEF Unput
  <2>3. Out(q, r, u, o) = Out(q, p, t, o)
    BY <1>7, <1>8, <2>1, <2>2 DEF Out
  <2> QED BY <1>1, <2>3 DEF SentOK
<1>13. PortOK(q, r, u, con, o)
  <2> SUFFICES ASSUME NEW k \in 1..Len(r)
               PROVE  /\ r[k].rest \subseteq linked \cap con
                      /\ \A h \in o : r[k].rest \subseteq h.dest
                      /\ doubleMode => r[k].rest \subseteq r[k].set.aidBitmap
                      /\ \A n \in 1..Len(r) : k < n => r[k].rest \subseteq r[n].rest
                      /\ r[k].rest # {} =>
                           /\ r[k].set.no = NextPut(q, t, o) + k - Len(r) - 1
                           /\ r[k].slot = SlotOf(r[k].set.no)
                           /\ Child \subseteq r[k].set.aidBitmap \/ r[k].set.no <= Ahead
    BY <1>7, <1>8 DEF PortOK
  <2>1. k + 1 \in DOMAIN p /\ r[k] = p[k + 1]
    BY <1>8, <1>9
  <2>2. /\ r[k].rest \subseteq linked \cap con
        /\ \A h \in o : r[k].rest \subseteq h.dest
        /\ doubleMode => r[k].rest \subseteq r[k].set.aidBitmap
        /\ \A n \in DOMAIN p : k + 1 < n => r[k].rest \subseteq p[n].rest
        /\ r[k].rest # {} =>
             /\ r[k].set.no = NextPut(q, t, o) + (k + 1) - Len(p) - 1
             /\ r[k].slot = SlotOf(r[k].set.no)
             /\ Child \subseteq r[k].set.aidBitmap \/ r[k].set.no <= Ahead
    BY <1>1, <2>1 DEF PortOK
  <2>3. \A n \in 1..Len(r) : k < n => r[k].rest \subseteq r[n].rest
    BY SMTT(30), <1>8, <1>9, <2>2
  <2>4. NextPut(q, t, o) \in Int
    <3>1. Under(q) \in Nat
      BY <1>1, <1>2, RingNumbers
    <3> QED BY <3>1 DEF NextPut, Unput
  <2>5. NextPut(q, t, o) + (k + 1) - Len(p) - 1 = NextPut(q, t, o) + k - Len(r) - 1
    BY <1>8, <2>4
  <2> QED BY <2>2, <2>3, <2>5
<1>14. ToldOK(u, con, o)
  BY <1>1, <1>4, <1>5, ToldAppended
<1>15. NoneLeftOut(q, r, u, o)
  BY <1>1, <1>7, <1>10 DEF NoneLeftOut, Begun
<1>16. KnownOK(q, r)
  <2>1. {r[k].set : k \in {m \in DOMAIN r : r[m].rest # {}}} \subseteq
          {p[k].set : k \in {m \in DOMAIN p : p[m].rest # {}}}
    BY SMTT(30), <1>8, <1>9
  <2>2. Known(q, r) \subseteq Known(q, p)
    BY <2>1 DEF Known
  <2> QED BY <1>1, <2>2 DEF KnownOK, Agree
<1>17. FirstOK(q, r)
  BY <1>1, <1>8, <1>9 DEF FirstOK
<1>18. KidsOK(q, r, u, con, o)
  <2> SUFFICES ASSUME NEW e \in Child
               PROVE  /\ KidOK(e) /\ ReadsOK(q, r, u, con, o, e)
                      /\ PiecesOK(u, e) /\ BalanceOK(q, r, u, con, o, e)
    BY DEF KidsOK
  <2>1. /\ KidOK(e) /\ ReadsOK(q, p, t, con, o, e)
        /\ PiecesOK(t, e) /\ BalanceOK(q, p, t, con, o, e)
    BY DEF AllOK, KidsOK, o
  <2>2. FirstUnread(q, r, u, o, e) = FirstUnread(q, p, t, o, e)
        /\ (Begun(r, e) <=> Begun(p, e))
    BY <1>7, <1>10 DEF FirstUnread, Begun
  <2>3. ReadsOK(q, r, u, con, o, e)
    BY <1>8, <1>9, <2>1, <2>2 DEF ReadsOK
  <2>4. \A k \in 1..Len(t) + 1 : Later(u, k, DataOf(e)) = Later(t, k, DataOf(e))
    BY <1>3, <1>4
  <2>5. PiecesOK(u, e)
    BY <1>4, <1>5, <2>1, <2>4 DEF PiecesOK
  <2>6. Unanswered(q, r, u, o, e) = Unanswered(q, p, t, o, e)
    <3>1. OnTheWay(r, u, e) = OnTheWay(p, t, e)
      BY <1>4, <1>10, <2>4 DEF OnTheWay
    <3>2. Owed(q, u, o, e) = Owed(q, t, o, e)
      BY <1>6 DEF Owed, One
    <3> QED BY <3>1, <3>2 DEF Unanswered
  <2>7. Exact(r, o, e) => Exact(p, o, e)
    BY <1>9 DEF Exact
  <2> QED BY <2>1, <2>3, <2>5, <2>6, <2>7 DEF BalanceOK
<1> QED
  BY <1>1, <1>2, <1>4, <1>8, <1>11, <1>12, <1>13, <1>14, <1>15, <1>16, <1>17, <1>18
     DEF AllOK, ParentOK, ParentTypes, o, r

\* What the ARM7 does to the port and to the callbacks alone.
LEMMA PortLands ==
  ASSUME ShareAssumption, ShareInv,
         UNCHANGED <<info, last, step, connected, linked, reply, changes, doubleMode>>,
         AllOK(info[0], port', told', connected, Sending)
  PROVE  ShareInv'
<1> DEFINE v == [info |-> info[0], port |-> port', told |-> told']
<1>1. StateTypes /\ PlaceOK(info[0])
  BY DEF ShareInv
<1>2. info' = [info EXCEPT ![0] = info[0]]
  BY <1>1 DEF StateTypes
<1>3. v.info = info[0] /\ v.port = port' /\ v.told = told'
  OBVIOUS
<1> HIDE DEF v
<1>4. Sharing!SetParent(v)
  BY <1>2, <1>3 DEF Sharing!SetParent
<1> QED BY <1>1, <1>3, <1>4, CallbackLands

\* The ARM7 reports the packet that all have been given.
LEMMA StepReport ==
  ASSUME ShareAssumption, ShareInv, Sharing!Report, UNCHANGED doubleMode
  PROVE  ShareInv'
<1>1. /\ port # <<>> /\ Head(port).rest = {}
      /\ port' = Tail(port) /\ told' = Append(told, [is |-> "sent"])
      /\ UNCHANGED <<info, last, step, connected, linked, reply, changes>>
  BY DEF Sharing!Report
<1>2. StateTypes /\ AllOK(info[0], port, told, connected, Sending)
  BY DEF ShareInv
<1>3. AllOK(info[0], port', told', connected, Sending)
  BY <1>1, <1>2, ReportKeeps
<1> QED BY <1>1, <1>3, PortLands

\* A packet is refused: it was the only one, and the set is to be put again.
LEMMA RefuseKeeps ==
  ASSUME ShareAssumption, StateTypes, NEW q, NEW p, NEW t, NEW con, AllOK(q, p, t, con, Sending),
         ~doubleMode, p # <<>>, p[Len(p)].new, NEW u, u = Append(t, [is |-> "full"])
  PROVE  Len(p) = 1 /\ AllOK(q, <<>>, u, con, Sending)
<1> DEFINE o == Sending
           x == [is |-> "full"]
           r == <<>>
<1>1. /\ ParentTypes(q, p, t, con) /\ RingOK(q) /\ LackOK(q, con) /\ PendingOK(q, t, o)
      /\ SentOK(q, p, t, o) /\ PortOK(q, p, t, con, o) /\ ToldOK(t, con, o)
      /\ NoneLeftOut(q, p, t, o) /\ KnownOK(q, p) /\ CollectOK(q) /\ FirstOK(q, p)
  BY DEF AllOK, ParentOK
<1>2. q \in Rings /\ p \in Seq(Packets) /\ t \in Seq(Notices) /\ con \subseteq Child
  BY <1>1 DEF ParentTypes
<1>3. x \in Notices /\ x \notin Reports /\ (\A e : x \notin DataOf(e)) /\ x.is = "full"
      /\ u = Append(t, x)
  BY DEF Notices, Reports, DataOf
<1>4. r \in Seq(Packets) /\ Len(r) = 0 /\ DOMAIN r = {}
  OBVIOUS
<1> HIDE DEF x, o, r
<1>5. /\ u \in Seq(Notices) /\ Len(t) \in Nat /\ Len(u) = Len(t) + 1
      /\ DOMAIN t = 1..Len(t) /\ DOMAIN u = 1..Len(u) /\ u[Len(u)] = x
      /\ \A k \in 1..Len(t) : u[k] = t[k]
      /\ \A k \in 1..Len(t) + 1 : \A S : x \notin S => Later(u, k, S) = Later(t, k, S)
      /\ \A k \in 1..Len(t) + 1 : \A S : x \in S => Later(u, k, S) = Later(t, k, S) + 1
      /\ 1 \in 1..Len(t) + 1
  <2>1. More(Notices, u, t, x)
    BY <1>2, <1>3, OneMore
  <2> QED BY <2>1 DEF More
<1>6. Len(p) = 1 /\ Unput(q, t, o) = 0 /\ DOMAIN p = {1}
  <2>1. Len(p) \in 0..2 /\ Len(p) + Unput(q, t, o) <= Ahead
    BY <1>1, FewPut
  <2>2. Ahead = 1
    BY ShareNumbers
  <2>3. Unput(q, t, o) \in 0..1
    BY DEF Unput
  <2>4. Len(p) # 0 /\ DOMAIN p = 1..Len(p)
    BY <1>2
  <2> QED BY <2>1, <2>2, <2>3, <2>4
<1>7. o = {} /\ ~Refusal(q, t) /\ Refusal(q, u) /\ ~Pending(q, t, o) /\ Pending(q, u, o)
      /\ Unput(q, u, o) = 1
  <2>1. ~Pending(q, t, o)
    BY <1>6 DEF Unput
  <2>2. o = {} /\ ~Refusal(q, t)
    BY <2>1 DEF Pending
  <2>3. Refusal(q, u)
    <3>1. Len(u) \in DOMAIN u
      BY <1>5
    <3> QED BY <1>3, <1>5, <3>1 DEF Refusal
  <2>4. Pending(q, u, o)
    BY <2>3 DEF Pending
  <2>5. Unput(q, u, o) = 1
    BY <2>4 DEF Unput
  <2> QED BY <2>1, <2>2, <2>3, <2>4, <2>5
<1>8. Under(q) \in Nat /\ NextPut(q, t, o) = Under(q) /\ NextPut(q, u, o) = Under(q) - 1
  <2>1. Under(q) \in Nat
    BY <1>1, <1>2, RingNumbers
  <2> QED BY <1>6, <1>7, <2>1 DEF NextPut
<1>9. PendingOK(q, u, o)
  <2>1. \A k \in DOMAIN t : t[k].is # "full"
    BY <1>7 DEF Refusal
  <2>2. \A k \in DOMAIN u : u[k].is = "full" => k = Len(u)
    BY <1>5, <2>1
  <2>3. ~q.retry
    BY <1>7 DEF Refusal
  <2> QED BY <1>7, <2>2, <2>3 DEF PendingOK
<1>10. SentOK(q, r, u, o)
  <2>1. Later(u, 1, Reports) = Later(t, 1, Reports) /\ Later(t, 1, Reports) \in Nat
    BY <1>2, <1>3, <1>5, NoticeCounts
  <2>2. Out(q, r, u, o) = Out(q, p, t, o)
    BY <1>4, <1>6, <1>7, <2>1 DEF Out
  <2> QED BY <1>1, <2>2 DEF SentOK
<1>11. PortOK(q, r, u, con, o) /\ FirstOK(q, r)
  BY <1>1, <1>4 DEF PortOK, FirstOK
<1>12. ToldOK(u, con, o)
  BY <1>1, <1>3, <1>5, ToldAppended
<1>13. NoneLeftOut(q, r, u, o)
  BY <1>7 DEF NoneLeftOut
<1>14. KnownOK(q, r)
  <2>1. Known(q, r) \subseteq Known(q, p)
    BY <1>4 DEF Known
  <2> QED BY <1>1, <2>1 DEF KnownOK, Agree
<1>15. KidsOK(q, r, u, con, o)
  <2> SUFFICES ASSUME NEW e \in Child
               PROVE  /\ KidOK(e) /\ ReadsOK(q, r, u, con, o, e)
                      /\ PiecesOK(u, e) /\ BalanceOK(q, r, u, con, o, e)
    BY DEF KidsOK
  <2>1. /\ KidOK(e) /\ ReadsOK(q, p, t, con, o, e)
        /\ PiecesOK(t, e) /\ BalanceOK(q, p, t, con, o, e)
    BY DEF AllOK, KidsOK, o
  <2>2. InPort(r, e) = 0 /\ InPort(p, e) = One(e \in p[1].rest)
    BY <1>4, <1>6 DEF InPort, One
  <2>3. Begun(r, e) => Begun(p, e)
    BY <2>2 DEF Begun
  <2>4. Begun(p, e) => e \in p[1].rest
    BY <1>6, <2>1 DEF ReadsOK
  <2>5. e \in p[1].rest => FirstUnread(q, r, u, o, e) = FirstUnread(q, p, t, o, e)
    <3>1. e \in p[1].rest => InPort(p, e) = 1
      BY <2>2 DEF One
    <3>2. Unread(e) \in 0..3
      BY <1>1, CountsAreNumbers
    <3> QED BY <1>8, <2>2, <3>1, <3>2 DEF FirstUnread
  <2>6. ReadsOK(q, r, u, con, o, e)
    BY <1>4, <2>1, <2>3, <2>4, <2>5 DEF ReadsOK
  <2>7. \A k \in 1..Len(t) + 1 : Later(u, k, DataOf(e)) = Later(t, k, DataOf(e))
    BY <1>3, <1>5
  <2>8. PiecesOK(u, e)
    BY <1>3, <1>5, <2>1, <2>7 DEF PiecesOK
  <2>9. BalanceOK(q, r, u, con, o, e)
    <3> SUFFICES ASSUME e \in linked \cap con
                 PROVE  /\ Unanswered(q, r, u, o, e) - Lacks(q, e) \in 0..1
                        /\ Exact(r, o, e) => Unanswered(q, r, u, o, e) = Lacks(q, e)
      BY DEF BalanceOK
    <3>1. /\ Unread(e) \in 0..3 /\ Retries(e) \in 0..1 /\ Len(reply[e]) \in Nat
          /\ Lacks(q, e) \in 0..2 /\ OnTheWay(p, t, e) \in Nat
      BY <1>1, CountsAreNumbers
    <3>2. Owed(q, t, o, e) = 0 /\ Owed(q, u, o, e) = 1
      BY <1>7 DEF Owed, One
    <3>3. OnTheWay(p, t, e) = OnTheWay(r, u, e) + One(e \in p[1].rest)
      <4>1. Later(u, 1, DataOf(e)) = Later(t, 1, DataOf(e))
        BY <1>5, <2>7
      <4>2. Later(t, 1, DataOf(e)) \in Nat /\ One(e \in p[1].rest) \in Nat
        BY <1>2, NoticeCounts DEF One
      <4> DEFINE b == One(e \in p[1].rest)
                 k == Unread(e)
                 l == Retries(e)
                 m == Len(reply[e])
                 n == Later(t, 1, DataOf(e))
      <4>3. OnTheWay(p, t, e) = b + k + l + m + n
        BY <2>2 DEF OnTheWay
      <4>4. OnTheWay(r, u, e) = 0 + k + l + m + n
        BY <2>2, <4>1 DEF OnTheWay
      <4>5. b \in Nat /\ k \in Nat /\ l \in Nat /\ m \in Nat /\ n \in Nat
        BY <3>1, <4>2
      <4> HIDE DEF b, k, l, m, n
      <4>6. b + k + l + m + n = (0 + k + l + m + n) + b
        BY <4>5
      <4> QED BY <4>3, <4>4, <4>6 DEF b
    <3>4. OnTheWay(r, u, e) \in Nat
      <4>1. ParentTypes(q, r, u, con)
        BY <1>1, <1>4, <1>5 DEF ParentTypes
      <4> QED BY <4>1, CountsAreNumbers
    <3>5. /\ Unanswered(q, p, t, o, e) - Lacks(q, e) \in 0..1
          /\ Exact(p, o, e) => Unanswered(q, p, t, o, e) = Lacks(q, e)
      BY <2>1 DEF BalanceOK
    <3>6. CASE e \in p[1].rest
      <4>1. Unanswered(q, r, u, o, e) = Unanswered(q, p, t, o, e)
        <5>1. One(e \in p[1].rest) = 1
          BY <3>6 DEF One
        <5> QED BY <3>2, <3>3, <3>4, <5>1 DEF Unanswered
      <4>2. Exact(r, o, e) => Exact(p, o, e)
        BY <1>4 DEF Exact, r
      <4> QED BY <3>5, <4>1, <4>2
    <3>7. CASE e \notin p[1].rest
      <4>1. Exact(p, o, e)
        BY <1>6, <3>7 DEF Exact
      <4>2. Unanswered(q, r, u, o, e) = Unanswered(q, p, t, o, e) + 1
        <5>1. One(e \in p[1].rest) = 0
          BY <3>7 DEF One
        <5> QED BY <3>2, <3>3, <3>4, <5>1 DEF Unanswered
      <4>3. ~Exact(r, o, e)
        <5>1. changes # 0
          BY <1>1, <1>7, <2>4, <3>7 DEF NoneLeftOut
        <5> QED BY <1>7, <5>1 DEF Exact, r
      <4> QED BY <3>1, <3>5, <4>1, <4>2, <4>3
    <3> QED BY <3>6, <3>7
  <2> QED BY <2>1, <2>6, <2>8, <2>9
<1>16. AllOK(q, r, u, con, o)
  BY <1>1, <1>2, <1>4, <1>5, <1>9, <1>10, <1>11, <1>12, <1>13, <1>14, <1>15
     DEF AllOK, ParentOK, ParentTypes
<1> QED BY <1>6, <1>16 DEF r, o

\* The ARM7 refuses a packet.
LEMMA StepRefuse ==
  ASSUME ShareAssumption, ShareInv, Sharing!Refuse, UNCHANGED doubleMode, Orderly'
  PROVE  ShareInv'
<1>1. /\ ~doubleMode /\ port # <<>> /\ port[Len(port)].new
      /\ port' = SubSeq(port, 1, Len(port) - 1) /\ told' = Append(told, [is |-> "full"])
      /\ UNCHANGED <<info, last, step, connected, linked, reply, changes>>
  BY DEF Sharing!Refuse, Orderly
<1>2. StateTypes /\ AllOK(info[0], port, told, connected, Sending)
  BY DEF ShareInv
<1>3. Len(port) = 1 /\ AllOK(info[0], <<>>, told', connected, Sending)
  BY <1>1, <1>2, RefuseKeeps
<1>4. port' = <<>>
  BY <1>1, <1>3
<1> QED BY <1>1, <1>3, <1>4, PortLands

\* Sets that are known, or empty, are known still.
LEMMA KnownGrows ==
  ASSUME ShareAssumption, StateTypes, NEW q \in Rings, RingOK(q), NEW p, KnownOK(q, p),
         NEW R, \A d \in R : \/ \E f \in Known(q, p) : d.no = f.no /\ d.data = f.data
                             \/ d.no = 0 /\ d.data = Sharing!NoData
  PROVE  Agree(R) /\ \A d \in R : d.no < Under(q) /\ IsRight(d)
<1>1. Agree(Known(q, p)) /\ \A d \in Known(q, p) : d.no < Under(q) /\ IsRight(d)
  BY DEF KnownOK
<1>2. \A f \in Known(q, p) : f.no = 0 => f.data = Sharing!NoData
  BY <1>1 DEF IsRight
<1>3. Agree(R)
  <2> SUFFICES ASSUME NEW d \in R, NEW b \in R, d.no = b.no PROVE d.data = b.data
    BY DEF Agree
  <2> QED BY <1>1, <1>2 DEF Agree
<1>4. ASSUME NEW d \in R PROVE d.no < Under(q) /\ IsRight(d)
  <2>1. CASE \E f \in Known(q, p) : d.no = f.no /\ d.data = f.data
    BY <1>1, <2>1 DEF IsRight
  <2>2. CASE d.no = 0 /\ d.data = Sharing!NoData
    <3>1. 0 < Under(q) /\ Ahead \in 1..2 /\ Sharing!Station = Child \cup {0}
      <4>1. Under(q) \in Nat /\ Under(q) > Ahead /\ Ahead \in 1..2
        BY RingNumbers, ShareNumbers
      <4>2. Sharing!Station = Child \cup {0}
        BY ShareNumbers
      <4> QED BY <4>1, <4>2
    <3>2. \A s \in Child \cup {0} : d.data[s] = 0
      BY <2>2, <3>1 DEF Sharing!NoData
    <3>3. \A s : PieceOf(s, 0) = 0
      BY <3>1 DEF PieceOf
    <3> QED BY <2>2, <3>1, <3>2, <3>3 DEF IsRight
  <2> QED BY <1>4, <2>1, <2>2
<1> QED BY <1>3, <1>4

\* A step that leaves the parent what it has and has read, and gives it nothing.
LEMMA PlaceCarried ==
  ASSUME StateTypes, PlaceOK(info[0]), UNCHANGED <<step, connected, doubleMode>>,
         linked' \subseteq Child, changes' \in Nat,
         info' \in [Sharing!Station -> Rings],
         last' \in [Sharing!Station -> Sharing!DataSet \cup {NULL}],
         reply' \in [Child -> Seq(Sharing!Piece)],
         info'[0] = info[0], last'[0] = last[0]
  PROVE  /\ HasRead' = HasRead /\ Given' = Given /\ Sending' = Sending
         /\ StateTypes' /\ PlaceOK(info[0])' /\ Under(info[0])' = Under(info[0])
<1> DEFINE q == info[0]
<1>1. Given' = Given /\ HasRead' = HasRead /\ Sending' = Sending
  <2>1. HasRead' = HasRead /\ Ahead' = Ahead
    BY DEF HasRead, Sharing!ReadNo, Ahead, Sharing!Ahead
  <2>2. Giving' <=> Giving
    BY DEF Giving
  <2> QED BY <2>1, <2>2 DEF Given, Sending
<1>2. StateTypes'
  <2>1. /\ Sharing!Piece' = Sharing!Piece /\ Sharing!Station' = Sharing!Station
        /\ Sharing!DataSet' = Sharing!DataSet
    BY DEF Sharing!Piece, Sharing!Station, Sharing!DataSet
  <2> QED BY <2>1 DEF StateTypes
<1>3. Under(q)' = Under(q)
  BY DEF Under
<1>4. PlaceOK(info[0])'
  <2>1. Held(q, Under(q))' = Held(q, Under(q))
    BY <1>3 DEF Held
  <2> QED BY <1>1, <1>3, <2>1 DEF PlaceOK
<1> QED BY <1>1, <1>2, <1>3, <1>4

\* A step of one child, with what it sends and is sent.
LEMMA OneCarried ==
  ASSUME ShareAssumption, ShareInv,
         UNCHANGED <<step, connected, linked, changes, doubleMode>>,
         NEW p, NEW t, port' = p, told' = t, NEW c1 \in Child,
         ParentTypes(info[0], p, t, connected), PendingOK(info[0], t, Sending),
         SentOK(info[0], p, t, Sending), PortOK(info[0], p, t, connected, Sending),
         ToldOK(t, connected, Sending), FirstOK(info[0], p),
         \A e \in Child : e # c1 =>
           /\ Idle(e) /\ ReadsOK(info[0], p, t, connected, Sending, e)
           /\ PiecesOK(t, e) /\ BalanceOK(info[0], p, t, connected, Sending, e),
         info' \in [Sharing!Station -> Rings],
         last' \in [Sharing!Station -> Sharing!DataSet \cup {NULL}],
         reply' \in [Child -> Seq(Sharing!Piece)],
         info'[0] = info[0], last'[0] = last[0],
         KidOK(c1)', ReadsOK(info[0], port, told, connected, Sending, c1)',
         PiecesOK(told, c1)', BalanceOK(info[0], port, told, connected, Sending, c1)',
         NoneLeftOut(info[0], port, told, Sending)',
         \A d \in Known(info[0], port)' :
           \/ \E f \in Known(info[0], port) : d.no = f.no /\ d.data = f.data
           \/ d.no = 0 /\ d.data = Sharing!NoData
  PROVE  ShareInv'
<1> DEFINE q == info[0]
<1>1. StateTypes /\ PlaceOK(q) /\ AllOK(q, port, told, connected, Sending)
  BY DEF ShareInv
<1>2. /\ q \in Rings /\ RingOK(q) /\ LackOK(q, connected) /\ CollectOK(q) /\ KnownOK(q, port)
      /\ \A e \in Child : KidOK(e)
  BY <1>1 DEF AllOK, ParentOK, ParentTypes, KidsOK
<1>3. /\ HasRead' = HasRead /\ Given' = Given /\ Sending' = Sending
      /\ StateTypes' /\ PlaceOK(q)' /\ Under(q)' = Under(q)
  <2>1. linked' \subseteq Child /\ changes' \in Nat
    BY <1>1 DEF StateTypes
  <2> QED BY <1>1, <2>1, PlaceCarried
<1>4. /\ RingOK(q)' /\ LackOK(q, connected)' /\ PendingOK(q, told, Sending)'
      /\ FirstOK(q, port)' /\ SentOK(q, port, told, Sending)'
      /\ ParentTypes(q, port, told, connected)'
  BY <1>2, <1>3, ParentCarried
<1>5. /\ PortOK(q, port, told, connected, Sending)' /\ ToldOK(told, connected, Sending)'
      /\ CollectOK(q)' /\ \A d : IsRight(d) => IsRight(d)'
  BY <1>2, <1>3, TellCarried
<1>6. KnownOK(q, port)'
  <2>1. Agree(Known(q, port)') /\ \A d \in Known(q, port)' : d.no < Under(q) /\ IsRight(d)
    BY <1>1, <1>2, KnownGrows
  <2> QED BY <1>3, <1>5, <2>1 DEF KnownOK, Agree
<1>7. KidsOK(q, port, told, connected, Sending)'
  <2> SUFFICES ASSUME NEW e \in Child, e # c1
               PROVE  /\ KidOK(e)' /\ ReadsOK(q, port, told, connected, Sending, e)'
                      /\ PiecesOK(told, e)'
                      /\ BalanceOK(q, port, told, connected, Sending, e)'
    BY DEF KidsOK
  <2> QED BY <1>2, <1>3, KidCarried
<1> QED BY <1>3, <1>4, <1>5, <1>6, <1>7 DEF ShareInv, AllOK, ParentOK

\* A callback more that is not one of what was put.
LEMMA ToldMore ==
  ASSUME ShareAssumption, StateTypes, NEW q, NEW p, NEW t, NEW con, AllOK(q, p, t, con, Sending),
         NEW x \in Notices, x.is \notin {"sent", "full"}, NEW u, u = Append(t, x)
  PROVE  MoreTold(q, p, t, con, u, x)
<1> DEFINE o == Sending
<1>1. /\ ParentTypes(q, p, t, con) /\ PendingOK(q, t, o) /\ SentOK(q, p, t, o)
      /\ PortOK(q, p, t, con, o) /\ ToldOK(t, con, o)
  BY DEF AllOK, ParentOK
<1>2. t \in Seq(Notices)
  BY <1>1 DEF ParentTypes
<1>3. x \notin Reports
  BY DEF Reports
<1> HIDE DEF o
<1>4. /\ u \in Seq(Notices) /\ Len(t) \in Nat /\ Len(u) = Len(t) + 1
      /\ DOMAIN t = 1..Len(t) /\ DOMAIN u = 1..Len(u) /\ u[Len(u)] = x
      /\ \A k \in 1..Len(t) : u[k] = t[k]
      /\ \A k \in 1..Len(t) + 1 : \A S : x \notin S => Later(u, k, S) = Later(t, k, S)
      /\ \A k \in 1..Len(t) + 1 : \A S : x \in S => Later(u, k, S) = Later(t, k, S) + 1
      /\ 1 \in 1..Len(t) + 1
  <2>1. More(Notices, u, t, x)
    BY <1>2, OneMore
  <2> QED BY <2>1 DEF More
<1>5. Refusal(q, u) <=> Refusal(q, t)
  BY <1>4 DEF Refusal
<1>6. /\ Unput(q, u, o) = Unput(q, t, o) /\ NextPut(q, u, o) = NextPut(q, t, o)
      /\ (Pending(q, u, o) <=> Pending(q, t, o))
  BY <1>5 DEF Unput, NextPut, Pending
<1>7. PendingOK(q, u, o)
  <2>1. \A h \in o : /\ h.slot = SlotOf(Under(q) - 1) /\ ~Refusal(q, u)
                     /\ doubleMode => Under(q) - 1 > Ahead
    BY <1>1, <1>5 DEF PendingOK
  <2>2. Refusal(q, u) => ~doubleMode
    BY <1>1, <1>5 DEF PendingOK
  <2>3. \A k \in DOMAIN u : u[k].is = "full" =>
          ~q.retry /\ \A n \in DOMAIN u : u[n].is = "full" => n = k
    <3>1. \A k \in DOMAIN u : u[k].is = "full" => k \in DOMAIN t /\ t[k].is = "full"
      BY <1>4
    <3> QED BY <1>1, <3>1 DEF PendingOK
  <2> QED BY <2>1, <2>2, <2>3 DEF PendingOK
<1>8. SentOK(q, p, u, o)
  <2>1. Later(u, 1, Reports) = Later(t, 1, Reports)
    BY <1>3, <1>4
  <2>2. Out(q, p, u, o) = Out(q, p, t, o)
    BY <1>6, <2>1 DEF Out
  <2> QED BY <1>1, <2>2 DEF SentOK
<1>9. PortOK(q, p, u, con, o)
  BY <1>1, <1>6 DEF PortOK
<1>10. ASSUME NEW e \in Child
       PROVE  /\ FirstUnread(q, p, u, o, e) = FirstUnread(q, p, t, o, e)
              /\ ReadsOK(q, p, u, con, o, e)
              /\ Owed(q, u, o, e) = Owed(q, t, o, e)
              /\ x \notin DataOf(e) => PiecesOK(u, e) /\ BalanceOK(q, p, u, con, o, e)
  <2>1. /\ ReadsOK(q, p, t, con, o, e) /\ PiecesOK(t, e) /\ BalanceOK(q, p, t, con, o, e)
    BY DEF AllOK, KidsOK, o
  <2>2. FirstUnread(q, p, u, o, e) = FirstUnread(q, p, t, o, e)
    BY <1>6 DEF FirstUnread
  <2>3. ReadsOK(q, p, u, con, o, e)
    BY <2>1, <2>2 DEF ReadsOK
  <2>4. Owed(q, u, o, e) = Owed(q, t, o, e)
    BY <1>5 DEF Owed, One
  <2>5. ASSUME x \notin DataOf(e) PROVE PiecesOK(u, e) /\ BalanceOK(q, p, u, con, o, e)
    <3>1. \A k \in 1..Len(t) + 1 : Later(u, k, DataOf(e)) = Later(t, k, DataOf(e))
      BY <1>4, <2>5
    <3>2. x.is # "data" \/ x.child # e
      BY <2>5 DEF DataOf, Notices
    <3>3. PiecesOK(u, e)
      BY <1>4, <2>1, <3>1, <3>2 DEF PiecesOK
    <3>4. OnTheWay(p, u, e) = OnTheWay(p, t, e)
      BY <1>4, <3>1 DEF OnTheWay
    <3>5. Unanswered(q, p, u, o, e) = Unanswered(q, p, t, o, e)
      BY <2>4, <3>4 DEF Unanswered
    <3> QED BY <2>1, <3>3, <3>5 DEF BalanceOK
  <2> QED BY <2>2, <2>3, <2>4, <2>5
<1> QED BY <1>1, <1>4, <1>5, <1>6, <1>7, <1>8, <1>9, <1>10 DEF ParentTypes, MoreTold, o

\* What the parent knows of a child that reads nothing and is sent nothing.
LEMMA ReadsCarried ==
  ASSUME NEW q, NEW p, NEW t, NEW con, NEW o,
         info'[0] = q, port' = p, told' = t, connected' = con, Sending' = o,
         doubleMode' = doubleMode, linked' = linked, changes' = changes,
         NEW e \in Child, info'[e] = info[e], last'[e] = last[e]
  PROVE  /\ InPort(port, e)' = InPort(p, e) /\ Unread(e)' = Unread(e) /\ Retries(e)' = Retries(e)
         /\ (Begun(port, e)' <=> Begun(p, e)) /\ (Exact(port, Sending, e)' <=> Exact(p, o, e))
         /\ Owed(info[0], told, Sending, e)' = Owed(q, t, o, e)
         /\ Lacks(info[0], e)' = Lacks(q, e)
         /\ ReadsOK(q, p, t, con, o, e) => ReadsOK(info[0], port, told, connected, Sending, e)'
<1>1. /\ Under(info[0])' = Under(q) /\ NextPut(info[0], told, Sending)' = NextPut(q, t, o)
      /\ (Refusal(info[0], told)' <=> Refusal(q, t))
  BY ParentCarried
<1>2. /\ InPort(port, e)' = InPort(p, e) /\ Unread(e)' = Unread(e) /\ Retries(e)' = Retries(e)
      /\ (Begun(port, e)' <=> Begun(p, e))
  BY DEF InPort, Unread, Retries, Begun, One
<1>3. FirstUnread(info[0], port, told, Sending, e)' = FirstUnread(q, p, t, o, e)
  BY <1>1, <1>2 DEF FirstUnread
<1>4. ReadsOK(q, p, t, con, o, e) => ReadsOK(info[0], port, told, connected, Sending, e)'
  BY <1>2, <1>3 DEF ReadsOK
<1>5. Owed(info[0], told, Sending, e)' = Owed(q, t, o, e)
  BY <1>1 DEF Owed, One
<1>6. Lacks(info[0], e)' = Lacks(q, e)
  BY <1>1 DEF Lacks, Held, One
<1>7. Exact(port, Sending, e)' <=> Exact(p, o, e)
  BY DEF Exact
<1> QED BY <1>2, <1>4, <1>5, <1>6, <1>7

\* A child's piece comes to the parent.
LEMMA StepDeliverReply ==
  ASSUME ShareAssumption, ShareInv, NEW c1 \in Child, Sharing!DeliverReply(c1),
         UNCHANGED doubleMode
  PROVE  ShareInv'
<1> DEFINE q == info[0]
           t == told
           x == [is |-> "data", child |-> c1, piece |-> Head(reply[c1])]
           u == Append(t, x)
           r == reply[c1]
           s == Tail(r)
<1>1. StateTypes /\ PlaceOK(q) /\ AllOK(q, port, told, connected, Sending)
  BY DEF ShareInv
<1>2. /\ c1 \in linked /\ r # <<>> /\ told' = u /\ reply' = [reply EXCEPT ![c1] = s]
      /\ UNCHANGED <<info, last, step, connected, linked, port, changes>>
  BY DEF Sharing!DeliverReply
<1>3. r \in Seq(Sharing!Piece)
  BY <1>1 DEF StateTypes
<1>4. /\ Len(r) \in Nat /\ Len(r) >= 1 /\ Len(s) = Len(r) - 1 /\ s \in Seq(Sharing!Piece)
      /\ Head(r) = r[1] /\ r[1] \in Sharing!Piece /\ \A k \in 1..Len(s) : s[k] = r[k + 1]
  BY <1>2, <1>3
<1>5. /\ x \in Notices /\ x \in DataOf(c1) /\ x.is = "data" /\ x.child = c1 /\ x.piece = r[1]
      /\ \A e \in Child : e # c1 => x \notin DataOf(e)
  BY <1>4 DEF Notices, DataOf
<1>6. u = Append(t, x)
  OBVIOUS
<1> HIDE DEF x, u, s, r
<1>7. /\ ParentTypes(q, port, u, connected)
      /\ PendingOK(q, u, Sending) /\ SentOK(q, port, u, Sending)
      /\ PortOK(q, port, u, connected, Sending)
      /\ (Pending(q, u, Sending) <=> Pending(q, t, Sending))
      /\ \A e \in Child :
           /\ ReadsOK(q, port, u, connected, Sending, e)
           /\ Owed(q, u, Sending, e) = Owed(q, t, Sending, e)
           /\ x \notin DataOf(e) => PiecesOK(u, e) /\ BalanceOK(q, port, u, connected, Sending, e)
  <2>1. x.is \notin {"sent", "full"}
    BY <1>5
  <2>2. MoreTold(q, port, t, connected, u, x)
    BY <1>1, <1>5, <1>6, <2>1, ToldMore
  <2> QED BY <2>2 DEF MoreTold
<1>8. /\ KidOK(c1) /\ ReadsOK(q, t, port, connected, Sending, c1) \in BOOLEAN
      /\ ReadsOK(q, port, t, connected, Sending, c1) /\ PiecesOK(t, c1)
      /\ BalanceOK(q, port, t, connected, Sending, c1)
      /\ ToldOK(t, connected, Sending) /\ FirstOK(q, port) /\ NoneLeftOut(q, port, t, Sending)
  BY <1>1 DEF AllOK, KidsOK, ParentOK, ReadsOK
<1>9. r # <<>> /\ last[c1] # NULL /\ c1 \in linked \cap connected
  <2>1. last[c1] # NULL
    BY <1>2, <1>8 DEF KidOK, r
  <2>2. Begun(port, c1)
    BY <2>1 DEF Begun
  <2> QED BY <1>2, <1>8, <2>1, <2>2 DEF ReadsOK
<1>10. t \in Seq(Notices)
  BY <1>1 DEF AllOK, ParentTypes
<1>11. /\ u \in Seq(Notices) /\ Len(t) \in Nat /\ Len(u) = Len(t) + 1
       /\ DOMAIN t = 1..Len(t) /\ DOMAIN u = 1..Len(u) /\ u[Len(u)] = x
       /\ \A k \in 1..Len(t) : u[k] = t[k]
       /\ \A k \in 1..Len(t) + 1 : \A S : x \notin S => Later(u, k, S) = Later(t, k, S)
       /\ \A k \in 1..Len(t) + 1 : \A S : x \in S => Later(u, k, S) = Later(t, k, S) + 1
       /\ 1 \in 1..Len(t) + 1
  <2>1. More(Notices, u, t, x)
    BY <1>5, <1>6, <1>10, OneMore
  <2> QED BY <2>1 DEF More
<1>12. ToldOK(u, connected, Sending)
  BY <1>5, <1>8, <1>9, <1>11, ToldAppended
<1>13. /\ Unread(c1) \in 0..3 /\ Retries(c1) \in 0..1 /\ InPort(port, c1) \in 0..2
       /\ \A k \in Nat : Later(t, k, DataOf(c1)) \in Nat
  BY <1>1, CountsAreNumbers DEF AllOK
<1>14. reply'[c1] = s /\ \A e \in Child : e # c1 => reply'[e] = reply[e]
  BY <1>1, <1>2 DEF StateTypes
<1>15. Sending' = Sending
  BY <1>2 DEF Sending
<1>16. /\ InPort(port, c1)' = InPort(port, c1) /\ Unread(c1)' = Unread(c1)
       /\ Retries(c1)' = Retries(c1)
       /\ (Exact(port, Sending, c1)' <=> Exact(port, Sending, c1))
       /\ Owed(q, told, Sending, c1)' = Owed(q, u, Sending, c1)
       /\ Lacks(q, c1)' = Lacks(q, c1)
       /\ ReadsOK(q, port, told, connected, Sending, c1)'
  BY <1>2, <1>7, <1>15, ReadsCarried
<1>27. \A b \in 0..3 : b \in Int /\ b \in Nat
  OBVIOUS
<1>28. /\ Unread(c1) \in Nat /\ Retries(c1) \in Nat /\ InPort(port, c1) \in Nat
       /\ Retries(c1) \in Int
  <2>1. /\ Unread(c1) \in 0..3 /\ Retries(c1) \in 0..3 /\ InPort(port, c1) \in 0..3
    <3>1. 0..1 \subseteq 0..3 /\ 0..2 \subseteq 0..3
      OBVIOUS
    <3> QED BY <1>13, <3>1
  <2> QED BY <1>27, <2>1
<1>29. Len(r) \in Int /\ Len(s) = Len(r) - 1
  BY <1>4
<1>19. last[c1].no \in Nat
  <2>1. last[c1] \in Sharing!DataSet
    BY <1>1, <1>9, ShareNumbers DEF StateTypes
  <2> QED BY <2>1, DataSetFields
<1>30. last[c1].no \in Int
  BY <1>19
<1>31. ASSUME NEW m \in Int
       PROVE  /\ last[c1].no - Retries(c1) - Len(r) + (m + 1)
                   = last[c1].no - Retries(c1) - Len(s) + m
              /\ last[c1].no - Retries(c1) - Len(r) + 1
                   = last[c1].no - Retries(c1) - Len(s) + 1 - (0 + 1)
              /\ last[c1].no - Retries(c1) - Len(r) + 1 - m
                   = last[c1].no - Retries(c1) - Len(s) + 1 - (m + 1)
  <2> DEFINE n == last[c1].no
             b == Retries(c1)
             k == Len(r)
             l == Len(s)
  <2>1. n \in Int /\ b \in Int /\ k \in Int /\ l = k - 1
    BY <1>28, <1>29, <1>30
  <2> HIDE DEF n, b, k, l
  <2>2. /\ n - b - k + (m + 1) = n - b - l + m /\ n - b - k + 1 = n - b - l + 1 - (0 + 1)
        /\ n - b - k + 1 - m = n - b - l + 1 - (m + 1)
    BY <2>1
  <2> QED BY <2>2 DEF n, b, k, l
<1>17. KidOK(c1)'
  <2>1. /\ info[c1].sendIndex = (info[c1].readIndex + IF info[c1].retry THEN 2 ELSE 3) % 4
        /\ \A k \in 1..Len(r) :
             /\ info[c1].ds[(info[c1].sendIndex + 4 - k) % 4].no = 0
             /\ r[k] = last[c1].no - Retries(c1) - Len(r) + k
    BY SMTT(30), <1>8 DEF KidOK, r
  <2>2. \A k \in 1..Len(s) :
          /\ info[c1].ds[(info[c1].sendIndex + 4 - k) % 4].no = 0
          /\ s[k] = last[c1].no - Retries(c1) - Len(s) + k
    <3> SUFFICES ASSUME NEW k \in 1..Len(s)
                 PROVE  /\ info[c1].ds[(info[c1].sendIndex + 4 - k) % 4].no = 0
                        /\ s[k] = last[c1].no - Retries(c1) - Len(s) + k
      OBVIOUS
    <3>1. k \in 1..Len(r) /\ k + 1 \in 1..Len(r)
      BY <1>4
    <3>2. r[k + 1] = last[c1].no - Retries(c1) - Len(r) + (k + 1)
      BY <2>1, <3>1
    <3>4. k \in Int /\ s[k] = r[k + 1]
      BY <1>4
    <3>5. last[c1].no - Retries(c1) - Len(r) + (k + 1)
            = last[c1].no - Retries(c1) - Len(s) + k
      BY <1>31, <3>4
    <3>6. s[k] = last[c1].no - Retries(c1) - Len(s) + k
      BY <3>2, <3>4, <3>5
    <3> QED BY <2>1, <3>1, <3>6
  <2>3. /\ c1 \in linked' /\ last'[c1] # NULL
        /\ info'[c1].sendIndex = (info'[c1].readIndex + IF info'[c1].retry THEN 2 ELSE 3) % 4
    BY <1>2, <1>9, <2>1
  <2>4. \A k \in 1..Len(reply'[c1]) :
          /\ info'[c1].ds[(info'[c1].sendIndex + 4 - k) % 4].no = 0
          /\ reply'[c1][k] = last'[c1].no - Retries(c1)' - Len(reply'[c1]) + k
    BY <1>2, <1>14, <1>16, <2>2
  <2> QED BY <2>3, <2>4 DEF KidOK
<1>18. \A k \in 1..Len(u) : Later(u, k, DataOf(c1)) = Later(t, k, DataOf(c1)) + 1
  BY <1>5, <1>11
<1>20. PiecesOK(told, c1)'
  <2> SUFFICES ASSUME NEW k \in 1..Len(u), u[k].is = "data", u[k].child = c1
               PROVE  /\ last[c1] # NULL
                      /\ u[k].piece = last[c1].no - Retries(c1) - Len(s) + 1
                                        - Later(u, k, DataOf(c1))
    BY <1>2, <1>11, <1>14, <1>16 DEF PiecesOK, Later, Hits, DataOf
  <2>1. Later(t, k, DataOf(c1)) \in Nat
    BY <1>13
  <2>2. CASE k = Len(u)
    <3>1. r[1] = last[c1].no - Retries(c1) - Len(r) + 1
      <4>1. 1 \in 1..Len(r)
        BY <1>4
      <4> QED BY <1>8, <4>1 DEF KidOK, r
    <3>2. Later(t, k, DataOf(c1)) = 0
      <4>1. k \in Nat /\ k > Len(t)
        BY <1>11, <2>2
      <4>2. \A n \in k..Len(t) : t[n] \notin DataOf(c1)
        BY <1>11, <4>1
      <4> QED BY <1>10, <4>1, <4>2, LaterIsCount
    <3>3. u[k].piece = r[1] /\ Later(u, k, DataOf(c1)) = 0 + 1
      BY <1>5, <1>11, <1>18, <2>2, <3>2
    <3>4. last[c1].no - Retries(c1) - Len(r) + 1
            = last[c1].no - Retries(c1) - Len(s) + 1 - (0 + 1)
      <4>1. 0 \in Int
        OBVIOUS
      <4> QED BY <1>31, <4>1
    <3> QED BY <1>9, <3>1, <3>3, <3>4
  <2>3. CASE k # Len(u)
    <3>1. k \in 1..Len(t) /\ u[k] = t[k]
      BY <1>11, <2>3
    <3>2. t[k].piece = last[c1].no - Retries(c1) - Len(r) + 1 - Later(t, k, DataOf(c1))
      BY <1>2, <1>8, <1>11, <3>1 DEF PiecesOK, r
    <3>3. u[k].piece = t[k].piece /\ Later(u, k, DataOf(c1)) = Later(t, k, DataOf(c1)) + 1
      BY <1>18, <3>1
    <3>4. Later(t, k, DataOf(c1)) \in Int
      BY <2>1
    <3>5. last[c1].no - Retries(c1) - Len(r) + 1 - Later(t, k, DataOf(c1))
            = last[c1].no - Retries(c1) - Len(s) + 1 - (Later(t, k, DataOf(c1)) + 1)
      BY <1>31, <3>4
    <3> QED BY <1>9, <3>2, <3>3, <3>5
  <2> QED BY <2>2, <2>3
<1>21. BalanceOK(q, port, told, connected, Sending, c1)'
  <2>1. OnTheWay(port, told, c1)' = OnTheWay(port, t, c1)
    <3>1. Later(told, 1, DataOf(c1))' = Later(u, 1, DataOf(c1))
      BY <1>2 DEF Later, Hits, DataOf, Sharing!Piece
    <3>2. Later(u, 1, DataOf(c1)) = Later(t, 1, DataOf(c1)) + 1 /\ Later(t, 1, DataOf(c1)) \in Nat
      BY <1>5, <1>11, <1>13
    <3>3. Len(reply[c1])' = Len(r) - 1
      BY <1>4, <1>14
    <3>4. /\ Len(r) - 1 + 1 = Len(r)
          /\ InPort(port, c1) + Unread(c1) + Retries(c1) + (Len(r) - 1)
               + (Later(t, 1, DataOf(c1)) + 1)
             = InPort(port, c1) + Unread(c1) + Retries(c1) + Len(r) + Later(t, 1, DataOf(c1))
      <4>1. \A k, l, m, n, b \in Nat : k + l + m + (n - 1) + (b + 1) = k + l + m + n + b
        OBVIOUS
      <4>2. Later(t, 1, DataOf(c1)) \in Nat /\ Len(r) \in Nat
        BY <1>4, <3>2
      <4> QED BY <1>28, <4>1, <4>2
    <3>5. OnTheWay(port, told, c1)' = InPort(port, c1) + Unread(c1) + Retries(c1) + (Len(r) - 1)
                                        + (Later(t, 1, DataOf(c1)) + 1)
      BY <1>16, <3>1, <3>2, <3>3 DEF OnTheWay
    <3>6. OnTheWay(port, t, c1) = InPort(port, c1) + Unread(c1) + Retries(c1) + Len(r)
                                    + Later(t, 1, DataOf(c1))
      BY DEF OnTheWay, r
    <3> QED BY <3>4, <3>5, <3>6
  <2>2. Unanswered(q, port, told, Sending, c1)' = Unanswered(q, port, t, Sending, c1)
    BY <1>7, <1>16, <2>1 DEF Unanswered
  <2> QED BY <1>2, <1>8, <1>16, <2>2 DEF BalanceOK
<1>22. NoneLeftOut(q, port, told, Sending)'
  <2>1. Pending(q, told, Sending)' <=> Pending(q, u, Sending)
    BY <1>2, <1>15, ParentCarried
  <2>2. \A e : Begun(port, e)' <=> Begun(port, e)
    BY <1>2 DEF Begun, Unread, InPort, One
  <2> QED BY <1>2, <1>7, <1>8, <2>1, <2>2 DEF NoneLeftOut
<1>23. \A d \in Known(q, port)' : d \in Known(q, port)
  BY <1>2 DEF Known, Under
<1>24. reply' \in [Child -> Seq(Sharing!Piece)]
  BY <1>1, <1>2, <1>4 DEF StateTypes
<1>25. \A e \in Child : e # c1 =>
         /\ Idle(e) /\ ReadsOK(info[0], port, u, connected, Sending, e)
         /\ PiecesOK(u, e) /\ BalanceOK(info[0], port, u, connected, Sending, e)
  BY <1>2, <1>5, <1>7, <1>14 DEF Idle
<1>26. info' \in [Sharing!Station -> Rings]
       /\ last' \in [Sharing!Station -> Sharing!DataSet \cup {NULL}]
  BY <1>1, <1>2 DEF StateTypes
<1> QED BY <1>2, <1>7, <1>8, <1>12, <1>16, <1>17, <1>20, <1>21, <1>22, <1>23, <1>24, <1>25, <1>26,
           OneCarried

\* A packet that one more child has been given.
LEMMA PacketGiven ==
  ASSUME NEW b \in Packets, NEW e
  PROVE  /\ GivenTo(b, e) \in Packets
         /\ GivenTo(b, e).set = b.set /\ GivenTo(b, e).slot = b.slot
         /\ GivenTo(b, e).rest = b.rest \ {e} /\ GivenTo(b, e).new = FALSE
<1> DEFINE z == GivenTo(b, e)
<1>1. PICK sl \in Slot, st \in Sharing!DataSet, rs \in SUBSET Child, nw \in BOOLEAN :
        b = [slot |-> sl, set |-> st, rest |-> rs, new |-> nw]
  BY DEF Packets
<1>2. z = [b EXCEPT !.rest = @ \ {e}, !.new = FALSE]
  BY DEF GivenTo
<1> HIDE DEF z
<1>3. z = [slot |-> sl, set |-> st, rest |-> rs \ {e}, new |-> FALSE]
  BY <1>1, <1>2
<1>4. z \in Packets
  <2>1. rs \ {e} \in SUBSET Child /\ FALSE \in BOOLEAN
    OBVIOUS
  <2> QED BY <1>3, <2>1 DEF Packets
<1>5. z \in Packets /\ z.set = b.set /\ z.slot = b.slot /\ z.rest = b.rest \ {e} /\ z.new = FALSE
  BY <1>1, <1>3, <1>4
<1> QED BY <1>5 DEF z

\* The packet a child is given next is the first that it has not had.
LEMMA HandedFirst ==
  ASSUME NEW p \in Seq(Packets), NEW e, NEW k, NEW z \in Packets, k \in DOMAIN p,
         e \in p[k].rest, \A n \in DOMAIN p : e \in p[n].rest => k <= n,
         z.set = p[k].set, z.slot = p[k].slot, z.rest = p[k].rest \ {e}, z.new = FALSE,
         NEW f, f = [p EXCEPT ![k] = z]
  PROVE  Handed(p, f, k, e)
<1>1. Len(p) \in Nat /\ DOMAIN p = 1..Len(p) /\ k \in 1..Len(p) /\ p[k] \in Packets
  OBVIOUS
<1>2. \A j \in 1..Len(p) : j < k => e \notin p[j].rest
  <2> SUFFICES ASSUME NEW j \in 1..Len(p), j < k, e \in p[j].rest PROVE FALSE
    OBVIOUS
  <2>1. k <= j /\ k \in Nat /\ j \in Nat
    BY <1>1
  <2> QED BY <2>1
<1>3. f \in [1..Len(p) -> Packets] /\ f[k] = z /\ \A j \in 1..Len(p) : j # k => f[j] = p[j]
  BY <1>1
<1>4. f \in Seq(Packets) /\ Len(f) = Len(p) /\ DOMAIN f = 1..Len(p)
  BY <1>1, <1>3
<1>5. \A j \in 1..Len(p) : f[j].set = p[j].set /\ f[j].slot = p[j].slot
  BY <1>3
<1>6. f[k].rest = p[k].rest \ {e} /\ f[k].new = FALSE
  BY <1>3
<1> QED BY <1>1, <1>2, <1>3, <1>4, <1>5, <1>6 DEF Handed

\* The port after a child is given the first packet it has not had.
LEMMA HandedFacts ==
  ASSUME NEW p \in Seq(Packets), NEW e, NEW due, NEW k,
         due = {n \in DOMAIN p : e \in p[n].rest}, due # {}, k = Sharing!Min(due)
  PROVE  Handed(p, [p EXCEPT ![k].rest = @ \ {e}, ![k].new = FALSE], k, e)
<1> DEFINE z == GivenTo(p[k], e)
<1>1. k \in due /\ \A n \in due : k <= n
  <2>1. due \subseteq Nat /\ \E m \in due : \A n \in due : m <= n
    <3>1. due \subseteq Nat
      OBVIOUS
    <3> QED BY <3>1, MinIsLeast
  <2>2. Sharing!Min(due) \in due /\ \A n \in due : Sharing!Min(due) <= n
    BY <2>1 DEF Sharing!Min
  <2> QED BY <2>2
<1>2. k \in DOMAIN p /\ e \in p[k].rest /\ \A n \in DOMAIN p : e \in p[n].rest => k <= n
  BY <1>1
<1>3. p[k] \in Packets
  BY <1>2
<1>4. /\ z \in Packets /\ z.set = p[k].set /\ z.slot = p[k].slot /\ z.rest = p[k].rest \ {e}
      /\ z.new = FALSE
  BY <1>3, PacketGiven
<1>5. [p EXCEPT ![k].rest = @ \ {e}, ![k].new = FALSE] = [p EXCEPT ![k] = z]
  BY <1>2 DEF GivenTo
<1> HIDE DEF z
<1>6. Handed(p, [p EXCEPT ![k] = z], k, e)
  BY <1>2, <1>4, HandedFirst
<1> QED BY <1>5, <1>6

\* The parent's side of a packet given to a child.
LEMMA HandedKeeps ==
  ASSUME ShareAssumption, StateTypes, NEW q, NEW p, NEW t, NEW con, AllOK(q, p, t, con, Sending),
         NEW f, NEW k, NEW c1 \in Child, Handed(p, f, k, c1)
  PROVE  HandedOver(q, p, f, t, con, k, c1)
<1> DEFINE o == Sending
           m == NextPut(q, t, o)
<1>1. /\ ParentTypes(q, p, t, con) /\ RingOK(q) /\ SentOK(q, p, t, o) /\ PortOK(q, p, t, con, o)
      /\ FirstOK(q, p)
      /\ \A e \in Child : ReadsOK(q, p, t, con, o, e) /\ BalanceOK(q, p, t, con, o, e)
  BY DEF AllOK, ParentOK, KidsOK
<1> HIDE DEF o
<1>2. /\ f \in Seq(Packets) /\ Len(p) \in Nat /\ Len(f) = Len(p)
      /\ DOMAIN p = 1..Len(p) /\ DOMAIN f = 1..Len(p) /\ k \in 1..Len(p)
      /\ c1 \in p[k].rest /\ p[k] \in Packets
      /\ f[k].rest = p[k].rest \ {c1} /\ f[k].new = FALSE
  BY DEF Handed
<1>3. /\ \A j \in 1..Len(p) : f[j].set = p[j].set /\ f[j].slot = p[j].slot
      /\ \A j \in 1..Len(p) : j # k => f[j] = p[j]
      /\ \A j \in 1..Len(p) : j < k => c1 \notin p[j].rest
  BY DEF Handed
<1>4. Len(p) \in 1..2 /\ k \in 1..2
  <2>1. Len(p) \in 0..2
    BY <1>1, FewPut DEF AllOK, ParentTypes
  <2> QED BY <1>2, <2>1
<1>5. \A n \in 1..Len(p) : f[n].rest \subseteq p[n].rest
  BY <1>2, <1>3
<1>6. ParentTypes(q, f, t, con)
  BY <1>1, <1>2 DEF ParentTypes
<1>7. SentOK(q, f, t, o)
  <2>1. Out(q, f, t, o) = Out(q, p, t, o)
    BY <1>2 DEF Out
  <2> QED BY <1>1, <2>1 DEF SentOK
<1>8. PortOK(q, f, t, con, o)
  <2> SUFFICES ASSUME NEW n \in 1..Len(p)
               PROVE  /\ f[n].rest \subseteq linked \cap con
                      /\ \A h \in o : f[n].rest \subseteq h.dest
                      /\ doubleMode => f[n].rest \subseteq f[n].set.aidBitmap
                      /\ \A l \in 1..Len(p) : n < l => f[n].rest \subseteq f[l].rest
                      /\ f[n].rest # {} =>
                           /\ f[n].set.no = m + n - Len(f) - 1
                           /\ f[n].slot = SlotOf(f[n].set.no)
                           /\ Child \subseteq f[n].set.aidBitmap \/ f[n].set.no <= Ahead
    BY <1>2 DEF PortOK
  <2>1. /\ p[n].rest \subseteq linked \cap con
        /\ \A h \in o : p[n].rest \subseteq h.dest
        /\ doubleMode => p[n].rest \subseteq p[n].set.aidBitmap
        /\ \A l \in 1..Len(p) : n < l => p[n].rest \subseteq p[l].rest
        /\ p[n].rest # {} =>
             /\ p[n].set.no = m + n - Len(p) - 1
             /\ p[n].slot = SlotOf(p[n].set.no)
             /\ Child \subseteq p[n].set.aidBitmap \/ p[n].set.no <= Ahead
    BY <1>1, <1>2 DEF PortOK
  <2>2. \A l \in 1..Len(p) : n < l => f[n].rest \subseteq f[l].rest
    <3> SUFFICES ASSUME NEW l \in 1..Len(p), n < l PROVE f[n].rest \subseteq f[l].rest
      OBVIOUS
    <3>1. p[n].rest \subseteq p[l].rest
      BY <2>1
    <3>2. CASE l = k
      BY <1>2, <1>3, <1>5, <3>1, <3>2
    <3>3. CASE l # k
      BY <1>3, <1>5, <3>1, <3>3
    <3> QED BY <3>2, <3>3
  <2>3. f[n].rest \subseteq p[n].rest /\ f[n].set = p[n].set /\ f[n].slot = p[n].slot
        /\ Len(f) = Len(p)
    BY <1>2, <1>3, <1>5
  <2> QED BY <2>1, <2>2, <2>3
<1>9. FirstOK(q, f)
  BY <1>1, <1>2, <1>3 DEF FirstOK
<1>10. ASSUME NEW e \in Child, e # c1
       PROVE  /\ InPort(f, e) = InPort(p, e)
              /\ ReadsOK(q, f, t, con, o, e) /\ BalanceOK(q, f, t, con, o, e)
  <2>1. \A n \in 1..Len(p) : e \in f[n].rest <=> e \in p[n].rest
    BY <1>2, <1>3, <1>10
  <2>2. InPort(f, e) = InPort(p, e)
    <3>1. (1 <= Len(f) /\ e \in f[1].rest) <=> (1 <= Len(p) /\ e \in p[1].rest)
      BY <1>2, <2>1
    <3>2. (2 <= Len(f) /\ e \in f[2].rest) <=> (2 <= Len(p) /\ e \in p[2].rest)
      BY <1>2, <2>1
    <3> QED BY <3>1, <3>2 DEF InPort, One
  <2>3. Begun(f, e) <=> Begun(p, e)
    BY <2>2 DEF Begun
  <2>4. FirstUnread(q, f, t, o, e) = FirstUnread(q, p, t, o, e)
    BY <2>2 DEF FirstUnread
  <2>5. \A n \in DOMAIN f : f[n].new => n \in DOMAIN p /\ p[n].new
    BY <1>2, <1>3
  <2>6. ReadsOK(q, f, t, con, o, e)
    BY <1>1, <1>2, <2>1, <2>3, <2>4, <2>5 DEF ReadsOK
  <2>7. Exact(f, o, e) => Exact(p, o, e)
    <3> SUFFICES ASSUME f # <<>> /\ f[Len(f)].new /\ e \notin f[Len(f)].rest
                 PROVE  p # <<>> /\ p[Len(p)].new /\ e \notin p[Len(p)].rest
      BY DEF Exact
    <3>1. Len(p) \in 1..Len(p) /\ Len(p) \in DOMAIN f
      BY <1>2, <1>4
    <3>2. p # <<>>
      BY <1>2, <1>4
    <3> QED BY <1>2, <2>1, <2>5, <3>1, <3>2
  <2>8. Unanswered(q, f, t, o, e) = Unanswered(q, p, t, o, e)
    BY <2>2 DEF Unanswered, OnTheWay
  <2> QED BY <1>1, <2>2, <2>6, <2>7, <2>8 DEF BalanceOK
<1>11. \A n \in k..Len(p) : c1 \in p[n].rest
  <2> SUFFICES ASSUME NEW n \in k..Len(p), n # k PROVE c1 \in p[n].rest
    BY <1>2
  <2>1. k \in DOMAIN p /\ n \in DOMAIN p /\ k < n
    BY <1>2
  <2>2. p[k].rest \subseteq p[n].rest
    BY <1>1, <2>1 DEF PortOK
  <2> QED BY <1>2, <2>2
<1>12. InPort(p, c1) = Len(p) - k + 1 /\ InPort(f, c1) = Len(p) - k
  <2>1. \A n \in 1..Len(p) : /\ c1 \in p[n].rest <=> n >= k
                             /\ c1 \in f[n].rest <=> n > k
    <3> SUFFICES ASSUME NEW n \in 1..Len(p)
                 PROVE  (c1 \in p[n].rest <=> n >= k) /\ (c1 \in f[n].rest <=> n > k)
      OBVIOUS
    <3>1. CASE n = k
      BY <1>2, <1>4, <3>1
    <3>2. CASE n < k
      BY <1>2, <1>3, <1>4, <3>2
    <3>3. CASE n > k
      <4>1. n \in k..Len(p)
        BY <1>2, <3>3
      <4> QED BY <1>2, <1>3, <1>4, <1>11, <3>3, <4>1
    <3> QED BY <1>2, <3>1, <3>2, <3>3
  <2>2. Len(f) = Len(p)
    BY <1>2
  <2>3. CASE Len(p) = 1
    <3>1. k = 1 /\ 1 \in 1..Len(p)
      BY <1>2, <2>3
    <3>2. c1 \in p[1].rest /\ c1 \notin f[1].rest
      BY <2>1, <3>1
    <3>3. InPort(p, c1) = 1 /\ InPort(f, c1) = 0
      BY <2>2, <2>3, <3>2 DEF InPort, One
    <3> QED BY <2>3, <3>1, <3>3
  <2>4. CASE Len(p) = 2 /\ k = 1
    <3>1. 1 \in 1..Len(p) /\ 2 \in 1..Len(p)
      BY <2>4
    <3>2. c1 \in p[1].rest /\ c1 \notin f[1].rest /\ c1 \in p[2].rest /\ c1 \in f[2].rest
      BY <2>1, <2>4, <3>1
    <3>3. InPort(p, c1) = 2 /\ InPort(f, c1) = 1
      BY <2>2, <2>4, <3>2 DEF InPort, One
    <3> QED BY <2>4, <3>3
  <2>5. CASE Len(p) = 2 /\ k = 2
    <3>1. 1 \in 1..Len(p) /\ 2 \in 1..Len(p)
      BY <2>5
    <3>2. c1 \notin p[1].rest /\ c1 \notin f[1].rest /\ c1 \in p[2].rest /\ c1 \notin f[2].rest
      BY <2>1, <2>5, <3>1
    <3>3. InPort(p, c1) = 1 /\ InPort(f, c1) = 0
      BY <2>2, <2>5, <3>2 DEF InPort, One
    <3> QED BY <2>5, <3>3
  <2>6. Len(p) = 1 \/ (Len(p) = 2 /\ k = 1) \/ (Len(p) = 2 /\ k = 2)
    BY <1>4
  <2> QED BY <2>3, <2>4, <2>5, <2>6
<1>13. /\ p[k].set.no = m - InPort(p, c1)
       /\ Child \subseteq p[k].set.aidBitmap \/ p[k].set.no <= Ahead
  <2>1. k \in DOMAIN p /\ p[k].rest # {}
    BY <1>2
  <2>2. /\ p[k].set.no = m + k - Len(p) - 1
        /\ Child \subseteq p[k].set.aidBitmap \/ p[k].set.no <= Ahead
    BY <1>1, <2>1 DEF PortOK
  <2>3. m \in Int
    <3>1. Under(q) \in Nat /\ Unput(q, t, o) \in Nat
      BY <1>1, RingNumbers DEF ParentTypes, Unput
    <3> QED BY <3>1 DEF NextPut
  <2> HIDE DEF m
  <2>4. m + k - Len(p) - 1 = m - (Len(p) - k + 1)
    BY <1>2, <2>3
  <2> QED BY <1>12, <2>2, <2>4
<1>14. \A n \in DOMAIN f : f[n].new => n # k /\ f[n] = p[n]
  BY <1>2, <1>3
<1>15. Exact(f, o, c1) => Exact(p, o, c1)
  <2> SUFFICES ASSUME f # <<>> /\ f[Len(f)].new /\ c1 \notin f[Len(f)].rest PROVE FALSE
    BY DEF Exact
  <2>1. Len(p) \in k..Len(p) /\ Len(p) \in DOMAIN f
    BY <1>2, <1>4
  <2>2. Len(p) # k /\ f[Len(p)] = p[Len(p)]
    <3>1. Len(f) \in DOMAIN f /\ f[Len(f)].new
      BY <1>2, <2>1
    <3>2. Len(f) # k /\ f[Len(f)] = p[Len(f)]
      BY <1>14, <3>1
    <3>3. Len(f) = Len(p)
      BY <1>2
    <3> QED BY <3>2, <3>3
  <2> QED BY <1>2, <1>11, <2>1, <2>2
<1>16. \A n \in DOMAIN f : f[n].rest \subseteq p[n].rest /\ f[n].set = p[n].set
  BY <1>2, <1>3, <1>5
<1> QED BY <1>6, <1>7, <1>8, <1>9, <1>10, <1>12, <1>13, <1>14, <1>15, <1>16 DEF HandedOver, o

\* Sets in the port were known, and none comes to it when a child is given one.
LEMMA HandedKnown ==
  ASSUME NEW p, NEW f, NEW q, info' = info, last' = last, port' = f, info[0] = q, port = p,
         DOMAIN f = DOMAIN p,
         \A n \in DOMAIN f : f[n].rest \subseteq p[n].rest /\ f[n].set = p[n].set
  PROVE  \A d \in Known(info[0], port)' : d \in Known(info[0], port)
<1>1. \A n \in DOMAIN f : f[n].rest # {} => p[n].rest # {}
  OBVIOUS
<1>2. {f[n].set : n \in {l \in DOMAIN f : f[l].rest # {}}}
        \subseteq {p[n].set : n \in {l \in DOMAIN p : p[l].rest # {}}}
  BY <1>1
<1>3. Sharing!Station' = Sharing!Station
  BY DEF Sharing!Station
<1> QED BY <1>2, <1>3 DEF Known, Under

\* A child is given a set that it is not in: the first, and that it does not know of.
LEMMA DeliverPast ==
  ASSUME ShareAssumption, ShareInv,
         UNCHANGED <<info, last, step, connected, linked, told, reply, changes, doubleMode>>,
         NEW c1 \in Child, NEW f, NEW k, port' = f, Handed(port, f, k, c1),
         HandedOver(info[0], port, f, told, connected, k, c1), c1 \notin port[k].set.aidBitmap
  PROVE  ShareInv'
<1> DEFINE q == info[0]
           p == port
           t == told
           con == connected
           o == Sending
<1>1. StateTypes /\ PlaceOK(q) /\ AllOK(q, p, t, con, o)
  BY DEF ShareInv
<1>2. /\ ParentTypes(q, p, t, con) /\ RingOK(q) /\ SentOK(q, p, t, o) /\ PortOK(q, p, t, con, o)
      /\ FirstOK(q, p) /\ ToldOK(t, con, o) /\ PendingOK(q, t, o) /\ NoneLeftOut(q, p, t, o)
      /\ \A e \in Child : /\ KidOK(e) /\ ReadsOK(q, p, t, con, o, e) /\ PiecesOK(t, e)
                          /\ BalanceOK(q, p, t, con, o, e)
  BY <1>1 DEF AllOK, ParentOK, KidsOK
<1>3. /\ Len(p) \in Nat /\ k \in 1..Len(p) /\ DOMAIN p = 1..Len(p) /\ DOMAIN f = DOMAIN p
      /\ c1 \in p[k].rest
  BY DEF Handed
<1>4. /\ ParentTypes(q, f, t, con) /\ SentOK(q, f, t, o) /\ PortOK(q, f, t, con, o)
      /\ FirstOK(q, f)
      /\ \A e \in Child : e # c1 =>
           ReadsOK(q, f, t, con, o, e) /\ BalanceOK(q, f, t, con, o, e)
  BY DEF HandedOver
<1>5. /\ InPort(p, c1) = Len(p) - k + 1 /\ InPort(f, c1) = Len(p) - k
      /\ p[k].set.no = NextPut(q, t, o) - InPort(p, c1)
      /\ Child \subseteq p[k].set.aidBitmap \/ p[k].set.no <= Ahead
      /\ Exact(f, o, c1) => Exact(p, o, c1)
      /\ \A n \in DOMAIN f : f[n].rest \subseteq p[n].rest /\ f[n].set = p[n].set
  BY DEF HandedOver
<1> HIDE DEF q, p, t, con, o
<1>6. /\ InPort(p, c1) \in 0..2 /\ Unread(c1) \in 0..3 /\ Retries(c1) \in 0..1
      /\ Len(reply[c1]) \in Nat /\ Owed(q, t, o, c1) \in 0..1
      /\ Later(t, 1, DataOf(c1)) \in Nat /\ Unput(q, t, o) \in 0..1
      /\ Unanswered(q, p, t, o, c1) = Owed(q, t, o, c1) + OnTheWay(p, t, c1)
      /\ Unanswered(q, f, t, o, c1) = Owed(q, t, o, c1) + OnTheWay(f, t, c1)
  <2>1. 1 \in Nat
    OBVIOUS
  <2> QED BY <1>1, <1>2, <1>4, <2>1, CountsAreNumbers
<1>7. ~doubleMode /\ Ahead = 1
  <2>1. doubleMode => p[k].rest \subseteq p[k].set.aidBitmap
    BY <1>2, <1>3 DEF PortOK
  <2> QED BY <1>1, <1>3, <2>1, ShareNumbers DEF p
<1>8. Begun(p, c1)
  <2>1. InPort(p, c1) > 0
    BY <1>3, <1>5
  <2> QED BY <2>1 DEF Begun
<1>9. /\ c1 \in linked \cap con
      /\ NextPut(q, t, o) - InPort(p, c1) - Unread(c1) >= 1
      /\ last[c1] # NULL => /\ last[c1].no = NextPut(q, t, o) - InPort(p, c1) - Unread(c1) - 1
                            /\ last[c1].no >= 1
  BY <1>2, <1>8 DEF ReadsOK, FirstUnread
<1>10. /\ Under(q) \in Nat /\ Len(p) + Unput(q, t, o) <= 1
  <2>1. q \in Rings
    BY <1>2 DEF ParentTypes
  <2> QED BY <1>1, <1>2, <1>7, <2>1, FewPut, RingNumbers
<1>11. p[k].set.no <= 1
  BY <1>5, <1>7 DEF p
<1>12. Len(p) = 1 /\ k = 1 /\ Unput(q, t, o) = 0
  BY <1>3, <1>6, <1>10
<1>13. InPort(p, c1) = 1 /\ InPort(f, c1) = 0 /\ NextPut(q, t, o) = Under(q)
  BY <1>5, <1>10, <1>12 DEF NextPut
<1>14. Under(q) = 2 /\ Unread(c1) = 0 /\ last[c1] = NULL
  <2>1. Under(q) - 1 <= 1 /\ Under(q) - 1 - Unread(c1) >= 1
    BY <1>5, <1>9, <1>11, <1>13
  <2>2. Under(q) = 2 /\ Unread(c1) = 0
    BY <1>6, <1>10, <2>1
  <2> QED BY <1>9, <1>13, <2>2
<1>15. ReadsOK(q, f, t, con, o, c1)
  BY <1>13, <1>14 DEF ReadsOK, Begun
<1>16. Lacks(q, c1) = 0
  <2>1. Held(q, 2).aidBitmap \subseteq p[k].set.aidBitmap \cup {0}
    BY <1>2, <1>3, <1>7, <1>14 DEF FirstOK
  <2>2. c1 # 0
    BY DEF ShareAssumption
  <2>3. c1 \notin Held(q, Under(q)).aidBitmap
    BY <1>14, <2>1, <2>2 DEF p
  <2> QED BY <1>7, <2>3 DEF Lacks, One
<1>17. Unanswered(q, p, t, o, c1) = 1 /\ Unanswered(q, f, t, o, c1) = 0 /\ changes # 0
  <2>1. /\ Unanswered(q, p, t, o, c1) - 0 \in 0..1
        /\ Exact(p, o, c1) => Unanswered(q, p, t, o, c1) = 0
    BY <1>2, <1>9, <1>16 DEF BalanceOK
  <2>2. /\ OnTheWay(p, t, c1) = 1 + 0 + Retries(c1) + Len(reply[c1]) + Later(t, 1, DataOf(c1))
        /\ OnTheWay(f, t, c1) = 0 + 0 + Retries(c1) + Len(reply[c1]) + Later(t, 1, DataOf(c1))
    BY <1>13, <1>14 DEF OnTheWay
  <2> DEFINE b == Retries(c1)
             l == Len(reply[c1])
             m == Later(t, 1, DataOf(c1))
             n == Owed(q, t, o, c1)
  <2>3. b \in Nat /\ l \in Nat /\ m \in Nat /\ n \in Nat
    BY <1>6
  <2>4. /\ Unanswered(q, p, t, o, c1) = n + (1 + 0 + b + l + m)
        /\ Unanswered(q, f, t, o, c1) = n + (0 + 0 + b + l + m)
    BY <1>6, <2>2
  <2> HIDE DEF b, l, m, n
  <2>5. Unanswered(q, p, t, o, c1) = 1 /\ Unanswered(q, f, t, o, c1) = 0
    BY <2>1, <2>3, <2>4
  <2>6. ~Exact(p, o, c1)
    BY <2>1, <2>5
  <2> QED BY <2>5, <2>6 DEF Exact
<1>18. BalanceOK(q, f, t, con, o, c1)
  BY <1>16, <1>17 DEF BalanceOK
<1>19. info'[0] = q /\ told' = t /\ connected' = con /\ Sending' = o
  BY DEF q, t, con, o, Sending
<1>20. \A e \in Child : Idle(e)
  BY DEF Idle
<1>21. /\ KidOK(c1)' /\ ReadsOK(info[0], port, told, connected, Sending, c1)'
       /\ PiecesOK(told, c1)' /\ BalanceOK(info[0], port, told, connected, Sending, c1)'
  BY <1>2, <1>15, <1>18, <1>19, <1>20, KidCarried
<1>22. NoneLeftOut(info[0], port, told, Sending)'
  BY <1>17 DEF NoneLeftOut
<1>23. \A d \in Known(info[0], port)' : d \in Known(info[0], port)
  BY <1>3, <1>5, HandedKnown DEF q, p
<1>24. /\ info' \in [Sharing!Station -> Rings]
       /\ last' \in [Sharing!Station -> Sharing!DataSet \cup {NULL}]
       /\ reply' \in [Child -> Seq(Sharing!Piece)] /\ info'[0] = info[0] /\ last'[0] = last[0]
  BY <1>1 DEF StateTypes
<1>25. ParentTypes(info[0], f, told, connected) /\ PendingOK(info[0], told, Sending)
       /\ SentOK(info[0], f, told, Sending) /\ PortOK(info[0], f, told, connected, Sending)
       /\ ToldOK(told, connected, Sending) /\ FirstOK(info[0], f)
       /\ \A e \in Child : e # c1 =>
            /\ Idle(e) /\ ReadsOK(info[0], f, told, connected, Sending, e)
            /\ PiecesOK(told, e) /\ BalanceOK(info[0], f, told, connected, Sending, e)
  BY <1>2, <1>4, <1>20 DEF q, t, con, o
<1> QED BY <1>21, <1>22, <1>23, <1>24, <1>25, OneCarried

\* The ring of a child that has kept a set.
LEMMA KeptFacts ==
  ASSUME NEW b \in Rings, NEW s \in Sharing!DataSet
  PROVE  KeptInto(b, WithSet(b, s), s)
<1> DEFINE z == WithSet(b, s)
<1>1. PICK ds \in [Slot -> Sharing!DataSet], w \in Slot, r \in Slot, n \in Slot, rt \in BOOLEAN :
        b = [ds |-> ds, writeIndex |-> w, readIndex |-> r, sendIndex |-> n, retry |-> rt]
  BY DEF Rings
<1>2. z = [b EXCEPT !.ds[b.writeIndex] = s, !.writeIndex = Sharing!Next4(@)]
  BY DEF WithSet
<1> HIDE DEF z
<1> DEFINE fs == [ds EXCEPT ![w] = s]
           nw == Sharing!Next4(w)
<1>3. /\ fs \in [Slot -> Sharing!DataSet] /\ fs[w] = s
      /\ \A k \in Slot : k # w => fs[k] = ds[k]
  OBVIOUS
<1>4. nw \in Slot
  BY SlotFacts
<1>5. z = [ds |-> fs, writeIndex |-> nw, readIndex |-> r, sendIndex |-> n, retry |-> rt]
  BY <1>1, <1>2
<1> HIDE DEF fs, nw
<1>6. z \in Rings
  BY <1>3, <1>4, <1>5 DEF Rings
<1>7. /\ z.readIndex = b.readIndex /\ z.sendIndex = b.sendIndex /\ z.retry = b.retry
      /\ z.writeIndex = Sharing!Next4(b.writeIndex) /\ z.ds[b.writeIndex] = s
      /\ \A k \in Slot : k # b.writeIndex => z.ds[k] = b.ds[k]
  BY <1>1, <1>3, <1>5 DEF nw
<1> QED BY <1>6, <1>7 DEF KeptInto, z

\* Slots of a child: where it writes next, and which are not written yet.
LEMMA KidSlots ==
  ASSUME NEW w \in Slot, NEW r \in Slot, NEW n, n = (w + 4 - r) % 4
  PROVE  /\ n \in 0..3 /\ w = (r + n) % 4
         /\ n <= 2 => (Sharing!Next4(w) + 4 - r) % 4 = n + 1
         /\ \A k \in 0..3 : k # n => (r + k) % 4 # w
         /\ \A k \in 0..3 : (r + k) % 4 \in Slot
         /\ \A k \in 1..2 : n + k <= 2 => /\ (((r + 3) % 4) + 4 - k) % 4 # w
                                          /\ (((r + 3) % 4) + 4 - k) % 4 \in Slot
         /\ n + 2 <= 2 => (((r + 2) % 4) + 4 - 1) % 4 # w
         /\ n + 1 + 1 <= 2 => (((r + 2) % 4) + 4 - 1) % 4 # w
         /\ (((r + 2) % 4) + 4 - 1) % 4 \in Slot
<1>1. w \in 0..3 /\ r \in 0..3
  BY SlotFacts
<1>2. Slot = 0..3
  BY SlotFacts
<1> QED BY <1>1, <1>2 DEF Sharing!Next4, Sharing!DATASET_NUM

\* A set is known from the parent's ring, the port, or a station.
LEMMA KnownCases ==
  ASSUME NEW q, NEW p
  PROVE  \A d : d \in Known(q, p) <=> KnownAt(q, p, last, info, d)
BY DEF Known, KnownAt

\* The same after a step.
LEMMA KnownLanded ==
  ASSUME NEW q, NEW p, info'[0] = q, port' = p
  PROVE  \A d : d \in Known(info[0], port)' <=> KnownAt(q, p, last', info', d)
<1>1. /\ Sharing!Station' = Sharing!Station /\ Slot' = Slot /\ Under(info[0])' = Under(q)
      /\ info[0]' = q
  BY DEF Sharing!Station, Slot, Sharing!Slot, Under
<1>2. Known(info[0], port)' =
        {q.ds[k] : k \in {n \in Slot : q.ds[n].no < Under(q)}}
          \cup {p[k].set : k \in {n \in DOMAIN p : p[n].rest # {}}}
          \cup {last'[s] : s \in {e \in Sharing!Station : last'[e] # NULL}}
          \cup UNION {{info'[e].ds[k] : k \in Slot} : e \in Child}
  BY <1>1 DEF Known
<1>3. \A d : KnownAt(q, p, last', info', d) <=>
        d \in {q.ds[k] : k \in {n \in Slot : q.ds[n].no < Under(q)}}
          \cup {p[k].set : k \in {n \in DOMAIN p : p[n].rest # {}}}
          \cup {last'[s] : s \in {e \in Sharing!Station : last'[e] # NULL}}
          \cup UNION {{info'[e].ds[k] : k \in Slot} : e \in Child}
  BY DEF KnownAt
<1> QED BY <1>2, <1>3

\* What is counted of a child are numbers.
LEMMA KidNumbers ==
  ASSUME ShareAssumption, StateTypes, NEW q, NEW p, NEW t, NEW con, NEW o, NEW e \in Child,
         AllOK(q, p, t, con, o)
  PROVE  KidCounts(q, p, t, o, e)
<1>1. ParentTypes(q, p, t, con) /\ RingOK(q) /\ q \in Rings
  BY DEF AllOK, ParentOK, ParentTypes
<1>2. /\ InPort(p, e) \in 0..2 /\ Unread(e) \in 0..3 /\ Retries(e) \in 0..1
      /\ Len(reply[e]) \in Nat /\ Owed(q, t, o, e) \in 0..1 /\ Lacks(q, e) \in 0..2
      /\ Unanswered(q, p, t, o, e) = Owed(q, t, o, e) + OnTheWay(p, t, e)
      /\ Unput(q, t, o) \in 0..1
  BY <1>1, CountsAreNumbers
<1>5. ASSUME NEW n \in Nat PROVE Later(t, n, DataOf(e)) \in Nat
  BY <1>1, NoticeCounts DEF ParentTypes
<1>3. Later(t, 1, DataOf(e)) \in Nat
  BY <1>5
<1>4. NextPut(q, t, o) \in Int
  <2>1. Under(q) \in Nat
    BY <1>1, RingNumbers
  <2> QED BY <1>2, <2>1 DEF NextPut
<1> QED BY <1>2, <1>3, <1>4, <1>5 DEF KidCounts, OnTheWay

\* A child keeps a set that it is given.
LEMMA DeliverKept ==
  ASSUME ShareAssumption, ShareInv,
         UNCHANGED <<last, step, connected, linked, told, reply, changes, doubleMode>>,
         NEW c1 \in Child, NEW f, NEW k, port' = f, Handed(port, f, k, c1),
         HandedOver(info[0], port, f, told, connected, k, c1),
         NEW g, info' = [info EXCEPT ![c1] = g], KeptInto(info[c1], g, port[k].set)
  PROVE  ShareInv'
<1> DEFINE q == info[0]
           p == port
           t == told
           con == connected
           o == Sending
           b == info[c1]
           s == port[k].set
<1>1. StateTypes /\ PlaceOK(q) /\ AllOK(q, p, t, con, o)
  BY DEF ShareInv
<1>2. /\ ParentTypes(q, p, t, con) /\ RingOK(q) /\ SentOK(q, p, t, o) /\ PortOK(q, p, t, con, o)
      /\ FirstOK(q, p) /\ ToldOK(t, con, o) /\ PendingOK(q, t, o) /\ NoneLeftOut(q, p, t, o)
      /\ \A e \in Child : /\ KidOK(e) /\ ReadsOK(q, p, t, con, o, e) /\ PiecesOK(t, e)
                          /\ BalanceOK(q, p, t, con, o, e)
  BY <1>1 DEF AllOK, ParentOK, KidsOK
<1>3. /\ Len(p) \in Nat /\ k \in 1..Len(p) /\ DOMAIN p = 1..Len(p) /\ DOMAIN f = DOMAIN p
      /\ c1 \in p[k].rest
  BY DEF Handed
<1>4. /\ ParentTypes(q, f, t, con) /\ SentOK(q, f, t, o) /\ PortOK(q, f, t, con, o)
      /\ FirstOK(q, f)
      /\ \A e \in Child : e # c1 =>
           /\ InPort(f, e) = InPort(p, e)
           /\ ReadsOK(q, f, t, con, o, e) /\ BalanceOK(q, f, t, con, o, e)
  BY DEF HandedOver
<1>5. /\ InPort(p, c1) = Len(p) - k + 1 /\ InPort(f, c1) = Len(p) - k
      /\ s.no = NextPut(q, t, o) - InPort(p, c1)
      /\ Exact(f, o, c1) => Exact(p, o, c1)
      /\ \A n \in DOMAIN f : f[n].new => n # k /\ f[n] = p[n]
      /\ \A n \in DOMAIN f : f[n].rest \subseteq p[n].rest /\ f[n].set = p[n].set
  BY DEF HandedOver
<1>6. /\ b \in Rings /\ g \in Rings /\ g.readIndex = b.readIndex /\ g.sendIndex = b.sendIndex
      /\ g.retry = b.retry
      /\ g.writeIndex = Sharing!Next4(b.writeIndex) /\ g.ds[b.writeIndex] = s
      /\ \A n \in Slot : n # b.writeIndex => g.ds[n] = b.ds[n]
  BY DEF KeptInto
<1>7. /\ info'[c1] = g /\ \A e \in Sharing!Station : e # c1 => info'[e] = info[e]
      /\ info' \in [Sharing!Station -> Rings] /\ c1 \in Sharing!Station /\ c1 # 0
      /\ 0 \in Sharing!Station /\ Child \subseteq Sharing!Station
  <2>1. c1 \in Sharing!Station /\ c1 # 0 /\ 0 \in Sharing!Station /\ Child \subseteq Sharing!Station
    BY DEF Sharing!Station, ShareAssumption
  <2> QED BY <1>1, <1>6, <2>1 DEF StateTypes
<1> HIDE DEF q, p, t, con, o, b, s
<1>8. /\ InPort(p, c1) \in 0..2 /\ Unread(c1) \in 0..3 /\ Retries(c1) \in 0..1
      /\ Len(reply[c1]) \in Nat /\ Owed(q, t, o, c1) \in 0..1 /\ Lacks(q, c1) \in 0..2
      /\ Later(t, 1, DataOf(c1)) \in Nat
      /\ Unanswered(q, p, t, o, c1) = Owed(q, t, o, c1) + OnTheWay(p, t, c1)
  <2>1. KidCounts(q, p, t, o, c1)
    BY <1>1, KidNumbers
  <2> QED BY <2>1 DEF KidCounts
<1>9. InPort(p, c1) >= 1 /\ InPort(f, c1) = InPort(p, c1) - 1
  <2>1. Len(p) \in Int /\ k \in Int /\ k <= Len(p)
    BY <1>3
  <2> QED BY <1>5, <2>1
<1>10. Begun(p, c1)
  <2>1. InPort(p, c1) > 0
    BY <1>8, <1>9
  <2> QED BY <2>1 DEF Begun
<1>11. /\ c1 \in linked \cap con /\ \A h \in o : c1 \in h.dest
       /\ FirstUnread(q, p, t, o, c1) >= 1
       /\ last[c1] # NULL => last[c1].no = FirstUnread(q, p, t, o, c1) - 1 /\ last[c1].no >= 1
       /\ ~doubleMode => \A n \in DOMAIN p : p[n].new => c1 \in p[n].rest
       /\ \A n \in 0..Unread(c1)-1 :
            b.ds[(b.readIndex + n) % 4].no = FirstUnread(q, p, t, o, c1) + n
  BY <1>2, <1>10 DEF ReadsOK, b
<1>12. Unread(c1) + Retries(c1) + Len(reply[c1]) <= 2
  <2>1. Unanswered(q, p, t, o, c1) - Lacks(q, c1) \in 0..1
    BY <1>2, <1>11 DEF BalanceOK
  <2>2. OnTheWay(p, t, c1) = InPort(p, c1) + Unread(c1) + Retries(c1) + Len(reply[c1])
                               + Later(t, 1, DataOf(c1))
    BY DEF OnTheWay
  <2> DEFINE x == Unread(c1)
             y == Retries(c1)
             l == Len(reply[c1])
             m == Later(t, 1, DataOf(c1))
             n == Owed(q, t, o, c1)
             z == InPort(p, c1)
             w == Lacks(q, c1)
             v == Unanswered(q, p, t, o, c1)
  <2>3. /\ x \in Nat /\ y \in Nat /\ l \in Nat /\ m \in Nat /\ n \in Nat /\ z \in Nat /\ z >= 1
        /\ w \in 0..2
    BY <1>8, <1>9
  <2>4. v = n + (z + x + y + l + m)
    BY <1>8, <2>2
  <2>5. v - w \in 0..1
    BY <2>1
  <2> HIDE DEF x, y, l, m, n, z, w, v
  <2>6. x + y + l <= 2
    BY <2>3, <2>4, <2>5
  <2> QED BY <2>6 DEF x, y, l
<1>13. Unread(c1) <= 2
  <2>1. Unread(c1) \in Nat /\ Retries(c1) \in Nat /\ Len(reply[c1]) \in Nat
    BY <1>8
  <2> QED BY <1>12, <2>1
<1>14. b.writeIndex \in Slot /\ b.readIndex \in Slot /\ Unread(c1) = (b.writeIndex + 4 - b.readIndex) % 4
  BY <1>6 DEF Rings, Unread, b
<1>15. /\ b.writeIndex = (b.readIndex + Unread(c1)) % 4
       /\ (Sharing!Next4(b.writeIndex) + 4 - b.readIndex) % 4 = Unread(c1) + 1
       /\ \A n \in 0..3 : n # Unread(c1) => (b.readIndex + n) % 4 # b.writeIndex
       /\ \A n \in 0..3 : (b.readIndex + n) % 4 \in Slot
       /\ \A n \in 1..2 : Unread(c1) + n <= 2 =>
            /\ (((b.readIndex + 3) % 4) + 4 - n) % 4 # b.writeIndex
            /\ (((b.readIndex + 3) % 4) + 4 - n) % 4 \in Slot
       /\ Unread(c1) + 1 + 1 <= 2 => (((b.readIndex + 2) % 4) + 4 - 1) % 4 # b.writeIndex
       /\ (((b.readIndex + 2) % 4) + 4 - 1) % 4 \in Slot
  BY SMTT(30), <1>13, <1>14, KidSlots
<1>16. Unread(c1)' = Unread(c1) + 1
  <2>1. Unread(c1)' = (g.writeIndex + 4 - g.readIndex) % 4
    BY <1>7 DEF Unread
  <2> QED BY <1>6, <1>15, <2>1
<1>17. Retries(c1)' = Retries(c1) /\ reply'[c1] = reply[c1] /\ last'[c1] = last[c1]
  BY <1>6, <1>7 DEF Retries, b
<1>18. InPort(port, c1)' = InPort(f, c1)
  BY DEF InPort, One
<1>19. info'[0] = q /\ told' = t /\ connected' = con /\ Sending' = o
  BY <1>7 DEF q, t, con, o, Sending
<1>20. /\ Under(info[0])' = Under(q) /\ NextPut(info[0], told, Sending)' = NextPut(q, t, o)
       /\ (Refusal(info[0], told)' <=> Refusal(q, t))
       /\ (Pending(info[0], told, Sending)' <=> Pending(q, t, o))
  BY <1>19, ParentCarried
<1> DEFINE m == FirstUnread(q, p, t, o, c1)
<1>21. FirstUnread(info[0], port, told, Sending, c1)' = m
  <2>1. FirstUnread(info[0], port, told, Sending, c1)'
          = NextPut(q, t, o) - (InPort(p, c1) - 1) - (Unread(c1) + 1)
    BY <1>9, <1>16, <1>18, <1>20 DEF FirstUnread
  <2>2. NextPut(q, t, o) \in Int
    <3>1. q \in Rings
      BY <1>2 DEF ParentTypes
    <3>2. Under(q) \in Nat /\ Unput(q, t, o) \in Nat
      BY <1>1, <1>2, <3>1, RingNumbers DEF Unput
    <3> QED BY <3>2 DEF NextPut
  <2> DEFINE y == NextPut(q, t, o)
             z == InPort(p, c1)
             x == Unread(c1)
  <2>3. y \in Int /\ z \in Int /\ x \in Int
    BY <1>8, <2>2
  <2> HIDE DEF x, y, z
  <2>4. y - (z - 1) - (x + 1) = y - z - x
    BY <2>3
  <2> QED BY <2>1, <2>4 DEF FirstUnread, x, y, z
<1>22. s.no = m + Unread(c1) /\ m \in Int
  <2>1. NextPut(q, t, o) \in Int
    <3>1. q \in Rings
      BY <1>2 DEF ParentTypes
    <3>2. Under(q) \in Nat /\ Unput(q, t, o) \in Nat
      BY <1>1, <1>2, <3>1, RingNumbers DEF Unput
    <3> QED BY <3>2 DEF NextPut
  <2> DEFINE y == NextPut(q, t, o)
             z == InPort(p, c1)
             x == Unread(c1)
  <2>2. y \in Int /\ z \in Int /\ x \in Int
    BY <1>8, <2>1
  <2>3. m = y - z - x
    BY DEF FirstUnread
  <2>4. s.no = y - z
    BY <1>5
  <2> HIDE DEF x, y, z, m
  <2>5. s.no = m + x /\ m \in Int
    BY <2>2, <2>3, <2>4
  <2> QED BY <2>5 DEF x
<1> HIDE DEF m
<1>23. ReadsOK(info[0], port, told, connected, Sending, c1)'
  <2>1. \A n \in 0..Unread(c1) : g.ds[(b.readIndex + n) % 4].no = m + n
    <3> SUFFICES ASSUME NEW n \in 0..Unread(c1) PROVE g.ds[(b.readIndex + n) % 4].no = m + n
      OBVIOUS
    <3>1. n \in 0..3 /\ (n = Unread(c1) \/ n \in 0..Unread(c1)-1)
      BY <1>8
    <3>2. CASE n = Unread(c1)
      BY <1>6, <1>15, <1>22, <3>2
    <3>3. CASE n \in 0..Unread(c1)-1
      <4>1. (b.readIndex + n) % 4 \in Slot /\ (b.readIndex + n) % 4 # b.writeIndex
        <5>1. n # Unread(c1)
          BY <1>8, <3>3
        <5> QED BY <1>15, <3>1, <5>1
      <4> QED BY <1>6, <1>11, <3>3, <4>1 DEF m
    <3> QED BY <3>1, <3>2, <3>3
  <2>2. \A n \in 0..Unread(c1)'-1 : g.ds[(g.readIndex + n) % 4].no = m + n
    <3>1. 0..Unread(c1)'-1 = 0..Unread(c1)
      BY <1>8, <1>16
    <3> QED BY <1>6, <2>1, <3>1
  <2>3. ~doubleMode => \A n \in DOMAIN f : f[n].new => c1 \in f[n].rest
    BY <1>3, <1>5, <1>11
  <2>4. m >= 1 /\ (last[c1] # NULL => last[c1].no = m - 1 /\ last[c1].no >= 1)
    BY <1>11 DEF m
  <2> QED BY <1>7, <1>11, <1>17, <1>19, <1>21, <2>2, <2>3, <2>4 DEF ReadsOK
<1>24. KidOK(c1)'
  <2>1. /\ b.sendIndex = (b.readIndex + IF b.retry THEN 2 ELSE 3) % 4
        /\ b.retry \/ reply[c1] # <<>> => last[c1] # NULL
        /\ \A n \in 1..Len(reply[c1]) :
             /\ b.ds[(b.sendIndex + 4 - n) % 4].no = 0
             /\ reply[c1][n] = last[c1].no - Retries(c1) - Len(reply[c1]) + n
    BY <1>2 DEF KidOK, b
  <2>2. ASSUME NEW n \in 1..Len(reply[c1])
        PROVE  g.ds[(g.sendIndex + 4 - n) % 4].no = 0
    <3>1. n \in 1..2 /\ Unread(c1) + Retries(c1) + n <= 2
      <4>1. Unread(c1) \in Nat /\ Retries(c1) \in Nat /\ Len(reply[c1]) \in Nat /\ n \in Nat
            /\ n >= 1 /\ n <= Len(reply[c1])
        BY <1>8
      <4> QED BY <1>12, <4>1
    <3>2. CASE b.retry
      <4>1. Retries(c1) = 1 /\ b.sendIndex = (b.readIndex + 2) % 4
        BY <2>1, <3>2 DEF Retries, b
      <4>2. n = 1 /\ Unread(c1) + 1 + 1 <= 2
        <5>1. Unread(c1) + 1 + n <= 2
          BY <3>1, <4>1
        <5>2. n \in 1..2 /\ Unread(c1) \in 0..3
          BY <1>8, <3>1
        <5> QED BY <5>1, <5>2
      <4>3. (b.sendIndex + 4 - n) % 4 # b.writeIndex /\ (b.sendIndex + 4 - n) % 4 \in Slot
        BY <1>15, <4>1, <4>2
      <4> QED BY <1>6, <2>1, <4>3
    <3>3. CASE ~b.retry
      <4>1. Retries(c1) = 0 /\ b.sendIndex = (b.readIndex + 3) % 4
        BY <2>1, <3>3 DEF Retries, b
      <4>2. Unread(c1) + n <= 2
        <5>1. Unread(c1) + 0 + n <= 2
          BY <3>1, <4>1
        <5> QED BY <1>8, <5>1
      <4>3. (b.sendIndex + 4 - n) % 4 # b.writeIndex /\ (b.sendIndex + 4 - n) % 4 \in Slot
        BY <1>15, <3>1, <4>1, <4>2
      <4> QED BY <1>6, <2>1, <4>3
    <3> QED BY <3>2, <3>3
  <2> QED BY <1>6, <1>7, <1>11, <1>17, <2>1, <2>2 DEF KidOK
<1>25. PiecesOK(told, c1)'
  BY <1>2, <1>17, <1>19 DEF PiecesOK, Later, Hits, DataOf, Sharing!Piece, t
<1>26. BalanceOK(info[0], port, told, connected, Sending, c1)'
  <2>1. OnTheWay(port, told, c1)' = OnTheWay(p, t, c1)
    <3>1. Later(told, 1, DataOf(c1))' = Later(t, 1, DataOf(c1))
      BY <1>19 DEF Later, Hits, DataOf, Sharing!Piece
    <3> DEFINE x == Unread(c1)
               y == Retries(c1)
               l == Len(reply[c1])
               n == Later(t, 1, DataOf(c1))
               z == InPort(p, c1)
    <3>2. OnTheWay(port, told, c1)' = (z - 1) + (x + 1) + y + l + n
      BY <1>9, <1>16, <1>17, <1>18, <3>1 DEF OnTheWay
    <3>3. x \in Nat /\ y \in Nat /\ l \in Nat /\ n \in Nat /\ z \in Nat
      BY <1>8
    <3>4. OnTheWay(p, t, c1) = z + x + y + l + n
      BY DEF OnTheWay
    <3> HIDE DEF x, y, l, n, z
    <3> QED BY <3>2, <3>3, <3>4
  <2>2. Owed(info[0], told, Sending, c1)' = Owed(q, t, o, c1)
    BY <1>19, <1>20 DEF Owed, One
  <2>3. Unanswered(info[0], port, told, Sending, c1)' = Unanswered(q, p, t, o, c1)
    BY <2>1, <2>2 DEF Unanswered
  <2>4. Lacks(info[0], c1)' = Lacks(q, c1)
    BY <1>19, <1>20 DEF Lacks, Held, One
  <2>5. Exact(port, Sending, c1)' => Exact(p, o, c1)
    <3>1. Exact(port, Sending, c1)' <=> Exact(f, o, c1)
      BY <1>19 DEF Exact
    <3> QED BY <1>5, <3>1
  <2> QED BY <1>2, <1>19, <2>3, <2>4, <2>5 DEF BalanceOK, p
<1>27. NoneLeftOut(info[0], port, told, Sending)'
  <2> SUFFICES ASSUME changes = 0, NEW e \in linked, ~Pending(q, t, o)
               PROVE  Begun(port, e)'
    BY <1>20 DEF NoneLeftOut
  <2>1. e \in Child
    BY <1>1 DEF StateTypes
  <2>2. CASE e = c1
    <3>1. Unread(c1)' > 0
      BY <1>8, <1>16
    <3> QED BY <2>2, <3>1 DEF Begun
  <2>3. CASE e # c1
    <3>1. Begun(p, e)
      BY <1>2 DEF NoneLeftOut
    <3>2. InPort(port, e)' = InPort(p, e)
      <4>1. InPort(port, e)' = InPort(f, e)
        BY DEF InPort, One
      <4> QED BY <1>4, <2>1, <2>3, <4>1
    <3>3. info'[e] = info[e] /\ last'[e] = last[e]
      BY <1>7, <2>1, <2>3
    <3>4. Unread(e)' = Unread(e)
      BY <3>3 DEF Unread
    <3> QED BY <3>1, <3>2, <3>3, <3>4 DEF Begun
  <2> QED BY <2>2, <2>3
<1>28. \A d \in Known(info[0], port)' : d \in Known(info[0], port)
  <2> SUFFICES ASSUME NEW d, KnownAt(q, f, last', info', d) PROVE KnownAt(q, p, last, info, d)
    BY <1>19, KnownLanded, KnownCases DEF q, p
  <2>1. CASE \E n \in Slot : q.ds[n].no < Under(q) /\ d = q.ds[n]
    BY <2>1 DEF KnownAt
  <2>2. CASE \E n \in DOMAIN f : f[n].rest # {} /\ d = f[n].set
    <3>1. PICK n \in DOMAIN f : f[n].rest # {} /\ d = f[n].set
      BY <2>2
    <3>2. n \in DOMAIN p /\ p[n].rest # {} /\ d = p[n].set
      BY <1>3, <1>5, <3>1
    <3> QED BY <3>2 DEF KnownAt
  <2>3. CASE \E e \in Sharing!Station : last'[e] # NULL /\ d = last'[e]
    BY <2>3 DEF KnownAt
  <2>4. CASE \E e \in Child : \E n \in Slot : d = info'[e].ds[n]
    <3>1. PICK e \in Child, n \in Slot : d = info'[e].ds[n]
      BY <2>4
    <3>2. CASE e # c1
      <4>1. info'[e] = info[e]
        BY <1>7, <3>2
      <4> QED BY <3>1, <4>1 DEF KnownAt
    <3>3. CASE e = c1 /\ n # b.writeIndex
      <4>1. d = info[c1].ds[n]
        BY <1>6, <1>7, <3>1, <3>3 DEF b
      <4> QED BY <4>1 DEF KnownAt
    <3>4. CASE e = c1 /\ n = b.writeIndex
      <4>1. d = s
        BY <1>6, <1>7, <3>1, <3>4
      <4>2. k \in DOMAIN p /\ p[k].rest # {} /\ d = p[k].set
        BY <1>3, <4>1 DEF s, p
      <4> QED BY <4>2 DEF KnownAt
    <3> QED BY <3>2, <3>3, <3>4
  <2> QED BY <2>1, <2>2, <2>3, <2>4 DEF KnownAt
<1>29. /\ last' \in [Sharing!Station -> Sharing!DataSet \cup {NULL}]
       /\ reply' \in [Child -> Seq(Sharing!Piece)] /\ info'[0] = info[0] /\ last'[0] = last[0]
  BY <1>1, <1>7 DEF StateTypes
<1>30. ParentTypes(info[0], f, told, connected) /\ PendingOK(info[0], told, Sending)
       /\ SentOK(info[0], f, told, Sending) /\ PortOK(info[0], f, told, connected, Sending)
       /\ ToldOK(told, connected, Sending) /\ FirstOK(info[0], f)
  BY <1>2, <1>4 DEF q, t, con, o
<1>31. \A e \in Child : e # c1 =>
         /\ Idle(e) /\ ReadsOK(info[0], f, told, connected, Sending, e)
         /\ PiecesOK(told, e) /\ BalanceOK(info[0], f, told, connected, Sending, e)
  BY <1>2, <1>4, <1>7 DEF Idle, q, t, con, o
<1> QED BY <1>7, <1>23, <1>24, <1>25, <1>26, <1>27, <1>28, <1>29, <1>30, <1>31, OneCarried

\* A child is given a packet.
LEMMA StepDeliver ==
  ASSUME ShareAssumption, ShareInv, NEW c1 \in Child, Sharing!Deliver(c1), UNCHANGED doubleMode
  PROVE  ShareInv'
<1> DEFINE due == {n \in DOMAIN port : c1 \in port[n].rest}
           k == Sharing!Min(due)
           f == [port EXCEPT ![k].rest = @ \ {c1}, ![k].new = FALSE]
           s == port[k].set
<1>1. StateTypes /\ AllOK(info[0], port, told, connected, Sending)
  BY DEF ShareInv
<1>2. /\ due # {} /\ port' = f
      /\ UNCHANGED <<last, step, connected, linked, told, reply, changes, doubleMode>>
      /\ info' = IF c1 \notin s.aidBitmap THEN info
                 ELSE [info EXCEPT ![c1].ds[info[c1].writeIndex] = s,
                                   ![c1].writeIndex = Sharing!Next4(@)]
  BY DEF Sharing!Deliver
<1>3. Handed(port, f, k, c1)
  <2>1. port \in Seq(Packets)
    BY <1>1 DEF AllOK, ParentTypes
  <2>2. due = {n \in DOMAIN port : c1 \in port[n].rest} /\ k = Sharing!Min(due)
    OBVIOUS
  <2> HIDE DEF due, k
  <2> QED BY <1>2, <2>1, <2>2, HandedFacts
<1> HIDE DEF f, k, due
<1>4. HandedOver(info[0], port, f, told, connected, k, c1)
  BY <1>1, <1>3, HandedKeeps
<1>5. CASE c1 \notin s.aidBitmap
  <2>1. info' = info
    BY <1>2, <1>5
  <2> QED BY <1>2, <1>3, <1>4, <1>5, <2>1, DeliverPast
<1>6. CASE c1 \in s.aidBitmap
  <2> DEFINE g == WithSet(info[c1], s)
  <2>1. s \in Sharing!DataSet
    <3>1. port[k] \in Packets
      BY <1>3 DEF Handed
    <3> QED BY <3>1 DEF Packets
  <2>2. c1 \in Sharing!Station /\ info[c1] \in Rings
    <3>1. c1 \in Sharing!Station
      BY DEF Sharing!Station
    <3> QED BY <1>1, <3>1 DEF StateTypes
  <2>3. KeptInto(info[c1], g, s)
    BY <2>1, <2>2, KeptFacts
  <2>4. info' = [info EXCEPT ![c1] = g]
    <3>1. info' = [info EXCEPT ![c1].ds[info[c1].writeIndex] = s,
                               ![c1].writeIndex = Sharing!Next4(@)]
      BY <1>2, <1>6
    <3>2. c1 \in DOMAIN info
      BY <1>1, <2>2 DEF StateTypes
    <3> QED BY <3>1, <3>2 DEF WithSet
  <2> HIDE DEF g
  <2> QED BY <1>2, <1>3, <1>4, <2>3, <2>4, DeliverKept
<1> QED BY <1>5, <1>6

\* A step of a child that leaves the port and what the parent is told.
LEMMA KidLands ==
  ASSUME ShareAssumption, ShareInv,
         UNCHANGED <<step, connected, linked, told, port, changes, doubleMode>>,
         NEW c1 \in Child, NEW g \in Rings, info' = [info EXCEPT ![c1] = g],
         last' \in [Sharing!Station -> Sharing!DataSet \cup {NULL}],
         reply' \in [Child -> Seq(Sharing!Piece)],
         \A e \in Sharing!Station : e # c1 => last'[e] = last[e],
         \A e \in Child : e # c1 => reply'[e] = reply[e],
         KidOK(c1)', ReadsOK(info[0], port, told, connected, Sending, c1)',
         PiecesOK(told, c1)', OnTheWay(port, told, c1)' = OnTheWay(port, told, c1),
         Begun(port, c1) => Begun(port, c1)',
         SetFrom(info[c1], last[c1], last'[c1]), RingFrom(info[c1], g)
  PROVE  ShareInv'
<1> DEFINE q == info[0]
           p == port
           t == told
           con == connected
           o == Sending
           s == last'[c1]
<1>1. StateTypes /\ PlaceOK(q) /\ AllOK(q, p, t, con, o)
  BY DEF ShareInv
<1>2. /\ ParentTypes(q, p, t, con) /\ RingOK(q) /\ SentOK(q, p, t, o) /\ PortOK(q, p, t, con, o)
      /\ FirstOK(q, p) /\ ToldOK(t, con, o) /\ PendingOK(q, t, o) /\ NoneLeftOut(q, p, t, o)
      /\ \A e \in Child : /\ ReadsOK(q, p, t, con, o, e) /\ PiecesOK(t, e)
                          /\ BalanceOK(q, p, t, con, o, e)
  BY <1>1 DEF AllOK, ParentOK, KidsOK
<1>3. /\ c1 \in Sharing!Station /\ c1 # 0 /\ 0 \in Sharing!Station /\ Child \subseteq Sharing!Station
  BY DEF Sharing!Station, ShareAssumption
<1>4. /\ info'[c1] = g /\ \A e \in Sharing!Station : e # c1 => info'[e] = info[e]
      /\ info' \in [Sharing!Station -> Rings]
  BY <1>1, <1>3 DEF StateTypes
<1>5. info'[0] = info[0] /\ last'[0] = last[0]
  BY <1>3, <1>4
<1> HIDE DEF q, p, t, con, o, s
<1>6. info'[0] = q /\ port' = p /\ told' = t /\ connected' = con /\ Sending' = o
  BY <1>5 DEF q, p, t, con, o, Sending
<1>7. /\ Under(info[0])' = Under(q) /\ NextPut(info[0], told, Sending)' = NextPut(q, t, o)
      /\ (Refusal(info[0], told)' <=> Refusal(q, t))
      /\ (Pending(info[0], told, Sending)' <=> Pending(q, t, o))
  BY <1>6, ParentCarried
<1>8. \A e \in Child : e # c1 => Idle(e)
  BY <1>3, <1>4 DEF Idle
<1>9. BalanceOK(info[0], port, told, connected, Sending, c1)'
  <2>1. Owed(info[0], told, Sending, c1)' = Owed(q, t, o, c1)
    BY <1>6, <1>7 DEF Owed, One
  <2>2. OnTheWay(port, told, c1)' = OnTheWay(p, t, c1)
    BY DEF p, t
  <2>3. Unanswered(info[0], port, told, Sending, c1)' = Unanswered(q, p, t, o, c1)
    BY <2>1, <2>2 DEF Unanswered
  <2>4. Lacks(info[0], c1)' = Lacks(q, c1)
    BY <1>6, <1>7 DEF Lacks, Held, One
  <2>5. Exact(port, Sending, c1)' <=> Exact(p, o, c1)
    BY <1>6 DEF Exact
  <2> QED BY <1>2, <1>6, <2>3, <2>4, <2>5 DEF BalanceOK
<1>10. NoneLeftOut(info[0], port, told, Sending)'
  <2> SUFFICES ASSUME changes = 0, NEW e \in linked, ~Pending(q, t, o)
               PROVE  Begun(port, e)'
    BY <1>7 DEF NoneLeftOut
  <2>1. e \in Child /\ Begun(p, e)
    BY <1>1, <1>2 DEF StateTypes, NoneLeftOut
  <2>2. CASE e = c1
    BY <2>1, <2>2 DEF p
  <2>3. CASE e # c1
    <3>1. info'[e] = info[e] /\ last'[e] = last[e]
      BY <1>3, <1>4, <2>1, <2>3
    <3> QED BY <1>6, <2>1, <3>1 DEF Begun, Unread, InPort, One
  <2> QED BY <2>2, <2>3
<1>11. \A d \in Known(info[0], port)' :
         \/ \E f \in Known(info[0], port) : d.no = f.no /\ d.data = f.data
         \/ d.no = 0 /\ d.data = Sharing!NoData
  <2>1. \A d : KnownAt(q, p, last, info, d) => d \in Known(info[0], port)
    BY KnownCases DEF q, p
  <2> SUFFICES ASSUME NEW d, KnownAt(q, p, last', info', d)
               PROVE  \/ \E f : KnownAt(q, p, last, info, f) /\ d.no = f.no /\ d.data = f.data
                      \/ d.no = 0 /\ d.data = Sharing!NoData
    BY <1>6, <2>1, KnownLanded
  <2>2. CASE \E n \in Slot : q.ds[n].no < Under(q) /\ d = q.ds[n]
    BY <2>2 DEF KnownAt
  <2>3. CASE \E n \in DOMAIN p : p[n].rest # {} /\ d = p[n].set
    BY <2>3 DEF KnownAt
  <2>4. \A n \in Slot : KnownAt(q, p, last, info, info[c1].ds[n])
    BY DEF KnownAt
  <2>5. CASE \E e \in Sharing!Station : last'[e] # NULL /\ d = last'[e]
    <3>1. PICK e \in Sharing!Station : last'[e] # NULL /\ d = last'[e]
      BY <2>5
    <3>2. CASE e # c1 \/ s = last[c1]
      <4>1. last'[e] = last[e]
        BY <3>1, <3>2 DEF s
      <4> QED BY <3>1, <4>1 DEF KnownAt
    <3>3. CASE e = c1 /\ s # last[c1]
      <4>1. PICK n \in Slot : s.no = info[c1].ds[n].no /\ s.data = info[c1].ds[n].data
        BY <3>1, <3>3 DEF s, SetFrom
      <4>2. d = s
        BY <3>1, <3>3 DEF s
      <4> QED BY <2>4, <4>1, <4>2
    <3> QED BY <3>2, <3>3
  <2>6. CASE \E e \in Child : \E n \in Slot : d = info'[e].ds[n]
    <3>1. PICK e \in Child, n \in Slot : d = info'[e].ds[n]
      BY <2>6
    <3>2. CASE e # c1
      <4>1. info'[e] = info[e]
        BY <1>3, <1>4, <3>2
      <4> QED BY <3>1, <4>1 DEF KnownAt
    <3>3. CASE e = c1
      <4>1. d = g.ds[n]
        BY <1>4, <3>1, <3>3
      <4> QED BY <2>4, <4>1 DEF RingFrom
    <3> QED BY <3>2, <3>3
  <2> QED BY <2>2, <2>3, <2>5, <2>6 DEF KnownAt
<1>12. ParentTypes(info[0], port, told, connected) /\ PendingOK(info[0], told, Sending)
       /\ SentOK(info[0], port, told, Sending) /\ PortOK(info[0], port, told, connected, Sending)
       /\ ToldOK(told, connected, Sending) /\ FirstOK(info[0], port)
       /\ \A e \in Child : e # c1 =>
            /\ Idle(e) /\ ReadsOK(info[0], port, told, connected, Sending, e)
            /\ PiecesOK(told, e) /\ BalanceOK(info[0], port, told, connected, Sending, e)
  BY <1>2, <1>8 DEF q, p, t, con, o
<1> QED BY <1>4, <1>5, <1>9, <1>10, <1>11, <1>12, OneCarried

\* What a step leaves of the child that takes it.
LEMMA KidLanded ==
  ASSUME NEW c1 \in Child, NEW g, NEW s, NEW v, info'[c1] = g, last'[c1] = s, reply'[c1] = v,
         c1 \in linked', doubleMode' = doubleMode, KidState(g, s, v)
  PROVE  KidOK(c1)'
<1>1. Retries(c1)' = IF g.retry THEN 1 ELSE 0
  BY DEF Retries
<1> QED BY <1>1 DEF KidOK, KidState

\* A set is the same when it is marked.
LEMMA SetMarked ==
  ASSUME NEW d \in Sharing!DataSet
  PROVE  /\ MarkedSet(d) \in Sharing!DataSet /\ MarkedSet(d).no = d.no
         /\ MarkedSet(d).data = d.data
<1> DEFINE z == MarkedSet(d)
<1>1. PICK n \in Sharing!Piece, a \in SUBSET Sharing!Station,
           v \in [Sharing!Station -> Sharing!Piece] :
        d = [no |-> n, aidBitmap |-> a, data |-> v]
  BY DEF Sharing!DataSet
<1>2. z = [d EXCEPT !.aidBitmap = @ \cup {0}]
  BY DEF MarkedSet
<1> HIDE DEF z
<1>3. z = [no |-> n, aidBitmap |-> a \cup {0}, data |-> v]
  BY <1>1, <1>2
<1>4. a \cup {0} \in SUBSET Sharing!Station
  BY DEF Sharing!Station
<1>5. z \in Sharing!DataSet
  BY <1>3, <1>4 DEF Sharing!DataSet
<1> QED BY <1>1, <1>3, <1>5 DEF z

\* The ring of a child that has marked the set it is to read the next time.
LEMMA MarkFacts ==
  ASSUME NEW b \in Rings
  PROVE  MarkInto(b, MarkedIn(b))
<1> DEFINE z == MarkedIn(b)
<1>1. PICK ds \in [Slot -> Sharing!DataSet], w \in Slot, r \in Slot, n \in Slot, rt \in BOOLEAN :
        b = [ds |-> ds, writeIndex |-> w, readIndex |-> r, sendIndex |-> n, retry |-> rt]
  BY DEF Rings
<1> DEFINE m == MarkedSet(ds[r])
           fs == [ds EXCEPT ![r] = m]
<1>2. z = [b EXCEPT !.ds = [b.ds EXCEPT ![b.readIndex] = MarkedSet(b.ds[b.readIndex])]]
  BY DEF MarkedIn, MarkedSet
<1>3. ds[r] \in Sharing!DataSet
  OBVIOUS
<1>4. m \in Sharing!DataSet /\ m.no = ds[r].no /\ m.data = ds[r].data
  BY <1>3, SetMarked
<1> HIDE DEF z, m
<1>5. fs \in [Slot -> Sharing!DataSet] /\ \A l \in Slot : fs[l].no = ds[l].no /\ fs[l].data = ds[l].data
  BY <1>4
<1>6. z = [ds |-> fs, writeIndex |-> w, readIndex |-> r, sendIndex |-> n, retry |-> rt]
  BY <1>1, <1>2 DEF m
<1> HIDE DEF fs
<1>7. z \in Rings
  BY <1>5, <1>6 DEF Rings
<1>8. /\ z.readIndex = b.readIndex /\ z.sendIndex = b.sendIndex
      /\ z.retry = b.retry /\ z.writeIndex = b.writeIndex
      /\ \A l \in Slot : z.ds[l].no = b.ds[l].no /\ z.ds[l].data = b.ds[l].data
  BY <1>1, <1>5, <1>6
<1> QED BY <1>7, <1>8 DEF MarkInto, z

\* A child marks the set that it is to read the next time.
LEMMA StepMark ==
  ASSUME ShareAssumption, ShareInv, NEW c1 \in Child, Sharing!ChildMark(c1), UNCHANGED doubleMode
  PROVE  ShareInv'
<1> DEFINE q == info[0]
           b == info[c1]
           g == MarkedIn(b)
<1>1. StateTypes /\ AllOK(q, port, told, connected, Sending)
  BY DEF ShareInv
<1>2. /\ UNCHANGED <<last, step, connected, linked, told, port, reply, changes, doubleMode>>
      /\ info' = [info EXCEPT ![c1].ds[b.readIndex].aidBitmap = @ \cup {0}]
  BY DEF Sharing!ChildMark
<1>3. /\ c1 \in Sharing!Station /\ c1 # 0 /\ 0 \in Sharing!Station
      /\ info \in [Sharing!Station -> Rings] /\ b \in Rings
  <2>1. c1 \in Sharing!Station /\ c1 # 0 /\ 0 \in Sharing!Station
    BY DEF Sharing!Station, ShareAssumption
  <2> QED BY <1>1, <2>1 DEF StateTypes
<1>4. info' = [info EXCEPT ![c1] = g]
  BY <1>2, <1>3 DEF MarkedIn
<1>5. MarkInto(b, g)
  BY <1>3, MarkFacts
<1> HIDE DEF g, b, q
<1>6. /\ g \in Rings /\ g.readIndex = b.readIndex /\ g.sendIndex = b.sendIndex
      /\ g.retry = b.retry /\ g.writeIndex = b.writeIndex
      /\ \A n \in Slot : g.ds[n].no = b.ds[n].no /\ g.ds[n].data = b.ds[n].data
  BY <1>5 DEF MarkInto
<1>7. info'[c1] = g /\ info'[0] = q
  BY <1>3, <1>4 DEF q
<1>8. Sending' = Sending
  BY <1>2 DEF Sending
<1>9. /\ Under(info[0])' = Under(q) /\ NextPut(info[0], told, Sending)' = NextPut(q, told, Sending)
  BY <1>2, <1>7, <1>8, ParentCarried
<1>10. /\ Unread(c1)' = Unread(c1) /\ Retries(c1)' = Retries(c1)
       /\ InPort(port, c1)' = InPort(port, c1) /\ (Begun(port, c1)' <=> Begun(port, c1))
       /\ FirstUnread(info[0], port, told, Sending, c1)' = FirstUnread(q, port, told, Sending, c1)
  <2>1. Unread(c1)' = Unread(c1) /\ Retries(c1)' = Retries(c1)
    BY <1>6, <1>7 DEF Unread, Retries, b
  <2>2. InPort(port, c1)' = InPort(port, c1)
    BY <1>2 DEF InPort, One
  <2> QED BY <1>2, <1>9, <2>1, <2>2 DEF Begun, FirstUnread
<1>11. /\ KidOK(c1) /\ ReadsOK(q, port, told, connected, Sending, c1) /\ PiecesOK(told, c1)
       /\ c1 \in linked
  BY <1>1 DEF AllOK, KidsOK, Sharing!ChildMark
<1>12. Unread(c1) \in 0..3 /\ b.readIndex \in Slot /\ b.sendIndex \in Slot
  <2>1. KidCounts(q, port, told, Sending, c1)
    BY <1>1, KidNumbers
  <2>2. Unread(c1) \in 0..3
    BY <2>1 DEF KidCounts
  <2> QED BY <1>3, <2>2 DEF Rings
<1>13. \A n \in Nat : (b.readIndex + n) % 4 \in Slot
  BY <1>12, SlotFacts
<1>14. \A n \in Int : (b.sendIndex + 4 - n) % 4 \in Slot
  <2>1. \A x \in Int : x % 4 \in 0..3
    OBVIOUS
  <2>2. Slot = 0..3
    BY SlotFacts
  <2>3. \A n \in Int : b.sendIndex + 4 - n \in Int
    BY <1>12, <2>2
  <2> QED BY <2>1, <2>2, <2>3
<1>15. ReadsOK(info[0], port, told, connected, Sending, c1)'
  <2> DEFINE m == FirstUnread(q, port, told, Sending, c1)
  <2> SUFFICES ASSUME Begun(port, c1)
               PROVE  ReadsOK(info[0], port, told, connected, Sending, c1)'
    BY <1>10 DEF ReadsOK
  <2>1. \A n \in 0..Unread(c1)-1 : g.ds[(g.readIndex + n) % 4].no = m + n
    <3> SUFFICES ASSUME NEW n \in 0..Unread(c1)-1 PROVE g.ds[(g.readIndex + n) % 4].no = m + n
      OBVIOUS
    <3>1. (b.readIndex + n) % 4 \in Slot
      <4>1. n \in Nat
        BY <1>12
      <4> QED BY <1>13, <4>1
    <3>2. b.ds[(b.readIndex + n) % 4].no = m + n
      BY <1>11 DEF ReadsOK, b
    <3> QED BY <1>6, <3>1, <3>2
  <2> QED BY SMTT(30), <1>2, <1>7, <1>8, <1>10, <1>11, <2>1 DEF ReadsOK
<1>16. KidOK(c1)'
  <2>1. /\ b.sendIndex = (b.readIndex + IF b.retry THEN 2 ELSE 3) % 4
        /\ b.retry \/ reply[c1] # <<>> => last[c1] # NULL
        /\ \A n \in 1..Len(reply[c1]) :
             reply[c1][n] = last[c1].no - Retries(c1) - Len(reply[c1]) + n
    BY <1>11 DEF KidOK, b
  <2>2. ASSUME NEW n \in 1..Len(reply[c1])
        PROVE  g.ds[(g.sendIndex + 4 - n) % 4].no = 0
    <3>1. b.ds[(b.sendIndex + 4 - n) % 4].no = 0
      BY <1>11 DEF KidOK, b
    <3>2. (b.sendIndex + 4 - n) % 4 \in Slot
      BY <1>14
    <3> QED BY <1>6, <3>1, <3>2
  <2>3. info'[c1] = g /\ last'[c1] = last[c1] /\ reply'[c1] = reply[c1]
    BY <1>2, <1>7
  <2>4. c1 \in linked'
    BY <1>2, <1>11
  <2>5. /\ g.sendIndex = (g.readIndex + IF g.retry THEN 2 ELSE 3) % 4
        /\ g.retry \/ reply[c1] # <<>> => last[c1] # NULL
    BY <1>6, <2>1
  <2>6. KidState(g, last[c1], reply[c1])
    <3>1. Retries(c1) = IF g.retry THEN 1 ELSE 0
      BY <1>6 DEF Retries, b
    <3> QED BY <2>1, <2>2, <2>5, <3>1 DEF KidState
  <2> QED BY <1>2, <2>3, <2>4, <2>6, KidLanded
<1>17. PiecesOK(told, c1)'
  BY <1>2, <1>10, <1>11 DEF PiecesOK, Later, Hits, DataOf, Sharing!Piece
<1>18. OnTheWay(port, told, c1)' = OnTheWay(port, told, c1)
  BY <1>2, <1>10 DEF OnTheWay, Later, Hits, DataOf, Sharing!Piece
<1>19. /\ last' \in [Sharing!Station -> Sharing!DataSet \cup {NULL}]
       /\ reply' \in [Child -> Seq(Sharing!Piece)]
       /\ last'[c1] = last[c1]
  BY <1>1, <1>2, <1>3 DEF StateTypes
<1>20. SetFrom(info[c1], last[c1], last'[c1]) /\ RingFrom(info[c1], g)
  BY <1>6, <1>19 DEF b, SetFrom, RingFrom
<1> QED BY <1>2, <1>4, <1>6, <1>10, <1>15, <1>16, <1>17, <1>18, <1>19, <1>20, KidLands

\* Where a child's slots are after it has put a piece, round the ring.
LEMMA PieceSlots ==
  ASSUME NEW w \in Slot, NEW r \in Slot, NEW x, x = (w + 4 - r) % 4, NEW y \in 0..1,
         NEW y2 \in 0..1, NEW sd, sd = (r + 3 - y) % 4, NEW rd, rd = 1 - y, x >= rd, x + y <= 3,
         NEW r2, r2 = (r + rd) % 4, NEW sd2, sd2 = (sd + 1 - y2) % 4
  PROVE  SlotsAfter(w, r, x, y2, sd, rd, r2, sd2)
<1>1. w \in 0..3 /\ r \in 0..3 /\ Slot = 0..3
  BY SlotFacts
<1>2. CASE y = 0
  <2>1. rd = 1 /\ sd = (r + 3) % 4 /\ r2 = (r + 1) % 4 /\ x \in 1..3
    BY <1>1, <1>2
  <2>2. (w + 4 - r2) % 4 = x - rd /\ sd2 = (r2 + 3 - y2) % 4 /\ sd \in Slot
    BY <1>1, <2>1
  <2>3. \A n \in 0..2 : n <= x - rd - 1 =>
          (r2 + n) % 4 # sd /\ (r2 + n) % 4 = (r + (n + rd)) % 4 /\ (r2 + n) % 4 \in Slot
    BY <1>1, <2>1
  <2>4. sd \in 0..3
    BY <1>1, <2>2
  <2> QED BY <1>1, <2>2, <2>3, <2>4 DEF SlotsAfter
<1>3. CASE y = 1
  <2>1. rd = 0 /\ sd = (r + 2) % 4 /\ r2 = r /\ x \in 0..2
    BY <1>1, <1>3
  <2>2. (w + 4 - r2) % 4 = x - rd /\ sd2 = (r2 + 3 - y2) % 4 /\ sd \in Slot
    BY <1>1, <2>1
  <2>3. \A n \in 0..2 : n <= x - rd - 1 =>
          (r2 + n) % 4 # sd /\ (r2 + n) % 4 = (r + (n + rd)) % 4 /\ (r2 + n) % 4 \in Slot
    BY <1>1, <2>1
  <2>4. sd \in 0..3
    BY <1>1, <2>2
  <2> QED BY <1>1, <2>2, <2>3, <2>4 DEF SlotsAfter
<1> QED BY <1>2, <1>3

\* A child puts the piece of the next set, or one put before: the invariant
\* holds.
LEMMA PieceLands ==
  ASSUME ShareAssumption, ShareInv, NEW c1 \in Child, NEW g, NEW rd, NEW y2 \in 0..1,
         NEW s, NEW v, PieceStep(c1, g, rd, y2, s, v)
  PROVE  ShareInv'
<1> DEFINE q == info[0]
           b == info[c1]
           r == reply[c1]
           x == Unread(c1)
           y == Retries(c1)
           m == FirstUnread(q, port, told, Sending, c1)
           z == last[c1]
<1>1. StateTypes /\ AllOK(q, port, told, connected, Sending)
  BY DEF ShareInv
<1>2. /\ c1 \in Sharing!Station /\ c1 # 0 /\ 0 \in Sharing!Station
      /\ info \in [Sharing!Station -> Rings] /\ last \in [Sharing!Station -> Sharing!DataSet \cup {NULL}]
      /\ reply \in [Child -> Seq(Sharing!Piece)] /\ NULL \notin Sharing!DataSet
  <2>1. c1 \in Sharing!Station /\ c1 # 0 /\ 0 \in Sharing!Station /\ NULL \notin Sharing!DataSet
    BY DEF Sharing!Station, ShareAssumption
  <2> QED BY <1>1, <2>1 DEF StateTypes
<1>26. UNCHANGED <<step, connected, linked, told, port, changes, doubleMode>>
  BY DEF PieceStep
<1>3. /\ info'[c1] = g /\ info'[0] = q /\ last'[c1] = s /\ reply'[c1] = v
      /\ \A e \in Sharing!Station : e # c1 => last'[e] = last[e]
      /\ \A e \in Child : e # c1 => reply'[e] = reply[e]
  BY <1>2 DEF PieceStep
<1>4. KidCounts(q, port, told, Sending, c1)
  BY <1>1, KidNumbers
<1>5. KidOK(c1) /\ ReadsOK(q, port, told, connected, Sending, c1) /\ PiecesOK(told, c1)
      /\ BalanceOK(q, port, told, connected, Sending, c1)
  BY <1>1 DEF AllOK, KidsOK
<1>6. /\ b \in Rings /\ g \in Rings /\ g.writeIndex = b.writeIndex
      /\ g.readIndex = (b.readIndex + rd) % 4 /\ g.sendIndex = (b.sendIndex + 1 - y2) % 4
      /\ (g.retry <=> y2 = 1)
      /\ g.ds[b.sendIndex].no = 0 /\ g.ds[b.sendIndex].data = Sharing!NoData
      /\ \A n \in Slot : n # b.sendIndex => g.ds[n] = b.ds[n]
  BY DEF PutInto, PieceStep
<1>7. /\ b.sendIndex = (b.readIndex + IF b.retry THEN 2 ELSE 3) % 4
      /\ b.retry \/ r # <<>> => z # NULL
      /\ \A n \in 1..Len(r) : /\ b.ds[(b.sendIndex + 4 - n) % 4].no = 0
                              /\ r[n] = z.no - y - Len(r) + n
  BY SMTT(30), <1>5 DEF KidOK
<1>8. y = (IF b.retry THEN 1 ELSE 0) /\ x = (b.writeIndex + 4 - b.readIndex) % 4
  BY DEF Retries, Unread
<1>9. r \in Seq(Sharing!Piece)
  BY <1>2
<1> HIDE DEF b, r, x, y, m, z, q
<1>10. /\ InPort(port, c1) \in 0..2 /\ x \in 0..3 /\ y \in 0..1 /\ Len(r) \in Nat
       /\ Owed(q, told, Sending, c1) \in 0..1 /\ Lacks(q, c1) \in 0..2
       /\ Later(told, 1, DataOf(c1)) \in Nat
       /\ Unanswered(q, port, told, Sending, c1)
            = Owed(q, told, Sending, c1) + OnTheWay(port, told, c1)
       /\ OnTheWay(port, told, c1) = InPort(port, c1) + x + y + Len(r) + Later(told, 1, DataOf(c1))
       /\ NextPut(q, told, Sending) \in Int
  BY <1>4 DEF KidCounts, x, y, r
<1>11. rd = 1 - y /\ rd \in 0..1 /\ x >= rd
  <2>1. rd = 1 - y /\ x >= rd
    BY DEF y, x, PieceStep
  <2> QED BY <1>10, <2>1
<1>12. Begun(port, c1)
  <2>1. CASE y = 1
    <3>1. b.retry
      BY <1>8, <2>1
    <3> QED BY <1>7, <3>1 DEF Begun, z
  <2>2. CASE y # 1
    <3>1. x > 0
      BY <1>10, <1>11, <2>2
    <3> QED BY <3>1 DEF Begun, x
  <2> QED BY <2>1, <2>2
<1>13. /\ c1 \in linked \cap connected /\ \A h \in Sending : c1 \in h.dest
       /\ m >= 1
       /\ z # NULL => z.no = m - 1 /\ z.no >= 1
       /\ ~doubleMode => \A n \in DOMAIN port : port[n].new => c1 \in port[n].rest
       /\ \A n \in 0..x-1 : b.ds[(b.readIndex + n) % 4].no = m + n
  BY <1>5, <1>12 DEF ReadsOK, FirstUnread, m, z, x, b
<1>14. m \in Int
  BY <1>10 DEF m, FirstUnread, x
<1>15. x + y + Len(r) <= 3
  <2>1. Unanswered(q, port, told, Sending, c1) - Lacks(q, c1) \in 0..1
    BY <1>5, <1>13 DEF BalanceOK
  <2> DEFINE l == Len(r)
             n == Later(told, 1, DataOf(c1))
             ow == Owed(q, told, Sending, c1)
             a == InPort(port, c1)
             w == Lacks(q, c1)
             u == Unanswered(q, port, told, Sending, c1)
  <2>2. l \in Nat /\ n \in Nat /\ ow \in 0..1 /\ a \in 0..2 /\ x \in 0..3 /\ y \in 0..1 /\ w \in 0..2
    BY <1>10
  <2>3. u = ow + (a + x + y + l + n) /\ u - w \in 0..1
    BY <1>10, <2>1
  <2> HIDE DEF l, n, ow, a, w, u
  <2>4. x + y + l <= 3
    BY <2>2, <2>3
  <2> QED BY <2>4 DEF l
<1>16. x + y <= 3
  BY <1>10, <1>15
<1> DEFINE sd == b.sendIndex
           r2 == g.readIndex
           sd2 == g.sendIndex
<1>17. sd = (b.readIndex + 3 - y) % 4
  <2>1. b.readIndex + 3 - 0 = b.readIndex + 3 /\ b.readIndex + 3 - 1 = b.readIndex + 2
    <3>1. b.readIndex \in 0..3
      BY <1>6, SlotFacts DEF Rings
    <3> QED BY <3>1
  <2> QED BY <1>7, <1>8, <2>1
<1>18. SlotsAfter(b.writeIndex, b.readIndex, x, y2, sd, rd, r2, sd2)
  <2>1. b.writeIndex \in Slot /\ b.readIndex \in Slot
    BY <1>6 DEF Rings
  <2>2. r2 = (b.readIndex + rd) % 4 /\ sd2 = (sd + 1 - y2) % 4
    BY <1>6
  <2>3. x = (b.writeIndex + 4 - b.readIndex) % 4 /\ y \in 0..1 /\ rd = 1 - y /\ x >= rd
        /\ x + y <= 3 /\ sd = (b.readIndex + 3 - y) % 4
    BY <1>8, <1>10, <1>11, <1>16, <1>17
  <2> HIDE DEF sd, r2, sd2
  <2> QED BY <2>1, <2>2, <2>3, PieceSlots
<1>19. s \in Sharing!DataSet /\ s # NULL /\ s.no = (m + rd) - 1 /\ s.no >= 1
  <2>1. CASE rd = 0
    <3>1. y = 1
      BY <1>10, <1>11, <2>1
    <3>2. z # NULL /\ s = z /\ z \in Sharing!DataSet
      BY <1>2, <1>7, <1>8, <2>1, <3>1 DEF z, PieceStep
    <3>3. s.no = m - 1 /\ s.no >= 1 /\ m - 1 = (m + 0) - 1
      BY <1>13, <1>14, <3>2
    <3> QED BY <1>2, <2>1, <3>2, <3>3
  <2>2. CASE rd = 1
    <3>1. s = b.ds[b.readIndex] /\ b.readIndex \in Slot
      BY <1>6, <2>2 DEF b, Rings, PieceStep
    <3>2. s \in Sharing!DataSet
      BY <1>6, <3>1 DEF Rings
    <3>3. b.ds[(b.readIndex + 0) % 4].no = m + 0
      <4>1. 0 \in 0..x-1
        BY <1>10, <1>11, <2>2
      <4> QED BY <1>13, <4>1
    <3>4. (b.readIndex + 0) % 4 = b.readIndex
      <4>1. b.readIndex \in 0..3
        BY <3>1, SlotFacts
      <4> QED BY <4>1
    <3>5. s.no = m /\ m = (m + 1) - 1 /\ m >= 1
      BY <1>13, <1>14, <3>1, <3>3, <3>4
    <3> QED BY <1>2, <2>2, <3>2, <3>5
  <2> QED BY <1>11, <2>1, <2>2
<1>20. Sending' = Sending
  BY <1>26 DEF Sending
<1>21. NextPut(info[0], told, Sending)' = NextPut(q, told, Sending)
  BY <1>3, <1>20, <1>26, ParentCarried
<1>22. Unread(c1)' = x - rd /\ Retries(c1)' = y2 /\ InPort(port, c1)' = InPort(port, c1)
  <2>1. Unread(c1)' = (g.writeIndex + 4 - g.readIndex) % 4
    BY <1>3 DEF Unread
  <2>2. Retries(c1)' = y2
    BY <1>3, <1>6 DEF Retries
  <2>3. InPort(port, c1)' = InPort(port, c1)
    BY <1>26 DEF InPort, One
  <2>4. (g.writeIndex + 4 - g.readIndex) % 4 = x - rd
    BY <1>6, <1>18 DEF SlotsAfter
  <2> QED BY <2>1, <2>2, <2>3, <2>4
<1>23. FirstUnread(info[0], port, told, Sending, c1)' = m + rd
  <2> DEFINE n == NextPut(q, told, Sending)
             a == InPort(port, c1)
  <2>1. FirstUnread(info[0], port, told, Sending, c1)' = n - a - (x - rd)
    BY <1>21, <1>22 DEF FirstUnread
  <2>2. m = n - a - x
    BY DEF m, FirstUnread, x
  <2>3. n \in Int /\ a \in Int /\ x \in Int /\ rd \in Int
    BY <1>10, <1>11
  <2> HIDE DEF n, a
  <2> QED BY <2>1, <2>2, <2>3
<1>24. ReadsOK(info[0], port, told, connected, Sending, c1)'
  <2>1. \A n \in 0..(x - rd)-1 : g.ds[(r2 + n) % 4].no = (m + rd) + n
    <3> SUFFICES ASSUME NEW n \in 0..(x - rd)-1 PROVE g.ds[(r2 + n) % 4].no = (m + rd) + n
      OBVIOUS
    <3>1. n \in 0..2 /\ n <= x - rd - 1 /\ n + rd \in 0..x-1
      BY <1>10, <1>11
    <3>2. /\ (r2 + n) % 4 # sd /\ (r2 + n) % 4 = (b.readIndex + (n + rd)) % 4
          /\ (r2 + n) % 4 \in Slot
      BY <1>18, <3>1 DEF SlotsAfter
    <3>3. b.ds[(b.readIndex + (n + rd)) % 4].no = m + (n + rd)
      BY <1>13, <3>1
    <3>4. m + (n + rd) = (m + rd) + n
      BY <1>11, <1>14, <3>1
    <3>5. g.ds[(r2 + n) % 4] = b.ds[(r2 + n) % 4]
      BY <1>6, <3>2
    <3> QED BY <3>2, <3>3, <3>4, <3>5
  <2>2. m + rd >= 1
    BY <1>11, <1>13, <1>14
  <2>3. s.no = (m + rd) - 1
    BY <1>19
  <2> QED BY <1>3, <1>13, <1>19, <1>20, <1>22, <1>23, <1>26, <2>1, <2>2, <2>3 DEF ReadsOK
<1>25. Begun(port, c1)'
  BY <1>3, <1>19 DEF Begun

<1>27. /\ v \in Seq(Sharing!Piece) /\ Len(v) = Len(r) + 1 - y2
       /\ \A n \in 1..Len(r) : v[n] = r[n]
       /\ y2 = 0 => v[Len(r) + 1] = s.no
  <2>1. CASE y2 = 1
    <3>1. v = r /\ Len(r) = Len(r) + 1 - 1
      BY <1>10, <2>1 DEF r, PieceStep
    <3> QED BY <1>9, <2>1, <3>1
  <2>2. CASE y2 = 0
    <3>1. v = Append(r, s.no) /\ s.no \in Sharing!Piece
      <4>1. v = Append(r, s.no)
        BY <2>2 DEF r, PieceStep
      <4>2. s.no \in Sharing!Piece
        BY <1>19, DataSetFields
      <4> QED BY <4>1, <4>2
    <3> HIDE DEF PieceStep
    <3>2. v \in Seq(Sharing!Piece) /\ Len(v) = Len(r) + 1 /\ Len(r) + 1 = Len(r) + 1 - 0
      BY <1>9, <1>10, <3>1
    <3>3. (\A n \in 1..Len(r) : v[n] = r[n]) /\ v[Len(r) + 1] = s.no
      BY <1>9, <3>1
    <3> QED BY <2>2, <3>2, <3>3
  <2> QED BY <2>1, <2>2
<1>28. s.no - y2 - Len(v) = m - 1 - y - Len(r)
  <2> DEFINE l == Len(r)
             sn == s.no
             f == Len(v)
  <2>1. sn = (m + rd) - 1 /\ f = l + 1 - y2 /\ rd = 1 - y /\ l \in Nat /\ y2 \in 0..1 /\ y \in 0..1
    BY <1>10, <1>11, <1>19, <1>27
  <2> HIDE DEF l, sn, f
  <2>2. sn - y2 - f = m - 1 - y - l
    BY <1>14, <2>1
  <2> QED BY <2>2 DEF l, sn, f
<1>29. \A n \in 1..Len(v) : v[n] = s.no - y2 - Len(v) + n
  <2> SUFFICES ASSUME NEW n \in 1..Len(v) PROVE v[n] = s.no - y2 - Len(v) + n
    OBVIOUS
  <2>1. CASE n \in 1..Len(r)
    <3>1. r # <<>>
      BY <1>9, <2>1
    <3>2. z.no = m - 1 /\ r[n] = z.no - y - Len(r) + n
      BY <1>7, <1>13, <2>1, <3>1
    <3>3. v[n] = r[n]
      BY <1>27, <2>1
    <3> QED BY <1>28, <3>2, <3>3
  <2>2. CASE n \notin 1..Len(r)
    <3>1. y2 = 0 /\ n = Len(r) + 1 /\ n = Len(v)
      BY <1>10, <1>27, <2>2
    <3>2. v[n] = s.no
      BY <1>27, <3>1
    <3>3. s.no \in Int
      BY <1>11, <1>14, <1>19
    <3>4. Len(v) \in Int /\ s.no - 0 - Len(v) + Len(v) = s.no
      BY <1>10, <1>27, <3>1, <3>3
    <3> QED BY <3>1, <3>2, <3>4
  <2> QED BY <2>1, <2>2
<1>30. \A n \in 1..Len(v) : g.ds[(sd2 + 4 - n) % 4].no = 0
  <2> SUFFICES ASSUME NEW n \in 1..Len(v) PROVE g.ds[(sd2 + 4 - n) % 4].no = 0
    OBVIOUS
  <2>1. n \in 1..3 /\ Len(r) \in 0..3
    <3> DEFINE l == Len(r)
               f == Len(v)
    <3>1. /\ f = l + 1 - y2 /\ rd = 1 - y /\ l \in Nat /\ y2 \in 0..1 /\ y \in 0..1 /\ x \in 0..3
          /\ x >= rd /\ x + y + l <= 3 /\ n \in 1..f
      BY <1>10, <1>11, <1>15, <1>27
    <3> HIDE DEF l, f
    <3>2. l <= 2 \/ y2 = 1
      BY <3>1
    <3>3. f <= 3 /\ l <= 3 /\ f \in Int
      BY <3>1, <3>2
    <3>4. n \in 1..3 /\ l \in 0..3
      BY <3>1, <3>3
    <3> QED BY <3>4 DEF l
  <2>2. (sd2 + 4 - n) % 4 \in Slot
    BY <1>18, <2>1 DEF SlotsAfter
  <2>3. CASE (sd2 + 4 - n) % 4 = sd
    BY <1>6, <2>3
  <2>4. CASE (sd2 + 4 - n) % 4 # sd
    <3>1. b.ds[(sd2 + 4 - n) % 4].no = 0
      <4>1. CASE y2 = 1
        <5>1. n \in 1..Len(r)
          BY <1>10, <1>27, <4>1
        <5>2. (sd2 + 4 - n) % 4 = (sd + 4 - n) % 4
          BY <1>18, <2>1, <4>1 DEF SlotsAfter
        <5> QED BY <1>7, <5>1, <5>2
      <4>2. CASE y2 = 0
        <5>1. (sd2 + 4 - n) % 4 = (sd + 4 - (n - 1)) % 4
          BY <1>18, <2>1, <4>2 DEF SlotsAfter
        <5>2. n # 1
          <6>1. CASE n = 1
            <7>1. n - 1 = 0
              BY <6>1
            <7>2. (sd2 + 4 - n) % 4 = sd
              BY <1>18, <5>1, <7>1 DEF SlotsAfter
            <7> QED BY <2>4, <7>2
          <6> QED BY <6>1
        <5>3. n - 1 \in 1..Len(r)
          BY <1>10, <1>27, <2>1, <4>2, <5>2
        <5> QED BY <1>7, <5>1, <5>3
      <4> QED BY <4>1, <4>2
    <3> QED BY <1>6, <2>2, <2>4, <3>1
  <2> QED BY <2>3, <2>4
<1>31. KidOK(c1)'
  <2>1. sd2 = (r2 + IF g.retry THEN 2 ELSE 3) % 4
    <3>1. sd2 = (r2 + 3 - y2) % 4
      BY <1>18 DEF SlotsAfter
    <3>2. r2 \in Int
      BY <1>6, SlotFacts DEF Rings
    <3>3. r2 + 3 - 1 = r2 + 2 /\ r2 + 3 - 0 = r2 + 3
      BY <3>2
    <3> QED BY <1>6, <3>1, <3>3
  <2>2. y2 = IF g.retry THEN 1 ELSE 0
    BY <1>6
  <2> DEFINE f == Len(v)
  <2> HIDE DEF f
  <2>4. KidState(g, s, v)
    BY <1>19, <1>29, <1>30, <2>1, <2>2 DEF KidState
  <2>5. c1 \in linked' /\ doubleMode' = doubleMode
    BY <1>13, <1>26
  <2> QED BY <1>3, <2>4, <2>5, KidLanded
<1>32. PiecesOK(told, c1)'
  <2>1. ASSUME NEW k \in DOMAIN told, told[k].is = "data", told[k].child = c1
        PROVE  told[k].piece = s.no - y2 - Len(v) + 1 - Later(told, k, DataOf(c1))
    <3>1. z # NULL /\ told[k].piece = z.no - y - Len(r) + 1 - Later(told, k, DataOf(c1))
      BY <1>5, <1>13, <2>1 DEF PiecesOK, z, y, r
    <3>2. z.no = m - 1
      BY <1>13, <3>1
    <3> QED BY <1>28, <3>1, <3>2
  <2>2. Retries(c1)' = y2 /\ last'[c1] = s /\ reply'[c1] = v /\ told' = told /\ s # NULL
    BY <1>3, <1>19, <1>22, <1>26
  <2> QED BY <2>1, <2>2 DEF PiecesOK, Later, Hits, DataOf, Sharing!Piece
<1>33. OnTheWay(port, told, c1)' = OnTheWay(port, told, c1)
  <2> DEFINE l == Len(r)
             f == Len(v)
             a == InPort(port, c1)
             dn == Later(told, 1, DataOf(c1))
  <2>1. Later(told, 1, DataOf(c1))' = dn
    BY <1>26 DEF Later, Hits, DataOf, Sharing!Piece
  <2>2. Len(reply[c1])' = f
    BY <1>3
  <2>3. OnTheWay(port, told, c1)' = a + (x - rd) + y2 + f + dn
    BY <1>22, <2>1, <2>2 DEF OnTheWay
  <2>4. OnTheWay(port, told, c1) = a + x + y + l + dn
    BY <1>10
  <2>5. /\ f = l + 1 - y2 /\ rd = 1 - y /\ l \in Nat /\ y2 \in 0..1 /\ y \in 0..1 /\ x \in 0..3
        /\ a \in 0..2 /\ dn \in Nat
    BY <1>10, <1>11, <1>27
  <2> HIDE DEF l, f, a, dn
  <2>6. a + (x - rd) + y2 + f + dn = a + x + y + l + dn
    BY <2>5
  <2> QED BY <2>3, <2>4, <2>6
<1>34. SetFrom(b, z, s)
  <2>1. CASE rd = 0
    BY <2>1 DEF SetFrom, PieceStep, z
  <2>2. CASE rd = 1
    <3>1. s = b.ds[b.readIndex] /\ b.readIndex \in Slot
      BY <1>6, <2>2 DEF b, Rings, PieceStep
    <3> QED BY <3>1 DEF SetFrom
  <2> QED BY <1>11, <2>1, <2>2
<1>35. RingFrom(b, g)
  BY <1>6 DEF RingFrom
<1>36. /\ last' \in [Sharing!Station -> Sharing!DataSet \cup {NULL}]
       /\ reply' \in [Child -> Seq(Sharing!Piece)]
       /\ info' = [info EXCEPT ![c1] = g]
  <2>1. last' = [last EXCEPT ![c1] = s] /\ reply' = [reply EXCEPT ![c1] = v]
        /\ info' = [info EXCEPT ![c1] = g]
    BY DEF PieceStep
  <2> QED BY <1>2, <1>19, <1>27, <2>1
<1> QED BY <1>3, <1>6, <1>24, <1>25, <1>26, <1>31, <1>32, <1>33, <1>34, <1>35, <1>36, KidLands
        DEF b, z

\* The empty set is a set.
LEMMA FreshFacts ==
  ASSUME ShareAssumption
  PROVE  /\ Sharing!Fresh(0, {}) \in Sharing!DataSet /\ Sharing!Fresh(0, {}).no = 0
         /\ Sharing!Fresh(0, {}).data = Sharing!NoData
<1>1. 0 \in Sharing!Piece
  BY DEF ShareAssumption, Sharing!Piece, Sharing!DATASET_NUM
<1>2. Sharing!NoData \in [Sharing!Station -> Sharing!Piece]
  BY <1>1 DEF Sharing!NoData
<1> QED BY <1>1, <1>2 DEF Sharing!Fresh, Sharing!DataSet

\* A ring after a child has gone on to the next set.
LEMMA GoneOnFacts ==
  ASSUME NEW b \in Rings
  PROVE  /\ GoneOn(b) \in Rings /\ GoneOn(b).readIndex = Sharing!Next4(b.readIndex)
         /\ GoneOn(b).ds = b.ds /\ GoneOn(b).writeIndex = b.writeIndex
         /\ GoneOn(b).sendIndex = b.sendIndex /\ GoneOn(b).retry = b.retry
<1> DEFINE z == GoneOn(b)
<1>1. PICK ds \in [Slot -> Sharing!DataSet], w \in Slot, r \in Slot, n \in Slot, rt \in BOOLEAN :
        b = [ds |-> ds, writeIndex |-> w, readIndex |-> r, sendIndex |-> n, retry |-> rt]
  BY DEF Rings
<1>2. z = [b EXCEPT !.readIndex = Sharing!Next4(@)]
  BY DEF GoneOn
<1> HIDE DEF z
<1> DEFINE nr == Sharing!Next4(r)
<1>3. nr \in Slot
  BY SlotFacts
<1>4. z = [ds |-> ds, writeIndex |-> w, readIndex |-> nr, sendIndex |-> n, retry |-> rt]
  BY <1>1, <1>2
<1> HIDE DEF nr
<1>5. z \in Rings
  BY <1>3, <1>4 DEF Rings
<1>6. /\ z.readIndex = Sharing!Next4(b.readIndex) /\ z.ds = b.ds
      /\ z.writeIndex = b.writeIndex /\ z.sendIndex = b.sendIndex /\ z.retry = b.retry
  BY <1>1, <1>4 DEF nr
<1> QED BY <1>5, <1>6 DEF z

\* A child's ring after the piece was put, or refused.
LEMMA PutFacts ==
  ASSUME ShareAssumption, NEW b \in Rings, NEW y2 \in 0..1
  PROVE  PutFrom(b, PutPast(b, y2), y2)
<1> DEFINE z == PutPast(b, y2)
           d == Sharing!Fresh(0, {})
<1>1. PICK ds \in [Slot -> Sharing!DataSet], w \in Slot, r \in Slot, n \in Slot, rt \in BOOLEAN :
        b = [ds |-> ds, writeIndex |-> w, readIndex |-> r, sendIndex |-> n, retry |-> rt]
  BY DEF Rings
<1>2. /\ y2 = 1 => z = [b EXCEPT !.ds[b.sendIndex] = d, !.retry = TRUE]
      /\ y2 = 0 => z = [b EXCEPT !.ds[b.sendIndex] = d, !.sendIndex = Sharing!Next4(@),
                                 !.retry = FALSE]
  BY DEF PutPast, PieceGone, PieceStays
<1>3. d \in Sharing!DataSet /\ d.no = 0 /\ d.data = Sharing!NoData
  BY FreshFacts
<1> HIDE DEF z, d
<1> DEFINE fs == [ds EXCEPT ![n] = d]
           nn == (n + 1 - y2) % 4
           rb == (y2 = 1)
<1>4. /\ fs \in [Slot -> Sharing!DataSet] /\ fs[n] = d
      /\ \A k \in Slot : k # n => fs[k] = ds[k]
  BY <1>3
<1>5. n \in 0..3 /\ nn \in Slot
  BY SlotFacts
<1>6. z = [ds |-> fs, writeIndex |-> w, readIndex |-> r, sendIndex |-> nn, retry |-> rb]
  <2>1. CASE y2 = 1
    <3>1. nn = n
      BY <1>5, <2>1
    <3>2. z = [ds |-> fs, writeIndex |-> w, readIndex |-> r, sendIndex |-> n, retry |-> TRUE]
      BY <1>1, <1>2, <2>1
    <3>3. rb = TRUE
      BY <2>1
    <3> HIDE DEF rb, nn, fs
    <3> QED BY <3>1, <3>2, <3>3
  <2>2. CASE y2 = 0
    <3>1. nn = Sharing!Next4(n)
      BY <1>5, <2>2 DEF Sharing!Next4, Sharing!DATASET_NUM
    <3>2. z = [ds |-> fs, writeIndex |-> w, readIndex |-> r, sendIndex |-> Sharing!Next4(n),
               retry |-> FALSE]
      BY <1>1, <1>2, <2>2
    <3>3. rb = FALSE
      BY <2>2
    <3> HIDE DEF rb, nn, fs
    <3> QED BY <3>1, <3>2, <3>3
  <2> QED BY <2>1, <2>2
<1>10. rb \in BOOLEAN
  OBVIOUS
<1> HIDE DEF fs, rb
<1>7. z \in Rings
  BY <1>4, <1>5, <1>6, <1>10 DEF Rings
<1>8. /\ z.writeIndex = b.writeIndex /\ z.readIndex = b.readIndex
      /\ z.sendIndex = (b.sendIndex + 1 - y2) % 4 /\ (z.retry <=> y2 = 1)
      /\ z.ds = fs /\ b.ds = ds /\ b.sendIndex = n
  <2>1. z.retry = rb
    BY <1>6
  <2> QED BY <1>1, <1>6, <2>1 DEF rb
<1>9. /\ z.ds[b.sendIndex].no = 0 /\ z.ds[b.sendIndex].data = Sharing!NoData
      /\ \A k \in Slot : k # b.sendIndex => z.ds[k] = b.ds[k]
  BY <1>3, <1>4, <1>8
<1> QED BY <1>7, <1>8, <1>9 DEF PutFrom, z

\* PutPiece either puts the piece or finds the queue full.
LEMMA PutCases ==
  ASSUME NEW c1 \in Child, NEW k, NEW b \in Rings, StateTypes, Sharing!PutPiece(c1, k, b),
         UNCHANGED doubleMode
  PROVE  \E y2 \in 0..1 :
           /\ info' = [info EXCEPT ![c1] = PutPast(b, y2)]
           /\ reply' = [reply EXCEPT ![c1] = PutOut(reply[c1], k, y2)]
<1>1. CASE /\ reply' = [reply EXCEPT ![c1] = Append(@, k)]
           /\ info' = [info EXCEPT ![c1] = [[b EXCEPT !.ds[b.sendIndex] = Sharing!Fresh(0, {})]
                                              EXCEPT !.sendIndex = Sharing!Next4(@), !.retry = FALSE]]
  <2>1. [[b EXCEPT !.ds[b.sendIndex] = Sharing!Fresh(0, {})]
            EXCEPT !.sendIndex = Sharing!Next4(@), !.retry = FALSE] = PieceGone(b)
    BY DEF PieceGone, Rings
  <2>2. info' = [info EXCEPT ![c1] = PieceGone(b)]
    BY <1>1, <2>1
  <2>3. PutPast(b, 0) = PieceGone(b) /\ PutOut(reply[c1], k, 0) = Append(reply[c1], k)
    BY DEF PutPast, PutOut
  <2>4. /\ info' = [info EXCEPT ![c1] = PutPast(b, 0)]
        /\ reply' = [reply EXCEPT ![c1] = PutOut(reply[c1], k, 0)]
    BY <1>1, <2>2, <2>3
  <2> QED BY <2>4
<1>2. CASE /\ UNCHANGED reply
           /\ info' = [info EXCEPT ![c1] = [[b EXCEPT !.ds[b.sendIndex] = Sharing!Fresh(0, {})]
                                              EXCEPT !.retry = TRUE]]
  <2>1. [[b EXCEPT !.ds[b.sendIndex] = Sharing!Fresh(0, {})] EXCEPT !.retry = TRUE] = PieceStays(b)
    BY DEF PieceStays, Rings
  <2>2. info' = [info EXCEPT ![c1] = PieceStays(b)]
    BY <1>2, <2>1
  <2>3. reply' = [reply EXCEPT ![c1] = reply[c1]]
    BY <1>2 DEF StateTypes
  <2>4. PutPast(b, 1) = PieceStays(b) /\ PutOut(reply[c1], k, 1) = reply[c1]
    BY DEF PutPast, PutOut
  <2>5. /\ info' = [info EXCEPT ![c1] = PutPast(b, 1)]
        /\ reply' = [reply EXCEPT ![c1] = PutOut(reply[c1], k, 1)]
    BY <1>2, <2>2, <2>3, <2>4
  <2> QED BY <2>5
<1> QED BY <1>1, <1>2 DEF Sharing!PutPiece

\* A child puts the piece again that found the queue full.
LEMMA StepChildRetry ==
  ASSUME ShareAssumption, ShareInv, NEW c1 \in Child, Sharing!ChildRetry(c1),
         UNCHANGED doubleMode
  PROVE  ShareInv'
<1> DEFINE b == info[c1]
<1>1. StateTypes /\ AllOK(info[0], port, told, connected, Sending)
  BY DEF ShareInv
<1>2. /\ c1 \in Sharing!Station /\ b \in Rings /\ last \in [Sharing!Station -> Sharing!DataSet \cup {NULL}]
  <2>1. c1 \in Sharing!Station
    BY DEF Sharing!Station
  <2> QED BY <1>1, <2>1 DEF StateTypes
<1>3. KidOK(c1)
  BY <1>1 DEF AllOK, KidsOK
<1>4. /\ c1 \in linked /\ b.retry /\ Sharing!PutPiece(c1, Sharing!ReadNo(c1), b)
      /\ UNCHANGED <<last, step, connected, linked, told, port, changes, doubleMode>>
  BY DEF Sharing!ChildRetry
<1>5. Sharing!ReadNo(c1) = last[c1].no
  BY <1>3, <1>4 DEF KidOK, Sharing!ReadNo
<1>6. PICK y2 \in 0..1 : /\ info' = [info EXCEPT ![c1] = PutPast(b, y2)]
                         /\ reply' = [reply EXCEPT ![c1] = PutOut(reply[c1], last[c1].no, y2)]
  BY <1>1, <1>2, <1>4, <1>5, PutCases
<1> DEFINE g == PutPast(b, y2)
           v == PutOut(reply[c1], last[c1].no, y2)
<1>7. PutFrom(b, g, y2)
  BY <1>2, PutFacts
<1>8. /\ y2 = 1 => v = reply[c1]
      /\ y2 = 0 => v = Append(reply[c1], last[c1].no)
  BY DEF PutOut
<1>9. Retries(c1) = 1 /\ Unread(c1) >= 0
  <2>1. Retries(c1) = 1
    BY <1>4 DEF Retries
  <2>2. KidCounts(info[0], port, told, Sending, c1)
    BY <1>1, KidNumbers
  <2> QED BY <2>1, <2>2 DEF KidCounts
<1>10. last' = [last EXCEPT ![c1] = last[c1]]
  BY <1>2, <1>4
<1>11. info' = [info EXCEPT ![c1] = g] /\ reply' = [reply EXCEPT ![c1] = v]
  BY <1>6
<1> HIDE DEF g, v
<1>12. PutInto(b, g, 0, y2)
  <2>1. b.readIndex = (b.readIndex + 0) % 4
    <3>1. b.readIndex \in 0..3
      BY <1>2, SlotFacts DEF Rings
    <3> QED BY <3>1
  <2> QED BY <1>2, <1>7, <2>1 DEF PutFrom, PutInto
<1>13. 0 = 1 - Retries(c1)
  BY <1>9
<1>14. PieceStep(c1, g, 0, y2, last[c1], v)
  <2> DEFINE s == last[c1]
  <2>1. UNCHANGED <<step, connected, linked, told, port, changes, doubleMode>>
    BY <1>4
  <2>2. last' = [last EXCEPT ![c1] = s] /\ (y2 = 0 => v = Append(reply[c1], s.no)) /\ s = last[c1]
    BY <1>8, <1>10
  <2> HIDE DEF s, b
  <2>4. PutInto(info[c1], g, 0, y2) /\ Unread(c1) >= 0
    BY <1>9, <1>12 DEF b
  <2>5. 0 = 1 => s = info[c1].ds[info[c1].readIndex]
    OBVIOUS
  <2>6. PieceStep(c1, g, 0, y2, s, v)
    BY <1>4, <1>6, <1>8, <1>11, <1>13, <2>1, <2>2, <2>4, <2>5 DEF PieceStep
  <2> QED BY <2>6 DEF s
<1> QED BY <1>14, PieceLands

\* A child reads the next set, and puts its piece.
LEMMA StepChildRead ==
  ASSUME ShareAssumption, ShareInv, NEW c1 \in Child, Sharing!ChildRead(c1),
         UNCHANGED doubleMode
  PROVE  ShareInv'
<1> DEFINE b == info[c1]
           s == b.ds[b.readIndex]
           h == GoneOn(b)
<1>1. StateTypes /\ AllOK(info[0], port, told, connected, Sending)
  BY DEF ShareInv
<1>2. c1 \in Sharing!Station /\ b \in Rings
  <2>1. c1 \in Sharing!Station
    BY DEF Sharing!Station
  <2> QED BY <1>1, <2>1 DEF StateTypes
<1>3. KidOK(c1)
  BY <1>1 DEF AllOK, KidsOK
<1>4. /\ c1 \in linked /\ ~b.retry /\ b.readIndex # b.writeIndex
      /\ last' = [last EXCEPT ![c1] = s]
      /\ Sharing!PutPiece(c1, s.no, h)
      /\ UNCHANGED <<step, connected, linked, told, port, changes, doubleMode>>
  BY DEF Sharing!ChildRead, GoneOn
<1>5. /\ h \in Rings /\ h.readIndex = Sharing!Next4(b.readIndex)
      /\ h.ds = b.ds /\ h.writeIndex = b.writeIndex
      /\ h.sendIndex = b.sendIndex /\ h.retry = b.retry
  BY <1>2, GoneOnFacts
<1> HIDE DEF h
<1>6. PICK y2 \in 0..1 : /\ info' = [info EXCEPT ![c1] = PutPast(h, y2)]
                         /\ reply' = [reply EXCEPT ![c1] = PutOut(reply[c1], s.no, y2)]
  BY <1>1, <1>4, <1>5, PutCases
<1> DEFINE g == PutPast(h, y2)
           v == PutOut(reply[c1], s.no, y2)
<1>7. PutFrom(h, g, y2)
  BY <1>5, PutFacts
<1>8. /\ y2 = 1 => v = reply[c1]
      /\ y2 = 0 => v = Append(reply[c1], s.no)
  BY DEF PutOut
<1>9. Retries(c1) = 0 /\ Unread(c1) >= 1
  <2>1. Retries(c1) = 0
    BY <1>4 DEF Retries
  <2>2. b.readIndex \in 0..3 /\ b.writeIndex \in 0..3
    BY <1>2, SlotFacts DEF Rings
  <2>3. (b.writeIndex + 4 - b.readIndex) % 4 >= 1
    BY <1>4, <2>2
  <2> QED BY <2>1, <2>3 DEF Unread
<1>10. info' = [info EXCEPT ![c1] = g] /\ reply' = [reply EXCEPT ![c1] = v]
  BY <1>6
<1> HIDE DEF g, v
<1>11. PutInto(b, g, 1, y2)
  <2>1. Sharing!Next4(b.readIndex) = (b.readIndex + 1) % 4
    BY DEF Sharing!Next4, Sharing!DATASET_NUM
  <2> QED BY <1>2, <1>5, <1>7, <2>1 DEF PutFrom, PutInto
<1>12. 1 = 1 - Retries(c1)
  BY <1>9
<1>13. PieceStep(c1, g, 1, y2, s, v)
  <2>1. UNCHANGED <<step, connected, linked, told, port, changes, doubleMode>>
    BY <1>4
  <2>2. last' = [last EXCEPT ![c1] = s] /\ (y2 = 0 => v = Append(reply[c1], s.no))
    BY <1>4, <1>8
  <2>3. s = info[c1].ds[info[c1].readIndex]
    OBVIOUS
  <2> HIDE DEF s, b
  <2>4. PutInto(info[c1], g, 1, y2) /\ Unread(c1) >= 1
    BY <1>9, <1>11 DEF b
  <2>5. 1 = 0 => s = last[c1]
    OBVIOUS
  <2> QED BY <1>4, <1>6, <1>8, <1>10, <1>12, <2>1, <2>2, <2>3, <2>4, <2>5 DEF PieceStep
<1> QED BY <1>13, PieceLands

-----------------------------------------------------------------------------
(* Children that come and go.                                                 *)

\* A step that changes who is connected to the parent's ARM7.
LEMMA ChangeLands ==
  ASSUME ShareAssumption, ShareInv, UNCHANGED <<step, connected, doubleMode>>,
         changes' \in Nat, changes' > 0, linked' \subseteq Child,
         info' \in [Sharing!Station -> Rings],
         last' \in [Sharing!Station -> Sharing!DataSet \cup {NULL}],
         reply' \in [Child -> Seq(Sharing!Piece)],
         info'[0] = info[0], last'[0] = last[0],
         NEW p, NEW t, port' = p, told' = t,
         ParentTypes(info[0], p, t, connected), PendingOK(info[0], t, Sending),
         SentOK(info[0], p, t, Sending), FirstOK(info[0], p),
         PortOK(info[0], port, told, connected, Sending)',
         ToldOK(told, connected, Sending)',
         KidsOK(info[0], port, told, connected, Sending)',
         \A d \in Known(info[0], port)' :
           \/ \E f \in Known(info[0], port) : d.no = f.no /\ d.data = f.data
           \/ d.no = 0 /\ d.data = Sharing!NoData
  PROVE  ShareInv'
<1> DEFINE q == info[0]
<1>1. StateTypes /\ PlaceOK(q) /\ AllOK(q, port, told, connected, Sending)
  BY DEF ShareInv
<1>2. q \in Rings /\ RingOK(q) /\ LackOK(q, connected) /\ KnownOK(q, port)
  BY <1>1 DEF AllOK, ParentOK, ParentTypes
<1>3. /\ HasRead' = HasRead /\ Given' = Given /\ Sending' = Sending
      /\ StateTypes' /\ PlaceOK(q)' /\ Under(q)' = Under(q)
  BY <1>1, PlaceCarried
<1>4. /\ RingOK(q)' /\ LackOK(q, connected)' /\ PendingOK(q, told, Sending)'
      /\ FirstOK(q, port)' /\ SentOK(q, port, told, Sending)'
      /\ ParentTypes(q, port, told, connected)'
  BY <1>2, <1>3, ParentCarried
<1>5. CollectOK(q)' /\ NoneLeftOut(q, port, told, Sending)'
  BY DEF CollectOK, NoneLeftOut
<1>6. \A d : IsRight(d) => IsRight(d)'
  <2>1. Ahead' = Ahead
    BY DEF Ahead, Sharing!Ahead
  <2>2. \A m : PieceOf(0, m)' = PieceOf(0, m)
    BY <2>1 DEF PieceOf
  <2> QED BY <2>2 DEF IsRight, Sharing!NoData, Sharing!Station
<1>7. KnownOK(q, port)'
  <2>1. Agree(Known(q, port)') /\ \A d \in Known(q, port)' : d.no < Under(q) /\ IsRight(d)
    BY ZenonT(60), <1>1, <1>2, KnownGrows
  <2> QED BY <1>3, <1>6, <2>1 DEF KnownOK, Agree
<1> QED BY <1>3, <1>4, <1>5, <1>7 DEF ShareInv, AllOK, ParentOK

\* When one child comes or goes nothing is new to the others.
LEMMA OthersStay ==
  ASSUME NEW q, NEW p, NEW r, NEW t, NEW con, NEW e \in Child, Idle(e), SameFor(p, r, e),
         info'[0] = q, port' = r, told' = t, connected' = con, Sending' = Sending,
         doubleMode' = doubleMode, changes' \in Nat, changes' > 0,
         e \in linked' <=> e \in linked, KidOK(e), ReadsOK(q, p, t, con, Sending, e),
         PiecesOK(t, e), BalanceOK(q, p, t, con, Sending, e)
  PROVE  /\ KidOK(e)' /\ PiecesOK(told, e)'
         /\ ReadsOK(info[0], port, told, connected, Sending, e)'
         /\ BalanceOK(info[0], port, told, connected, Sending, e)'
<1>1. /\ Under(info[0])' = Under(q) /\ NextPut(info[0], told, Sending)' = NextPut(q, t, Sending)
      /\ (Refusal(info[0], told)' <=> Refusal(q, t))
  BY ParentCarried
<1>2. InPort(port, e)' = InPort(p, e)
  <2>1. /\ (1 <= Len(r) /\ e \in r[1].rest) <=> (1 <= Len(p) /\ e \in p[1].rest)
        /\ (2 <= Len(r) /\ e \in r[2].rest) <=> (2 <= Len(p) /\ e \in p[2].rest)
    BY DEF SameFor
  <2> QED BY <2>1 DEF InPort, One
<1>3. /\ Unread(e)' = Unread(e) /\ Retries(e)' = Retries(e)
      /\ (Begun(port, e)' <=> Begun(p, e))
  BY <1>2 DEF Unread, Retries, Begun, Idle
<1>4. KidOK(e)'
  BY SMTT(30), <1>3 DEF KidOK, Idle
<1>5. FirstUnread(info[0], port, told, Sending, e)' = FirstUnread(q, p, t, Sending, e)
  BY <1>1, <1>2, <1>3 DEF FirstUnread
<1>6. ReadsOK(info[0], port, told, connected, Sending, e)'
  <2>1. (~doubleMode => \A n \in DOMAIN p : p[n].new => e \in p[n].rest)
          => (~doubleMode => \A n \in DOMAIN r : r[n].new => e \in r[n].rest)
    BY DEF SameFor
  <2> QED BY <1>3, <1>5, <2>1 DEF ReadsOK, Idle
<1>7. PiecesOK(told, e)'
  BY <1>3 DEF PiecesOK, Idle
<1>8. Unanswered(info[0], port, told, Sending, e)' = Unanswered(q, p, t, Sending, e)
  <2>1. Owed(info[0], told, Sending, e)' = Owed(q, t, Sending, e)
    BY <1>1 DEF Owed, One
  <2>2. OnTheWay(port, told, e)' = OnTheWay(p, t, e)
    BY <1>2, <1>3 DEF OnTheWay, Idle
  <2> QED BY <2>1, <2>2 DEF Unanswered
<1>9. Lacks(info[0], e)' = Lacks(q, e)
  BY <1>1 DEF Lacks, Held, One
<1>10. Exact(port, Sending, e)' => Exact(p, Sending, e)
  <2>1. r # <<>> <=> p # <<>>
    BY DEF SameFor
  <2> QED BY <2>1 DEF Exact, SameFor
<1>11. BalanceOK(info[0], port, told, connected, Sending, e)'
  BY <1>8, <1>9, <1>10 DEF BalanceOK
<1> QED BY <1>4, <1>6, <1>7, <1>11

\* A child comes, whom the ARM9 has forgotten.
LEMMA StepAssociate ==
  ASSUME ShareAssumption, ShareInv, NEW c1 \in Child, Sharing!Associate(c1), UNCHANGED doubleMode
  PROVE  ShareInv'
<1> DEFINE q == info[0]
           t == told
           x == [is |-> "connected", child |-> c1]
           u == Append(t, x)
<1>1. StateTypes /\ PlaceOK(q) /\ AllOK(q, port, t, connected, Sending)
  BY DEF ShareInv
<1>2. /\ linked' = linked \cup {c1} /\ changes' = changes + 1 /\ told' = u
      /\ UNCHANGED <<info, last, step, connected, port, reply, doubleMode>>
  BY DEF Sharing!Associate
<1>3. /\ c1 \notin linked /\ c1 \notin connected
      /\ \A k \in DOMAIN t : t[k].is \in {"connected", "disconnected"} => t[k].child # c1
      /\ \A h \in Sending : c1 \notin h.dest
  <2>1. Sharing!Forgotten(c1)
    BY DEF Sharing!Associate
  <2> QED BY <2>1 DEF Sharing!Forgotten, Sending
<1>4. x \in Notices /\ x.is = "connected" /\ x.child = c1 /\ x.is \notin {"sent", "full"}
      /\ \A e \in Child : x \notin DataOf(e)
  BY DEF Notices, DataOf
<1>5. u = Append(t, x)
  OBVIOUS
<1> HIDE DEF x, u
<1>6. MoreTold(q, port, t, connected, u, x)
  BY <1>1, <1>4, <1>5, ToldMore
<1>8. /\ Len(t) \in Nat /\ Len(u) = Len(t) + 1 /\ DOMAIN t = 1..Len(t) /\ DOMAIN u = 1..Len(u)
      /\ u[Len(u)] = x /\ \A k \in 1..Len(t) : u[k] = t[k]
  <2>1. t \in Seq(Notices)
    BY <1>1 DEF AllOK, ParentTypes
  <2>2. More(Notices, u, t, x)
    BY <1>4, <1>5, <2>1, OneMore
  <2> QED BY <2>2 DEF More
<1>9. /\ ToldOK(t, connected, Sending) /\ FirstOK(q, port)
      /\ \A e \in Child : KidOK(e) /\ PiecesOK(t, e)
  BY <1>1 DEF AllOK, ParentOK, KidsOK
<1>10. linked \subseteq Child /\ changes \in Nat /\ linked' \subseteq Child /\ changes' \in Nat
       /\ changes' > 0 /\ changes' # 0
  <2>1. linked \subseteq Child /\ changes \in Nat
    BY <1>1 DEF StateTypes
  <2> QED BY <1>2, <2>1
<1>11. Sending' = Sending
  BY <1>2 DEF Sending
<1>12. ToldOK(told, connected, Sending)'
  <2>1. \A k \in 1..Len(u) : k \in 1..Len(t) \/ k = Len(u)
    BY <1>8
  <2>2. Len(u) \in 1..Len(u) /\ \A k \in 1..Len(t) : k \in 1..Len(u)
    BY <1>8
  <2>3. ASSUME NEW k \in 1..Len(u), u[k].is = "connected"
        PROVE  /\ u[k].child \notin connected /\ \A h \in Sending : u[k].child \notin h.dest
               /\ \A n \in 1..Len(u) : u[n].is = "connected" /\ u[n].child = u[k].child => n = k
               /\ u[k].child \notin linked' =>
                    \E n \in 1..Len(u) : u[n].is = "disconnected" /\ u[n].child = u[k].child
    <3>1. CASE k = Len(u)
      BY <1>2, <1>3, <1>4, <1>8, <2>1, <3>1
    <3>2. CASE k \in 1..Len(t)
      <4>1. u[k] = t[k] /\ t[k].child # c1 /\ t[k].is = "connected"
        BY <1>3, <1>8, <2>3, <3>2
      <4>2. /\ t[k].child \notin connected /\ \A h \in Sending : t[k].child \notin h.dest
            /\ \A n \in 1..Len(t) : t[n].is = "connected" /\ t[n].child = t[k].child => n = k
            /\ t[k].child \notin linked =>
                 \E n \in 1..Len(t) : t[n].is = "disconnected" /\ t[n].child = t[k].child
        BY <1>8, <1>9, <3>2, <4>1 DEF ToldOK, NoticeOK
      <4>3. \A n \in 1..Len(u) : u[n].is = "connected" /\ u[n].child = u[k].child => n = k
        BY <1>4, <1>8, <2>1, <4>1, <4>2
      <4>4. u[k].child \notin linked' =>
              \E n \in 1..Len(u) : u[n].is = "disconnected" /\ u[n].child = u[k].child
        BY <1>2, <1>8, <2>2, <4>1, <4>2
      <4> QED BY <4>1, <4>2, <4>3, <4>4
    <3> QED BY <2>1, <3>1, <3>2
  <2>4. ASSUME NEW k \in 1..Len(u), u[k].is = "disconnected"
        PROVE  /\ u[k].child \notin linked'
               /\ \A n \in 1..Len(u) : u[n].is = "disconnected" /\ u[n].child = u[k].child => n = k
               /\ \A n \in 1..Len(u) :
                    u[n].is \in {"connected", "data"} /\ u[n].child = u[k].child => n < k
    <3>1. k \in 1..Len(t)
      BY <1>4, <1>8, <2>1, <2>4
    <3>2. u[k] = t[k] /\ t[k].child # c1 /\ t[k].is = "disconnected"
      BY <1>3, <1>8, <2>4, <3>1
    <3>3. /\ t[k].child \notin linked
          /\ \A n \in 1..Len(t) : t[n].is = "disconnected" /\ t[n].child = t[k].child => n = k
          /\ \A n \in 1..Len(t) :
               t[n].is \in {"connected", "data"} /\ t[n].child = t[k].child => n < k
      BY <1>8, <1>9, <3>1, <3>2 DEF ToldOK, NoticeOK
    <3> QED BY <1>2, <1>4, <1>8, <2>1, <3>2, <3>3
  <2>5. \A k \in 1..Len(u) : u[k].is = "data" => u[k].child \in connected
    BY <1>4, <1>8, <1>9, <2>1 DEF ToldOK, NoticeOK
  <2>6. \A e \in linked' \ connected : \E k \in 1..Len(u) : u[k].is = "connected" /\ u[k].child = e
    <3> SUFFICES ASSUME NEW e \in linked' \ connected
                 PROVE  \E k \in 1..Len(u) : u[k].is = "connected" /\ u[k].child = e
      OBVIOUS
    <3>1. CASE e = c1
      BY <1>4, <1>8, <2>2, <3>1
    <3>2. CASE e # c1
      <4>1. PICK k \in 1..Len(t) : t[k].is = "connected" /\ t[k].child = e
        BY <1>2, <1>8, <1>9, <3>2 DEF ToldOK, NoticeOK
      <4> QED BY <1>8, <2>2, <4>1
    <3> QED BY <3>1, <3>2
  <2>7. \A e \in connected \ linked' : \E k \in 1..Len(u) : u[k].is = "disconnected" /\ u[k].child = e
    BY <1>2, <1>8, <1>9, <2>2 DEF ToldOK, NoticeOK
  <2>8. told' = u /\ connected' = connected /\ Sending' = Sending /\ DOMAIN u = 1..Len(u)
    BY <1>2, <1>8, <1>11
  <2> QED BY <1>10, <2>3, <2>4, <2>5, <2>6, <2>7, <2>8 DEF ToldOK, NoticeOK
<1>13. PortOK(info[0], port, told, connected, Sending)'
  <2>1. PortOK(q, port, u, connected, Sending)
    BY <1>6 DEF MoreTold
  <2>2. NextPut(info[0], told, Sending)' = NextPut(q, u, Sending)
    BY <1>2, <1>11, ParentCarried
  <2>3. Ahead' = Ahead
    BY <1>2 DEF Ahead, Sharing!Ahead
  <2> QED BY <1>2, <1>11, <2>1, <2>2, <2>3 DEF PortOK
<1>14. t \in Seq(Notices) /\ port \in Seq(Packets)
  BY <1>1 DEF AllOK, ParentTypes
<1>15. KidsOK(info[0], port, told, connected, Sending)'
  <2>1. ASSUME NEW e \in Child, e # c1
        PROVE  /\ KidOK(e)' /\ PiecesOK(told, e)'
               /\ ReadsOK(info[0], port, told, connected, Sending, e)'
               /\ BalanceOK(info[0], port, told, connected, Sending, e)'
    <3>1. /\ ReadsOK(q, port, u, connected, Sending, e) /\ PiecesOK(u, e)
          /\ BalanceOK(q, port, u, connected, Sending, e)
      BY <1>4, <1>6 DEF MoreTold
    <3>2. Idle(e) /\ SameFor(port, port, e) /\ (e \in linked' <=> e \in linked)
      BY <1>2, <1>14, <2>1 DEF Idle, SameFor
    <3>3. info'[0] = q /\ port' = port /\ told' = u /\ connected' = connected /\ doubleMode' = doubleMode
      BY <1>2
    <3> QED BY <1>9, <1>10, <1>11, <3>1, <3>2, <3>3, OthersStay
  <2>2. ~Begun(port, c1)
    <3>1. ReadsOK(q, port, t, connected, Sending, c1)
      BY <1>1 DEF AllOK, KidsOK
    <3> QED BY <1>3, <3>1 DEF ReadsOK
  <2>3. ~Begun(port, c1)'
    BY <1>2, <2>2 DEF Begun, Unread, InPort, One
  <2>4. ReadsOK(info[0], port, told, connected, Sending, c1)'
    BY <2>3 DEF ReadsOK
  <2>5. BalanceOK(info[0], port, told, connected, Sending, c1)'
    BY <1>2, <1>3 DEF BalanceOK
  <2>6. KidOK(c1)'
    <3>1. KidOK(c1) /\ Retries(c1)' = Retries(c1)
      BY <1>2, <1>9 DEF Retries
    <3> QED BY SMTT(30), <1>2, <3>1 DEF KidOK
  <2>7. PiecesOK(told, c1)'
    <3>1. \A k \in DOMAIN u : ~(u[k].is = "data" /\ u[k].child = c1)
      BY <1>3, <1>4, <1>8, <1>9 DEF ToldOK, NoticeOK
    <3> QED BY <1>2, <3>1 DEF PiecesOK
  <2> QED BY <2>1, <2>4, <2>5, <2>6, <2>7 DEF KidsOK
<1>16. /\ ParentTypes(q, port, u, connected) /\ PendingOK(q, u, Sending)
       /\ SentOK(q, port, u, Sending)
  BY <1>6 DEF MoreTold
<1>17. /\ info' \in [Sharing!Station -> Rings] /\ reply' \in [Child -> Seq(Sharing!Piece)]
       /\ last' \in [Sharing!Station -> Sharing!DataSet \cup {NULL}]
       /\ info'[0] = q /\ last'[0] = last[0]
  BY <1>1, <1>2 DEF StateTypes
<1>18. \A d \in Known(info[0], port)' : d \in Known(info[0], port)
  BY <1>2 DEF Known, Under, Sharing!Station
<1> QED BY <1>2, <1>9, <1>10, <1>12, <1>13, <1>15, <1>16, <1>17, <1>18, ChangeLands

\* The packets without a child that goes.
LEMMA WithoutFacts ==
  ASSUME NEW p \in Seq(Packets), NEW c1 \in Child
  PROVE  LeavesBehind(p, Without(p, c1), c1)
<1> DEFINE r == Without(p, c1)
<1>1. DOMAIN p = 1..Len(p) /\ Len(p) \in Nat
  OBVIOUS
<1>2. ASSUME NEW k \in 1..Len(p)
      PROVE  /\ r[k].slot = p[k].slot /\ r[k].set = p[k].set /\ r[k].new = p[k].new
             /\ r[k].rest = p[k].rest \ {c1} /\ r[k] \in Packets
  <2> DEFINE y == p[k]
             z == r[k]
  <2>1. y \in Packets
    OBVIOUS
  <2>2. z = [y EXCEPT !.rest = @ \ {c1}]
    BY <1>1 DEF Without
  <2> HIDE DEF y, z
  <2>3. PICK sl \in Slot, st \in Sharing!DataSet, rs \in SUBSET Child, nw \in BOOLEAN :
          y = [slot |-> sl, set |-> st, rest |-> rs, new |-> nw]
    BY <2>1 DEF Packets
  <2>4. z = [slot |-> sl, set |-> st, rest |-> rs \ {c1}, new |-> nw]
    BY <2>2, <2>3
  <2>5. z \in Packets
    BY <2>4 DEF Packets
  <2>6. z.slot = y.slot /\ z.set = y.set /\ z.new = y.new /\ z.rest = y.rest \ {c1}
    BY <2>3, <2>4
  <2> QED BY <2>5, <2>6 DEF y, z
<1>3. DOMAIN r = 1..Len(p) /\ r = [k \in 1..Len(p) |-> r[k]]
  BY <1>1 DEF Without
<1> HIDE DEF r
<1>4. r \in [1..Len(p) -> Packets]
  BY <1>2, <1>3
<1>5. r \in Seq(Packets)
  BY <1>1, <1>4
<1>6. Len(r) = Len(p)
  BY <1>1, <1>3, <1>5
<1> QED BY <1>1, <1>2, <1>3, <1>5, <1>6 DEF LeavesBehind, r

\* What is put stays right without the child.
LEMMA PortWithout ==
  ASSUME NEW q, NEW p, NEW r, NEW t, NEW con, NEW c1 \in Child, LeavesBehind(p, r, c1),
         info'[0] = q, port' = r, told' = t, connected' = con, Sending' = Sending,
         doubleMode' = doubleMode, linked' = linked \ {c1},
         PortOK(q, p, t, con, Sending), FirstOK(q, p), SentOK(q, p, t, Sending)
  PROVE  /\ PortOK(info[0], port, told, connected, Sending)'
         /\ FirstOK(q, r) /\ SentOK(q, r, t, Sending)
<1>1. NextPut(info[0], told, Sending)' = NextPut(q, t, Sending) /\ Ahead' = Ahead
  BY ParentCarried DEF Ahead, Sharing!Ahead
<1>2. PortOK(info[0], port, told, connected, Sending)'
  <2> SUFFICES ASSUME NEW k \in 1..Len(p)
               PROVE  /\ r[k].rest \subseteq (linked \ {c1}) \cap con
                      /\ \A h \in Sending : r[k].rest \subseteq h.dest
                      /\ doubleMode => r[k].rest \subseteq r[k].set.aidBitmap
                      /\ \A n \in 1..Len(p) : k < n => r[k].rest \subseteq r[n].rest
                      /\ r[k].rest # {} =>
                           /\ r[k].set.no = NextPut(q, t, Sending) + k - Len(r) - 1
                           /\ r[k].slot = SlotOf(r[k].set.no)
                           /\ Child \subseteq r[k].set.aidBitmap \/ r[k].set.no <= Ahead
    BY <1>1 DEF PortOK, LeavesBehind
  <2>1. /\ p[k].rest \subseteq linked \cap con
        /\ \A h \in Sending : p[k].rest \subseteq h.dest
        /\ doubleMode => p[k].rest \subseteq p[k].set.aidBitmap
        /\ \A n \in 1..Len(p) : k < n => p[k].rest \subseteq p[n].rest
        /\ p[k].rest # {} =>
             /\ p[k].set.no = NextPut(q, t, Sending) + k - Len(p) - 1
             /\ p[k].slot = SlotOf(p[k].set.no)
             /\ Child \subseteq p[k].set.aidBitmap \/ p[k].set.no <= Ahead
    BY DEF PortOK, LeavesBehind
  <2>2. /\ r[k].slot = p[k].slot /\ r[k].set = p[k].set /\ Len(r) = Len(p)
        /\ \A n \in 1..Len(p) : r[n].rest = p[n].rest \ {c1}
    BY DEF LeavesBehind
  <2> QED BY <2>1, <2>2
<1>3. FirstOK(q, r)
  BY DEF FirstOK, LeavesBehind
<1>4. SentOK(q, r, t, Sending)
  BY DEF SentOK, Out, LeavesBehind
<1> QED BY <1>2, <1>3, <1>4

\* A child goes: the ARM7 forgets what is on its way to the child and from it.
LEMMA StepDeAuthenticate ==
  ASSUME ShareAssumption, ShareInv, NEW c1 \in Child, Sharing!DeAuthenticate(c1),
         UNCHANGED doubleMode
  PROVE  ShareInv'
<1> DEFINE q == info[0]
           p == port
           t == told
           x == [is |-> "disconnected", child |-> c1]
           u == Append(t, x)
           r == Without(p, c1)
           b == Sharing!Started
<1>1. StateTypes /\ PlaceOK(q) /\ AllOK(q, p, t, connected, Sending)
  BY DEF ShareInv
<1>2. /\ c1 \in linked /\ linked' = linked \ {c1} /\ changes' = changes + 1 /\ told' = u
      /\ port' = r /\ reply' = [reply EXCEPT ![c1] = <<>>]
      /\ info' = [info EXCEPT ![c1] = b] /\ last' = [last EXCEPT ![c1] = NULL]
      /\ UNCHANGED <<step, connected, doubleMode>>
  BY DEF Sharing!DeAuthenticate, Without
<1>3. t \in Seq(Notices) /\ p \in Seq(Packets)
  BY <1>1 DEF AllOK, ParentTypes
<1>4. x \in Notices /\ x.is = "disconnected" /\ x.child = c1 /\ x.is \notin {"sent", "full"}
      /\ \A e \in Child : x \notin DataOf(e)
  BY DEF Notices, DataOf
<1>5. u = Append(t, x)
  OBVIOUS
<1>6. LeavesBehind(p, r, c1)
  BY <1>3, WithoutFacts
<1>7. /\ b \in Rings /\ b.readIndex = 0 /\ b.writeIndex = 0 /\ b.sendIndex = 3 /\ b.retry = FALSE
      /\ \A n \in Slot : b.ds[n] = Sharing!Fresh(0, {})
  <2>1. Sharing!Fresh(0, {}) \in Sharing!DataSet
    BY FreshFacts
  <2> QED BY <2>1 DEF Sharing!Started, Rings, Slot, Sharing!Slot, Sharing!DATASET_NUM
<1> HIDE DEF x, u, r, b
<1>8. MoreTold(q, p, t, connected, u, x)
  BY <1>1, <1>4, <1>5, ToldMore
<1>9. /\ Len(t) \in Nat /\ Len(u) = Len(t) + 1 /\ DOMAIN t = 1..Len(t) /\ DOMAIN u = 1..Len(u)
      /\ u[Len(u)] = x /\ \A k \in 1..Len(t) : u[k] = t[k]
  <2>1. More(Notices, u, t, x)
    BY <1>3, <1>4, <1>5, OneMore
  <2> QED BY <2>1 DEF More
<1>10. /\ ToldOK(t, connected, Sending) /\ FirstOK(q, p)
       /\ \A e \in Child : KidOK(e) /\ PiecesOK(t, e)
  BY <1>1 DEF AllOK, ParentOK, KidsOK
<1>11. linked \subseteq Child /\ changes \in Nat /\ linked' \subseteq Child /\ changes' \in Nat
       /\ changes' > 0 /\ changes' # 0
  <2>1. linked \subseteq Child /\ changes \in Nat
    BY <1>1 DEF StateTypes
  <2> QED BY <1>2, <2>1
<1>12. /\ c1 \in Sharing!Station /\ c1 # 0 /\ 0 \in Sharing!Station /\ Child \subseteq Sharing!Station
       /\ info \in [Sharing!Station -> Rings] /\ last \in [Sharing!Station -> Sharing!DataSet \cup {NULL}]
       /\ reply \in [Child -> Seq(Sharing!Piece)]
  <2>1. c1 \in Sharing!Station /\ c1 # 0 /\ 0 \in Sharing!Station /\ Child \subseteq Sharing!Station
    BY DEF Sharing!Station, ShareAssumption
  <2> QED BY <1>1, <2>1 DEF StateTypes
<1>13. /\ info'[0] = q /\ last'[0] = last[0] /\ info'[c1] = b /\ last'[c1] = NULL /\ reply'[c1] = <<>>
       /\ \A e \in Sharing!Station : e # c1 => info'[e] = info[e] /\ last'[e] = last[e]
       /\ \A e \in Child : e # c1 => reply'[e] = reply[e]
       /\ info' \in [Sharing!Station -> Rings] /\ reply' \in [Child -> Seq(Sharing!Piece)]
       /\ last' \in [Sharing!Station -> Sharing!DataSet \cup {NULL}]
  <2>1. <<>> \in Seq(Sharing!Piece)
    OBVIOUS
  <2> QED BY <1>2, <1>7, <1>12, <2>1
<1>14. Sending' = Sending
  BY <1>2 DEF Sending
<1>15. ToldOK(told, connected, Sending)'
  <2>1. \A k \in 1..Len(u) : k \in 1..Len(t) \/ k = Len(u)
    BY <1>9
  <2>2. Len(u) \in 1..Len(u) /\ \A k \in 1..Len(t) : k \in 1..Len(u) /\ k < Len(u)
    BY <1>9
  <2>3. ASSUME NEW k \in 1..Len(u), u[k].is = "connected"
        PROVE  /\ u[k].child \notin connected /\ \A h \in Sending : u[k].child \notin h.dest
               /\ \A n \in 1..Len(u) : u[n].is = "connected" /\ u[n].child = u[k].child => n = k
               /\ u[k].child \notin linked' =>
                    \E n \in 1..Len(u) : u[n].is = "disconnected" /\ u[n].child = u[k].child
    <3>1. k \in 1..Len(t)
      BY <1>4, <1>9, <2>1, <2>3
    <3>2. u[k] = t[k] /\ t[k].is = "connected"
      BY <1>9, <2>3, <3>1
    <3>3. /\ t[k].child \notin connected /\ \A h \in Sending : t[k].child \notin h.dest
          /\ \A n \in 1..Len(t) : t[n].is = "connected" /\ t[n].child = t[k].child => n = k
          /\ t[k].child \notin linked =>
               \E n \in 1..Len(t) : t[n].is = "disconnected" /\ t[n].child = t[k].child
      BY <1>9, <1>10, <3>1, <3>2 DEF ToldOK, NoticeOK
    <3>4. \A n \in 1..Len(u) : u[n].is = "connected" /\ u[n].child = u[k].child => n = k
      BY <1>4, <1>9, <2>1, <3>2, <3>3
    <3>5. u[k].child \notin linked' =>
            \E n \in 1..Len(u) : u[n].is = "disconnected" /\ u[n].child = u[k].child
      <4>1. CASE u[k].child = c1
        BY <1>4, <1>9, <2>2, <4>1
      <4>2. CASE u[k].child # c1
        BY <1>2, <1>9, <2>2, <3>2, <3>3, <4>2
      <4> QED BY <4>1, <4>2
    <3> QED BY <3>2, <3>3, <3>4, <3>5
  <2>4. ASSUME NEW k \in 1..Len(u), u[k].is = "disconnected"
        PROVE  /\ u[k].child \notin linked'
               /\ \A n \in 1..Len(u) : u[n].is = "disconnected" /\ u[n].child = u[k].child => n = k
               /\ \A n \in 1..Len(u) :
                    u[n].is \in {"connected", "data"} /\ u[n].child = u[k].child => n < k
    <3>1. \A n \in 1..Len(t) : t[n].is = "disconnected" => t[n].child # c1
      BY <1>2, <1>9, <1>10 DEF ToldOK, NoticeOK
    <3>2. CASE k = Len(u)
      BY <1>2, <1>4, <1>9, <2>1, <2>2, <3>1, <3>2
    <3>3. CASE k \in 1..Len(t)
      <4>1. u[k] = t[k] /\ t[k].is = "disconnected" /\ t[k].child # c1
        BY <1>9, <2>4, <3>1, <3>3
      <4>2. /\ t[k].child \notin linked
            /\ \A n \in 1..Len(t) : t[n].is = "disconnected" /\ t[n].child = t[k].child => n = k
            /\ \A n \in 1..Len(t) :
                 t[n].is \in {"connected", "data"} /\ t[n].child = t[k].child => n < k
        BY <1>9, <1>10, <3>3, <4>1 DEF ToldOK, NoticeOK
      <4> QED BY <1>2, <1>4, <1>9, <2>1, <4>1, <4>2
    <3> QED BY <2>1, <3>2, <3>3
  <2>5. \A k \in 1..Len(u) : u[k].is = "data" => u[k].child \in connected
    BY <1>4, <1>9, <1>10, <2>1 DEF ToldOK, NoticeOK
  <2>6. \A e \in linked' \ connected : \E k \in 1..Len(u) : u[k].is = "connected" /\ u[k].child = e
    BY <1>2, <1>9, <1>10, <2>2 DEF ToldOK, NoticeOK
  <2>7. \A e \in connected \ linked' : \E k \in 1..Len(u) : u[k].is = "disconnected" /\ u[k].child = e
    <3> SUFFICES ASSUME NEW e \in connected \ linked'
                 PROVE  \E k \in 1..Len(u) : u[k].is = "disconnected" /\ u[k].child = e
      OBVIOUS
    <3>1. CASE e = c1
      BY <1>4, <1>9, <2>2, <3>1
    <3>2. CASE e # c1
      <4>1. PICK k \in 1..Len(t) : t[k].is = "disconnected" /\ t[k].child = e
        BY <1>2, <1>9, <1>10, <3>2 DEF ToldOK, NoticeOK
      <4> QED BY <1>9, <2>2, <4>1
    <3> QED BY <3>1, <3>2
  <2>8. told' = u /\ connected' = connected /\ Sending' = Sending /\ DOMAIN u = 1..Len(u)
    BY <1>2, <1>9, <1>14
  <2> QED BY <1>11, <2>3, <2>4, <2>5, <2>6, <2>7, <2>8 DEF ToldOK, NoticeOK
<1>16. /\ ParentTypes(q, p, u, connected) /\ PendingOK(q, u, Sending)
       /\ SentOK(q, p, u, Sending) /\ PortOK(q, p, u, connected, Sending)
  BY <1>8 DEF MoreTold
<1>17. info'[0] = q /\ port' = r /\ told' = u /\ connected' = connected /\ doubleMode' = doubleMode
  BY <1>2, <1>13
<1>18. /\ PortOK(info[0], port, told, connected, Sending)' /\ FirstOK(q, r)
       /\ SentOK(q, r, u, Sending)
  BY <1>2, <1>6, <1>10, <1>14, <1>16, <1>17, PortWithout
<1>19. ParentTypes(q, r, u, connected)
  BY <1>6, <1>16 DEF ParentTypes, LeavesBehind
<1>20. KidsOK(info[0], port, told, connected, Sending)'
  <2>1. ASSUME NEW e \in Child, e # c1
        PROVE  /\ KidOK(e)' /\ PiecesOK(told, e)'
               /\ ReadsOK(info[0], port, told, connected, Sending, e)'
               /\ BalanceOK(info[0], port, told, connected, Sending, e)'
    <3>1. /\ ReadsOK(q, p, u, connected, Sending, e) /\ PiecesOK(u, e)
          /\ BalanceOK(q, p, u, connected, Sending, e)
      BY <1>4, <1>8 DEF MoreTold
    <3>2. Idle(e) /\ (e \in linked' <=> e \in linked)
      BY <1>2, <1>12, <1>13, <2>1 DEF Idle
    <3>3. SameFor(p, r, e)
      BY <1>6, <2>1 DEF SameFor, LeavesBehind
    <3> QED BY <1>10, <1>11, <1>14, <1>17, <3>1, <3>2, <3>3, OthersStay
  <2>2. ~Begun(port, c1)'
    <3>1. InPort(port, c1)' = 0
      <4>1. \A n \in 1..Len(r) : c1 \notin r[n].rest
        BY <1>6 DEF LeavesBehind
      <4>2. ~(1 <= Len(r) /\ c1 \in r[1].rest) /\ ~(2 <= Len(r) /\ c1 \in r[2].rest)
        BY <1>6, <4>1 DEF LeavesBehind
      <4> QED BY <1>17, <4>2 DEF InPort, One
    <3>2. Unread(c1)' = 0
      BY <1>7, <1>13 DEF Unread
    <3> QED BY <1>13, <3>1, <3>2 DEF Begun
  <2>3. ReadsOK(info[0], port, told, connected, Sending, c1)'
    BY <2>2 DEF ReadsOK
  <2>4. c1 \notin linked'
    BY <1>2
  <2>5. BalanceOK(info[0], port, told, connected, Sending, c1)' /\ PiecesOK(told, c1)'
    BY <2>4 DEF BalanceOK, PiecesOK
  <2>6. KidOK(c1)'
    <3>1. Sharing!Started' = b
      BY DEF b, Sharing!Started, Sharing!Fresh, Sharing!NoData, Sharing!Station, Sharing!Slot
    <3>2. b.sendIndex = (b.readIndex + IF b.retry THEN 2 ELSE 3) % 4
      BY <1>7
    <3>3. \A k \in 1..Len(reply'[c1]) : FALSE
      BY <1>13
    <3> QED BY <1>7, <1>13, <3>1, <3>2, <3>3 DEF KidOK
  <2> QED BY <2>1, <2>3, <2>5, <2>6 DEF KidsOK
<1>21. \A d \in Known(info[0], port)' :
         \/ \E f \in Known(info[0], port) : d.no = f.no /\ d.data = f.data
         \/ d.no = 0 /\ d.data = Sharing!NoData
  <2>1. \A d : KnownAt(q, p, last, info, d) => d \in Known(info[0], port)
    BY KnownCases
  <2> SUFFICES ASSUME NEW d, KnownAt(q, r, last', info', d)
               PROVE  \/ KnownAt(q, p, last, info, d)
                      \/ d.no = 0 /\ d.data = Sharing!NoData
    BY <1>17, <2>1, KnownLanded
  <2>2. CASE \E n \in Slot : q.ds[n].no < Under(q) /\ d = q.ds[n]
    BY <2>2 DEF KnownAt
  <2>3. CASE \E n \in DOMAIN r : r[n].rest # {} /\ d = r[n].set
    <3>1. PICK n \in DOMAIN r : r[n].rest # {} /\ d = r[n].set
      BY <2>3
    <3>2. n \in DOMAIN p /\ p[n].rest # {} /\ d = p[n].set
      BY <1>6, <3>1 DEF LeavesBehind
    <3> QED BY <3>2 DEF KnownAt
  <2>4. CASE \E e \in Sharing!Station : last'[e] # NULL /\ d = last'[e]
    <3>1. PICK e \in Sharing!Station : last'[e] # NULL /\ d = last'[e]
      BY <2>4
    <3>2. last'[e] = last[e]
      BY <1>13, <3>1
    <3> QED BY <3>1, <3>2 DEF KnownAt
  <2>5. CASE \E e \in Child : \E n \in Slot : d = info'[e].ds[n]
    <3>1. PICK e \in Child, n \in Slot : d = info'[e].ds[n]
      BY <2>5
    <3>2. CASE e = c1
      BY <1>7, <1>13, <3>1, <3>2, FreshFacts
    <3>3. CASE e # c1
      <4>1. info'[e] = info[e]
        BY <1>12, <1>13, <3>3
      <4> QED BY <3>1, <4>1 DEF KnownAt
    <3> QED BY <3>2, <3>3
  <2> QED BY <2>2, <2>3, <2>4, <2>5 DEF KnownAt
<1>22. UNCHANGED <<step, connected, doubleMode>>
  BY <1>2
<1> QED BY <1>11, <1>13, <1>15, <1>16, <1>17, <1>18, <1>19, <1>20, <1>21, <1>22, ChangeLands

-----------------------------------------------------------------------------
(* The beginning, and all steps.                                              *)

\* The types when data sharing begins.
LEMMA InitTypes ==
  ASSUME ShareAssumption, Sharing!Init
  PROVE  /\ StateTypes /\ ParentTypes(info[0], port, told, connected)
         /\ BegunWith(info[0], port) /\ Ahead \in 1..2 /\ (doubleMode <=> Ahead = 2)
         /\ step = Sharing!NoStep /\ told = <<>> /\ changes = 0 /\ connected = linked
         /\ \A s \in Sharing!Station : last[s] = NULL
         /\ \A e \in Child : info[e] = Sharing!Started /\ reply[e] = <<>>
<1> DEFINE aids == linked \cup {0}
           sets == FirstSets
           b == Sharing!Started
           sd == FirstSend
           q == FirstRing
<1>16. /\ info = [s \in Sharing!Station |-> IF s # 0 THEN Sharing!Started ELSE FirstRing]
       /\ port = FirstPort
  <2>1. info = [s \in Sharing!Station |-> IF s # 0 THEN Sharing!Started ELSE FirstRing]
    BY Zenon DEF Sharing!Init, FirstRing, FirstSets, FirstSend, Slot, Ahead
  <2>2. port = FirstPort
    BY Zenon DEF Sharing!Init, FirstPort, FirstSets, Slot, Ahead
  <2> QED BY <2>1, <2>2
<1>1. /\ doubleMode \in BOOLEAN /\ linked \in SUBSET Child /\ connected = linked
      /\ last = [s \in Sharing!Station |-> NULL] /\ step = Sharing!NoStep
      /\ told = <<>> /\ reply = [e \in Child |-> <<>>] /\ changes = 0
  <2>1. doubleMode \in BOOLEAN /\ linked \in SUBSET Child /\ connected = linked
    BY Zenon DEF Sharing!Init
  <2>2. step = Sharing!NoStep /\ told = <<>> /\ changes = 0
    BY Zenon DEF Sharing!Init
  <2>3. last = [s \in Sharing!Station |-> NULL]
    BY Zenon DEF Sharing!Init
  <2>4. reply = [e \in Child |-> <<>>]
    BY Zenon DEF Sharing!Init
  <2> QED BY <2>1, <2>2, <2>3, <2>4
<1>2. Ahead \in 1..2 /\ (doubleMode <=> Ahead = 2)
  <2>1. CASE doubleMode
    BY <2>1 DEF Ahead, Sharing!Ahead
  <2>2. CASE ~doubleMode
    BY <2>2 DEF Ahead, Sharing!Ahead
  <2> QED BY <2>1, <2>2
<1>3. /\ 0 \in Sharing!Station /\ Child \subseteq Sharing!Station /\ 0 \notin Child
      /\ aids \subseteq Sharing!Station
  <2>1. linked \subseteq Child
    BY <1>1
  <2> QED BY <2>1 DEF Sharing!Station, ShareAssumption
<1>4. Slot = 0..3 /\ Ahead \in Slot /\ sd \in Slot
  BY <1>2, SlotFacts DEF FirstSend
<1>5. \A n \in Slot : Sharing!Fresh(n + 1, aids) \in Sharing!DataSet
  <2> SUFFICES ASSUME NEW n \in Slot PROVE Sharing!Fresh(n + 1, aids) \in Sharing!DataSet
    OBVIOUS
  <2>1. Sharing!Piece = 0..MaxSets + 6 /\ MaxSets \in Nat
    BY DEF Sharing!Piece, Sharing!DATASET_NUM, ShareAssumption
  <2>2. 0 \in Sharing!Piece /\ n + 1 \in Sharing!Piece
    BY <1>4, <2>1
  <2>3. Sharing!NoData \in [Sharing!Station -> Sharing!Piece]
    BY <2>2 DEF Sharing!NoData
  <2> QED BY <1>3, <2>2, <2>3 DEF Sharing!Fresh, Sharing!DataSet
<1>6. sets \in [Slot -> Sharing!DataSet]
  BY <1>5 DEF FirstSets
<1>7. b \in Rings /\ b.readIndex = 0 /\ b.retry = FALSE
  <2>1. Sharing!Fresh(0, {}) \in Sharing!DataSet
    BY FreshFacts
  <2> QED BY <2>1 DEF Sharing!Started, Rings, Slot, Sharing!Slot, Sharing!DATASET_NUM
<1>17. q = [b EXCEPT !.ds = sets, !.writeIndex = Ahead, !.sendIndex = sd]
  BY DEF FirstRing
<1>18. info[0] = q /\ (\A e \in Child : info[e] = b)
  BY <1>3, <1>16
<1> HIDE DEF b, sd, q
<1>8. /\ q \in Rings /\ q.ds = sets /\ q.writeIndex = Ahead /\ q.readIndex = 0 /\ q.retry = FALSE
      /\ q.sendIndex = sd
  <2> HIDE DEF sets
  <2>1. PICK ds \in [Slot -> Sharing!DataSet], w \in Slot, r \in Slot, n \in Slot, rt \in BOOLEAN :
          b = [ds |-> ds, writeIndex |-> w, readIndex |-> r, sendIndex |-> n, retry |-> rt]
    BY <1>7 DEF Rings
  <2>2. q = [ds |-> sets, writeIndex |-> Ahead, readIndex |-> r, sendIndex |-> sd, retry |-> rt]
    BY <1>17, <2>1
  <2>3. q \in Rings
    BY <1>4, <1>6, <2>2 DEF Rings
  <2> QED BY <1>7, <2>1, <2>2, <2>3
<1>9. \A n \in Slot : sets[n] = Sharing!Fresh(n + 1, aids) /\ sets[n] \in Sharing!DataSet
  BY <1>5 DEF FirstSets
<1> HIDE DEF sets
<1>10. info[0] = q /\ info \in [Sharing!Station -> Rings] /\ \A e \in Child : info[e] = b
  <2>1. info \in [Sharing!Station -> Rings]
    BY <1>7, <1>8, <1>16 DEF b, q
  <2> QED BY <1>18, <2>1
<1>11. ASSUME linked # {}
       PROVE  /\ Len(port) = Ahead /\ DOMAIN port = 1..Ahead /\ port \in Seq(Packets)
              /\ \A k \in 1..Ahead : /\ port[k].slot = k - 1 /\ port[k].rest = linked
                                     /\ port[k].set = q.ds[k - 1]
  <2>1. port = [k \in 1..Ahead |-> [slot |-> k - 1, set |-> sets[k - 1], rest |-> linked,
                                    new |-> TRUE]]
    BY <1>11, <1>16 DEF FirstPort, sets
  <2>2. ASSUME NEW k \in 1..Ahead
        PROVE  [slot |-> k - 1, set |-> sets[k - 1], rest |-> linked, new |-> TRUE] \in Packets
    <3>1. k - 1 \in Slot
      BY <1>2, <1>4
    <3>2. sets[k - 1] \in Sharing!DataSet
      BY <1>9, <3>1
    <3> QED BY <1>1, <3>1, <3>2 DEF Packets
  <2>3. port \in [1..Ahead -> Packets] /\ Ahead \in Nat
    BY <1>2, <2>1, <2>2
  <2>4. port \in Seq(Packets) /\ Len(port) = Ahead /\ DOMAIN port = 1..Ahead
    BY <2>3
  <2> QED BY <1>8, <2>1, <2>4
<1>12. port \in Seq(Packets)
  <2>1. CASE linked = {}
    <3>1. port = <<>>
      BY <1>16, <2>1 DEF FirstPort
    <3> QED BY <3>1
  <2> QED BY <1>11, <2>1
<1>13. BegunWith(info[0], port)
  <2>1. linked = {} => port = <<>> /\ q.sendIndex = Ahead
    BY <1>8, <1>16 DEF sd, FirstSend, FirstPort
  <2>2. linked # {} => q.sendIndex = 0
    BY <1>8 DEF sd, FirstSend
  <2> QED BY <1>8, <1>9, <1>10, <1>11, <1>12, <2>1, <2>2 DEF BegunWith
<1>14. StateTypes
  <2>1. step \in Steps
    BY <1>1 DEF Steps
  <2>2. reply \in [Child -> Seq(Sharing!Piece)]
    <3>1. <<>> \in Seq(Sharing!Piece)
      OBVIOUS
    <3> QED BY <1>1, <3>1
  <2>3. last \in [Sharing!Station -> Sharing!DataSet \cup {NULL}]
    BY <1>1
  <2> QED BY <1>1, <1>10, <2>1, <2>2, <2>3 DEF StateTypes
<1>15. ParentTypes(info[0], port, told, connected)
  <2>1. told \in Seq(Notices)
    BY <1>1
  <2> QED BY <1>1, <1>8, <1>10, <1>12, <2>1 DEF ParentTypes
<1> QED BY <1>1, <1>2, <1>10, <1>13, <1>14, <1>15 DEF b

\* What is true of the parent when it begins.
LEMMA ParentBegins ==
  ASSUME ShareAssumption, Sharing!Init
  PROVE  ParentOK(info[0], port, told, connected, Sending) /\ PlaceOK(info[0])
         /\ NextPut(info[0], told, Sending) = Ahead + 1 /\ Under(info[0]) = Ahead + 1
         /\ Sending = {} /\ ~Refusal(info[0], told)
<1> DEFINE q == info[0]
           p == port
           a == Ahead
           aids == linked \cup {0}
<1>1. /\ StateTypes /\ ParentTypes(q, p, told, connected)
      /\ BegunWith(q, p) /\ a \in 1..2 /\ (doubleMode <=> a = 2)
      /\ step = Sharing!NoStep /\ told = <<>> /\ changes = 0 /\ connected = linked
      /\ \A s \in Sharing!Station : last[s] = NULL
      /\ \A e \in Child : info[e] = Sharing!Started /\ reply[e] = <<>>
  BY InitTypes
<1>2. /\ q \in Rings /\ q.writeIndex = a /\ q.readIndex = 0 /\ q.retry = FALSE
      /\ \A n \in Slot : q.ds[n] = Sharing!Fresh(n + 1, aids)
      /\ linked = {} => p = <<>> /\ q.sendIndex = a
      /\ linked # {} => /\ Len(p) = a /\ DOMAIN p = 1..a /\ q.sendIndex = 0
                        /\ \A k \in 1..a : /\ p[k].slot = k - 1 /\ p[k].rest = linked
                                           /\ p[k].set = q.ds[k - 1]
      /\ p \in Seq(Packets)
  BY <1>1 DEF BegunWith
<1>3. Slot = 0..3 /\ 0 \in Sharing!Station /\ 0 \notin Child /\ Child \subseteq Sharing!Station
      /\ linked \subseteq Child
  BY <1>1, SlotFacts DEF Sharing!Station, ShareAssumption, StateTypes
<1>4. Sharing!NoStep = [at |-> "idle"] /\ step.at = "idle"
  BY <1>1 DEF Sharing!NoStep
<1>5. Sending = {} /\ ~Giving
  BY <1>4 DEF Sending, Giving
<1> HIDE DEF q, p, a
<1>6. \A n \in Slot : /\ q.ds[n].no = n + 1 /\ q.ds[n].aidBitmap = aids
                      /\ q.ds[n].data = Sharing!NoData
  <2> SUFFICES ASSUME NEW n \in Slot
               PROVE  /\ q.ds[n].no = n + 1 /\ q.ds[n].aidBitmap = aids
                      /\ q.ds[n].data = Sharing!NoData
    OBVIOUS
  <2> DEFINE d == q.ds[n]
             h == n + 1
  <2>1. d = Sharing!Fresh(h, aids)
    BY <1>2
  <2> HIDE DEF d, h
  <2>2. d.no = h /\ d.aidBitmap = aids /\ d.data = Sharing!NoData
    BY <2>1 DEF Sharing!Fresh
  <2> QED BY <2>2 DEF d, h
<1>27. a \in 1..2
  BY <1>1
<1>7. Under(q) = a + 1
  <2>1. a \in Slot
    BY <1>1, <1>3
  <2> QED BY <1>2, <1>6, <2>1 DEF Under
<1>8. HasRead = 0
  BY <1>1, <1>3 DEF HasRead, Sharing!ReadNo
<1>9. Top(q) = a + a /\ Given = a
  <2>1. a + 1 + a - 1 = a + a /\ 0 + a = a
    BY <1>1
  <2> QED BY <1>5, <1>7, <1>8, <2>1 DEF Top, Given, a
<1>10. \A m \in 1..4 : /\ SlotOf(m) = m - 1 /\ SlotOf(m) \in Slot /\ Held(q, m).no = m
                       /\ Held(q, m).aidBitmap = aids
                       /\ Held(q, m).data = Sharing!NoData
  <2> SUFFICES ASSUME NEW m \in 1..4
               PROVE  /\ SlotOf(m) = m - 1 /\ SlotOf(m) \in Slot /\ Held(q, m).no = m
                      /\ Held(q, m).aidBitmap = aids /\ Held(q, m).data = Sharing!NoData
    OBVIOUS
  <2>1. SlotOf(m) = m - 1 /\ m - 1 \in Slot /\ (m - 1) + 1 = m
    BY <1>3 DEF SlotOf
  <2> QED BY <1>6, <2>1 DEF Held
<1>28. SlotOf(a + 1) = a /\ SlotOf(1) = 0
  <2>1. CASE a = 1
    <3>1. a + 1 = 2
      BY <2>1
    <3> QED BY <2>1, <3>1 DEF SlotOf
  <2>2. CASE a = 2
    <3>1. a + 1 = 3
      BY <2>2
    <3> QED BY <2>2, <3>1 DEF SlotOf
  <2> QED BY <1>27, <2>1, <2>2
<1>11. \A m \in Under(q)..Top(q) : m \in 1..4 /\ m > a /\ m \in Int
  BY <1>1, <1>7, <1>9
<1>12. RingOK(q)
  <2>1. Sharing!LastSet \in Nat /\ 0 <= Sharing!LastSet
    <3>1. Sharing!LastSet = MaxSets + a /\ MaxSets \in Nat
      BY DEF Sharing!LastSet, a, Ahead, ShareAssumption
    <3> QED BY <1>1, <3>1
  <2>2. /\ Under(q) > a /\ Under(q) <= Given + 1 /\ Under(q) > HasRead
        /\ q.writeIndex = SlotOf(Under(q)) /\ q.readIndex = SlotOf(HasRead + 1)
    <3>1. a + 1 > a /\ a + 1 <= a + 1 /\ a + 1 > 0 /\ 0 + 1 = 1
      BY <1>27
    <3> QED BY <1>2, <1>7, <1>8, <1>9, <1>28, <3>1
  <2>3. \A k \in Slot : k = SlotOf(q.ds[k].no)
    <3> SUFFICES ASSUME NEW k \in Slot PROVE k = SlotOf(q.ds[k].no)
      OBVIOUS
    <3> DEFINE h == q.ds[k].no
    <3>1. h = k + 1 /\ k \in 0..3
      BY <1>3, <1>6
    <3> HIDE DEF h
    <3>2. k = SlotOf(h)
      BY <3>1 DEF SlotOf
    <3> QED BY <3>2 DEF h
  <2>4. \A m \in 1..Top(q) : m + 4 > Top(q) => Held(q, m).no = m
    <3>1. \A m \in 1..Top(q) : m \in 1..4
      BY <1>1, <1>9
    <3> QED BY <1>10, <3>1
  <2>5. \A m \in Under(q)..Top(q) :
          /\ 0 \in Held(q, m).aidBitmap <=> m > Given
          /\ 0 \notin Held(q, m).aidBitmap => Held(q, m).data[0] = m - Ahead
    BY <1>9, <1>10, <1>11
  <2>6. \A m \in Ahead+1..Under(q)-1 : FALSE
    <3> DEFINE h == Under(q)
    <3>1. h = a + 1
      BY <1>7
    <3> HIDE DEF h
    <3>2. \A m \in a+1..h-1 : FALSE
      BY <1>27, <3>1
    <3> QED BY <3>2 DEF a, h
  <2> QED BY <1>8, <2>1, <2>2, <2>3, <2>4, <2>5, <2>6 DEF RingOK, a
<1>13. LackOK(q, connected)
  <2>1. \A m \in Under(q)..Top(q) : m < Top(q) => m + 1 \in Under(q)..Top(q)
    BY <1>1, <1>7, <1>9
  <2> QED BY <1>1, <1>10, <1>11, <2>1 DEF LackOK
<1>14. PlaceOK(q)
  <2>1. ~(Under(q) < Given)
    BY <1>1, <1>7, <1>9
  <2> QED BY <1>4, <2>1 DEF PlaceOK
<1>15. ~Refusal(q, told) /\ Unput(q, told, Sending) = 0 /\ ~Pending(q, told, Sending)
  BY <1>1, <1>2, <1>5 DEF Refusal, Unput, Pending
<1>16. PendingOK(q, told, Sending)
  BY <1>1, <1>5, <1>15 DEF PendingOK
<1>17. NextPut(q, told, Sending) = a + 1
  <2> DEFINE h == Under(q)
             n == Unput(q, told, Sending)
  <2>1. h = a + 1 /\ n = 0
    BY <1>7, <1>15
  <2> HIDE DEF h, n
  <2>2. h - n = a + 1
    BY <1>27, <2>1
  <2> QED BY <2>2 DEF NextPut, h, n
<1>18. SentOK(q, p, told, Sending)
  <2>1. Later(told, 1, Reports) = 0
    <3>1. Hits(told, 1, Reports) = {}
      BY <1>1 DEF Hits
    <3> QED BY <3>1, FS_EmptySet DEF Later
  <2>2. Out(q, p, told, Sending) = Len(p)
    <3>1. Len(p) \in Nat /\ 0 + Len(p) + 0 = Len(p)
      BY <1>2
    <3> QED BY <1>15, <2>1, <3>1 DEF Out
  <2>3. CASE linked = {}
    <3> DEFINE h == Under(q)
               n == Out(q, p, told, Sending)
    <3>1. h = a + 1 /\ n = 0 /\ q.sendIndex = a
      BY <1>2, <1>7, <2>2, <2>3
    <3> HIDE DEF h, n
    <3>2. h - n = a + 1 /\ 0 < a + 1
      BY <1>27, <3>1
    <3> QED BY <1>8, <1>28, <3>1, <3>2 DEF SentOK, h, n
  <2>4. CASE linked # {}
    <3> DEFINE h == Under(q)
               n == Out(q, p, told, Sending)
    <3>1. h = a + 1 /\ n = a /\ q.sendIndex = 0
      BY <1>2, <1>7, <2>2, <2>4
    <3> HIDE DEF h, n
    <3>2. h - n = 1 /\ 0 < 1
      BY <1>27, <3>1
    <3> QED BY <1>8, <1>28, <3>1, <3>2 DEF SentOK, h, n
  <2> QED BY <2>3, <2>4
<1>19. ASSUME NEW k \in DOMAIN p
       PROVE  /\ k \in 1..a /\ k \in 1..4 /\ p[k].rest = linked /\ linked # {} /\ Len(p) = a
              /\ p[k].set = Held(q, k) /\ p[k].slot = SlotOf(k)
  <2>1. linked # {}
    BY <1>2, <1>19
  <2>2. k \in 1..a /\ p[k].slot = k - 1 /\ p[k].rest = linked /\ p[k].set = q.ds[k - 1]
        /\ Len(p) = a
    BY <1>2, <1>19, <2>1
  <2>3. k \in 1..4
    BY <1>1, <2>2
  <2>4. SlotOf(k) = k - 1
    BY <1>10, <2>3
  <2> QED BY <2>1, <2>2, <2>3, <2>4 DEF Held
<1>20. PortOK(q, p, told, connected, Sending)
  <2> SUFFICES ASSUME NEW k \in DOMAIN p
               PROVE  /\ p[k].rest \subseteq linked \cap connected
                      /\ doubleMode => p[k].rest \subseteq p[k].set.aidBitmap
                      /\ \A n \in DOMAIN p : k < n => p[k].rest \subseteq p[n].rest
                      /\ p[k].set.no = NextPut(q, told, Sending) + k - Len(p) - 1
                      /\ p[k].slot = SlotOf(p[k].set.no)
                      /\ p[k].set.no <= Ahead
    BY <1>5 DEF PortOK
  <2>1. p[k].set.no = k /\ p[k].set.aidBitmap = aids
    BY <1>10, <1>19
  <2>2. (a + 1) + k - a - 1 = k /\ k <= a
    BY <1>1, <1>19
  <2> QED BY <1>1, <1>17, <1>19, <2>1, <2>2 DEF a
<1>21. FirstOK(q, p)
  <2> SUFFICES ASSUME ~doubleMode, Under(q) = 2
               PROVE  /\ Held(q, 2).aidBitmap \subseteq Held(q, 1).aidBitmap \cup {0}
                      /\ \A k \in DOMAIN p :
                           Held(q, 2).aidBitmap \subseteq p[k].set.aidBitmap \cup {0}
    BY DEF FirstOK
  <2> QED BY <1>10, <1>19
<1>22. ToldOK(told, connected, Sending)
  BY <1>1, <1>5 DEF ToldOK, NoticeOK
<1>23. NoneLeftOut(q, p, told, Sending)
  <2> SUFFICES ASSUME NEW e \in linked PROVE Begun(p, e)
    BY DEF NoneLeftOut
  <2>1. 1 <= Len(p) /\ e \in p[1].rest
    BY <1>1, <1>2
  <2>2. InPort(p, e) > 0
    BY <2>1 DEF InPort, One
  <2> QED BY <2>2 DEF Begun
<1>24. \A d \in Known(q, p) : d.no < Under(q) /\ d.data = Sharing!NoData /\ d.no <= a
  <2>1. \A n \in Slot : q.ds[n].no < Under(q) =>
          q.ds[n].no <= a /\ q.ds[n].data = Sharing!NoData
    BY <1>1, <1>3, <1>6, <1>7
  <2>2. \A k \in DOMAIN p : /\ p[k].set.no < Under(q) /\ p[k].set.no <= a
                            /\ p[k].set.data = Sharing!NoData
    <3> SUFFICES ASSUME NEW k \in DOMAIN p
                 PROVE  p[k].set.no < Under(q) /\ p[k].set.no <= a
                        /\ p[k].set.data = Sharing!NoData
      OBVIOUS
    <3>1. p[k].set.no = k /\ p[k].set.data = Sharing!NoData
      BY <1>10, <1>19
    <3>2. k <= a /\ k < a + 1
      BY <1>1, <1>19
    <3> QED BY <1>7, <3>1, <3>2
  <2>3. \A e \in Child : \A n \in Slot : /\ info[e].ds[n].no = 0
                                         /\ info[e].ds[n].data = Sharing!NoData
    BY <1>1, FreshFacts DEF Sharing!Started, Slot
  <2>4. 0 < Under(q) /\ 0 <= a
    BY <1>1, <1>7
  <2> QED BY <1>1, <2>1, <2>2, <2>3, <2>4 DEF Known
<1>25. KnownOK(q, p)
  <2>1. Agree(Known(q, p))
    BY <1>24 DEF Agree
  <2>2. ASSUME NEW d \in Known(q, p) PROVE IsRight(d)
    <3>1. d.data = Sharing!NoData /\ ~(d.no > a)
      <4>1. d.no <= a /\ d.data = Sharing!NoData
        BY <1>24, <2>2
      <4>2. d.no \in Nat
        <5>1. q \in Rings /\ p \in Seq(Packets)
          BY <1>2
        <5> QED BY <1>1, <2>2, <5>1, KnownNumbers
      <4> QED BY <1>1, <4>1, <4>2
    <3>2. \A s \in Child \cup {0} : d.data[s] = 0
      BY <1>3, <3>1 DEF Sharing!NoData
    <3>3. \A s : PieceOf(s, d.no) = 0
      BY <3>1 DEF PieceOf, a
    <3> QED BY <3>1, <3>2, <3>3 DEF IsRight
  <2> QED BY <1>24, <2>1, <2>2 DEF KnownOK
<1>26. CollectOK(q)
  <2> SUFFICES ASSUME NEW m \in Under(q)..Top(q), NEW e \in Child
               PROVE  Held(q, m).data[e] = IF e \in Held(q, m).aidBitmap THEN 0 ELSE PieceOf(e, m)
    BY DEF CollectOK
  <2>1. Held(q, m).data[e] = 0 /\ Held(q, m).aidBitmap = aids
    BY <1>3, <1>10, <1>11 DEF Sharing!NoData
  <2>2. e \notin aids => PieceOf(e, m) = 0
    BY DEF PieceOf
  <2> QED BY <2>1, <2>2
<1> QED BY <1>5, <1>7, <1>12, <1>13, <1>14, <1>15, <1>16, <1>17, <1>18, <1>20, <1>21, <1>22,
           <1>23, <1>25, <1>26 DEF ParentOK, q, p, a

\* What is true of the children when they begin.
LEMMA ShareBegins ==
  ASSUME ShareAssumption, Sharing!Init
  PROVE  ShareInv
<1> DEFINE q == info[0]
           p == port
           a == Ahead
           aids == linked \cup {0}
<1>1. /\ StateTypes /\ ParentTypes(q, p, told, connected)
      /\ BegunWith(q, p) /\ (doubleMode <=> a = 2)
      /\ step = Sharing!NoStep /\ told = <<>> /\ changes = 0 /\ connected = linked
      /\ \A s \in Sharing!Station : last[s] = NULL
      /\ \A e \in Child : info[e] = Sharing!Started /\ reply[e] = <<>>
  BY InitTypes
<1>2. a \in 1..2
  BY InitTypes
<1>3. /\ ParentOK(q, p, told, connected, Sending) /\ PlaceOK(q)
      /\ NextPut(q, told, Sending) = a + 1 /\ Under(q) = a + 1
      /\ Sending = {} /\ ~Refusal(q, told)
  BY ParentBegins
<1>4. /\ q.writeIndex = a
      /\ \A n \in Slot : q.ds[n] = Sharing!Fresh(n + 1, aids)
      /\ linked = {} => p = <<>>
      /\ linked # {} => /\ Len(p) = a /\ DOMAIN p = 1..a
                        /\ \A k \in 1..a : p[k].rest = linked
  BY <1>1 DEF BegunWith
<1>5. Child \subseteq Sharing!Station /\ 0 \notin Child /\ Slot = 0..3
  BY SlotFacts DEF Sharing!Station, ShareAssumption
<1> HIDE DEF q, p, a
<1>6. ASSUME NEW e \in Child
      PROVE  /\ KidOK(e) /\ ReadsOK(q, p, told, connected, Sending, e)
             /\ PiecesOK(told, e) /\ BalanceOK(q, p, told, connected, Sending, e)
  <2>1. /\ info[e] = Sharing!Started /\ last[e] = NULL /\ reply[e] = <<>>
    BY <1>1, <1>5
  <2>2. /\ info[e].readIndex = 0 /\ info[e].writeIndex = 0 /\ info[e].sendIndex = 3
        /\ info[e].retry = FALSE
    BY <2>1 DEF Sharing!Started, Sharing!DATASET_NUM
  <2>3. Unread(e) = 0 /\ Retries(e) = 0
    BY <2>2 DEF Unread, Retries
  <2>4. KidOK(e)
    <3>1. info[e].sendIndex = (info[e].readIndex + IF info[e].retry THEN 2 ELSE 3) % 4
      BY <2>2
    <3>2. \A k \in 1..Len(reply[e]) : FALSE
      BY <2>1
    <3> QED BY <2>1, <2>2, <3>1, <3>2 DEF KidOK
  <2>5. PiecesOK(told, e)
    BY <1>1 DEF PiecesOK
  <2>6. InPort(p, e) = IF e \in linked THEN a ELSE 0
    <3>1. CASE linked = {}
      <4>1. ~(1 <= Len(p)) /\ ~(2 <= Len(p))
        BY <1>4, <3>1
      <4> QED BY <3>1, <4>1 DEF InPort, One
    <3>2. CASE linked # {} /\ a = 1
      <4>1. Len(p) = 1 /\ p[1].rest = linked
        BY <1>4, <3>2
      <4> QED BY <3>2, <4>1 DEF InPort, One
    <3>3. CASE linked # {} /\ a = 2
      <4>1. Len(p) = 2 /\ p[1].rest = linked /\ p[2].rest = linked
        BY <1>4, <3>3
      <4> QED BY <3>3, <4>1 DEF InPort, One
    <3> QED BY <1>2, <3>1, <3>2, <3>3
  <2>7. Begun(p, e) => e \in linked
    <3>1. e \notin linked => ~(InPort(p, e) > 0)
      BY <2>6
    <3> QED BY <2>1, <2>3, <3>1 DEF Begun
  <2>8. ReadsOK(q, p, told, connected, Sending, e)
    <3> SUFFICES ASSUME Begun(p, e)
                 PROVE  ReadsOK(q, p, told, connected, Sending, e)
      BY DEF ReadsOK
    <3>1. e \in linked /\ InPort(p, e) = a
      BY <2>6, <2>7
    <3>2. FirstUnread(q, p, told, Sending, e) = 1
      <4> DEFINE n == NextPut(q, told, Sending)
                 k == InPort(p, e)
                 h == Unread(e)
      <4>1. n = a + 1 /\ k = a /\ h = 0
        BY <1>3, <2>3, <3>1
      <4> HIDE DEF n, k, h
      <4>2. n - k - h = 1
        BY <1>2, <4>1
      <4> QED BY <4>2 DEF FirstUnread, n, k, h
    <3>3. \A k \in DOMAIN p : e \in p[k].rest
      BY <1>4, <3>1
    <3>4. \A k \in 0..Unread(e)-1 : FALSE
      BY <2>3
    <3> QED BY <1>1, <1>3, <2>1, <3>1, <3>2, <3>3, <3>4 DEF ReadsOK
  <2>9. BalanceOK(q, p, told, connected, Sending, e)
    <3> SUFFICES ASSUME e \in linked
                 PROVE  Unanswered(q, p, told, Sending, e) = a /\ Lacks(q, e) = a
      <4>1. a - a \in 0..1
        BY <1>2
      <4> QED BY <4>1 DEF BalanceOK
    <3>1. Later(told, 1, DataOf(e)) = 0
      <4>1. Hits(told, 1, DataOf(e)) = {}
        BY <1>1 DEF Hits
      <4> QED BY <4>1, FS_EmptySet DEF Later
    <3>2. Len(reply[e]) = 0
      BY <2>1
    <3>3. OnTheWay(p, told, e) = a + 0 + 0 + 0 + 0
      BY <2>3, <2>6, <3>1, <3>2 DEF OnTheWay
    <3>4. Owed(q, told, Sending, e) = 0
      BY <1>3 DEF Owed, One
    <3>5. Unanswered(q, p, told, Sending, e) = a
      <4>1. Unanswered(q, p, told, Sending, e) = 0 + (a + 0 + 0 + 0 + 0)
        BY <3>3, <3>4 DEF Unanswered
      <4> QED BY <1>2, <4>1
    <3>6. \A n \in Slot : e \in q.ds[n].aidBitmap
      <4> SUFFICES ASSUME NEW n \in Slot PROVE e \in q.ds[n].aidBitmap
        OBVIOUS
      <4> DEFINE d == q.ds[n]
                 h == n + 1
      <4>1. d = Sharing!Fresh(h, aids)
        BY <1>4
      <4> HIDE DEF d, h
      <4>2. d.aidBitmap = aids
        BY <4>1 DEF Sharing!Fresh
      <4> QED BY <4>2 DEF d
    <3>7. e \in Held(q, Under(q)).aidBitmap /\ (doubleMode => e \in Held(q, Under(q) + 1).aidBitmap)
      <4>1. SlotOf(a + 1) \in Slot /\ SlotOf(a + 1 + 1) \in Slot
        BY <1>2, SlotFacts
      <4> QED BY <1>3, <3>6, <4>1 DEF Held
    <3>8. Lacks(q, e) = a
      <4>1. CASE doubleMode
        BY <1>1, <3>7, <4>1 DEF Lacks, One
      <4>2. CASE ~doubleMode
        BY <1>1, <1>2, <3>7, <4>2 DEF Lacks, One
      <4> QED BY <4>1, <4>2
    <3> QED BY <3>5, <3>8
  <2> QED BY <2>4, <2>5, <2>8, <2>9
<1> QED BY <1>1, <1>3, <1>6 DEF ShareInv, AllOK, KidsOK, q, p

\* Every step keeps the invariant.
LEMMA ShareStep ==
  ASSUME ShareAssumption, ShareInv, [Sharing!Next]_Sharing!vars, Orderly'
  PROVE  ShareInv'
<1>0. ASSUME Sharing!StepGiveNext, UNCHANGED doubleMode PROVE ShareInv'
  <2>1. doubleMode
    BY <1>0 DEF Sharing!StepGiveNext, ShareInv, PlaceOK
  <2>2. ~strayed'
    BY <1>0, <2>1 DEF Orderly
  <2> QED BY <1>0, <2>2, StepStepGiveNext
<1>1. CASE Sharing!ParentStep /\ UNCHANGED doubleMode
  BY <1>1, StepStepRetry, StepStepRead, StepStepFinish, StepStepPut, StepStepGive,
     <1>0, StepStepFinishAgain, StepStepPutAgain DEF Sharing!ParentStep
<1>2. CASE Sharing!ParentCallback /\ UNCHANGED doubleMode
  BY <1>2, StepSent, StepRefused, StepReceived, StepConnected, StepDisconnected
     DEF Sharing!ParentCallback
<1>3. CASE (Sharing!Report \/ Sharing!Refuse) /\ UNCHANGED doubleMode
  BY <1>3, StepReport, StepRefuse
<1>4. ASSUME NEW c1 \in Child, UNCHANGED doubleMode,
             \/ Sharing!ChildStep(c1) \/ Sharing!Deliver(c1) \/ Sharing!DeliverReply(c1)
             \/ Sharing!Associate(c1) \/ Sharing!DeAuthenticate(c1)
      PROVE  ShareInv'
  BY <1>4, StepMark, StepChildRetry, StepChildRead, StepDeliver, StepDeliverReply,
     StepAssociate, StepDeAuthenticate DEF Sharing!ChildStep
<1>5. CASE UNCHANGED Sharing!vars
  <2>1. /\ UNCHANGED <<doubleMode, info, last, step, connected, linked, told, port, reply, changes>>
    BY <1>5 DEF Sharing!vars
  <2>2. AllOK(info[0], port, told, connected, Sending)
    BY DEF ShareInv
  <2>3. AllOK(info[0], port', told', connected, Sending)
    BY <2>1, <2>2
  <2> QED BY <2>1, <2>3, PortLands
<1> QED BY <1>1, <1>2, <1>3, <1>4, <1>5 DEF Sharing!Next

-----------------------------------------------------------------------------
(* What the invariant gives.                                                  *)

\* The slots from r up to w.
LEMMA BetweenFacts ==
  ASSUME NEW w \in Slot, NEW r \in Slot, NEW n, n = (w + 4 - r) % 4
  PROVE  \A x : x \in Sharing!Between(r, w) <=> \E k \in 0..n-1 : x = (r + k) % 4
<1>1. w \in 0..3 /\ r \in 0..3
  BY SlotFacts
<1>2. n \in 0..3 /\ w = (r + n) % 4
  BY <1>1
<1>3. \A k \in 0..n : (r + k) % 4 = w <=> k = n
  BY <1>1, <1>2
<1>4. \A x : x \in Sharing!Between(r, w) <=> x # w /\ \E k \in 0..n : x = (r + k) % 4
  BY DEF Sharing!Between, Sharing!DATASET_NUM
<1>5. \A k : k \in 0..n /\ k # n <=> k \in 0..n-1
  BY <1>2
<1> QED BY <1>3, <1>4, <1>5

\* The sets the parent is to read are those after the one it has read last.
LEMMA ParentUnread ==
  ASSUME ShareAssumption, ShareInv
  PROVE  LET q == info[0] IN
         /\ HasRead \in Nat /\ Under(q) \in Nat /\ Under(q) - HasRead - 1 \in 0..2
         /\ Ahead \in 1..2 /\ Under(q) <= HasRead + Ahead + 1 /\ HasRead < Under(q)
         /\ \A m \in HasRead+1..Under(q)-1 : Held(q, m).no = m /\ m < Under(q)
         /\ \A d : d \in Sharing!Unread(0) <=> \E m \in HasRead+1..Under(q)-1 : d = Held(q, m)
<1> DEFINE q == info[0]
           a == Ahead
           w == Under(q)
           h == HasRead
           n == w - h - 1
<1>1. StateTypes /\ AllOK(q, port, told, connected, Sending)
  BY DEF ShareInv
<1>2. q \in Rings /\ RingOK(q)
  BY <1>1 DEF AllOK, ParentOK, ParentTypes
<1>3. w \in Nat /\ h \in Nat /\ a \in 1..2
  BY <1>1, <1>2, RingNumbers, ShareNumbers
<1>4. /\ w > h /\ w <= Given + 1 /\ q.writeIndex = SlotOf(w) /\ q.readIndex = SlotOf(h + 1)
      /\ \A m \in 1..Top(q) : m + 4 > Top(q) => Held(q, m).no = m
  BY <1>2 DEF RingOK
<1>5. Given <= h + a
  <2>1. Given = h + a \/ Given = h - 1 + a
    BY DEF Given
  <2> QED BY <1>3, <2>1
<1>6. Given \in Int
  BY <1>3 DEF Given
<1>7. Top(q) = w + a - 1
  BY DEF Top
<1> HIDE DEF q, a, w, h
<1>8. n \in 0..2 /\ w = h + 1 + n /\ w <= h + a + 1
  BY <1>3, <1>4, <1>5, <1>6
<1>9. \A m \in h+1..w-1 : Held(q, m).no = m /\ m < w
  <2> SUFFICES ASSUME NEW m \in h+1..w-1 PROVE Held(q, m).no = m /\ m < w
    OBVIOUS
  <2>1. m \in 1..w+a-1 /\ m + 4 > w + a - 1 /\ m < w
    BY <1>3, <1>8
  <2> QED BY <1>4, <1>7, <2>1
<1>10. \A k \in 0..n : (SlotOf(h + 1) + k) % 4 = SlotOf(h + 1 + k)
  BY <1>3, <1>8 DEF SlotOf
<1>11. n = (SlotOf(w) + 4 - SlotOf(h + 1)) % 4
  BY <1>3, <1>8 DEF SlotOf
<1>12. \A x : x \in Sharing!Between(q.readIndex, q.writeIndex)
                <=> \E k \in 0..n-1 : x = (SlotOf(h + 1) + k) % 4
  <2>1. SlotOf(w) \in Slot /\ SlotOf(h + 1) \in Slot
    BY <1>3, SlotFacts
  <2> HIDE DEF n
  <2> QED BY <1>4, <1>11, <2>1, BetweenFacts
<1>13. \A x : x \in Sharing!Between(q.readIndex, q.writeIndex)
                <=> \E m \in h+1..w-1 : x = SlotOf(m)
  <2>1. \A k \in 0..n-1 : k \in 0..n /\ h + 1 + k \in h+1..w-1
    BY <1>3, <1>8
  <2>2. \A m \in h+1..w-1 : m - (h + 1) \in 0..n-1 /\ m - (h + 1) \in 0..n
                            /\ h + 1 + (m - (h + 1)) = m
    BY <1>3, <1>8
  <2> HIDE DEF n
  <2>3. ASSUME NEW k \in 0..n-1 PROVE \E m \in h+1..w-1 : (SlotOf(h + 1) + k) % 4 = SlotOf(m)
    BY <1>10, <2>1
  <2>4. ASSUME NEW m \in h+1..w-1 PROVE \E k \in 0..n-1 : (SlotOf(h + 1) + k) % 4 = SlotOf(m)
    BY <1>10, <2>2
  <2> QED BY <1>12, <2>3, <2>4
<1>14. \A d : d \in Sharing!Unread(0) <=> \E m \in h+1..w-1 : d = Held(q, m)
  <2>1. Sharing!Unread(0) = {q.ds[k] : k \in Sharing!Between(q.readIndex, q.writeIndex)}
    BY DEF Sharing!Unread, q
  <2> QED BY <1>13, <2>1 DEF Held
<1> QED BY <1>3, <1>4, <1>8, <1>9, <1>14 DEF q, w, h, a

\* Whatever a station sees is known.
LEMMA SeenIsKnown ==
  ASSUME ShareAssumption, ShareInv
  PROVE  \A s \in Sharing!Station : \A d \in Sharing!Seen(s) : d \in Known(info[0], port)
<1> SUFFICES ASSUME NEW s \in Sharing!Station, NEW d \in Sharing!Seen(s)
             PROVE  KnownAt(info[0], port, last, info, d)
  BY KnownCases
<1> DEFINE q == info[0]
<1>1. StateTypes
  BY DEF ShareInv
<1>2. CASE d \notin Sharing!Unread(s)
  BY <1>2 DEF Sharing!Seen, KnownAt
<1>3. CASE s = 0 /\ d \in Sharing!Unread(s)
  <2>1. PICK m \in HasRead+1..Under(q)-1 : d = Held(q, m)
    BY <1>3, ParentUnread
  <2>2. Held(q, m).no = m /\ m < Under(q)
    BY ParentUnread
  <2>3. SlotOf(m) \in Slot
    <3>1. HasRead \in Nat /\ Under(q) \in Nat
      BY ParentUnread
    <3>2. m \in Nat
      BY <3>1
    <3> QED BY <3>2, SlotFacts
  <2> QED BY <2>1, <2>2, <2>3 DEF KnownAt, Held
<1>4. CASE s # 0 /\ d \in Sharing!Unread(s)
  <2>1. s \in Child /\ info[s] \in Rings
    BY <1>1, <1>4 DEF Sharing!Station, StateTypes
  <2>2. PICK k \in Sharing!Between(info[s].readIndex, info[s].writeIndex) : d = info[s].ds[k]
    BY <1>4 DEF Sharing!Unread
  <2>3. k \in Slot
    <3>1. info[s].readIndex \in Nat
      BY <2>1, SlotFacts DEF Rings
    <3>2. \A n \in Int : (info[s].readIndex + n) % 4 \in 0..3
      BY <3>1
    <3> QED BY <3>2, SlotFacts DEF Sharing!Between, Sharing!DATASET_NUM
  <2> QED BY <2>1, <2>2, <2>3 DEF KnownAt
<1> QED BY <1>2, <1>3, <1>4

\* The types of data sharing.
LEMMA ShareTyped ==
  ASSUME ShareAssumption, ShareInv, strayed \in BOOLEAN
  PROVE  Sharing!TypeOK
<1>1. StateTypes /\ ParentTypes(info[0], port, told, connected)
  BY DEF ShareInv, AllOK
<1>2. ASSUME NEW s \in Sharing!Station
      PROVE  /\ \A k \in Slot : info[s].ds[k] \in Sharing!DataSet
             /\ {info[s].writeIndex, info[s].readIndex, info[s].sendIndex} \subseteq Slot
             /\ info[s].retry \in BOOLEAN
             /\ last[s] \in Sharing!DataSet \cup {NULL}
  <2>1. info[s] \in Rings /\ last[s] \in Sharing!DataSet \cup {NULL}
    BY <1>1 DEF StateTypes
  <2> QED BY <2>1 DEF Rings
<1>3. step.at \in {"idle", "read", "give", "next", "send", "put", "resend", "reput"}
  BY <1>1 DEF StateTypes, Steps, Sharing!NoStep
<1>4. \A k \in DOMAIN port : port[k].set \in Sharing!DataSet /\ port[k].rest \subseteq Child
  <2>1. \A k \in DOMAIN port : port[k] \in Packets
    BY <1>1 DEF ParentTypes
  <2> QED BY <2>1 DEF Packets
<1>5. /\ doubleMode \in BOOLEAN /\ connected \subseteq Child /\ linked \subseteq Child
      /\ \A e \in Child : reply[e] \in Seq(Sharing!Piece)
  BY <1>1 DEF StateTypes, ParentTypes
<1> QED BY <1>2, <1>3, <1>4, <1>5 DEF Sharing!TypeOK, Slot

\* The sets that are seen are the same everywhere.
LEMMA SetsSame ==
  ASSUME ShareAssumption, ShareInv
  PROVE  Sharing!SameSets
<1>1. Agree(Known(info[0], port))
  BY DEF ShareInv, AllOK, ParentOK, KnownOK
<1>2. \A d \in UNION {Sharing!Seen(s) : s \in Sharing!Station} : d \in Known(info[0], port)
  BY SeenIsKnown
<1>3. \A k \in Sharing!UnderWay : port[k].set \in Known(info[0], port)
  BY DEF Sharing!UnderWay, Known
<1> QED BY <1>1, <1>2, <1>3 DEF Sharing!SameSets, Agree

\* What is on its way is still in its slot.
LEMMA SlotsStay ==
  ASSUME ShareAssumption, ShareInv
  PROVE  Sharing!SlotsKept
<1> DEFINE q == info[0]
           p == port
           o == Sending
<1>1. /\ StateTypes /\ q \in Rings /\ p \in Seq(Packets) /\ told \in Seq(Notices)
      /\ RingOK(q) /\ SentOK(q, p, told, o) /\ PortOK(q, p, told, connected, o)
      /\ \A e \in Child : KidOK(e)
  BY DEF ShareInv, AllOK, ParentOK, KidsOK, ParentTypes
<1> HIDE DEF q, p, o
<1>2. ASSUME NEW k \in DOMAIN p, p[k].rest # {} PROVE q.ds[p[k].slot].no = p[k].set.no
  <2> DEFINE m == p[k].set.no
             n == NextPut(q, told, o)
             l == Len(p)
             y == Unput(q, told, o)
             x == Later(told, 1, Reports)
             w == Under(q)
             h == HasRead
             a == Ahead
  <2>1. m = n + k - l - 1 /\ p[k].slot = SlotOf(m)
    BY <1>1, <1>2 DEF PortOK
  <2>2. n = w - y /\ h < w - (x + l + y)
    BY <1>1 DEF NextPut, SentOK, Out
  <2>3. k \in 1..l /\ l \in Nat
    BY <1>1
  <2>4. y \in 0..1
    BY DEF Unput
  <2>5. x \in Nat
    BY <1>1, NoticeCounts
  <2>6. w \in Nat /\ h \in Nat /\ a \in 1..2 /\ w <= h + a + 1
    <3>1. /\ HasRead \in Nat /\ Under(q) \in Nat /\ Under(q) <= HasRead + Ahead + 1 /\ Ahead \in 1..2
      BY ParentUnread DEF q
    <3> QED BY <3>1
  <2> HIDE DEF m, n, l, y, x, w, h, a
  <2>7. m \in h+1..w-1
    BY <2>1, <2>2, <2>3, <2>4, <2>5, <2>6
  <2>8. Held(q, m).no = m
    BY <2>7, ParentUnread DEF q, w, h
  <2> QED BY <2>1, <2>8 DEF Held, m
<1>3. ASSUME NEW e \in linked, NEW k \in 1..Len(reply[e])
      PROVE  info[e].ds[(info[e].sendIndex + Sharing!DATASET_NUM - k) % Sharing!DATASET_NUM].no = 0
  <2>1. e \in Child
    BY <1>1 DEF StateTypes
  <2>2. info[e].ds[(info[e].sendIndex + 4 - k) % 4].no = 0
    BY <1>1, <2>1 DEF KidOK
  <2> QED BY <2>2 DEF Sharing!DATASET_NUM
<1> QED BY <1>2, <1>3 DEF Sharing!SlotsKept, Sharing!UnderWay, q, p

\* The parent reads one set after the other, and none is run over.
LEMMA RingKept ==
  ASSUME ShareAssumption, ShareInv
  PROVE  Sharing!RingHolds
<1> DEFINE q == info[0]
           w == Under(q)
           h == HasRead
           a == Ahead
<1>1. /\ h \in Nat /\ w \in Nat /\ a \in 1..2 /\ w <= h + a + 1
      /\ \A m \in h+1..w-1 : Held(q, m).no = m
      /\ \A d : d \in Sharing!Unread(0) <=> \E m \in h+1..w-1 : d = Held(q, m)
  BY ParentUnread
<1>2. q.ds[q.writeIndex].no = w /\ Sharing!ReadNo(0) = h /\ Sharing!Ahead = a
  BY DEF Under, HasRead, Ahead
<1> HIDE DEF w, h, a
<1>3. w - h + a <= 4 + 1
  BY <1>1
<1>4. {d.no : d \in Sharing!Unread(0)} = h+1..w-1
  BY <1>1
<1> QED BY <1>2, <1>3, <1>4 DEF Sharing!RingHolds, Sharing!DATASET_NUM

\* A set has of each station what it gave for it.
LEMMA SetsInStep ==
  ASSUME ShareAssumption, ShareInv
  PROVE  Sharing!InStep
<1>1. \A d \in Known(info[0], port) : IsRight(d)
  BY DEF ShareInv, AllOK, ParentOK, KnownOK
<1> SUFFICES ASSUME NEW s \in Sharing!Station, changes = 0 \/ s = 0,
                    NEW d \in UNION {Sharing!Seen(e) : e \in Sharing!Station}
             PROVE  d.data[s] = IF d.no > Sharing!Ahead /\ (s = 0 \/ s \in linked)
                                THEN d.no - Sharing!Ahead ELSE 0
  BY DEF Sharing!InStep
<1>2. IsRight(d)
  BY <1>1, SeenIsKnown
<1>3. d.data[s] = PieceOf(s, d.no)
  BY <1>2 DEF IsRight, Sharing!Station
<1>4. s \in linked \cup {0} <=> (s = 0 \/ s \in linked)
  OBVIOUS
<1> QED BY <1>3, <1>4 DEF PieceOf, Ahead

\* Where nothing is under way, all have read all sets.
LEMMA NoneWaits ==
  ASSUME ShareAssumption, ShareInv
  PROVE  Sharing!NobodyWaits
<1> DEFINE q == info[0]
           w == Under(q)
           h == HasRead
           a == Ahead
           quiet == /\ step = Sharing!NoStep /\ told = <<>> /\ port = <<>> /\ ~q.retry
                    /\ ~Sharing!Complete(q)
                    /\ q.readIndex = q.sendIndex \/ Sharing!ReadNo(0) = Sharing!LastSet
                    /\ \A e \in linked : /\ reply[e] = <<>> /\ Sharing!Unread(e) = {}
                                         /\ ~info[e].retry
<1>1. StateTypes /\ AllOK(q, port, told, connected, Sending)
  BY DEF ShareInv
<1>2. /\ q \in Rings /\ RingOK(q) /\ LackOK(q, connected) /\ SentOK(q, port, told, Sending)
      /\ ToldOK(told, connected, Sending) /\ NoneLeftOut(q, port, told, Sending)
      /\ \A e \in Child : /\ ReadsOK(q, port, told, connected, Sending, e)
                          /\ BalanceOK(q, port, told, connected, Sending, e)
  BY <1>1 DEF AllOK, ParentOK, ParentTypes, KidsOK
<1>3. /\ h \in Nat /\ w \in Nat /\ a \in 1..2 /\ w - h - 1 \in 0..2 /\ h < w
  BY ParentUnread
<1>4. linked \subseteq Child /\ changes \in Nat /\ Child \subseteq Sharing!Station /\ 0 \notin Child
  BY <1>1 DEF StateTypes, Sharing!Station, ShareAssumption
<1> SUFFICES ASSUME quiet
             PROVE  /\ h = Sharing!LastSet
                    /\ \A e \in linked : \/ Sharing!ReadNo(e) >= Sharing!LastSet
                                         \/ last[e] = NULL /\ changes > 0
  BY DEF Sharing!NobodyWaits, HasRead
<1>5. /\ step.at = "idle" /\ told = <<>> /\ port = <<>> /\ ~q.retry
      /\ q.ds[q.writeIndex].aidBitmap # {}
  BY DEF Sharing!NoStep, Sharing!Complete
<1>6. Sending = {} /\ ~Giving
  BY <1>5 DEF Sending, Giving
<1>7. /\ ~Refusal(q, told) /\ Unput(q, told, Sending) = 0 /\ ~Pending(q, told, Sending)
  BY <1>5, <1>6 DEF Refusal, Unput, Pending
<1>8. \A S : Later(told, 1, S) = 0
  <2>1. \A S : Hits(told, 1, S) = {}
    BY <1>5 DEF Hits
  <2> QED BY <2>1, FS_EmptySet DEF Later
<1>9. Out(q, port, told, Sending) = 0
  <2>1. Len(port) = 0 /\ 0 + 0 + 0 = 0
    BY <1>5
  <2> QED BY <1>7, <1>8, <2>1 DEF Out
<1>10. connected = linked
  <2>1. DOMAIN told = {}
    BY <1>5
  <2>2. /\ \A e \in linked \ connected :
             \E k \in DOMAIN told : told[k].is = "connected" /\ told[k].child = e
        /\ \A e \in connected \ linked :
             \E k \in DOMAIN told : told[k].is = "disconnected" /\ told[k].child = e
    <3>1. ToldOK(told, connected, Sending)
      BY <1>2
    <3> QED BY <3>1 DEF ToldOK, NoticeOK
  <2>3. \A e \in linked \ connected : FALSE
    BY <2>1, <2>2
  <2>4. \A e \in connected \ linked : FALSE
    BY <2>1, <2>2
  <2> QED BY <2>3, <2>4
<1>11. ASSUME NEW e \in linked
       PROVE  Unread(e) = 0 /\ InPort(port, e) = 0 /\ Unanswered(q, port, told, Sending, e) = 0
  <2>1. info[e] \in Rings /\ reply[e] = <<>> /\ Retries(e) = 0
    BY <1>1, <1>4 DEF StateTypes, Retries
  <2>2. Unread(e) = 0
    <3> DEFINE n == Unread(e)
    <3>1. info[e].readIndex \in Slot /\ info[e].writeIndex \in Slot
      BY <2>1 DEF Rings
    <3>2. n \in 0..3
      <4>1. info[e].readIndex \in 0..3 /\ info[e].writeIndex \in 0..3
        BY <3>1, SlotFacts
      <4> QED BY <4>1 DEF Unread
    <3>3. n = (info[e].writeIndex + 4 - info[e].readIndex) % 4
      BY DEF Unread
    <3> HIDE DEF n
    <3>4. \A x : x \in Sharing!Between(info[e].readIndex, info[e].writeIndex)
                   <=> \E k \in 0..n-1 : x = (info[e].readIndex + k) % 4
      BY <3>1, <3>3, BetweenFacts
    <3>5. Sharing!Between(info[e].readIndex, info[e].writeIndex) = {}
      BY DEF Sharing!Unread
    <3>6. CASE n > 0
      <4>1. 0 \in 0..n-1
        BY <3>2, <3>6
      <4> QED BY <3>4, <3>5, <4>1
    <3> QED BY <3>2, <3>6 DEF n
  <2>3. InPort(port, e) = 0
    <3>1. ~(1 <= Len(port)) /\ ~(2 <= Len(port))
      BY <1>5
    <3> QED BY <3>1 DEF InPort, One
  <2>4. Len(reply[e]) = 0
    BY <2>1
  <2>5. OnTheWay(port, told, e) = 0 + 0 + 0 + 0 + 0
    BY <1>8, <2>1, <2>2, <2>3, <2>4 DEF OnTheWay
  <2>6. Owed(q, told, Sending, e) = 0
    BY <1>6, <1>7 DEF Owed, One
  <2>7. Unanswered(q, port, told, Sending, e) = 0 + (0 + 0 + 0 + 0 + 0)
    BY <2>5, <2>6 DEF Unanswered
  <2> QED BY <2>2, <2>3, <2>7
<1> HIDE DEF quiet, q, w, h, a
<1>12. q.readIndex # q.sendIndex
  <2> SUFFICES ASSUME q.readIndex = q.sendIndex PROVE FALSE
    OBVIOUS
  <2>1. q.readIndex = SlotOf(h + 1) /\ q.writeIndex = SlotOf(w)
    BY <1>2 DEF RingOK, h, w
  <2>2. q.sendIndex = SlotOf(w)
    <3>1. w - 0 = w
      BY <1>3
    <3> QED BY <1>2, <1>9, <3>1 DEF SentOK, w
  <2>3. SlotOf(h + 1) = SlotOf(w)
    BY <2>1, <2>2
  <2>4. w = h + 1
    BY <1>3, <2>3 DEF SlotOf
  <2>5. w \in Under(q)..Top(q) /\ ~(w > Given)
    <3>1. Given = h + a
      BY <1>6 DEF Given, h, a
    <3>2. Top(q) = w + a - 1 /\ Under(q) = w
      BY DEF Top, w, a
    <3> QED BY <1>3, <2>4, <3>1, <3>2
  <2>6. 0 \notin Held(q, w).aidBitmap /\ Held(q, w).aidBitmap \subseteq connected \cup {0}
    BY <1>2, <2>5 DEF RingOK, LackOK
  <2>7. Held(q, w).aidBitmap # {}
    BY <1>5, <2>1 DEF Held
  <2>8. PICK e \in linked : e \in Held(q, w).aidBitmap
    BY <1>10, <2>6, <2>7
  <2>9. Lacks(q, e) = 1 \/ Lacks(q, e) = 2
    BY <2>8 DEF Lacks, One, w
  <2>10. Unanswered(q, port, told, Sending, e) - Lacks(q, e) \in 0..1
    BY <1>2, <1>4, <1>10, <2>8 DEF BalanceOK
  <2> QED BY <1>11, <2>9, <2>10
<1>13. h = Sharing!LastSet
  BY <1>12 DEF quiet, h, HasRead
<1>14. ASSUME NEW e \in linked
       PROVE  Sharing!ReadNo(e) >= Sharing!LastSet \/ (last[e] = NULL /\ changes > 0)
  <2>1. CASE Begun(port, e)
    <3>1. last[e] # NULL
      BY <1>11, <2>1 DEF Begun
    <3>2. last[e].no = FirstUnread(q, port, told, Sending, e) - 1
      BY <1>2, <1>4, <2>1, <3>1 DEF ReadsOK
    <3>3. FirstUnread(q, port, told, Sending, e) = w
      <4> DEFINE n == NextPut(q, told, Sending)
                 k == InPort(port, e)
                 x == Unread(e)
                 y == Unput(q, told, Sending)
      <4>1. n = w - y /\ y = 0 /\ k = 0 /\ x = 0
        BY <1>7, <1>11 DEF NextPut, w
      <4> HIDE DEF n, k, x, y
      <4>2. n - k - x = w
        BY <1>3, <4>1
      <4> QED BY <4>2 DEF FirstUnread, n, k, x
    <3>4. last[e].no >= h
      BY <1>3, <3>2, <3>3
    <3> QED BY <1>13, <3>1, <3>4 DEF Sharing!ReadNo
  <2>2. CASE ~Begun(port, e)
    <3>1. last[e] = NULL
      BY <2>2 DEF Begun
    <3>2. changes # 0
      BY <1>2, <1>7, <2>2 DEF NoneLeftOut
    <3> QED BY <1>4, <3>1, <3>2
  <2> QED BY <2>1, <2>2
<1> QED BY <1>13, <1>14

-----------------------------------------------------------------------------
(* The composition.                                                           *)

\* Each part of a behaviour of the composition takes its own steps or stands still.
LEMMA StepIsPart ==
  [MCNext]_<<part, vars, resetVars, shareVars>>
    => [Next]_vars /\ [Reset!Next]_Reset!vars /\ [Sharing!Next]_Sharing!vars
BY DEF MCNext, resetVars, shareVars, Reset!vars, Reset!handshake, Reset!words, Reset!memory,
   Sharing!vars

\* A processor that is up has the other with it, finds the locks cleared and hears
\* when it is to be reset, whatever the bits were at power on.
THEOREM ProcessorsStartTogether == ASSUME ResetAssumption PROVE MCSpec => []StartTogether
<1>1. MCInit => IInv /\ ResetInv
  BY InitIInv, InitHolds DEF MCInit
<1>2. IInv /\ ResetInv /\ [MCNext]_<<part, vars, resetVars, shareVars>> => IInv' /\ ResetInv'
  BY StepIInv, StepKeeps, StepIsPart
<1>3. IInv /\ ResetInv => StartTogether
  BY ProcessorsMeet DEF IInv, ResetInv, StartTogether
<1> QED
  BY <1>1, <1>2, <1>3, PTL DEF MCSpec

\* What has strayed stays so, and the mode is the same.
LEMMA StrayedStays ==
  ASSUME [Sharing!Next]_Sharing!vars
  PROVE  /\ doubleMode' = doubleMode /\ (strayed => strayed')
         /\ strayed \in BOOLEAN => strayed' \in BOOLEAN
<1> DEFINE kept == (strayed => strayed') /\ (strayed \in BOOLEAN => strayed' \in BOOLEAN)
<1>1. ASSUME UNCHANGED strayed PROVE kept
  BY <1>1
<1>2. ASSUME NEW more, strayed' = (strayed \/ more) PROVE kept
  <2>1. CASE strayed \/ more
    BY <1>2, <2>1
  <2>2. CASE ~(strayed \/ more)
    BY <1>2, <2>2
  <2> QED
    BY <2>1, <2>2
<1> HIDE DEF kept
<1>3. ASSUME Sharing!ParentStep PROVE kept
  <2>1. Sharing!StepRetry => UNCHANGED strayed
    BY DEF Sharing!StepRetry
  <2>2. Sharing!StepRead => UNCHANGED strayed
    BY DEF Sharing!StepRead
  <2>3. Sharing!StepFinish \/ Sharing!StepFinishAgain => UNCHANGED strayed
    BY DEF Sharing!StepFinish, Sharing!StepFinishAgain, Sharing!Finish
  <2>4. Sharing!StepPut \/ Sharing!StepPutAgain => UNCHANGED strayed
    BY DEF Sharing!StepPut, Sharing!StepPutAgain, Sharing!Put
  <2>5. Sharing!StepGive => UNCHANGED strayed
    BY DEF Sharing!StepGive
  <2>6. Sharing!StepGiveNext => kept
    <3>1. Sharing!StepGiveNext
            => strayed' = (strayed \/ Sharing!Lacks(info[0], info[0].writeIndex, 0))
      BY DEF Sharing!StepGiveNext
    <3> QED
      BY <1>2, <3>1
  <2> QED
    BY <1>1, <1>3, <2>1, <2>2, <2>3, <2>4, <2>5, <2>6 DEF Sharing!ParentStep
<1>4. ASSUME Sharing!ParentCallback PROVE kept
  <2>1. Sharing!Sent => UNCHANGED strayed
    BY DEF Sharing!Sent
  <2>2. Sharing!Refused => UNCHANGED strayed
    BY DEF Sharing!Refused
  <2>3. Sharing!Received => UNCHANGED strayed
    BY DEF Sharing!Received
  <2>4. Sharing!Connected => UNCHANGED strayed
    BY DEF Sharing!Connected
  <2>5. Sharing!Disconnected => UNCHANGED strayed
    BY DEF Sharing!Disconnected
  <2> QED
    BY <1>1, <1>4, <2>1, <2>2, <2>3, <2>4, <2>5 DEF Sharing!ParentCallback
<1>5. ASSUME Sharing!Report \/ Sharing!Refuse PROVE kept
  <2>1. Sharing!Report => UNCHANGED strayed
    BY DEF Sharing!Report
  <2>2. Sharing!Refuse => kept
    <3>1. Sharing!Refuse => strayed' = (strayed \/ doubleMode)
      BY DEF Sharing!Refuse
    <3> QED
      BY <1>2, <3>1
  <2> QED
    BY <1>1, <1>5, <2>1, <2>2
<1>6. ASSUME NEW c1 \in Child,
             \/ Sharing!ChildStep(c1) \/ Sharing!Deliver(c1) \/ Sharing!DeliverReply(c1)
             \/ Sharing!Associate(c1) \/ Sharing!DeAuthenticate(c1)
      PROVE  kept
  <2>1. Sharing!Deliver(c1) => UNCHANGED strayed
    BY DEF Sharing!Deliver
  <2>2. Sharing!DeliverReply(c1) => UNCHANGED strayed
    BY DEF Sharing!DeliverReply
  <2>3. Sharing!Associate(c1) => UNCHANGED strayed
    BY DEF Sharing!Associate
  <2>4. Sharing!DeAuthenticate(c1) => UNCHANGED strayed
    BY DEF Sharing!DeAuthenticate
  <2>5. ASSUME Sharing!ChildStep(c1)
        PROVE  UNCHANGED strayed
    BY <2>5 DEF Sharing!ChildStep, Sharing!ChildMark, Sharing!ChildRetry, Sharing!ChildRead,
       Sharing!PutPiece
  <2> QED
    BY <1>1, <1>6, <2>1, <2>2, <2>3, <2>4, <2>5
<1>7. ASSUME UNCHANGED Sharing!vars PROVE kept
  BY <1>1, <1>7 DEF Sharing!vars
<1>8. doubleMode' = doubleMode
  BY DEF Sharing!Next, Sharing!vars
<1> QED
  BY <1>3, <1>4, <1>5, <1>6, <1>7, <1>8 DEF Sharing!Next, kept

\* What is true of data shared in every state, as long as the sharing is orderly.
LEMMA ShareInvariant ==
  ASSUME ShareAssumption PROVE MCSpec => [](strayed \in BOOLEAN /\ (Orderly => ShareInv))
<1> DEFINE I == strayed \in BOOLEAN /\ (Orderly => ShareInv)
<1>1. MCInit => I
  BY ShareBegins DEF MCInit, Sharing!Init
<1>2. I /\ [MCNext]_<<part, vars, resetVars, shareVars>> => I'
  <2> SUFFICES ASSUME I, [Sharing!Next]_Sharing!vars PROVE I'
    BY StepIsPart
  <2>1. /\ doubleMode' = doubleMode /\ (strayed => strayed')
        /\ strayed' \in BOOLEAN
    BY StrayedStays
  <2>2. ASSUME Orderly' PROVE ShareInv'
    <3>1. Orderly
      BY <2>1, <2>2 DEF Orderly
    <3> QED BY <2>2, <3>1, ShareStep
  <2> QED BY <2>1, <2>2
<1> QED BY <1>1, <1>2, PTL DEF MCSpec

\* All stations read the same sets, one after the other, each with a piece of every
\* station from the same moment, and no slot is used again before its set or its piece
\* is sent: without double mode for any number of children that come and go, of sets
\* and of queues that are full; with it up to a queue that is full or a piece of the
\* parent that goes past a set.
THEOREM SharersAgree == ASSUME ShareAssumption PROVE MCSpec => []SetsAgree
<1>1. strayed \in BOOLEAN /\ (Orderly => ShareInv) => SetsAgree
  BY ShareTyped, SetsSame, SlotsStay, RingKept, SetsInStep DEF SetsAgree
<1> QED BY <1>1, ShareInvariant, PTL

\* The stations never all wait for each other: where nothing is under way and no call
\* of WM_StepDataSharing has anything to do, all have read all sets; in double mode up
\* to the same two events.
THEOREM SharersNeverAllWait == ASSUME ShareAssumption PROVE MCSpec => []NobodyWaits
<1>1. strayed \in BOOLEAN /\ (Orderly => ShareInv) => NobodyWaits
  BY NoneWaits DEF NobodyWaits
<1> QED BY <1>1, ShareInvariant, PTL
=============================================================================
