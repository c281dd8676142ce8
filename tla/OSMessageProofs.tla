--------------------------- MODULE OSMessageProofs ---------------------------
(* Proofs about OSMessage, for any number of threads, messages and places in  *)
(* the queue; about OSEvent, the other part of MCWaits; and about SNDCommand, *)
(* the sound commands of MCSound, for any number of callers and commands,     *)
(* any depth of the queues and any range of the tags.                         *)

EXTENDS MCWaits, MCSound, OSSequenceLemmas

\* The inductive invariant: the types, nobody who could go on sleeps unnoticed, and
\* who sleeps is linked to a queue.
IInv == TypeOK /\ NobodyForgotten /\ SleepersAreLinked

\* It holds at first.
LEMMA InitImpliesIInv == Init => IInv
<1> SUFFICES ASSUME Init PROVE IInv
  OBVIOUS
<1>1. TypeOK
  BY MessageAssumption DEF MessageAssumption, Init, TypeOK, Index, NoCalls
<1>2. NobodyForgotten /\ SleepersAreLinked
  BY DEF Init, NobodyForgotten, SleepersAreLinked
<1> QED BY <1>1, <1>2 DEF IInv

-----------------------------------------------------------------------------
(* The parts of the calls.                                                    *)

\* Arithmetic of the ring: an index moved by less than the size.
LEMMA Wrap ==
  ASSUME NEW n \in Nat \ {0}, NEW i \in 0..2 * n - 1
  PROVE  /\ i % n \in 0..n - 1
         /\ i < n => i % n = i
         /\ i >= n => i % n = i - n
<1>1. CASE i < n
  BY <1>1
<1>2. CASE i >= n
  BY <1>2
<1> QED BY <1>1, <1>2

\* The ring of a queue after a step.
BufferOK ==
  /\ msgArray' \in [Index -> Msg \cup {NULL}]
  /\ firstIndex' \in Index
  /\ usedCount' \in 0..MsgCount

\* A put fills one place more and leaves no receiver linked.
LEMMA PutFacts ==
  ASSUME IInv, NEW m \in Msg, Send(m) \/ Jam(m)
  PROVE  /\ BufferOK
         /\ usedCount' = usedCount + 1 /\ ~Full
         /\ WakeReceivers
<1> USE MessageAssumption DEF MessageAssumption, IInv, TypeOK, Index, BufferOK, Full
<1>1. CASE Send(m)
  <2>1. firstIndex + usedCount \in 0..2 * MsgCount - 1
    BY <1>1 DEF Send
  <2>2. (firstIndex + usedCount) % MsgCount \in Index
    BY <2>1, Wrap
  <2> QED BY <1>1, <2>2 DEF Send, StoreLast
<1>2. CASE Jam(m)
  <2>1. firstIndex + MsgCount - 1 \in 0..2 * MsgCount - 1
    OBVIOUS
  <2>2. (firstIndex + MsgCount - 1) % MsgCount \in Index
    BY <2>1, Wrap
  <2> QED BY <1>2, <2>2 DEF Jam, StoreFirst
<1> QED BY <1>1, <1>2

\* A take empties a place and leaves no sender linked.
LEMMA TakeFacts ==
  ASSUME IInv, Receive
  PROVE  /\ BufferOK
         /\ usedCount' = usedCount - 1 /\ ~Empty
         /\ WakeSenders
<1> USE MessageAssumption DEF MessageAssumption, IInv, TypeOK, Index, BufferOK, Empty
<1>1. firstIndex + 1 \in 0..2 * MsgCount - 1
  OBVIOUS
<1>2. (firstIndex + 1) % MsgCount \in Index
  BY <1>1, Wrap
<1> QED BY <1>2 DEF Receive

\* Waking is all that a put or a take does to other threads.
LEMMA QueuesAfterPut ==
  ASSUME IInv, BufferOK, usedCount' = usedCount + 1, ~Full, WakeReceivers
  PROVE  NobodyForgotten'
BY MessageAssumption DEF MessageAssumption, IInv, TypeOK, NobodyForgotten, WakeReceivers, Full, Empty

\* Who is linked after a take.
LEMMA QueuesAfterTake ==
  ASSUME IInv, BufferOK, usedCount' = usedCount - 1, ~Empty, WakeSenders
  PROVE  NobodyForgotten'
BY MessageAssumption DEF MessageAssumption, IInv, TypeOK, NobodyForgotten, WakeSenders, Full, Empty

\* Only threads that do not sleep return from their calls.
LEMMA SleepersAfterWake ==
  ASSUME IInv, WakeReceivers \/ WakeSenders,
         call' = call \/ \E t \in Thread : Running(t) /\ Return(t)
  PROVE  SleepersAreLinked'
BY DEF IInv, TypeOK, SleepersAreLinked, WakeReceivers, WakeSenders, Running, Return, Puts, Takes

-----------------------------------------------------------------------------
(* The steps.                                                                 *)

\* A put keeps the invariant,
LEMMA PutStep ==
  ASSUME IInv, NEW t \in Thread, OS_SendMessage(t) \/ OS_JamMessage(t)
  PROVE  IInv'
<1>1. call[t].msg \in Msg
  BY DEF IInv, TypeOK, Request, NoCalls, NoCall, OS_SendMessage, OS_JamMessage
<1>2. /\ Send(call[t].msg) \/ Jam(call[t].msg)
      /\ Running(t) /\ Return(t) /\ got' = got
  BY DEF OS_SendMessage, OS_JamMessage
<1>3. BufferOK /\ usedCount' = usedCount + 1 /\ ~Full /\ WakeReceivers
  BY <1>1, <1>2, PutFacts
<1>4. TypeOK'
  BY <1>2, <1>3 DEF IInv, TypeOK, BufferOK, WakeReceivers, Return, NoCalls
<1> QED BY <1>2, <1>3, <1>4, QueuesAfterPut, SleepersAfterWake DEF IInv

\* What is stored from the buffer is a message or what the array held before.
LEMMA StoreFacts ==
  ASSUME IInv, NEW t \in Thread, Store(t)
  PROVE  got' \in [Thread -> Msg \cup {NULL}]
BY DEF IInv, TypeOK, Store

\* so does a take,
LEMMA ReceiveStep ==
  ASSUME IInv, NEW t \in Thread, OS_ReceiveMessage(t)
  PROVE  IInv'
<1>1. BufferOK /\ usedCount' = usedCount - 1 /\ ~Empty /\ WakeSenders
  BY TakeFacts DEF OS_ReceiveMessage
<1>2. Running(t) /\ Return(t) /\ got' \in [Thread -> Msg \cup {NULL}]
  BY StoreFacts DEF OS_ReceiveMessage
<1>3. TypeOK'
  BY <1>1, <1>2 DEF IInv, TypeOK, BufferOK, WakeSenders, Return, NoCalls
<1> QED BY <1>1, <1>2, <1>3, QueuesAfterTake, SleepersAfterWake DEF IInv

\* a call of an interrupt handler,
LEMMA HandlerStep ==
  ASSUME IInv, HandlerCalls
  PROVE  IInv'
<1>1. CASE \E m \in Msg : Send(m) \/ Jam(m)
  <2>1. BufferOK /\ usedCount' = usedCount + 1 /\ ~Full /\ WakeReceivers
    BY <1>1, PutFacts
  <2>2. TypeOK'
    BY <2>1 DEF HandlerCalls, IInv, TypeOK, BufferOK, WakeReceivers
  <2> QED BY <2>1, <2>2, QueuesAfterPut, SleepersAfterWake DEF HandlerCalls, IInv
<1>2. CASE Receive
  <2>1. BufferOK /\ usedCount' = usedCount - 1 /\ ~Empty /\ WakeSenders
    BY <1>2, TakeFacts
  <2>2. TypeOK'
    BY <2>1 DEF HandlerCalls, IInv, TypeOK, BufferOK, WakeSenders
  <2> QED BY <2>1, <2>2, QueuesAfterTake, SleepersAfterWake DEF HandlerCalls, IInv
<1> QED BY <1>1, <1>2 DEF HandlerCalls

\* a call that reads or fails,
LEMMA ReadOrFailStep ==
  ASSUME IInv, NEW t \in Thread, OS_ReadMessage(t) \/ Fail(t)
  PROVE  IInv'
<1>1. /\ UNCHANGED <<bufferVars, queueSend, queueReceive, asleep>>
      /\ Running(t) /\ Return(t)
  BY DEF OS_ReadMessage, Fail
<1>2. got' \in [Thread -> Msg \cup {NULL}]
  BY StoreFacts DEF OS_ReadMessage, Fail, IInv, TypeOK
<1>3. TypeOK'
  BY <1>1, <1>2 DEF IInv, TypeOK, bufferVars, Return, NoCalls
<1>4. NobodyForgotten'
  BY <1>1 DEF IInv, NobodyForgotten, Full, Empty, bufferVars
<1>5. SleepersAreLinked'
  BY <1>1 DEF IInv, TypeOK, SleepersAreLinked, Running, Return, Puts, Takes, bufferVars
<1> QED BY <1>3, <1>4, <1>5 DEF IInv

\* a call that goes to sleep,
LEMMA WaitStep ==
  ASSUME IInv, NEW t \in Thread, Wait(t)
  PROVE  IInv'
<1>1. UNCHANGED <<bufferVars, call, got>>
  BY DEF Wait
<1>2. \/ Puts(t) /\ Full /\ SleepForRoom(t)
      \/ Takes(t) /\ Empty /\ SleepForMessage(t)
  BY DEF Wait
<1>3. TypeOK'
  BY <1>1, <1>2 DEF IInv, TypeOK, SleepForRoom, SleepForMessage, bufferVars
<1>4. NobodyForgotten'
  BY <1>1, <1>2 DEF IInv, NobodyForgotten, SleepForRoom, SleepForMessage, Full, Empty, bufferVars
<1>5. SleepersAreLinked'
  BY <1>1, <1>2 DEF IInv, SleepersAreLinked, SleepForRoom, SleepForMessage, Puts, Takes
<1> QED BY <1>3, <1>4, <1>5 DEF IInv

\* and so any call.
LEMMA CallStep ==
  ASSUME IInv, NEW t \in Thread, NEW request \in Request, Call(t, request)
  PROVE  IInv'
<1>1. TypeOK'
  BY DEF Call, IInv, TypeOK, bufferVars
<1>2. NobodyForgotten'
  BY DEF Call, IInv, NobodyForgotten, Full, Empty, bufferVars
<1>3. SleepersAreLinked'
  BY DEF Call, IInv, TypeOK, SleepersAreLinked, Running, Puts, Takes, bufferVars
<1> QED BY <1>1, <1>2, <1>3 DEF IInv

\* The direct wakeup and the end of a thread.
LEMMA OtherThreadStep ==
  ASSUME IInv, NEW t \in Thread, OS_WakeupThreadDirect(t) \/ OS_DestroyThread(t)
  PROVE  IInv'
<1>1. TypeOK'
  BY DEF OS_WakeupThreadDirect, OS_DestroyThread, IInv, TypeOK, bufferVars, NoCalls
<1>2. NobodyForgotten'
  BY DEF OS_WakeupThreadDirect, OS_DestroyThread, IInv, NobodyForgotten, Full, Empty, bufferVars
<1>3. SleepersAreLinked'
  BY DEF OS_WakeupThreadDirect, OS_DestroyThread, IInv, TypeOK, SleepersAreLinked, Puts, Takes
<1> QED BY <1>1, <1>2, <1>3 DEF IInv

\* Every step keeps it.
LEMMA StepKeepsIInv == IInv /\ [Next]_vars => IInv'
<1> SUFFICES ASSUME IInv, [Next]_vars PROVE IInv'
  OBVIOUS
<1>1. ASSUME NEW t \in Thread, Resume(t) PROVE IInv'
  BY <1>1, PutStep, ReceiveStep, ReadOrFailStep, WaitStep DEF Resume
<1>2. CASE UNCHANGED vars
  BY <1>2 DEF vars, IInv, TypeOK, NobodyForgotten, SleepersAreLinked, Full, Empty, Puts, Takes
<1> QED BY <1>1, <1>2, CallStep, OtherThreadStep, HandlerStep DEF Next

\* Neither room nor a message leaves a thread asleep that waits for it.
THEOREM NobodyIsForgotten == Spec => []NobodyForgotten
<1>1. IInv => NobodyForgotten
  BY DEF IInv
<1> QED BY <1>1, InitImpliesIInv, StepKeepsIInv, PTL DEF Spec

\* Who sleeps in a call is linked where the call is woken.
THEOREM SleepersStayLinked == Spec => []SleepersAreLinked
<1>1. IInv => SleepersAreLinked
  BY DEF IInv
<1> QED BY <1>1, InitImpliesIInv, StepKeepsIInv, PTL DEF Spec

-----------------------------------------------------------------------------
(* The ring buffer is a channel.                                              *)

\* The k-th place of the ring behind the first.
Slot(first, k) == (first + k) % MsgCount

\* What a place of the ring may hold.
Stored == Msg \cup {NULL}

\* The place k after the first one.
LEMMA SlotIs ==
  ASSUME NEW first \in Index, NEW k \in 0..MsgCount - 1
  PROVE  Slot(first, k) = IF first + k < MsgCount THEN first + k ELSE first + k - MsgCount
<1> DEFINE x == first + k
<1>1. x \in 0..2 * MsgCount - 1 /\ MsgCount \in Nat \ {0} /\ first \in Int /\ k \in Int
  BY MessageAssumption DEF MessageAssumption, Index
<1> HIDE DEF x
<1>2. (x < MsgCount => x % MsgCount = x) /\ (x >= MsgCount => x % MsgCount = x - MsgCount)
  BY <1>1, Wrap
<1>3. Slot(first, k) = x % MsgCount
  BY DEF Slot, x
<1>4. CASE x < MsgCount
  BY <1>1, <1>2, <1>3, <1>4 DEF x
<1>5. CASE x >= MsgCount
  BY <1>1, <1>2, <1>3, <1>5 DEF x
<1> QED BY <1>1, <1>4, <1>5

\* The places of the ring from its first one on are all different.
LEMMA SlotFacts ==
  ASSUME NEW first \in Index, NEW k \in 0..MsgCount - 1
  PROVE  /\ Slot(first, k) \in Index
         /\ k = 0 => Slot(first, k) = first
         /\ \A j \in 0..MsgCount - 1 : j # k => Slot(first, j) # Slot(first, k)
BY SlotIs, MessageAssumption DEF MessageAssumption, Index

\* Stepping the first index forward, or back, shifts the places.
LEMMA SlotShifts ==
  ASSUME NEW first \in Index, NEW k \in 1..MsgCount - 1
  PROVE  /\ Slot((first + 1) % MsgCount, k - 1) = Slot(first, k)
         /\ Slot((first + MsgCount - 1) % MsgCount, k) = Slot(first, k - 1)
<1> DEFINE step == (first + 1) % MsgCount
           back == (first + MsgCount - 1) % MsgCount
<1> USE MessageAssumption DEF MessageAssumption, Index
<1>1. step = IF first + 1 < MsgCount THEN first + 1 ELSE 0
  <2>1. step = Slot(first, 1) /\ 1 \in 0..MsgCount - 1
    BY DEF Slot
  <2> HIDE DEF step
  <2> QED BY <2>1, SlotIs
<1>2. back = IF first = 0 THEN MsgCount - 1 ELSE first - 1
  <2>1. first + MsgCount - 1 = first + (MsgCount - 1)
    OBVIOUS
  <2>2. back = Slot(first, MsgCount - 1) /\ MsgCount - 1 \in 0..MsgCount - 1
    BY <2>1 DEF Slot
  <2> HIDE DEF back
  <2> QED BY <2>2, SlotIs
<1> HIDE DEF step, back
<1>3. step \in Index /\ back \in Index /\ k \in 0..MsgCount - 1 /\ k - 1 \in 0..MsgCount - 1
  BY <1>1, <1>2
<1>4. Slot(step, k - 1) = Slot(first, k)
  <2>1. Slot(step, k - 1) = IF step + (k - 1) < MsgCount THEN step + (k - 1) ELSE step + (k - 1) - MsgCount
    BY <1>3, SlotIs
  <2>2. Slot(first, k) = IF first + k < MsgCount THEN first + k ELSE first + k - MsgCount
    BY <1>3, SlotIs
  <2> QED BY <1>1, <2>1, <2>2
<1>5. Slot(back, k) = Slot(first, k - 1)
  <2>1. Slot(back, k) = IF back + k < MsgCount THEN back + k ELSE back + k - MsgCount
    BY <1>3, SlotIs
  <2>2. Slot(first, k - 1) = IF first + (k - 1) < MsgCount THEN first + (k - 1) ELSE first + (k - 1) - MsgCount
    BY <1>3, SlotIs
  <2> QED BY <1>2, <2>1, <2>2
<1> QED BY <1>4, <1>5 DEF step, back

\* The contents as a sequence.
LEMMA ContentsFacts ==
  ASSUME IInv
  PROVE  /\ Contents \in Seq(Stored)
         /\ Len(Contents) = usedCount
         /\ \A i \in 1..usedCount : Contents[i] = msgArray[Slot(firstIndex, i - 1)]
<1> USE MessageAssumption DEF MessageAssumption, IInv, TypeOK
<1>1. \A i \in 1..usedCount : Slot(firstIndex, i - 1) \in Index
  BY SlotFacts
<1>2. Contents = [i \in 1..usedCount |-> msgArray[Slot(firstIndex, i - 1)]]
  <2>1. \A i \in 1..usedCount : firstIndex + i - 1 = firstIndex + (i - 1)
    BY DEF Index
  <2> QED BY <2>1 DEF Contents, Slot
<1>3. \A i \in 1..usedCount : msgArray[Slot(firstIndex, i - 1)] \in Stored
  BY <1>1 DEF Stored
<1> QED BY <1>2, <1>3

\* A send puts its message behind the others,
LEMMA SendIsAppend ==
  ASSUME IInv, IInv', NEW m \in Msg, Send(m)
  PROVE  Len(Contents) < MsgCount /\ Contents' = Append(Contents, m)
<1> USE MessageAssumption DEF MessageAssumption, IInv, TypeOK
<1>1. /\ Contents \in Seq(Stored)
      /\ Len(Contents) = usedCount
      /\ \A i \in 1..usedCount : Contents[i] = msgArray[Slot(firstIndex, i - 1)]
  BY ContentsFacts
<1>2. /\ Contents' \in Seq(Stored)
      /\ Len(Contents') = usedCount'
      /\ \A i \in 1..usedCount' : Contents'[i] = msgArray'[Slot(firstIndex', i - 1)]
  <2>1. (IInv => /\ Contents \in Seq(Stored)
                 /\ Len(Contents) = usedCount
                 /\ \A i \in 1..usedCount : Contents[i] = msgArray[Slot(firstIndex, i - 1)])'
    BY ContentsFacts, PTL
  <2> QED BY <2>1
<1>3. /\ usedCount < MsgCount /\ usedCount' = usedCount + 1 /\ firstIndex' = firstIndex
      /\ msgArray' = [msgArray EXCEPT ![Slot(firstIndex, usedCount)] = m]
  BY DEF Send, StoreLast, Full, Slot
<1>4. \A i \in 1..usedCount : Slot(firstIndex, i - 1) # Slot(firstIndex, usedCount)
  BY <1>3, SlotFacts
<1>5. \A i \in 0..usedCount : Slot(firstIndex, i) \in Index
  BY <1>3, SlotFacts
<1>6. \A i \in 1..usedCount + 1 : Contents'[i] = IF i <= usedCount THEN Contents[i] ELSE m
  BY <1>1, <1>2, <1>3, <1>4, <1>5
<1>7. /\ Append(Contents, m) \in Seq(Stored)
      /\ Len(Append(Contents, m)) = usedCount + 1
      /\ \A i \in 1..usedCount + 1 : Append(Contents, m)[i] = IF i <= usedCount THEN Contents[i] ELSE m
  BY <1>1 DEF Stored
<1> QED BY <1>1, <1>2, <1>3, <1>6, <1>7, SeqEqual

\* a jam before them,
LEMMA JamIsPrepend ==
  ASSUME IInv, IInv', NEW m \in Msg, Jam(m)
  PROVE  Len(Contents) < MsgCount /\ Contents' = <<m>> \o Contents
<1> USE MessageAssumption DEF MessageAssumption, IInv, TypeOK
<1>1. /\ Contents \in Seq(Stored)
      /\ Len(Contents) = usedCount
      /\ \A i \in 1..usedCount : Contents[i] = msgArray[Slot(firstIndex, i - 1)]
  BY ContentsFacts
<1>2. /\ Contents' \in Seq(Stored)
      /\ Len(Contents') = usedCount'
      /\ \A i \in 1..usedCount' : Contents'[i] = msgArray'[Slot(firstIndex', i - 1)]
  <2>1. (IInv => /\ Contents \in Seq(Stored)
                 /\ Len(Contents) = usedCount
                 /\ \A i \in 1..usedCount : Contents[i] = msgArray[Slot(firstIndex, i - 1)])'
    BY ContentsFacts, PTL
  <2> QED BY <2>1
<1>3. /\ usedCount < MsgCount /\ usedCount' = usedCount + 1
      /\ firstIndex' = (firstIndex + MsgCount - 1) % MsgCount
      /\ msgArray' = [msgArray EXCEPT ![firstIndex'] = m]
  BY DEF Jam, StoreFirst, Full
<1>4. \A k \in 1..usedCount : /\ Slot(firstIndex', k) = Slot(firstIndex, k - 1)
                              /\ Slot(firstIndex', k) # firstIndex'
                              /\ Slot(firstIndex', k) \in Index
  <2>1. ASSUME NEW k \in 1..usedCount
        PROVE  /\ Slot(firstIndex', k) = Slot(firstIndex, k - 1)
               /\ Slot(firstIndex', k) # firstIndex'
               /\ Slot(firstIndex', k) \in Index
    <3>1. k \in 1..MsgCount - 1 /\ k \in 0..MsgCount - 1 /\ 0 \in 0..MsgCount - 1 /\ k # 0
      BY <1>3
    <3>2. Slot((firstIndex + MsgCount - 1) % MsgCount, k) = Slot(firstIndex, k - 1)
      BY <3>1, SlotShifts
    <3>3. Slot(firstIndex', k) = Slot(firstIndex, k - 1)
      BY <1>3, <3>2
    <3>4. Slot(firstIndex', 0) = firstIndex'
      BY <3>1, SlotFacts
    <3>5. Slot(firstIndex', 0) # Slot(firstIndex', k)
      BY <3>1, SlotFacts
    <3> QED BY <3>1, <3>3, <3>4, <3>5, SlotFacts
  <2> QED BY <2>1
<1>5. Slot(firstIndex', 0) = firstIndex' /\ firstIndex' \in Index
  <2>1. 0 \in 0..MsgCount - 1
    OBVIOUS
  <2> QED BY <2>1, SlotFacts
<1>6. \A i \in 1..usedCount + 1 : Contents'[i] = IF i = 1 THEN m ELSE Contents[i - 1]
  <2>1. ASSUME NEW i \in 1..usedCount + 1 PROVE Contents'[i] = IF i = 1 THEN m ELSE Contents[i - 1]
    <3>1. Contents'[i] = msgArray'[Slot(firstIndex', i - 1)]
      BY <1>2, <1>3
    <3>2. CASE i = 1
      BY <1>3, <1>5, <3>1, <3>2
    <3>3. CASE i # 1
      <4>1. i - 1 \in 1..usedCount
        BY <3>3
      <4>2. Contents[i - 1] = msgArray[Slot(firstIndex, (i - 1) - 1)]
        BY <1>1, <4>1
      <4>3. /\ Slot(firstIndex', i - 1) = Slot(firstIndex, (i - 1) - 1)
            /\ Slot(firstIndex', i - 1) # firstIndex' /\ Slot(firstIndex', i - 1) \in Index
        BY <1>4, <4>1
      <4>4. msgArray'[Slot(firstIndex', i - 1)] = msgArray[Slot(firstIndex', i - 1)]
        BY <1>3, <4>3
      <4> QED BY <3>1, <3>3, <4>2, <4>3, <4>4
    <3> QED BY <3>2, <3>3
  <2> QED BY <2>1
<1>7. /\ <<m>> \o Contents \in Seq(Stored)
      /\ Len(<<m>> \o Contents) = usedCount + 1
      /\ \A i \in 1..usedCount + 1 : (<<m>> \o Contents)[i] = IF i = 1 THEN m ELSE Contents[i - 1]
  <2>1. <<m>> \in Seq(Stored) /\ Len(<<m>>) = 1 /\ <<m>>[1] = m
    BY DEF Stored
  <2>2. /\ <<m>> \o Contents \in Seq(Stored)
        /\ Len(<<m>> \o Contents) = Len(<<m>>) + Len(Contents)
        /\ \A i \in 1..Len(<<m>>) + Len(Contents) :
             (<<m>> \o Contents)[i] = IF i <= Len(<<m>>) THEN <<m>>[i] ELSE Contents[i - Len(<<m>>)]
    BY <1>1, <2>1, ConcatProperties
  <2> QED BY <1>1, <2>1, <2>2
<1> QED BY <1>1, <1>2, <1>3, <1>6, <1>7, SeqEqual

\* and a receive takes the first.
LEMMA ReceiveIsTail ==
  ASSUME IInv, IInv', Receive
  PROVE  Contents # <<>> /\ Contents' = Tail(Contents)
<1> USE MessageAssumption DEF MessageAssumption, IInv, TypeOK
<1>1. /\ Contents \in Seq(Stored)
      /\ Len(Contents) = usedCount
      /\ \A i \in 1..usedCount : Contents[i] = msgArray[Slot(firstIndex, i - 1)]
  BY ContentsFacts
<1>2. /\ Contents' \in Seq(Stored)
      /\ Len(Contents') = usedCount'
      /\ \A i \in 1..usedCount' : Contents'[i] = msgArray'[Slot(firstIndex', i - 1)]
  <2>1. (IInv => /\ Contents \in Seq(Stored)
                 /\ Len(Contents) = usedCount
                 /\ \A i \in 1..usedCount : Contents[i] = msgArray[Slot(firstIndex, i - 1)])'
    BY ContentsFacts, PTL
  <2> QED BY <2>1
<1>3. /\ usedCount # 0 /\ usedCount' = usedCount - 1 /\ msgArray' = msgArray
      /\ firstIndex' = (firstIndex + 1) % MsgCount
  BY DEF Receive, Empty
<1>4. Contents # <<>>
  BY <1>1, <1>3
<1>5. /\ Tail(Contents) \in Seq(Stored)
      /\ Len(Tail(Contents)) = usedCount - 1
      /\ \A i \in 1..usedCount - 1 : Tail(Contents)[i] = Contents[i + 1]
  BY <1>1, <1>4, HeadTailProperties
<1>6. \A i \in 1..usedCount - 1 : Contents'[i] = Contents[i + 1]
  <2>1. ASSUME NEW i \in 1..usedCount - 1 PROVE Contents'[i] = Contents[i + 1]
    <3>1. i \in 1..MsgCount - 1
      OBVIOUS
    <3>2. Slot((firstIndex + 1) % MsgCount, i - 1) = Slot(firstIndex, i)
      BY <3>1, SlotShifts
    <3>3. Contents'[i] = msgArray[Slot(firstIndex, i)]
      BY <1>2, <1>3, <3>2
    <3>4. Contents[i + 1] = msgArray[Slot(firstIndex, (i + 1) - 1)] /\ (i + 1) - 1 = i
      BY <1>1
    <3> QED BY <3>3, <3>4
  <2> QED BY <2>1
<1> QED BY <1>2, <1>3, <1>4, <1>5, <1>6, SeqEqual

\* What a receive or a read stores is the head of the channel.
LEMMA StoreIsHead ==
  ASSUME IInv, NEW t \in Thread, Store(t), ~Empty
  PROVE  Contents # <<>> /\ got' = [got EXCEPT ![t] = Head(Contents)]
<1> USE MessageAssumption DEF MessageAssumption, IInv, TypeOK
<1>1. /\ Contents \in Seq(Stored)
      /\ Len(Contents) = usedCount
      /\ \A i \in 1..usedCount : Contents[i] = msgArray[Slot(firstIndex, i - 1)]
  BY ContentsFacts
<1>2. usedCount \in Nat \ {0} /\ 0 \in 0..MsgCount - 1
  BY DEF Empty
<1>3. Contents[1] = msgArray[Slot(firstIndex, 0)]
  BY <1>1, <1>2
<1>4. Slot(firstIndex, 0) = firstIndex
  BY <1>2, SlotFacts
<1>5. Contents # <<>> /\ Head(Contents) = Contents[1]
  BY <1>1, <1>2
<1> QED BY <1>3, <1>4, <1>5 DEF Store

\* An empty queue is an empty channel,
LEMMA InitIsChannelInit == Init => Channel!Init
<1> SUFFICES ASSUME Init PROVE Channel!Init
  OBVIOUS
<1>1. IInv
  BY InitImpliesIInv
<1>2. Contents \in Seq(Stored) /\ Len(Contents) = 0
  BY <1>1, ContentsFacts DEF Init
<1>3. Contents = <<>>
  BY <1>2
<1> QED BY <1>3 DEF Init, Channel!Init

\* and a step of the queue is one of the channel, or none.
LEMMA StepIsChannelStep ==
  IInv /\ IInv' /\ [Next]_vars => [Channel!Next]_<<Contents, got>>
<1> SUFFICES ASSUME IInv, IInv', [Next]_vars PROVE [Channel!Next]_<<Contents, got>>
  OBVIOUS
<1> USE DEF Channel!Next, Channel!Send, Channel!Jam, Channel!Receive, Channel!Read, Channel!Discard
<1>1. ASSUME NEW t \in Thread, OS_SendMessage(t) \/ OS_JamMessage(t) PROVE Channel!Next
  <2>1. call[t].msg \in Msg
    BY <1>1 DEF IInv, TypeOK, Request, NoCalls, NoCall, OS_SendMessage, OS_JamMessage
  <2> QED BY <1>1, <2>1, SendIsAppend, JamIsPrepend DEF OS_SendMessage, OS_JamMessage
<1>2. ASSUME NEW t \in Thread, OS_ReceiveMessage(t) PROVE Channel!Next
  <2>1. ~Empty
    BY <1>2 DEF OS_ReceiveMessage, Receive
  <2> QED BY <1>2, <2>1, ReceiveIsTail, StoreIsHead DEF OS_ReceiveMessage
<1>3. ASSUME NEW t \in Thread, OS_ReadMessage(t) PROVE Channel!Next
  <2>1. Contents' = Contents
    BY <1>3 DEF OS_ReadMessage, bufferVars, Contents
  <2> QED BY <1>3, <2>1, StoreIsHead DEF OS_ReadMessage
<1>4. CASE HandlerCalls
  <2>1. CASE \E m \in Msg : Send(m) \/ Jam(m)
    BY <1>4, <2>1, SendIsAppend, JamIsPrepend DEF HandlerCalls
  <2>2. CASE Receive
    BY <1>4, <2>2, ReceiveIsTail DEF HandlerCalls
  <2> QED BY <1>4, <2>1, <2>2 DEF HandlerCalls
<1>5. ASSUME NEW t \in Thread,
             \/ \E request \in Request : Call(t, request)
             \/ Wait(t) \/ Fail(t) \/ OS_WakeupThreadDirect(t) \/ OS_DestroyThread(t)
      PROVE  UNCHANGED <<Contents, got>>
  BY <1>5 DEF Call, Wait, Fail, OS_WakeupThreadDirect, OS_DestroyThread, bufferVars, Contents
<1>6. CASE UNCHANGED vars
  BY <1>6 DEF vars, Contents
<1> QED BY <1>1, <1>2, <1>3, <1>4, <1>5, <1>6 DEF Next, Resume

\* The ring buffer and its queues implement the channel, for any capacity.
THEOREM MessageQueueIsChannel == Spec => ImplementsChannel
<1>1. Spec => []IInv
  BY InitImpliesIInv, StepKeepsIInv, PTL DEF Spec
<1>2. Channel!Spec <=> Channel!Init /\ [][Channel!Next]_<<Contents, got>>
  BY DEF Channel!Spec
<1> QED
  BY <1>1, <1>2, InitIsChannelInit, StepIsChannelStep, PTL DEF Spec, ImplementsChannel
-----------------------------------------------------------------------------
(* The event.  Bits are set only by a signal, which wakes all that are linked: *)
(* that nobody sleeps who is not linked, or not in a wait, is the invariant.   *)

\* Who sleeps is in a wait.
EventSleepers == \A t \in eventAsleep : eventCall[t].op = "wait"

\* The inductive invariant of the event.
EventIInv == Event!TypeOK /\ EventSleepers /\ Event!NobodyForgotten

\* It holds at first,
LEMMA EventInit == Event!Init => EventIInv
BY DEF Event!Init, EventIInv, Event!TypeOK, EventSleepers, Event!NobodyForgotten

\* Who returns leaves fewer bits, which meets no request that was not met.
LEMMA ReturnKeepsEvent ==
  ASSUME EventIInv, NEW t \in Thread, Event!Return(t)
  PROVE  EventIInv'
<1>1. Event!TypeOK'
  BY DEF EventIInv, Event!TypeOK, Event!Return
<1>2. EventSleepers'
  BY DEF EventIInv, Event!TypeOK, EventSleepers, Event!Return
<1>3. Event!NobodyForgotten'
  BY DEF EventIInv, Event!TypeOK, Event!NobodyForgotten, Event!Return, Event!Met
<1> QED
  BY <1>1, <1>2, <1>3 DEF EventIInv

\* and every step keeps it.
LEMMA EventStep == EventIInv /\ [Event!Next]_Event!vars => EventIInv'
<1> SUFFICES ASSUME EventIInv, [Event!Next]_Event!vars PROVE EventIInv'
  OBVIOUS
<1> USE DEF EventIInv, Event!TypeOK, EventSleepers, Event!NobodyForgotten, Event!Met
<1>1. ASSUME NEW t \in Thread, NEW request \in Event!Request, Event!Call(t, request)
      PROVE  EventIInv'
  BY <1>1 DEF Event!Call, Event!NoCall, Event!Request
<1>2. ASSUME NEW t \in Thread, Event!Return(t) PROVE EventIInv'
  BY <1>2, ReturnKeepsEvent
<1>3. ASSUME NEW t \in Thread, Event!Wait(t) PROVE EventIInv'
  BY <1>3 DEF Event!Wait
<1>4. ASSUME NEW t \in Thread, Event!OS_WakeupThreadDirect(t) PROVE EventIInv'
  BY <1>4 DEF Event!OS_WakeupThreadDirect
<1>5. ASSUME NEW t \in Thread, Event!OS_DestroyThread(t) PROVE EventIInv'
  BY <1>5 DEF Event!OS_DestroyThread
<1>6. ASSUME NEW bits \in SUBSET Bit, Event!OS_SignalEvent(bits) PROVE EventIInv'
  BY <1>6 DEF Event!OS_SignalEvent
<1>7. ASSUME NEW bits \in SUBSET Bit, Event!OS_ClearEvent(bits) PROVE EventIInv'
  BY <1>7 DEF Event!OS_ClearEvent
<1>8. CASE UNCHANGED Event!vars
  BY <1>8 DEF Event!vars
<1> QED
  BY <1>1, <1>2, <1>3, <1>4, <1>5, <1>6, <1>7, <1>8 DEF Event!Next, Event!OS_WaitEventEx

\* A behaviour of one part is one of the other that stands still.
LEMMA PartsOfWaits == MCSpec => Spec /\ Event!Spec
<1>1. MCInit => Init /\ Event!Init
  BY DEF MCInit
<1>2. [MCNext]_<<part, vars, eventVars>> => [Next]_vars /\ [Event!Next]_Event!vars
  BY DEF MCNext, eventVars, Event!vars, vars
<1> QED
  BY <1>1, <1>2, PTL DEF MCSpec, Spec, Event!Spec

\* No thread sleeps for bits that are set, whoever signalled and cleared them, was
\* woken directly or ended meanwhile; and the states of the message queue and of the
\* event are of their types.
THEOREM NoWaiterIsForgotten == MCSpec => []NobodySleepsOnSetBits
<1>1. IInv => TypeOK
  BY DEF IInv
<1>2. Spec => []TypeOK
  BY <1>1, InitImpliesIInv, StepKeepsIInv, PTL DEF Spec
<1>3. EventIInv => Event!TypeOK /\ Event!NobodyForgotten
  BY DEF EventIInv
<1>4. Event!Spec => [](Event!TypeOK /\ Event!NobodyForgotten)
  BY <1>3, EventInit, EventStep, PTL DEF Event!Spec
<1> QED
  BY <1>2, <1>4, PartsOfWaits, PTL DEF NobodySleepsOnSetBits

-----------------------------------------------------------------------------
(* The sound commands.                                                        *)

\* What the theorems assume of the constants: SNDAssumption, of the callers.
SoundAssumption ==
  /\ Depth \in Nat \ {0} /\ FifoDepth \in Nat \ {0}
  /\ TagRange \in Nat /\ TagRange % 2 = 0 /\ TagRange \div 2 > Depth + 1
  /\ None \notin Command \cup Caller
  /\ IsFiniteSet(Command) /\ Cardinality(Command) >= 2

\* The types of what calls change together.
CoreTypes ==
  /\ next \in [Command -> Command \cup {None}]
  /\ freeList \in Command \cup {None} /\ freeListEnd \in Command \cup {None}
  /\ reserveList \in Command \cup {None} /\ reserveListEnd \in Command \cup {None}
  /\ ring \in [0..Depth -> Command \cup {None}]
  /\ ringRead \in 0..Depth /\ ringWrite \in 0..Depth
  /\ waitingCount \in 0..Depth
  /\ currentTag \in 0..TagRange - 1 /\ finishedTag \in 0..TagRange - 1
  /\ finishCommandTag \in 0..TagRange - 1
  /\ fifo \in Seq(Command \cup {None}) /\ Len(fifo) <= FifoDepth
  /\ mesgQueue \in Seq(Command) /\ Len(mesgQueue) <= Depth
  /\ working \in BOOLEAN
  /\ command_p \in Command \cup {None}
  /\ held \in [Caller -> Command \cup {None}]

\* A list has the commands of s, and its end is known.
IsChain(s, first, end) ==
  /\ s \in Seq(Command) /\ EachOnce(s) /\ Follows(next, first, s, None)
  /\ end = IF s = <<>> THEN None ELSE s[Len(s)]

\* The free list, the reserved list and those sent are lists of some sequences ...
ChainsOK(f, r, s) ==
  /\ IsChain(f, freeList, freeListEnd) /\ IsChain(r, reserveList, reserveListEnd)
  /\ s \in [1..waitingCount -> Seq(Command)]
  /\ \A i \in 1..waitingCount :
       s[i] # <<>> /\ EachOnce(s[i]) /\ Follows(next, Sound!Waiting[i], s[i], None)

\* ... that have no command in common, nor with the callers; together they have all.
ApartOK(f, r, s) ==
  /\ ToSet(f) \cap ToSet(r) = {}
  /\ \A i \in 1..waitingCount : ToSet(s[i]) \cap (ToSet(f) \cup ToSet(r)) = {}
  /\ \A i, j \in 1..waitingCount : i # j => ToSet(s[i]) \cap ToSet(s[j]) = {}
  /\ Sound!Held \cap (ToSet(f) \cup ToSet(r)) = {}
  /\ \A i \in 1..waitingCount : Sound!Held \cap ToSet(s[i]) = {}
  /\ \A c \in Command : c \in Sound!Held \cup ToSet(f) \cup ToSet(r)
                          \/ \E i \in 1..waitingCount : c \in ToSet(s[i])
  /\ \A t, u \in Caller : t # u => held[t] = None \/ held[t] # held[u]

\* Of the lists sent the ARM7 has done d; it works on the next, if at all, has queued
\* those after it, and gets the rest over the FIFO.
TagsOK(s, d) ==
  /\ d \in 0..waitingCount
  /\ finishCommandTag = (finishedTag + d) % TagRange
  /\ currentTag = (finishedTag + (waitingCount + 1)) % TagRange
  /\ ringWrite = (ringRead + waitingCount) % (Depth + 1)
  /\ d + One(working) + Len(mesgQueue) + Later(fifo, 1, Command) = waitingCount
  /\ \A i \in 1..Len(mesgQueue) : mesgQueue[i] = Sound!Waiting[d + One(working) + i]
  /\ \A i \in 1..Len(fifo) : fifo[i] # None =>
       fifo[i] = Sound!Waiting[waitingCount + 1 - Later(fifo, i, Command)]
  /\ working /\ command_p # None => command_p \in ToSet(s[d + 1])
  /\ ~working => command_p = None

\* The commands are the lists f, r and s, and the ARM7 has done d of those sent.
CoreOK(f, r, s, d) == CoreTypes /\ ChainsOK(f, r, s) /\ ApartOK(f, r, s) /\ TagsOK(s, d)

\* Who is in a call has no command it has not pushed.
CallsOK ==
  /\ soundCall \in [Caller -> [op : Sound!Ops, at : Sound!Places, arg : Nat, n : Nat]]
  /\ irqOff \in Caller \cup {None}
  /\ \A t \in Caller : soundCall[t].op # "none" => held[t] = None

\* There are such lists.
CoreInv == \E f, r, s, d : CoreOK(f, r, s, d)
\* The inductive invariant of the sound commands.  The lists are sequences here, as the
\* links alone do not tell which commands a step moves.
SoundInv == CallsOK /\ CoreInv

\* The operators of the library are the same in SNDCommand.
LEMMA SoundOperators ==
  /\ \A S : Sound!Cardinality(S) = Cardinality(S)
  /\ \A u : Sound!ToSet(u) = ToSet(u)
  /\ \A u : Sound!Last(u) = u[Len(u)]
BY DEF Sound!Cardinality, Cardinality, Sound!ToSet, ToSet, Sound!Last

\* An index moved by a whole round at most.
LEMMA Turned ==
  ASSUME NEW n \in Nat \ {0}, NEW a \in 0..n - 1, NEW k \in 0..n
  PROVE  /\ (a + k) % n \in 0..n - 1
         /\ (a + k) % n = IF a + k < n THEN a + k ELSE a + k - n
<1>1. a + k \in 0..2 * n - 1
  OBVIOUS
<1> DEFINE m == a + k
<1>2. m \in 0..2 * n - 1 /\ m \in Int
  BY <1>1
<1> HIDE DEF m
<1>3. /\ m % n \in 0..n - 1
      /\ m < n => m % n = m
      /\ m >= n => m % n = m - n
  BY <1>2, Wrap
<1> QED BY <1>2, <1>3 DEF m

\* Moved twice it is moved by both.
LEMMA TurnedTwice ==
  ASSUME NEW n \in Nat \ {0}, NEW a \in 0..n - 1, NEW k \in 0..n - 1
  PROVE  /\ (((a + 1) % n) + k) % n = (a + (k + 1)) % n
         /\ (((a + k) % n) + 1) % n = (a + (k + 1)) % n
<1> DEFINE b == (a + 1) % n
           c == (a + k) % n
<1>1. b \in 0..n - 1 /\ b = IF a + 1 < n THEN a + 1 ELSE a + 1 - n
  <2>1. 1 \in 0..n
    OBVIOUS
  <2> QED BY <2>1, Turned
<1>2. c \in 0..n - 1 /\ c = IF a + k < n THEN a + k ELSE a + k - n
  <2>1. k \in 0..n
    OBVIOUS
  <2> QED BY <2>1, Turned
<1>3. k + 1 \in 0..n /\ (a + (k + 1)) % n = IF a + (k + 1) < n THEN a + (k + 1) ELSE a + (k + 1) - n
  <2>1. k + 1 \in 0..n
    OBVIOUS
  <2> QED BY <2>1, Turned
<1> DEFINE e == (a + (k + 1)) % n
<1> HIDE DEF b, c, e
<1>4. (b + k) % n = IF b + k < n THEN b + k ELSE b + k - n
  <2>1. k \in 0..n
    OBVIOUS
  <2> QED BY <1>1, <2>1, Turned
<1>5. (c + 1) % n = IF c + 1 < n THEN c + 1 ELSE c + 1 - n
  <2>1. 1 \in 0..n
    OBVIOUS
  <2> QED BY <1>2, <2>1, Turned
<1>6. e = IF a + (k + 1) < n THEN a + (k + 1) ELSE a + (k + 1) - n
  BY <1>3 DEF e
<1> DEFINE x == (b + k) % n
           y == (c + 1) % n
<1>7. x = IF b + k < n THEN b + k ELSE b + k - n
  BY <1>4
<1>8. y = IF c + 1 < n THEN c + 1 ELSE c + 1 - n
  BY <1>5
<1> HIDE DEF x, y
<1>9. x = e
  BY <1>1, <1>6, <1>7
<1>10. y = e
  BY <1>2, <1>6, <1>8
<1> QED BY <1>9, <1>10 DEF b, c, e, x, y

\* Places less than a round apart are different.
LEMMA TurnedApart ==
  ASSUME NEW n \in Nat \ {0}, NEW a \in 0..n - 1, NEW k \in 0..n - 1, NEW l \in 0..n - 1,
         (a + k) % n = (a + l) % n
  PROVE  k = l
<1> DEFINE x == (a + k) % n
           y == (a + l) % n
<1>1. k \in 0..n /\ l \in 0..n
  OBVIOUS
<1>2. x = IF a + k < n THEN a + k ELSE a + k - n
  BY <1>1, Turned
<1>3. y = IF a + l < n THEN a + l ELSE a + l - n
  BY <1>1, Turned
<1>4. x = y
  OBVIOUS
<1> HIDE DEF x, y
<1> QED BY <1>2, <1>3, <1>4

\* The commands of a list are found by its links.
LEMMA PathFound ==
  ASSUME SoundAssumption, NEW link, NEW a, NEW u \in Seq(Command), EachOnce(u),
         Follows(link, a, u, None)
  PROVE  Sound!Path(link, a) = u
<1> DEFINE node == CHOOSE g : IsWalk(g, link, a, Sound!Cardinality(Command), None)
           found == {i \in DOMAIN node : node[i] # None}
<1>1. /\ Sound!Cardinality(Command) = Cardinality(Command)
      /\ Sound!Cardinality(found) = Cardinality(found)
  BY SoundOperators
<1>2. Sound!Path(link, a) = [n \in 1..Cardinality(found) |-> node[n]]
  <2>1. Sound!Path(link, a) = [n \in 1..Sound!Cardinality(found) |-> node[n]]
    BY DEF Sound!Path, IsWalk
  <2> HIDE DEF found, node
  <2> QED BY <1>1, <2>1
<1>3. \A g : IsWalk(g, link, a, Cardinality(Command), None)
             => IsWalk(node, link, a, Cardinality(Command), None)
  <2>1. \A g : IsWalk(g, link, a, Sound!Cardinality(Command), None)
               => IsWalk(node, link, a, Sound!Cardinality(Command), None)
    <3> HIDE DEF IsWalk
    <3> QED OBVIOUS
  <2> HIDE DEF node
  <2> QED BY <1>1, <2>1
<1>4. IsFiniteSet(Command) /\ None \notin Command
  BY DEF SoundAssumption
<1> HIDE DEF node
<1> QED BY ONLY <1>2, <1>3, <1>4, u \in Seq(Command), EachOnce(u), Follows(link, a, u, None), WalkFinds

\* A list waits at each place of the ring from the first on.
LEMMA WaitingIs ==
  ASSUME SoundAssumption, CoreTypes
  PROVE  /\ \A i \in 1..waitingCount :
              Sound!Waiting[i] = ring[(ringRead + (i - 1)) % (Depth + 1)]
         /\ waitingCount >= 1 => Sound!Waiting[1] = ring[ringRead]
<1>1. waitingCount \in Nat /\ ringRead \in Nat
  BY DEF CoreTypes, SoundAssumption
<1>2. ASSUME NEW i \in 1..waitingCount
      PROVE  Sound!Waiting[i] = ring[(ringRead + (i - 1)) % (Depth + 1)]
  <2>1. ringRead + i - 1 = ringRead + (i - 1)
    BY <1>1
  <2>2. Sound!Waiting[i] = ring[(ringRead + i - 1) % (Depth + 1)]
    BY DEF Sound!Waiting
  <2> QED BY <2>1, <2>2
<1>3. ASSUME waitingCount >= 1 PROVE Sound!Waiting[1] = ring[ringRead]
  <2>1. 1 \in 1..waitingCount /\ 1 - 1 = 0
    BY <1>1, <1>3
  <2>2. Depth + 1 \in Nat \ {0} /\ 0 \in 0..Depth + 1 /\ ringRead \in 0..(Depth + 1) - 1
        /\ ringRead + 0 < Depth + 1 /\ ringRead + 0 = ringRead
    BY DEF CoreTypes, SoundAssumption
  <2>3. (ringRead + 0) % (Depth + 1) = ringRead
    BY <2>2, Turned
  <2> QED BY <1>2, <2>1, <2>3
<1> QED BY <1>2, <1>3

\* A slot of the ring read moves all that wait up by one.
LEMMA WaitingAfterRecv ==
  ASSUME SoundAssumption, CoreTypes, NEW n, n = waitingCount, n >= 1,
         ringRead' = Sound!Follow(ringRead), waitingCount' = waitingCount - 1,
         ring' = [ring EXCEPT ![ringRead] = None],
         ringWrite = (ringRead + waitingCount) % (Depth + 1), ringWrite' = ringWrite
  PROVE  /\ ringRead' \in 0..Depth
         /\ ringWrite' = (ringRead' + waitingCount') % (Depth + 1)
         /\ \A i \in 1..n - 1 : Sound!Waiting'[i] = Sound!Waiting[i + 1]
<1> DEFINE N == Depth + 1
<1>1. N \in Nat \ {0} /\ ringRead \in 0..N - 1 /\ n \in 1..N - 1 /\ Depth \in Nat
  BY DEF CoreTypes, SoundAssumption
<1>2. ringRead' = (ringRead + 1) % N /\ ringRead' \in 0..N - 1
  <2>1. 1 \in 0..N
    BY <1>1
  <2>2. /\ (ringRead + 1) % N \in 0..N - 1
        /\ (ringRead + 1) % N = IF ringRead + 1 < N THEN ringRead + 1 ELSE ringRead + 1 - N
    BY <1>1, <2>1, Turned
  <2>3. ringRead' = IF ringRead + 1 < N THEN ringRead + 1 ELSE ringRead + 1 - N
    BY <1>1 DEF Sound!Follow
  <2> QED BY <2>2, <2>3
<1>3. ringWrite' = (ringRead' + (n - 1)) % N
  <2>1. n - 1 \in 0..N - 1 /\ (n - 1) + 1 = n
    BY <1>1
  <2>2. (((ringRead + 1) % N) + (n - 1)) % N = (ringRead + ((n - 1) + 1)) % N
    BY <1>1, <2>1, TurnedTwice
  <2> QED BY <1>2, <2>1, <2>2
<1>4. ASSUME NEW i \in 1..n - 1 PROVE Sound!Waiting'[i] = Sound!Waiting[i + 1]
  <2>1. i - 1 \in 0..N - 1 /\ (i - 1) + 1 = i /\ i \in 0..N - 1 /\ i # 0 /\ i + 1 \in 1..n
        /\ (i + 1) - 1 = i /\ i \in 1..waitingCount'
    BY <1>1
  <2>2. Sound!Waiting'[i] = ring'[(ringRead' + i - 1) % N]
    BY <2>1 DEF Sound!Waiting
  <2>3. ringRead' + i - 1 = ringRead' + (i - 1)
    BY <1>1, <1>2
  <2>4. (((ringRead + 1) % N) + (i - 1)) % N = (ringRead + ((i - 1) + 1)) % N
    BY <1>1, <2>1, TurnedTwice
  <2>5. Sound!Waiting'[i] = ring'[(ringRead + i) % N]
    BY <1>2, <2>1, <2>2, <2>3, <2>4
  <2>6. Sound!Waiting[i + 1] = ring[(ringRead + i) % N]
    BY <2>1, WaitingIs
  <2>7. (ringRead + i) % N # ringRead
    <3>1. 0 \in 0..N - 1 /\ 0 \in 0..N /\ ringRead + 0 = ringRead /\ ringRead < N
      BY <1>1
    <3>2. (ringRead + 0) % N = ringRead
      BY <1>1, <3>1, Turned
    <3> QED BY <1>1, <2>1, <3>1, <3>2, TurnedApart
  <2>8. (ringRead + i) % N \in 0..Depth
    <3>1. i \in 0..N
      BY <1>1, <2>1
    <3>2. (ringRead + i) % N \in 0..N - 1
      BY <1>1, <3>1, Turned
    <3> QED BY <1>1, <3>2
  <2> DEFINE x == (ringRead + i) % N
  <2>9. x \in 0..Depth /\ x # ringRead
    BY <2>7, <2>8
  <2> HIDE DEF x
  <2>10. ring'[x] = ring[x]
    BY <2>9 DEF CoreTypes
  <2> QED BY <2>5, <2>6, <2>10 DEF x
<1>5. Depth = N - 1 /\ waitingCount' = n - 1
  BY <1>1
<1> QED BY <1>2, <1>3, <1>4, <1>5

\* A slot of the ring written is the last of those that wait.
LEMMA WaitingAfterSend ==
  ASSUME SoundAssumption, CoreTypes, NEW n, n = waitingCount, n < Depth,
         ringWrite' = Sound!Follow(ringWrite), waitingCount' = waitingCount + 1,
         ring' = [ring EXCEPT ![ringWrite] = reserveList],
         ringWrite = (ringRead + waitingCount) % (Depth + 1), ringRead' = ringRead
  PROVE  /\ ringWrite' \in 0..Depth
         /\ ringWrite' = (ringRead' + waitingCount') % (Depth + 1)
         /\ \A i \in 1..n : Sound!Waiting'[i] = Sound!Waiting[i]
         /\ Sound!Waiting'[n + 1] = reserveList
<1> DEFINE N == Depth + 1
<1>1. N \in Nat \ {0} /\ ringRead \in 0..N - 1 /\ n \in 0..N - 2 /\ Depth \in Nat
      /\ ringWrite \in 0..N - 1 /\ N - 1 = Depth
  BY DEF CoreTypes, SoundAssumption
<1>2. ringWrite' = (ringWrite + 1) % N /\ ringWrite' \in 0..N - 1
  <2>1. 1 \in 0..N
    BY <1>1
  <2>2. /\ (ringWrite + 1) % N \in 0..N - 1
        /\ (ringWrite + 1) % N = IF ringWrite + 1 < N THEN ringWrite + 1 ELSE ringWrite + 1 - N
    BY <1>1, <2>1, Turned
  <2>3. ringWrite' = IF ringWrite + 1 < N THEN ringWrite + 1 ELSE ringWrite + 1 - N
    BY <1>1 DEF Sound!Follow
  <2> QED BY <2>2, <2>3
<1>3. ringWrite' = (ringRead' + (n + 1)) % N
  <2>1. n \in 0..N - 1
    BY <1>1
  <2>2. (((ringRead + n) % N) + 1) % N = (ringRead + (n + 1)) % N
    BY <1>1, <2>1, TurnedTwice
  <2> QED BY <1>2, <2>2
<1>4. ASSUME NEW i \in 1..n + 1
      PROVE  Sound!Waiting'[i] = IF i = n + 1 THEN reserveList ELSE Sound!Waiting[i]
  <2>1. i - 1 \in 0..N - 1 /\ n \in 0..N - 1 /\ i \in 1..waitingCount' /\ i - 1 \in 0..N
        /\ (i = n + 1 <=> i - 1 = n) /\ (i # n + 1 => i \in 1..n)
    BY <1>1
  <2>2. Sound!Waiting'[i] = ring'[(ringRead' + i - 1) % N]
    BY <2>1 DEF Sound!Waiting
  <2>3. ringRead' + i - 1 = ringRead + (i - 1)
    BY <1>1
  <2> DEFINE x == (ringRead + (i - 1)) % N
  <2>4. Sound!Waiting'[i] = ring'[x] /\ x \in 0..N - 1
    BY <1>1, <2>1, <2>2, <2>3, Turned
  <2>5. x = ringWrite <=> i = n + 1
    <3>1. ringWrite = (ringRead + n) % N
      OBVIOUS
    <3>2. x = (ringRead + n) % N => i - 1 = n
      BY <1>1, <2>1, TurnedApart
    <3>3. i - 1 = n => x = (ringRead + n) % N
      OBVIOUS
    <3> HIDE DEF x
    <3> QED BY <2>1, <3>1, <3>2, <3>3
  <2>6. i # n + 1 => Sound!Waiting[i] = ring[x]
    BY <2>1, WaitingIs
  <2> HIDE DEF x
  <2>7. x \in 0..Depth
    BY <1>1, <2>4
  <2>8. ring'[x] = IF x = ringWrite THEN reserveList ELSE ring[x]
    BY <2>7 DEF CoreTypes
  <2> QED BY <2>4, <2>5, <2>6, <2>8
<1>5. waitingCount' = n + 1 /\ n + 1 \in 1..n + 1 /\ \A i \in 1..n : i \in 1..n + 1 /\ i # n + 1
  BY <1>1
<1> QED BY <1>1, <1>2, <1>3, <1>4, <1>5

\* Among threads none of which changes what it holds nothing changes.
LEMMA HeldKept == ASSUME held' = held PROVE Sound!Held' = Sound!Held
BY DEF Sound!Held

\* A list that is taken back goes behind the free commands.
LEMMA RecvLists ==
  ASSUME SoundAssumption, NEW f, NEW r, NEW s, NEW n, n = waitingCount, n >= 1,
         CoreTypes, ChainsOK(f, r, s), ApartOK(f, r, s), Sound!Recv, UNCHANGED held,
         ringWrite = (ringRead + waitingCount) % (Depth + 1)
  PROVE  LET g == f \o s[1]
             u == [i \in 1..n - 1 |-> s[i + 1]]
         IN  /\ ChainsOK(g, r, u)' /\ ApartOK(g, r, u)'
             /\ next' \in [Command -> Command \cup {None}]
             /\ freeList' \in Command \cup {None} /\ freeListEnd' \in Command \cup {None}
<1> DEFINE g == f \o s[1]
           u == [i \in 1..n - 1 |-> s[i + 1]]
           b == s[1]
           list == ring[ringRead]
<1>1. /\ f \in Seq(Command) /\ EachOnce(f) /\ Follows(next, freeList, f, None)
      /\ r \in Seq(Command) /\ EachOnce(r) /\ Follows(next, reserveList, r, None)
      /\ freeListEnd = IF f = <<>> THEN None ELSE f[Len(f)]
      /\ reserveListEnd = IF r = <<>> THEN None ELSE r[Len(r)]
  BY DEF ChainsOK, IsChain
<1>2. /\ n \in Nat /\ 1 \in 1..n /\ n \in 1..Depth
      /\ \A i \in 1..n : s[i] \in Seq(Command) /\ s[i] # <<>> /\ EachOnce(s[i])
                         /\ Follows(next, Sound!Waiting[i], s[i], None)
  BY DEF ChainsOK, CoreTypes, SoundAssumption
<1>3. /\ ringRead' = Sound!Follow(ringRead) /\ waitingCount' = waitingCount - 1
      /\ ring' = [ring EXCEPT ![ringRead] = None] /\ ringWrite' = ringWrite
      /\ next' = IF freeListEnd = None THEN next ELSE [next EXCEPT ![freeListEnd] = list]
      /\ freeList' = IF freeListEnd = None THEN list ELSE freeList
      /\ freeListEnd' = Sound!Last(Sound!Path(next, list))
      /\ reserveList' = reserveList /\ reserveListEnd' = reserveListEnd
  BY DEF Sound!Recv
<1>4. \A i \in 1..n - 1 : Sound!Waiting'[i] = Sound!Waiting[i + 1]
  BY <1>3, WaitingAfterRecv
<1>5. list = Sound!Waiting[1]
  BY <1>2, WaitingIs
<1>6. b \in Seq(Command) /\ b # <<>> /\ EachOnce(b) /\ Follows(next, list, b, None)
  BY <1>2, <1>5
<1>7. freeListEnd' = b[Len(b)] /\ list = b[1] /\ b[Len(b)] \in Command /\ b[1] \in Command
  <2>1. Sound!Path(next, list) = b
    <3> HIDE DEF b, list
    <3> QED BY <1>6, PathFound
  <2>2. Len(b) \in 1..Len(b) /\ 1 \in 1..Len(b)
    <3> HIDE DEF b
    <3> QED BY <1>6
  <2>3. list = b[1]
    <3> HIDE DEF b, list
    <3> QED BY <1>6 DEF Follows
  <2>4. b[Len(b)] \in Command /\ b[1] \in Command
    <3> HIDE DEF b
    <3> QED BY <1>6, <2>2
  <2> HIDE DEF b, list
  <2> QED BY <1>3, <2>1, <2>3, <2>4, SoundOperators
<1>8. /\ ToSet(f) \cap ToSet(b) = {} /\ ToSet(f) \cap ToSet(r) = {} /\ ToSet(r) \cap ToSet(b) = {}
      /\ \A i \in 1..n : ToSet(s[i]) \cap (ToSet(f) \cup ToSet(r)) = {}
      /\ \A i, j \in 1..n : i # j => ToSet(s[i]) \cap ToSet(s[j]) = {}
  BY <1>2 DEF ApartOK
<1>9. /\ g \in Seq(Command) /\ Len(g) = Len(f) + Len(b)
      /\ \A i \in 1..Len(b) : g[Len(f) + i] = b[i]
      /\ ToSet(g) = ToSet(f) \cup ToSet(b) /\ EachOnce(g)
  <2> HIDE DEF b
  <2>1. b = s[1]
    BY DEF b
  <2> QED BY <1>1, <1>6, <1>8, <2>1, JoinedOnce
<1>10. /\ Len(f) \in Nat /\ Len(b) \in Nat \ {0}
       /\ f = <<>> => g = b
       /\ f # <<>> => f[Len(f)] \in Command /\ f[Len(f)] # None /\ f[Len(f)] \in ToSet(f)
  <2>1. None \notin Command
    BY DEF SoundAssumption
  <2>2. f # <<>> => Len(f) \in 1..Len(f)
    BY <1>1
  <2> HIDE DEF b
  <2>3. Len(f) \in Nat /\ Len(b) \in Nat \ {0}
    BY <1>1, <1>6
  <2>4. f = <<>> => f \o b = b
    BY <1>6
  <2>5. f # <<>> => f[Len(f)] \in Command /\ f[Len(f)] # None /\ f[Len(f)] \in ToSet(f)
    BY <1>1, <2>1, <2>2 DEF ToSet
  <2> QED BY <2>3, <2>4, <2>5 DEF b
<1>11. /\ next' \in [Command -> Command \cup {None}]
       /\ freeList' \in Command \cup {None} /\ freeListEnd' \in Command \cup {None}
  <2>1. freeListEnd # None => freeListEnd \in Command
    BY <1>1, <1>10
  <2> HIDE DEF list, b
  <2> QED BY <1>3, <1>7, <2>1 DEF CoreTypes
<1>12. \A x \in Command : x \notin ToSet(f) => next'[x] = next[x]
  <2>1. freeListEnd # None => freeListEnd \in ToSet(f)
    BY <1>1, <1>10
  <2> HIDE DEF list, b
  <2> QED BY <1>3, <2>1 DEF CoreTypes
<1>13. Follows(next', freeList', g, None)
  <2>1. CASE f = <<>>
    BY <1>1, <1>3, <1>6, <1>10, <2>1
  <2>2. CASE f # <<>>
    <3>1. next' = [next EXCEPT ![f[Len(f)]] = list] /\ freeList' = freeList
      BY <1>1, <1>3, <1>10, <2>2
    <3>2. next \in [Command -> Command \cup {None}]
      BY DEF CoreTypes
    <3> HIDE DEF b, list
    <3>3. Follows([next EXCEPT ![f[Len(f)]] = list], freeList, f \o b, None)
      BY <1>1, <1>6, <1>8, <2>2, <3>2, FollowsJoined
    <3> QED BY <3>1, <3>3 DEF b
  <2> QED BY <2>1, <2>2
<1>14. IsChain(g, freeList, freeListEnd)'
  <2>1. g # <<>> /\ g[Len(g)] = b[Len(b)]
    <3>1. Len(b) \in 1..Len(b)
      BY <1>10
    <3> HIDE DEF g, b
    <3> QED BY <1>9, <1>10, <3>1
  <2> HIDE DEF g, b
  <2>2. g \in Seq(Command) /\ EachOnce(g)
    BY <1>9
  <2>3. freeListEnd' = IF g = <<>> THEN None ELSE g[Len(g)]
    BY <1>7, <2>1
  <2> QED BY <1>13, <2>2, <2>3 DEF IsChain
<1>15. IsChain(r, reserveList, reserveListEnd)'
  <2>1. \A x \in ToSet(r) : x \in Command /\ x \notin ToSet(f)
    BY <1>1, <1>8 DEF ToSet
  <2>2. \A x \in ToSet(r) : next'[x] = next[x]
    BY <1>12, <2>1
  <2>3. Follows(next', reserveList, r, None)
    BY <1>1, <2>2, FollowsKept
  <2> QED BY <1>1, <1>3, <2>3 DEF IsChain
<1>16. /\ u \in [1..waitingCount' -> Seq(Command)]
       /\ \A i \in 1..waitingCount' :
            u[i] # <<>> /\ EachOnce(u[i]) /\ Follows(next', Sound!Waiting'[i], u[i], None)
  <2>1. waitingCount' = n - 1
    BY <1>3
  <2>2. ASSUME NEW i \in 1..n - 1
        PROVE  /\ i + 1 \in 1..n /\ u[i] = s[i + 1]
               /\ u[i] \in Seq(Command) /\ u[i] # <<>> /\ EachOnce(u[i])
               /\ Follows(next', Sound!Waiting'[i], u[i], None)
    <3>1. i + 1 \in 1..n
      BY <1>2
    <3> DEFINE v == s[i + 1]
    <3>2. /\ v \in Seq(Command) /\ v # <<>> /\ EachOnce(v)
          /\ Follows(next, Sound!Waiting[i + 1], v, None) /\ ToSet(v) \cap ToSet(f) = {}
      BY <1>2, <1>8, <3>1
    <3>3. u[i] = v
      OBVIOUS
    <3> HIDE DEF v, u
    <3>4. \A x \in ToSet(v) : x \in Command /\ x \notin ToSet(f)
      BY <3>2 DEF ToSet
    <3>5. \A x \in ToSet(v) : next'[x] = next[x]
      BY <1>12, <3>4
    <3>6. Follows(next', Sound!Waiting[i + 1], v, None)
      BY <3>2, <3>5, FollowsKept
    <3>7. Sound!Waiting'[i] = Sound!Waiting[i + 1]
      BY <1>4
    <3>8. v = s[i + 1]
      BY DEF v
    <3> QED BY <3>1, <3>2, <3>3, <3>6, <3>7, <3>8
  <2> QED BY <2>1, <2>2
<1>17. ApartOK(g, r, u)'
  <2> DEFINE m == n - 1
  <2>1. waitingCount' = m /\ Sound!Held' = Sound!Held
    BY <1>3, HeldKept
  <2>2. \A i \in 1..m : u[i] = s[i + 1] /\ i + 1 \in 1..n /\ i + 1 # 1
    BY <1>2
  <2>3. \A i \in 1..n : i = 1 \/ \E j \in 1..m : i = j + 1
    <3>1. ASSUME NEW i \in 1..n, i # 1 PROVE \E j \in 1..m : i = j + 1
      <4>1. i - 1 \in 1..m /\ i = (i - 1) + 1
        BY <1>2, <3>1
      <4> QED BY <4>1
    <3> QED BY <3>1
  <2>4. /\ Sound!Held \cap (ToSet(f) \cup ToSet(r)) = {}
        /\ \A i \in 1..n : Sound!Held \cap ToSet(s[i]) = {}
        /\ \A c \in Command : c \in Sound!Held \cup ToSet(f) \cup ToSet(r)
                                \/ \E i \in 1..n : c \in ToSet(s[i])
        /\ \A t1, t2 \in Caller : t1 # t2 => held[t1] = None \/ held[t1] # held[t2]
    BY DEF ApartOK
  <2>5. \A i, j \in 1..m : i # j => i + 1 # j + 1
    BY <1>2
  <2>6. ToSet(g) = ToSet(f) \cup ToSet(s[1])
    BY <1>9
  <2> HIDE DEF g, u, m, b
  <2>7. \A i, j \in 1..m : i # j => ToSet(u[i]) \cap ToSet(u[j]) = {}
    BY <1>8, <2>2, <2>5
  <2>8. \A i \in 1..m : ToSet(u[i]) \cap (ToSet(g) \cup ToSet(r)) = {} /\ Sound!Held \cap ToSet(u[i]) = {}
    BY ZenonT(40), <1>2, <1>8, <2>2, <2>4, <2>6
  <2>9. \A c \in Command : c \in Sound!Held \cup ToSet(g) \cup ToSet(r)
                             \/ \E i \in 1..m : c \in ToSet(u[i])
    <3> SUFFICES ASSUME NEW c \in Command, c \notin Sound!Held \cup ToSet(g) \cup ToSet(r)
                 PROVE  \E i \in 1..m : c \in ToSet(u[i])
      OBVIOUS
    <3>1. PICK i \in 1..n : c \in ToSet(s[i])
      BY <2>4, <2>6
    <3>2. i # 1
      BY <2>6, <3>1
    <3>3. PICK j \in 1..m : i = j + 1
      BY <2>3, <3>2
    <3> QED BY <2>2, <3>1, <3>3
  <2>10. ToSet(g) \cap ToSet(r) = {} /\ Sound!Held \cap (ToSet(g) \cup ToSet(r)) = {}
    BY <1>2, <1>8, <2>4, <2>6 DEF b
  <2> QED BY <2>1, <2>4, <2>7, <2>8, <2>9, <2>10 DEF ApartOK
<1> QED BY <1>11, <1>14, <1>15, <1>16, <1>17 DEF ChainsOK

\* How many lists are at work, queued and under way is a number each.
LEMMA CountsAre ==
  ASSUME SoundAssumption, CoreTypes
  PROVE  /\ waitingCount \in Nat /\ waitingCount <= Depth
         /\ One(working) \in {0, 1} /\ Len(mesgQueue) \in Nat /\ Len(fifo) \in Nat
         /\ Later(fifo, 1, Command) \in Nat
         /\ \A i \in 1..Len(fifo) :
              /\ Later(fifo, i, Command) \in Nat
              /\ Later(fifo, i, Command) <= Later(fifo, 1, Command)
              /\ fifo[i] # None => fifo[i] \in Command /\ Later(fifo, i, Command) >= 1
<1>1. fifo \in Seq(Command \cup {None}) /\ mesgQueue \in Seq(Command) /\ working \in BOOLEAN
  BY DEF CoreTypes
<1>2. waitingCount \in Nat /\ waitingCount <= Depth
  BY DEF CoreTypes, SoundAssumption
<1>3. Later(fifo, 1, Command) \in Nat
  BY <1>1, LaterIsCount
<1>4. ASSUME NEW i \in 1..Len(fifo)
      PROVE  /\ Later(fifo, i, Command) \in Nat
             /\ Later(fifo, i, Command) <= Later(fifo, 1, Command)
             /\ fifo[i] # None => fifo[i] \in Command /\ Later(fifo, i, Command) >= 1
  <2>1. i \in Nat /\ 1 \in 1..i /\ fifo[i] \in Command \cup {None}
    BY <1>1
  <2>2. Later(fifo, i, Command) \in Nat
    BY <1>1, <2>1, LaterIsCount
  <2>3. /\ Later(fifo, i, Command) <= Later(fifo, 1, Command)
        /\ fifo[i] \in Command => Later(fifo, i, Command) >= 1
    BY <1>1, <2>1, LaterIsLess
  <2> QED BY <2>1, <2>2, <2>3
<1>5. Len(mesgQueue) \in Nat /\ Len(fifo) \in Nat
  BY <1>1
<1> QED BY <1>1, <1>2, <1>3, <1>4, <1>5 DEF One

\* The ARM9 takes back what the ARM7 has done, and the tags say so.
LEMMA RecvTags ==
  ASSUME SoundAssumption, NEW s, NEW n, NEW d, n = waitingCount, CoreTypes, TagsOK(s, d),
         Sound!Recv, UNCHANGED <<mesgQueue, working, command_p, finishCommandTag, fifo>>
  PROVE  /\ n >= 1 /\ d - 1 \in 0..n - 1
         /\ waitingCount' \in 0..Depth /\ finishedTag' \in 0..TagRange - 1
         /\ ringRead' \in 0..Depth /\ ring' \in [0..Depth -> Command \cup {None}]
         /\ TagsOK([i \in 1..n - 1 |-> s[i + 1]], d - 1)'
<1> DEFINE u == [i \in 1..n - 1 |-> s[i + 1]]
           N == TagRange
<1>1. /\ N \in Nat \ {0} /\ Depth \in Nat \ {0} /\ Depth + 1 <= N - 1
      /\ None \notin Command
  <2>1. TagRange \div 2 \in Nat /\ TagRange \div 2 <= TagRange
    BY DEF SoundAssumption
  <2> QED BY <2>1 DEF SoundAssumption
<1>2. /\ ringRead' = Sound!Follow(ringRead) /\ waitingCount' = waitingCount - 1
      /\ ring' = [ring EXCEPT ![ringRead] = None] /\ ringWrite' = ringWrite
      /\ finishedTag' = (finishedTag + 1) % N /\ currentTag' = currentTag
      /\ finishedTag # finishCommandTag
      /\ mesgQueue' = mesgQueue /\ working' = working /\ command_p' = command_p
      /\ finishCommandTag' = finishCommandTag /\ fifo' = fifo
  BY DEF Sound!Recv, Sound!Replied, Sound!Inc
<1>3. /\ finishedTag \in 0..N - 1 /\ d \in 0..n /\ n \in 0..Depth
      /\ finishCommandTag = (finishedTag + d) % N
      /\ currentTag = (finishedTag + (n + 1)) % N
      /\ ringWrite = (ringRead + waitingCount) % (Depth + 1)
  BY DEF CoreTypes, TagsOK
<1>4. d >= 1 /\ n >= 1
  <2>1. d # 0
    <3>1. 0 \in 0..N /\ finishedTag + 0 = finishedTag /\ finishedTag < N
      BY <1>1, <1>3
    <3>2. (finishedTag + 0) % N = finishedTag
      BY <1>1, <1>3, <3>1, Turned
    <3> QED BY <1>2, <1>3, <3>2
  <2> QED BY <1>3, <2>1
<1>5. /\ waitingCount' \in 0..Depth /\ finishedTag' \in 0..TagRange - 1
      /\ ring' \in [0..Depth -> Command \cup {None}]
  <2>1. 1 \in 0..N
    BY <1>1
  <2>2. (finishedTag + 1) % N \in 0..N - 1
    BY <1>1, <1>3, <2>1, Turned
  <2>3. n - 1 \in 0..Depth
    BY <1>1, <1>3, <1>4
  <2>4. ring' \in [0..Depth -> Command \cup {None}]
    BY <1>2 DEF CoreTypes
  <2> QED BY <1>2, <2>2, <2>3, <2>4
<1>6. /\ ringRead' \in 0..Depth /\ ringWrite' = (ringRead' + waitingCount') % (Depth + 1)
      /\ \A i \in 1..n - 1 : Sound!Waiting'[i] = Sound!Waiting[i + 1]
  BY <1>2, <1>3, <1>4, WaitingAfterRecv
<1>7. finishCommandTag' = (finishedTag' + (d - 1)) % N
  <2>1. d - 1 \in 0..N - 1 /\ (d - 1) + 1 = d
    BY <1>1, <1>3, <1>4
  <2>2. (((finishedTag + 1) % N) + (d - 1)) % N = (finishedTag + ((d - 1) + 1)) % N
    BY <1>1, <1>3, <2>1, TurnedTwice
  <2> QED BY <1>2, <1>3, <2>1, <2>2
<1>8. currentTag' = (finishedTag' + (waitingCount' + 1)) % N
  <2>1. n \in 0..N - 1 /\ waitingCount' + 1 = n
    BY <1>1, <1>2, <1>3
  <2>2. (((finishedTag + 1) % N) + n) % N = (finishedTag + (n + 1)) % N
    BY <1>1, <1>3, <2>1, TurnedTwice
  <2> QED BY <1>2, <1>3, <2>1, <2>2
<1> DEFINE w == One(working)
           m == Len(mesgQueue)
           l == Later(fifo, 1, Command)
<1>9. /\ w \in {0, 1} /\ m \in Nat /\ l \in Nat
      /\ \A i \in 1..Len(fifo) :
           /\ Later(fifo, i, Command) \in Nat
           /\ Later(fifo, i, Command) <= l
           /\ fifo[i] # None => fifo[i] \in Command /\ Later(fifo, i, Command) >= 1
  BY CountsAre
<1>10. /\ d + w + m + l = n
       /\ \A i \in 1..m : mesgQueue[i] = Sound!Waiting[d + w + i]
       /\ \A i \in 1..Len(fifo) : fifo[i] # None =>
            fifo[i] = Sound!Waiting[n + 1 - Later(fifo, i, Command)]
       /\ working /\ command_p # None => command_p \in ToSet(s[d + 1])
       /\ ~working => command_p = None
  BY DEF TagsOK
<1>11. /\ One(working)' = w /\ Len(mesgQueue)' = m /\ Later(fifo, 1, Command)' = l
       /\ Len(fifo)' = Len(fifo) /\ \A i \in 1..Len(fifo) : Later(fifo, i, Command)' = Later(fifo, i, Command)
  BY <1>2
<1>12. working => w = 1
  BY DEF One
<1> HIDE DEF w, m, l, u
<1>13. (d - 1) + w + m + l = n - 1 /\ d - 1 \in 0..n - 1
  BY <1>3, <1>4, <1>9, <1>10
<1>14. ASSUME NEW i \in 1..m PROVE mesgQueue[i] = Sound!Waiting'[(d - 1) + w + i]
  <2>1. (d - 1) + w + i \in 1..n - 1 /\ ((d - 1) + w + i) + 1 = d + w + i
    BY <1>3, <1>4, <1>9, <1>10
  <2> QED BY <1>6, <1>10, <2>1
<1>15. ASSUME NEW i \in 1..Len(fifo), fifo[i] # None
       PROVE  fifo[i] = Sound!Waiting'[(n - 1) + 1 - Later(fifo, i, Command)]
  <2> DEFINE k == Later(fifo, i, Command)
  <2>1. k \in Nat /\ k >= 1 /\ k <= l /\ fifo[i] = Sound!Waiting[n + 1 - k]
    BY <1>9, <1>10, <1>15
  <2> HIDE DEF k
  <2>2. (n - 1) + 1 - k \in 1..n - 1 /\ ((n - 1) + 1 - k) + 1 = n + 1 - k
    BY <1>3, <1>4, <1>9, <1>10, <2>1
  <2> QED BY <1>6, <2>1, <2>2 DEF k
<1>16. ASSUME working, command_p # None PROVE command_p \in ToSet(u[(d - 1) + 1])
  <2>1. (d - 1) + 1 = d /\ d \in 1..n - 1
    BY <1>3, <1>4, <1>9, <1>10, <1>12, <1>16
  <2>2. u[d] = s[d + 1]
    BY <2>1 DEF u
  <2> QED BY <1>10, <1>16, <2>1, <2>2
<1>17. TagsOK(u, d - 1)'
  <2>1. /\ d - 1 \in 0..waitingCount' /\ waitingCount' = n - 1
        /\ (d - 1) + w + m + l = waitingCount'
    BY <1>2, <1>13
  <2> QED BY <1>2, <1>6, <1>7, <1>8, <1>10, <1>11, <1>14, <1>15, <1>16, <2>1 DEF TagsOK
<1> QED BY <1>4, <1>5, <1>6, <1>13, <1>17 DEF u

\* A list that is taken back leaves all commands at one place each, and one list less for the tags.
LEMMA RecvKeeps ==
  ASSUME SoundAssumption, CoreInv, Sound!Recv,
         UNCHANGED <<mesgQueue, working, command_p, finishCommandTag, fifo, held>>
  PROVE  CoreInv'
<1>1. PICK f, r, s, d : CoreOK(f, r, s, d)
  BY DEF CoreInv
<1> SUFFICES ASSUME NEW n, n = waitingCount PROVE CoreInv'
  OBVIOUS
<1> DEFINE g == f \o s[1]
           u == [i \in 1..n - 1 |-> s[i + 1]]
<1>2. CoreTypes /\ ChainsOK(f, r, s) /\ ApartOK(f, r, s) /\ TagsOK(s, d)
  BY <1>1 DEF CoreOK
<1>3. /\ n >= 1
      /\ waitingCount' \in 0..Depth /\ finishedTag' \in 0..TagRange - 1
      /\ ringRead' \in 0..Depth /\ ring' \in [0..Depth -> Command \cup {None}]
      /\ TagsOK(u, d - 1)'
  BY <1>2, RecvTags
<1>4. /\ ChainsOK(g, r, u)' /\ ApartOK(g, r, u)'
      /\ next' \in [Command -> Command \cup {None}]
      /\ freeList' \in Command \cup {None} /\ freeListEnd' \in Command \cup {None}
  <2>1. ringWrite = (ringRead + waitingCount) % (Depth + 1) /\ held' = held
    BY <1>2 DEF TagsOK
  <2> QED BY <1>2, <1>3, <2>1, RecvLists
<1>5. CoreTypes'
  BY <1>2, <1>3, <1>4 DEF CoreTypes, Sound!Recv
<1> QED BY <1>3, <1>4, <1>5 DEF CoreInv, CoreOK

\* The ring stays as it is ...
LEMMA WaitingKept ==
  ASSUME UNCHANGED <<ring, ringRead, waitingCount>>
  PROVE  \A i \in 1..waitingCount : Sound!Waiting'[i] = Sound!Waiting[i]
BY DEF Sound!Waiting

\* ... and so do the tags.
LEMMA TagsKept ==
  ASSUME NEW s, NEW d, TagsOK(s, d),
         UNCHANGED <<ring, ringRead, ringWrite, waitingCount, currentTag, finishedTag>>,
         UNCHANGED <<mesgQueue, working, command_p, finishCommandTag, fifo>>
  PROVE  TagsOK(s, d)'
<1>1. /\ Sound!Waiting' = Sound!Waiting /\ Later(fifo, 1, Command)' = Later(fifo, 1, Command)
      /\ \A i : Later(fifo, i, Command)' = Later(fifo, i, Command)
      /\ Len(fifo)' = Len(fifo) /\ Len(mesgQueue)' = Len(mesgQueue) /\ One(working)' = One(working)
  BY DEF Sound!Waiting
<1> QED BY <1>1 DEF TagsOK

\* What the held commands are after a thread took one
LEMMA HeldAfterTake ==
  ASSUME held \in [Caller -> Command \cup {None}], NEW t \in Caller, held[t] = None,
         NEW c \in Command, c # None, held' = [held EXCEPT ![t] = c]
  PROVE  Sound!Held' = Sound!Held \cup {c}
<1>1. \A x \in Caller : held'[x] = IF x = t THEN c ELSE held[x]
  OBVIOUS
<1>2. Sound!Held' = {held'[x] : x \in Caller} \ {None}
  BY DEF Sound!Held
<1>3. Sound!Held = {held[x] : x \in Caller} \ {None}
  BY DEF Sound!Held
<1>4. ASSUME NEW y \in Sound!Held' PROVE y \in Sound!Held \cup {c}
  <2>1. PICK x \in Caller : y = held'[x] /\ y # None
    BY <1>2, <1>4
  <2> QED BY <1>1, <1>3, <2>1
<1>5. ASSUME NEW y \in Sound!Held \cup {c} PROVE y \in Sound!Held'
  <2>1. CASE y = c
    BY <1>1, <1>2, <2>1
  <2>2. CASE y \in Sound!Held
    <3>1. PICK x \in Caller : y = held[x] /\ y # None
      BY <1>3, <2>2
    <3> QED BY <1>1, <1>2, <3>1
  <2> QED BY <1>5, <2>1, <2>2
<1> QED BY <1>4, <1>5

\* and after it pushed it.
LEMMA HeldAfterPush ==
  ASSUME held \in [Caller -> Command \cup {None}], NEW t \in Caller, held[t] # None,
         \A u, v \in Caller : u # v => held[u] = None \/ held[u] # held[v],
         held' = [held EXCEPT ![t] = None]
  PROVE  Sound!Held' = Sound!Held \ {held[t]} /\ held[t] \in Sound!Held
<1>1. \A x \in Caller : held'[x] = IF x = t THEN None ELSE held[x]
  OBVIOUS
<1>2. Sound!Held' = {held'[x] : x \in Caller} \ {None}
  BY DEF Sound!Held
<1>3. Sound!Held = {held[x] : x \in Caller} \ {None}
  BY DEF Sound!Held
<1>4. ASSUME NEW y \in Sound!Held' PROVE y \in Sound!Held \ {held[t]}
  <2>1. PICK x \in Caller : y = held'[x] /\ y # None
    BY <1>2, <1>4
  <2>2. x # t /\ y = held[x]
    BY <1>1, <2>1
  <2> QED BY <1>3, <2>1, <2>2
<1>5. ASSUME NEW y \in Sound!Held, y # held[t] PROVE y \in Sound!Held'
  <2>1. PICK x \in Caller : y = held[x] /\ y # None
    BY <1>3, <1>5
  <2> QED BY <1>1, <1>2, <1>5, <2>1
<1>6. held[t] \in Sound!Held
  BY <1>3
<1> QED BY <1>4, <1>5, <1>6

\* A thread takes the first free command.
LEMMA AllocLists ==
  ASSUME SoundAssumption, NEW f, NEW r, NEW s,
         CoreTypes, ChainsOK(f, r, s), ApartOK(f, r, s),
         NEW t \in Caller, held[t] = None, Sound!AllocCommand(t),
         UNCHANGED <<ring, ringRead, waitingCount>>
  PROVE  /\ ChainsOK(Tail(f), r, s)' /\ ApartOK(Tail(f), r, s)'
         /\ freeList' \in Command \cup {None} /\ freeListEnd' \in Command \cup {None}
         /\ held' \in [Caller -> Command \cup {None}]
<1> DEFINE g == Tail(f)
           c == freeList
<1>1. /\ f \in Seq(Command) /\ EachOnce(f) /\ Follows(next, freeList, f, None)
      /\ freeListEnd = IF f = <<>> THEN None ELSE f[Len(f)]
      /\ None \notin Command /\ held \in [Caller -> Command \cup {None}]
  BY DEF ChainsOK, IsChain, SoundAssumption, CoreTypes
<1>2. /\ c # None /\ held' = [held EXCEPT ![t] = c] /\ freeList' = next[c]
      /\ freeListEnd' = (IF next[c] = None THEN None ELSE freeListEnd)
      /\ reserveList' = reserveList /\ reserveListEnd' = reserveListEnd /\ next' = next
  BY DEF Sound!AllocCommand
<1>3. f # <<>>
  BY <1>1, <1>2 DEF Follows
<1>4. /\ c = f[1] /\ c \in Command /\ Follows(next, next[c], g, None)
      /\ next[c] = None <=> g = <<>>
  BY <1>1, <1>3, FollowsTail
<1>5. /\ g \in Seq(Command) /\ Len(g) = Len(f) - 1 /\ EachOnce(g)
      /\ \A i \in 1..Len(f) - 1 : g[i] = f[i + 1]
      /\ ToSet(g) = ToSet(f) \ {c} /\ c \in ToSet(f)
  BY <1>1, <1>3, <1>4, TailOnce
<1>6. /\ freeListEnd' = (IF g = <<>> THEN None ELSE g[Len(g)])
      /\ freeListEnd' \in Command \cup {None}
  <2>1. g # <<>> => g[Len(g)] = f[Len(f)] /\ f # <<>>
    <3>1. Len(f) \in Nat \ {0}
      BY <1>1, <1>3
    <3> HIDE DEF g
    <3>2. g # <<>> => Len(g) # 0
      BY <1>5
    <3>3. g # <<>> => Len(g) \in 1..Len(f) - 1 /\ Len(g) + 1 = Len(f)
      BY <1>5, <3>1, <3>2
    <3> QED BY <1>3, <1>5, <3>3
  <2> HIDE DEF g, c
  <2>2. g # <<>> => g[Len(g)] \in Command
    BY <1>5
  <2> QED BY <1>1, <1>2, <1>4, <2>1, <2>2
<1>7. held' \in [Caller -> Command \cup {None}] /\ Sound!Held' = Sound!Held \cup {c}
  BY <1>1, <1>2, <1>4, HeldAfterTake
<1> HIDE DEF g, c
<1>8. IsChain(g, freeList, freeListEnd)'
  BY <1>2, <1>4, <1>5, <1>6 DEF IsChain
<1>9. IsChain(r, reserveList, reserveListEnd)'
  BY <1>2 DEF IsChain, ChainsOK
<1>10. \A i \in 1..waitingCount : Sound!Waiting'[i] = Sound!Waiting[i]
  BY WaitingKept
<1>11. ChainsOK(g, r, s)'
  BY <1>2, <1>8, <1>9, <1>10 DEF ChainsOK
<1>12. ApartOK(g, r, s)'
  <2>1. waitingCount' = waitingCount
    OBVIOUS
  <2>2. /\ ToSet(f) \cap ToSet(r) = {}
        /\ \A i \in 1..waitingCount : ToSet(s[i]) \cap (ToSet(f) \cup ToSet(r)) = {}
        /\ \A i, j \in 1..waitingCount : i # j => ToSet(s[i]) \cap ToSet(s[j]) = {}
        /\ Sound!Held \cap (ToSet(f) \cup ToSet(r)) = {}
        /\ \A i \in 1..waitingCount : Sound!Held \cap ToSet(s[i]) = {}
        /\ \A x \in Command : x \in Sound!Held \cup ToSet(f) \cup ToSet(r)
                                \/ \E i \in 1..waitingCount : x \in ToSet(s[i])
    BY DEF ApartOK
  <2>3. \A v, w \in Caller : v # w => held'[v] = None \/ held'[v] # held'[w]
    <3>1. \A v \in Caller : held[v] = None \/ held[v] \in Sound!Held
      BY DEF Sound!Held
    <3>2. c \notin Sound!Held
      BY <1>5, <2>2
    <3>3. \A x \in Caller : held'[x] = IF x = t THEN c ELSE held[x]
      BY <1>1, <1>2
    <3>4. \A v, w \in Caller : v # w => held[v] = None \/ held[v] # held[w]
      BY DEF ApartOK
    <3> QED BY <1>1, <1>4, <3>1, <3>2, <3>3, <3>4
  <2>4. /\ ToSet(g) \cap ToSet(r) = {}
        /\ Sound!Held' \cap (ToSet(g) \cup ToSet(r)) = {}
    BY <1>5, <1>7, <2>2
  <2>5. \A i \in 1..waitingCount : ToSet(s[i]) \cap (ToSet(g) \cup ToSet(r)) = {}
                                   /\ Sound!Held' \cap ToSet(s[i]) = {}
    BY <1>5, <1>7, <2>2
  <2>6. \A x \in Command : x \in Sound!Held' \cup ToSet(g) \cup ToSet(r)
                             \/ \E i \in 1..waitingCount : x \in ToSet(s[i])
    BY <1>5, <1>7, <2>2
  <2> QED BY <2>1, <2>2, <2>3, <2>4, <2>5, <2>6 DEF ApartOK
<1> QED BY <1>2, <1>4, <1>6, <1>7, <1>11, <1>12 DEF g, CoreTypes

\* A command that is taken leaves all others where they are, and the tags.
LEMMA AllocKeeps ==
  ASSUME SoundAssumption, CoreInv, NEW t \in Caller, held[t] = None, Sound!AllocCommand(t),
         UNCHANGED <<ring, ringRead, ringWrite, waitingCount, currentTag, finishedTag>>,
         UNCHANGED <<mesgQueue, working, command_p, finishCommandTag, fifo>>
  PROVE  CoreInv'
<1>1. PICK f, r, s, d : CoreOK(f, r, s, d)
  BY DEF CoreInv
<1>2. CoreTypes /\ ChainsOK(f, r, s) /\ ApartOK(f, r, s) /\ TagsOK(s, d)
  BY <1>1 DEF CoreOK
<1>3. /\ ChainsOK(Tail(f), r, s)' /\ ApartOK(Tail(f), r, s)'
      /\ freeList' \in Command \cup {None} /\ freeListEnd' \in Command \cup {None}
      /\ held' \in [Caller -> Command \cup {None}]
  BY <1>2, AllocLists
<1>4. CoreTypes'
  BY <1>2, <1>3 DEF CoreTypes, Sound!AllocCommand
<1>5. TagsOK(s, d)'
  BY <1>2, TagsKept
<1> QED BY <1>3, <1>4, <1>5 DEF CoreInv, CoreOK

\* A thread puts the command it took at the end of the reserved list.
LEMMA PushLists ==
  ASSUME SoundAssumption, NEW f, NEW r, NEW s, NEW command,
         CoreTypes, ChainsOK(f, r, s), ApartOK(f, r, s),
         NEW t \in Caller, command = held[t], Sound!SND_PushCommand(t)
  PROVE  LET q == Append(r, command)
         IN  /\ ChainsOK(f, q, s)' /\ ApartOK(f, q, s)'
             /\ next' \in [Command -> Command \cup {None}]
             /\ reserveList' \in Command \cup {None} /\ reserveListEnd' \in Command \cup {None}
             /\ held' \in [Caller -> Command \cup {None}]
<1> DEFINE q == Append(r, command)
<1>1. /\ f \in Seq(Command) /\ EachOnce(f) /\ Follows(next, freeList, f, None)
      /\ r \in Seq(Command) /\ EachOnce(r) /\ Follows(next, reserveList, r, None)
      /\ reserveListEnd = IF r = <<>> THEN None ELSE r[Len(r)]
      /\ freeListEnd = IF f = <<>> THEN None ELSE f[Len(f)]
      /\ None \notin Command /\ held \in [Caller -> Command \cup {None}]
      /\ next \in [Command -> Command \cup {None}]
  BY DEF ChainsOK, IsChain, SoundAssumption, CoreTypes
<1>2. /\ command # None /\ command \in Command
      /\ reserveList' = (IF reserveListEnd = None THEN command ELSE reserveList)
      /\ reserveListEnd' = command
      /\ next' = [c \in Command |->
                   IF c = command THEN None
                   ELSE IF c = reserveListEnd THEN command ELSE next[c]]
      /\ held' = [held EXCEPT ![t] = None]
      /\ freeList' = freeList /\ freeListEnd' = freeListEnd
      /\ ring' = ring /\ ringRead' = ringRead /\ waitingCount' = waitingCount
  BY <1>1 DEF Sound!SND_PushCommand, Sound!waiting
<1>3. /\ Sound!Held' = Sound!Held \ {command} /\ command \in Sound!Held
      /\ held' \in [Caller -> Command \cup {None}]
  <2>1. \A u, v \in Caller : u # v => held[u] = None \/ held[u] # held[v]
    BY DEF ApartOK
  <2>2. held[t] # None
    BY <1>2
  <2>3. Sound!Held' = Sound!Held \ {held[t]} /\ held[t] \in Sound!Held
    BY <1>1, <1>2, <2>1, <2>2, HeldAfterPush
  <2> QED BY <1>1, <1>2, <2>3
<1>4. /\ ToSet(f) \cap ToSet(r) = {}
      /\ \A i \in 1..waitingCount : ToSet(s[i]) \cap (ToSet(f) \cup ToSet(r)) = {}
      /\ \A i, j \in 1..waitingCount : i # j => ToSet(s[i]) \cap ToSet(s[j]) = {}
      /\ Sound!Held \cap (ToSet(f) \cup ToSet(r)) = {}
      /\ \A i \in 1..waitingCount : Sound!Held \cap ToSet(s[i]) = {}
      /\ \A x \in Command : x \in Sound!Held \cup ToSet(f) \cup ToSet(r)
                              \/ \E i \in 1..waitingCount : x \in ToSet(s[i])
      /\ \A u, v \in Caller : u # v => held[u] = None \/ held[u] # held[v]
  BY DEF ApartOK
<1>5. /\ q \in Seq(Command) /\ ToSet(q) = ToSet(r) \cup {command} /\ EachOnce(q)
      /\ q # <<>> /\ q[Len(q)] = command
  <2>1. command \notin ToSet(r)
    BY <1>3, <1>4
  <2>2. q # <<>> /\ q[Len(q)] = command
    BY <1>1, <1>2
  <2> QED BY <1>1, <1>2, <2>1, <2>2, AppendOnce
<1>6. /\ r # <<>> => reserveListEnd \in Command /\ reserveListEnd \in ToSet(r) /\ reserveListEnd # None
      /\ r = <<>> => reserveListEnd = None
  <2>1. r # <<>> => Len(r) \in 1..Len(r) /\ r[Len(r)] \in Command
    BY <1>1
  <2> QED BY <1>1, <2>1 DEF ToSet
<1>7. Follows(next', reserveList', q, None)
  <2>1. \A y \in Command : next'[y] = IF y = command THEN None
                                      ELSE IF r # <<>> /\ y = r[Len(r)] THEN command ELSE next[y]
    BY <1>1, <1>2, <1>6
  <2>2. reserveList' = IF r = <<>> THEN command ELSE reserveList
    BY <1>2, <1>6
  <2>3. command \notin ToSet(r)
    BY <1>3, <1>4
  <2> HIDE DEF q
  <2>4. Follows(next', reserveList', Append(r, command), None)
    BY <1>1, <1>2, <2>1, <2>2, <2>3, FollowsAppended
  <2> QED BY <2>4 DEF q
<1> HIDE DEF q
<1>8. ASSUME NEW v \in Seq(Command), NEW a, Follows(next, a, v, None), ToSet(v) \cap ToSet(r) = {},
             Sound!Held \cap ToSet(v) = {}
      PROVE  Follows(next', a, v, None)
  <2>1. \A x \in ToSet(v) : x \in Command /\ x # command /\ x # reserveListEnd
    <3>1. \A x \in ToSet(v) : x \in Command
      BY <1>8 DEF ToSet
    <3> QED BY <1>1, <1>3, <1>6, <1>8, <3>1
  <2>2. \A x \in ToSet(v) : next'[x] = next[x]
    BY <1>2, <2>1
  <2> QED BY <1>8, <2>2, FollowsKept
<1>9. IsChain(f, freeList, freeListEnd)'
  <2>1. Follows(next', freeList, f, None)
    BY <1>1, <1>4, <1>8
  <2> QED BY <1>1, <1>2, <2>1 DEF IsChain
<1>10. IsChain(q, reserveList, reserveListEnd)'
  BY <1>2, <1>5, <1>7 DEF IsChain
<1>11. ASSUME NEW i \in 1..waitingCount
       PROVE  s[i] # <<>> /\ EachOnce(s[i]) /\ Follows(next', Sound!Waiting'[i], s[i], None)
  <2> DEFINE v == s[i]
  <2>1. /\ v \in Seq(Command) /\ v # <<>> /\ EachOnce(v)
        /\ Follows(next, Sound!Waiting[i], v, None)
    BY DEF ChainsOK
  <2>2. ToSet(v) \cap ToSet(r) = {} /\ Sound!Held \cap ToSet(v) = {}
    BY <1>4
  <2>3. Sound!Waiting'[i] = Sound!Waiting[i]
    BY <1>2, WaitingKept
  <2> HIDE DEF v
  <2>4. Follows(next', Sound!Waiting[i], v, None)
    BY <1>8, <2>1, <2>2
  <2> QED BY <2>1, <2>3, <2>4 DEF v
<1>12. ChainsOK(f, q, s)'
  BY <1>2, <1>9, <1>10, <1>11 DEF ChainsOK
<1>13. ApartOK(f, q, s)'
  <2>1. \A u, v \in Caller : u # v => held'[u] = None \/ held'[u] # held'[v]
    <3>1. \A x \in Caller : held'[x] = IF x = t THEN None ELSE held[x]
      BY <1>1, <1>2
    <3> QED BY <1>4, <3>1
  <2>2. /\ ToSet(f) \cap ToSet(q) = {}
        /\ Sound!Held' \cap (ToSet(f) \cup ToSet(q)) = {}
    BY <1>3, <1>4, <1>5
  <2>3. \A i \in 1..waitingCount : ToSet(s[i]) \cap (ToSet(f) \cup ToSet(q)) = {}
                                   /\ Sound!Held' \cap ToSet(s[i]) = {}
    BY <1>3, <1>4, <1>5
  <2>4. \A x \in Command : x \in Sound!Held' \cup ToSet(f) \cup ToSet(q)
                             \/ \E i \in 1..waitingCount : x \in ToSet(s[i])
    BY <1>3, <1>4, <1>5
  <2> QED BY <1>2, <1>4, <2>1, <2>2, <2>3, <2>4 DEF ApartOK
<1>14. /\ next' \in [Command -> Command \cup {None}]
       /\ reserveList' \in Command \cup {None} /\ reserveListEnd' \in Command \cup {None}
  BY <1>1, <1>2 DEF CoreTypes
<1> QED BY <1>3, <1>12, <1>13, <1>14 DEF q

\* A command that is pushed is on the reserved list.
LEMMA PushKeeps ==
  ASSUME SoundAssumption, CoreInv, NEW t \in Caller, Sound!SND_PushCommand(t)
  PROVE  CoreInv'
<1>1. PICK f, r, s, d : CoreOK(f, r, s, d)
  BY DEF CoreInv
<1> SUFFICES ASSUME NEW command, command = held[t] PROVE CoreInv'
  OBVIOUS
<1>2. CoreTypes /\ ChainsOK(f, r, s) /\ ApartOK(f, r, s) /\ TagsOK(s, d)
  BY <1>1 DEF CoreOK
<1>3. /\ ChainsOK(f, Append(r, command), s)' /\ ApartOK(f, Append(r, command), s)'
      /\ next' \in [Command -> Command \cup {None}]
      /\ reserveList' \in Command \cup {None} /\ reserveListEnd' \in Command \cup {None}
      /\ held' \in [Caller -> Command \cup {None}]
  BY <1>2, PushLists
<1>4. UNCHANGED <<freeList, freeListEnd, ring, ringRead, ringWrite, waitingCount, currentTag,
                  finishedTag, mesgQueue, working, command_p, finishCommandTag, fifo>>
  BY DEF Sound!SND_PushCommand, Sound!waiting, Sound!arm7
<1>5. CoreTypes'
  BY <1>2, <1>3, <1>4 DEF CoreTypes
<1>6. TagsOK(s, d)'
  BY <1>2, <1>4, TagsKept
<1> QED BY <1>3, <1>5, <1>6 DEF CoreInv, CoreOK

\* The reserved list becomes the last of those sent.
LEMMA SendLists ==
  ASSUME SoundAssumption, NEW f, NEW r, NEW s, NEW n, n = waitingCount,
         CoreTypes, ChainsOK(f, r, s), ApartOK(f, r, s),
         Sound!Send, reserveList # None, UNCHANGED held,
         \A i \in 1..n : Sound!Waiting'[i] = Sound!Waiting[i],
         Sound!Waiting'[n + 1] = reserveList
  PROVE  LET u == [i \in 1..n + 1 |-> IF i = n + 1 THEN r ELSE s[i]]
         IN  ChainsOK(f, <<>>, u)' /\ ApartOK(f, <<>>, u)'
<1> DEFINE u == [i \in 1..n + 1 |-> IF i = n + 1 THEN r ELSE s[i]]
<1>1. /\ IsChain(f, freeList, freeListEnd)
      /\ r \in Seq(Command) /\ EachOnce(r) /\ Follows(next, reserveList, r, None)
      /\ \A i \in 1..n : /\ s[i] \in Seq(Command) /\ s[i] # <<>> /\ EachOnce(s[i])
                         /\ Follows(next, Sound!Waiting[i], s[i], None)
      /\ n \in Nat
  <2>1. n \in Nat
    BY DEF SoundAssumption, CoreTypes
  <2>2. IsChain(f, freeList, freeListEnd) /\ IsChain(r, reserveList, reserveListEnd)
    BY DEF ChainsOK
  <2> HIDE DEF u
  <2>3. \A i \in 1..n : /\ s[i] \in Seq(Command) /\ s[i] # <<>> /\ EachOnce(s[i])
                        /\ Follows(next, Sound!Waiting[i], s[i], None)
    BY DEF ChainsOK
  <2> QED BY <2>1, <2>2, <2>3 DEF IsChain
<1>2. /\ waitingCount' = n + 1 /\ reserveList' = None /\ reserveListEnd' = None
      /\ freeList' = freeList /\ freeListEnd' = freeListEnd /\ next' = next
  BY DEF Sound!Send
<1>3. r # <<>>
  BY <1>1 DEF Follows
<1>4. /\ \A i \in 1..n : u[i] = s[i] /\ i \in 1..n + 1 /\ i # n + 1
      /\ u[n + 1] = r /\ n + 1 \in 1..n + 1
      /\ \A i \in 1..n + 1 : i \in 1..n \/ i = n + 1
      /\ DOMAIN u = 1..n + 1
  <2>1. \A i \in 1..n : i \in 1..n + 1 /\ i # n + 1
    BY <1>1
  <2>2. \A i \in 1..n + 1 : i \in 1..n \/ i = n + 1
    BY <1>1
  <2>3. n + 1 \in 1..n + 1
    BY <1>1
  <2> QED BY <2>1, <2>2, <2>3
<1>5. u \in [1..n + 1 -> Seq(Command)]
  BY <1>1, <1>4
<1> HIDE DEF u
<1>6. ChainsOK(f, <<>>, u)'
  <2>1. IsChain(f, freeList, freeListEnd)'
    BY <1>1, <1>2 DEF IsChain
  <2>2. IsChain(<<>>, reserveList, reserveListEnd)'
    <3>1. <<>> \in Seq(Command) /\ EachOnce(<<>>) /\ Follows(next', reserveList', <<>>, None)
      BY <1>2 DEF EachOnce, Follows
    <3> QED BY <1>2, <3>1 DEF IsChain
  <2>3. ASSUME NEW i \in 1..n + 1
        PROVE  u[i] # <<>> /\ EachOnce(u[i]) /\ Follows(next', Sound!Waiting'[i], u[i], None)
    BY <1>1, <1>2, <1>3, <1>4
  <2> QED BY <1>2, <1>5, <2>1, <2>2, <2>3 DEF ChainsOK
<1>7. ApartOK(f, <<>>, u)'
  <2>1. /\ ToSet(f) \cap ToSet(r) = {}
        /\ \A i \in 1..n : ToSet(s[i]) \cap (ToSet(f) \cup ToSet(r)) = {}
        /\ \A i, j \in 1..n : i # j => ToSet(s[i]) \cap ToSet(s[j]) = {}
        /\ Sound!Held \cap (ToSet(f) \cup ToSet(r)) = {}
        /\ \A i \in 1..n : Sound!Held \cap ToSet(s[i]) = {}
        /\ \A x \in Command : x \in Sound!Held \cup ToSet(f) \cup ToSet(r)
                                \/ \E i \in 1..n : x \in ToSet(s[i])
        /\ \A v, w \in Caller : v # w => held[v] = None \/ held[v] # held[w]
    BY DEF ApartOK
  <2>2. Sound!Held' = Sound!Held /\ ToSet(<<>>) = {}
    BY HeldKept DEF ToSet
  <2>3. \A i \in 1..n + 1 : ToSet(u[i]) \cap (ToSet(f) \cup ToSet(<<>>)) = {}
                            /\ Sound!Held' \cap ToSet(u[i]) = {}
    BY <1>4, <2>1, <2>2
  <2>4. \A i, j \in 1..n + 1 : i # j => ToSet(u[i]) \cap ToSet(u[j]) = {}
    BY ZenonT(40), <1>4, <2>1
  <2>5. \A x \in Command : x \in Sound!Held' \cup ToSet(f) \cup ToSet(<<>>)
                             \/ \E i \in 1..n + 1 : x \in ToSet(u[i])
    BY <1>4, <2>1, <2>2
  <2>6. ToSet(f) \cap ToSet(<<>>) = {} /\ Sound!Held' \cap (ToSet(f) \cup ToSet(<<>>)) = {}
    BY <2>1, <2>2
  <2>7. \A v, w \in Caller : v # w => held'[v] = None \/ held'[v] # held'[w]
    BY <2>1
  <2> QED BY <1>2, <2>3, <2>4, <2>5, <2>6, <2>7 DEF ApartOK
<1> QED BY <1>6, <1>7 DEF u

\* One more list is under way, behind all others.
LEMMA SendTags ==
  ASSUME SoundAssumption, NEW s, NEW u, NEW n, NEW d, n = waitingCount, n < Depth,
         \A i \in 1..n : u[i] = s[i], CoreTypes, TagsOK(s, d), Sound!Send, reserveList # None,
         UNCHANGED <<mesgQueue, working, command_p, finishCommandTag>>
  PROVE  /\ \A i \in 1..n : Sound!Waiting'[i] = Sound!Waiting[i]
         /\ Sound!Waiting'[n + 1] = reserveList
         /\ waitingCount' \in 0..Depth /\ currentTag' \in 0..TagRange - 1
         /\ ringWrite' \in 0..Depth /\ ring' \in [0..Depth -> Command \cup {None}]
         /\ fifo' \in Seq(Command \cup {None}) /\ Len(fifo') <= FifoDepth
         /\ TagsOK(u, d)'
<1> DEFINE N == TagRange
<1>1. /\ N \in Nat \ {0} /\ Depth \in Nat \ {0} /\ Depth + 1 <= N - 1 /\ FifoDepth \in Nat
      /\ None \notin Command
  <2>1. TagRange \div 2 \in Nat /\ TagRange \div 2 <= TagRange
    BY DEF SoundAssumption
  <2> QED BY <2>1 DEF SoundAssumption
<1>2. /\ Len(fifo) # FifoDepth /\ fifo' = Append(fifo, reserveList)
      /\ ring' = [ring EXCEPT ![ringWrite] = reserveList]
      /\ ringWrite' = Sound!Follow(ringWrite) /\ waitingCount' = waitingCount + 1
      /\ currentTag' = (currentTag + 1) % N
      /\ ringRead' = ringRead /\ finishedTag' = finishedTag
      /\ mesgQueue' = mesgQueue /\ working' = working /\ command_p' = command_p
      /\ finishCommandTag' = finishCommandTag
  BY DEF Sound!Send, Sound!Inc, Sound!Full
<1>3. /\ finishedTag \in 0..N - 1 /\ d \in 0..n /\ n \in 0..Depth - 1
      /\ finishCommandTag = (finishedTag + d) % N
      /\ currentTag = (finishedTag + (n + 1)) % N
      /\ ringWrite = (ringRead + waitingCount) % (Depth + 1)
      /\ reserveList \in Command
      /\ fifo \in Seq(Command \cup {None}) /\ Len(fifo) <= FifoDepth
      /\ ring \in [0..Depth -> Command \cup {None}]
  BY <1>1 DEF CoreTypes, TagsOK
<1>4. /\ ringWrite' \in 0..Depth
      /\ ringWrite' = (ringRead' + waitingCount') % (Depth + 1)
      /\ \A i \in 1..n : Sound!Waiting'[i] = Sound!Waiting[i]
      /\ Sound!Waiting'[n + 1] = reserveList
  BY <1>2, <1>3, WaitingAfterSend
<1>5. /\ waitingCount' \in 0..Depth
      /\ ring' \in [0..Depth -> Command \cup {None}]
      /\ fifo' \in Seq(Command \cup {None}) /\ Len(fifo') = Len(fifo) + 1 /\ Len(fifo') <= FifoDepth
      /\ \A i \in 1..Len(fifo) : fifo'[i] = fifo[i]
      /\ fifo'[Len(fifo) + 1] = reserveList
  <2>1. waitingCount' \in 0..Depth
    BY <1>1, <1>2, <1>3
  <2>2. ring' \in [0..Depth -> Command \cup {None}]
    BY <1>2, <1>3
  <2>3. Len(fifo) \in Nat /\ Len(fifo) + 1 <= FifoDepth
    BY <1>1, <1>2, <1>3
  <2>4. fifo' \in Seq(Command \cup {None}) /\ Len(fifo') = Len(fifo) + 1
        /\ fifo'[Len(fifo) + 1] = reserveList
    BY <1>2, <1>3
  <2>5. \A i \in 1..Len(fifo) : fifo'[i] = fifo[i]
    BY <1>2, <1>3
  <2> QED BY <2>1, <2>2, <2>3, <2>4, <2>5
<1>6. /\ currentTag' \in 0..N - 1
      /\ currentTag' = (finishedTag' + (waitingCount' + 1)) % N
  <2>1. n + 1 \in 0..N - 1 /\ waitingCount' = n + 1 /\ (n + 1) + 1 \in 0..N
    BY <1>1, <1>2, <1>3
  <2>2. (((finishedTag + (n + 1)) % N) + 1) % N = (finishedTag + ((n + 1) + 1)) % N
    BY <1>1, <1>3, <2>1, TurnedTwice
  <2>3. (finishedTag + ((n + 1) + 1)) % N \in 0..N - 1
    BY <1>1, <1>3, <2>1, Turned
  <2> QED BY <1>2, <1>3, <2>1, <2>2, <2>3
<1> DEFINE w == One(working)
           m == Len(mesgQueue)
           l == Later(fifo, 1, Command)
<1>7. /\ w \in {0, 1} /\ m \in Nat /\ l \in Nat /\ Len(fifo) \in Nat
      /\ \A i \in 1..Len(fifo) :
           /\ Later(fifo, i, Command) \in Nat
           /\ Later(fifo, i, Command) <= l
           /\ fifo[i] # None => fifo[i] \in Command /\ Later(fifo, i, Command) >= 1
  BY CountsAre
<1>8. /\ d + w + m + l = n
      /\ \A i \in 1..m : mesgQueue[i] = Sound!Waiting[d + w + i]
      /\ \A i \in 1..Len(fifo) : fifo[i] # None =>
           fifo[i] = Sound!Waiting[n + 1 - Later(fifo, i, Command)]
      /\ working /\ command_p # None => command_p \in ToSet(s[d + 1])
      /\ ~working => command_p = None
  BY DEF TagsOK
<1>9. \A i \in 1..Len(fifo) + 1 : Later(fifo', i, Command) = Later(fifo, i, Command) + 1
  <2>1. /\ fifo \in Seq(Command \cup {None}) /\ reserveList \in Command \cup {None}
        /\ One(reserveList \in Command) = 1
    BY <1>3 DEF One
  <2>2. \A i \in 1..Len(fifo) + 1 :
          Later(Append(fifo, reserveList), i, Command)
            = Later(fifo, i, Command) + One(reserveList \in Command)
    BY <2>1, LaterAppended
  <2>3. fifo' = Append(fifo, reserveList)
    BY <1>2
  <2> QED BY <2>1, <2>2, <2>3
<1>10. Later(fifo, Len(fifo) + 1, Command) = 0
  <2>1. Len(fifo) + 1 \in Nat /\ \A i \in Len(fifo) + 1..Len(fifo) : fifo[i] \notin Command
    BY <1>7
  <2> QED BY <1>3, <2>1, LaterIsCount
<1>11. One(working)' = w /\ Len(mesgQueue)' = m /\ Later(fifo, 1, Command)' = l + 1
  <2>1. 1 \in 1..Len(fifo) + 1
    BY <1>7
  <2> QED BY <1>2, <1>9, <2>1
<1>12. working => w = 1
  BY DEF One
<1> HIDE DEF w, m, l
<1>13. ASSUME NEW i \in 1..m PROVE mesgQueue[i] = Sound!Waiting'[d + w + i]
  <2>1. d + w + i \in 1..n
    BY <1>3, <1>7, <1>8
  <2> QED BY <1>4, <1>8, <2>1
<1>14. ASSUME NEW i \in 1..Len(fifo) + 1, fifo'[i] # None
       PROVE  fifo'[i] = Sound!Waiting'[(n + 1) + 1 - Later(fifo', i, Command)]
  <2>1. CASE i = Len(fifo) + 1
    <3>1. Later(fifo', i, Command) = 1 /\ (n + 1) + 1 - 1 = n + 1
      BY <1>3, <1>9, <1>10, <2>1
    <3> QED BY <1>4, <1>5, <2>1, <3>1
  <2>2. CASE i # Len(fifo) + 1
    <3> DEFINE k == Later(fifo, i, Command)
               j == Later(fifo', i, Command)
    <3>1. i \in 1..Len(fifo)
      BY <1>7, <2>2
    <3>2. k \in Nat /\ k >= 1 /\ k <= l /\ fifo[i] = Sound!Waiting[n + 1 - k] /\ fifo'[i] = fifo[i]
      BY <1>5, <1>7, <1>8, <1>14, <3>1
    <3>3. j = k + 1
      BY <1>9
    <3> HIDE DEF k, j
    <3>4. n + 1 - k \in 1..n /\ (n + 1) + 1 - j = n + 1 - k
      BY <1>3, <1>7, <1>8, <3>2, <3>3
    <3>5. fifo'[i] = Sound!Waiting'[(n + 1) + 1 - j]
      BY <1>4, <3>2, <3>4
    <3> QED BY <3>5 DEF j
  <2> QED BY <2>1, <2>2
<1>15. ASSUME working, command_p # None PROVE command_p \in ToSet(u[d + 1])
  <2>1. d + 1 \in 1..n
    BY <1>3, <1>7, <1>8, <1>12, <1>15
  <2>2. u[d + 1] = s[d + 1]
    BY <2>1
  <2> QED BY <1>8, <1>15, <2>2
<1>16. TagsOK(u, d)'
  <2>1. /\ d \in 0..waitingCount' /\ waitingCount' = n + 1
        /\ d + w + m + (l + 1) = waitingCount' /\ Len(fifo') = Len(fifo) + 1
    <3>1. waitingCount' = n + 1 /\ Len(fifo') = Len(fifo) + 1
      BY <1>2, <1>5
    <3>2. d \in 0..n + 1 /\ d + w + m + (l + 1) = n + 1
      BY <1>3, <1>7, <1>8
    <3> QED BY <3>1, <3>2
  <2> QED BY SMTT(40), <1>2, <1>3, <1>4, <1>6, <1>8, <1>11, <1>13, <1>14, <1>15, <2>1 DEF TagsOK
<1> QED BY <1>4, <1>5, <1>6, <1>16

\* The reserved list that is sent is one list more for the tags.
LEMMA SendKeeps ==
  ASSUME SoundAssumption, CoreInv, Sound!Send, reserveList # None, waitingCount < Depth,
         UNCHANGED <<mesgQueue, working, command_p, finishCommandTag, held>>
  PROVE  CoreInv'
<1>1. PICK f, r, s, d : CoreOK(f, r, s, d)
  BY DEF CoreInv
<1> SUFFICES ASSUME NEW n, n = waitingCount PROVE CoreInv'
  OBVIOUS
<1> DEFINE u == [i \in 1..n + 1 |-> IF i = n + 1 THEN r ELSE s[i]]
<1>2. CoreTypes /\ ChainsOK(f, r, s) /\ ApartOK(f, r, s) /\ TagsOK(s, d)
  BY <1>1 DEF CoreOK
<1>3. /\ \A i \in 1..n : Sound!Waiting'[i] = Sound!Waiting[i]
      /\ Sound!Waiting'[n + 1] = reserveList
      /\ waitingCount' \in 0..Depth /\ currentTag' \in 0..TagRange - 1
      /\ ringWrite' \in 0..Depth /\ ring' \in [0..Depth -> Command \cup {None}]
      /\ fifo' \in Seq(Command \cup {None}) /\ Len(fifo') <= FifoDepth
      /\ TagsOK(u, d)'
  <2>1. n < Depth /\ CoreTypes /\ TagsOK(s, d)
    BY <1>2
  <2>2. \A i \in 1..n : u[i] = s[i]
    <3>1. n \in Nat
      BY <1>2 DEF CoreTypes, SoundAssumption
    <3>2. \A i \in 1..n : i \in 1..n + 1 /\ i # n + 1
      BY <3>1
    <3> QED BY <3>2
  <2> HIDE DEF u
  <2> QED BY <2>1, <2>2, SendTags
<1>4. ChainsOK(f, <<>>, u)' /\ ApartOK(f, <<>>, u)'
  BY <1>2, <1>3, SendLists
<1>5. CoreTypes'
  BY <1>2, <1>3 DEF CoreTypes, Sound!Send
<1> QED BY <1>3, <1>4, <1>5 DEF CoreInv, CoreOK

\* What moves words or executes commands leaves the lists as they are.
LEMMA ListsKept ==
  ASSUME NEW f, NEW r, NEW s, ChainsOK(f, r, s), ApartOK(f, r, s),
         UNCHANGED <<next, freeList, freeListEnd, reserveList, reserveListEnd>>,
         UNCHANGED <<ring, ringRead, waitingCount, held>>
  PROVE  ChainsOK(f, r, s)' /\ ApartOK(f, r, s)'
<1>1. Sound!Waiting' = Sound!Waiting /\ Sound!Held' = Sound!Held
  BY DEF Sound!Waiting, Sound!Held
<1>2. ChainsOK(f, r, s)'
  BY <1>1 DEF ChainsOK, IsChain
<1>3. ApartOK(f, r, s)'
  BY <1>1 DEF ApartOK
<1> QED BY <1>2, <1>3

\* A word that is no list wakes the ARM7.
LEMMA RequestKeeps ==
  ASSUME SoundAssumption, CoreInv, ~Sound!Full, fifo' = Append(fifo, None),
         UNCHANGED <<Sound!lists, Sound!waiting, Sound!arm7, held>>
  PROVE  CoreInv'
<1>1. PICK f, r, s, d : CoreOK(f, r, s, d)
  BY DEF CoreInv
<1>2. CoreTypes /\ ChainsOK(f, r, s) /\ ApartOK(f, r, s) /\ TagsOK(s, d)
  BY <1>1 DEF CoreOK
<1>3. /\ UNCHANGED <<next, freeList, freeListEnd, reserveList, reserveListEnd>>
      /\ UNCHANGED <<ring, ringRead, waitingCount, held>>
      /\ UNCHANGED <<ringWrite, currentTag, finishedTag>>
      /\ UNCHANGED <<mesgQueue, working, command_p, finishCommandTag>>
  BY DEF Sound!lists, Sound!waiting, Sound!arm7
<1>4. ChainsOK(f, r, s)' /\ ApartOK(f, r, s)'
  BY <1>2, <1>3, ListsKept
<1>5. /\ fifo \in Seq(Command \cup {None}) /\ Len(fifo) <= FifoDepth /\ Len(fifo) # FifoDepth
      /\ FifoDepth \in Nat /\ None \notin Command
  BY <1>2 DEF CoreTypes, SoundAssumption, Sound!Full
<1>6. /\ fifo' \in Seq(Command \cup {None}) /\ Len(fifo') = Len(fifo) + 1 /\ Len(fifo') <= FifoDepth
      /\ \A i \in 1..Len(fifo) : fifo'[i] = fifo[i]
      /\ fifo'[Len(fifo) + 1] = None
  <2>1. Len(fifo) + 1 <= FifoDepth
    BY <1>5
  <2>2. fifo' \in Seq(Command \cup {None}) /\ Len(fifo') = Len(fifo) + 1
        /\ fifo'[Len(fifo) + 1] = None
    BY <1>5
  <2>3. \A i \in 1..Len(fifo) : fifo'[i] = fifo[i]
    BY <1>5
  <2> QED BY <2>1, <2>2, <2>3
<1>7. \A i \in 1..Len(fifo) + 1 : Later(fifo', i, Command) = Later(fifo, i, Command)
  <2>1. \A i \in 1..Len(fifo) + 1 : Later(fifo, i, Command) \in Nat
    BY <1>5, LaterIsCount
  <2>2. None \in Command \cup {None} /\ One(None \in Command) = 0
    BY <1>5 DEF One
  <2>3. \A i \in 1..Len(fifo) + 1 : Later(fifo', i, Command) = Later(fifo, i, Command) + 0
    BY <1>5, <2>2, LaterAppended
  <2> QED BY <2>1, <2>3
<1>8. CoreTypes'
  BY <1>2, <1>3, <1>6 DEF CoreTypes
<1>9. TagsOK(s, d)'
  <2>1. /\ Sound!Waiting' = Sound!Waiting /\ One(working)' = One(working)
        /\ Len(mesgQueue)' = Len(mesgQueue)
    BY <1>3 DEF Sound!Waiting
  <2>2. 1 \in 1..Len(fifo) + 1 /\ \A i \in 1..Len(fifo) + 1 : i \in 1..Len(fifo) \/ i = Len(fifo) + 1
    BY <1>5
  <2>3. \A i \in 1..Len(fifo) : fifo[i] # None =>
          fifo[i] = Sound!Waiting[waitingCount + 1 - Later(fifo, i, Command)]
    BY <1>2 DEF TagsOK
  <2>4. ASSUME NEW i \in 1..Len(fifo'), fifo'[i] # None
        PROVE  fifo'[i] = Sound!Waiting'[waitingCount' + 1 - Later(fifo', i, Command)]
    BY <1>3, <1>6, <1>7, <2>1, <2>2, <2>3, <2>4
  <2>5. Later(fifo, 1, Command)' = Later(fifo, 1, Command)
    BY <1>7, <2>2
  <2> QED BY <1>2, <1>3, <2>1, <2>4, <2>5 DEF TagsOK
<1> QED BY <1>4, <1>8, <1>9 DEF CoreInv, CoreOK

\* A word arrives at the ARM7, which queues a list.
LEMMA PxiKeeps == ASSUME SoundAssumption, CoreInv, Sound!PxiFifoCallback PROVE CoreInv'
<1>1. PICK f, r, s, d : CoreOK(f, r, s, d)
  BY DEF CoreInv
<1> SUFFICES ASSUME NEW n, n = waitingCount PROVE CoreInv'
  OBVIOUS
<1>2. CoreTypes /\ ChainsOK(f, r, s) /\ ApartOK(f, r, s) /\ TagsOK(s, d)
  BY <1>1 DEF CoreOK
<1>3. /\ UNCHANGED <<next, freeList, freeListEnd, reserveList, reserveListEnd>>
      /\ UNCHANGED <<ring, ringRead, waitingCount, held>>
      /\ UNCHANGED <<ringWrite, currentTag, finishedTag>>
      /\ UNCHANGED <<working, command_p, finishCommandTag>>
      /\ fifo # <<>> /\ fifo' = Tail(fifo)
      /\ mesgQueue' = IF Head(fifo) = None \/ Len(mesgQueue) >= Depth
                      THEN mesgQueue ELSE Append(mesgQueue, Head(fifo))
  BY DEF Sound!PxiFifoCallback, Sound!lists, Sound!waiting
<1>4. ChainsOK(f, r, s)' /\ ApartOK(f, r, s)'
  BY <1>2, <1>3, ListsKept
<1>5. /\ fifo \in Seq(Command \cup {None}) /\ Len(fifo) <= FifoDepth
      /\ mesgQueue \in Seq(Command) /\ Depth \in Nat
      /\ FifoDepth \in Nat /\ None \notin Command
  BY <1>2 DEF CoreTypes, SoundAssumption
<1>6. /\ fifo' \in Seq(Command \cup {None}) /\ Len(fifo') = Len(fifo) - 1 /\ Len(fifo') <= FifoDepth
      /\ \A i \in 1..Len(fifo) - 1 : fifo'[i] = fifo[i + 1]
      /\ Head(fifo) = fifo[1] /\ fifo[1] \in Command \cup {None} /\ Len(fifo) \in Nat \ {0}
  <2>1. fifo' \in Seq(Command \cup {None}) /\ Len(fifo') = Len(fifo) - 1
    BY <1>3, <1>5
  <2>2. \A i \in 1..Len(fifo) - 1 : fifo'[i] = fifo[i + 1]
    BY <1>3, <1>5
  <2>3. Head(fifo) = fifo[1] /\ fifo[1] \in Command \cup {None} /\ Len(fifo) \in Nat \ {0}
    BY <1>3, <1>5
  <2>4. Len(fifo') <= FifoDepth
    BY <1>5, <2>1, <2>3
  <2> QED BY <2>1, <2>2, <2>3, <2>4
<1> DEFINE w == One(working)
           m == Len(mesgQueue)
           l == Later(fifo, 1, Command)
           x == fifo[1]
<1>7. \A i \in 1..Len(fifo) : Later(fifo', i, Command) = Later(fifo, i + 1, Command)
  BY <1>3, <1>5, LaterOfTail
<1>8. l = Later(fifo', 1, Command) + One(x \in Command) /\ Later(fifo', 1, Command) \in Nat
  <2>1. 1 \in 1..Len(fifo) /\ 1 + 1 = 2
    BY <1>6
  <2>2. l = Later(fifo, 1 + 1, Command) + One(x \in Command)
    BY <1>5, <2>1, LaterOfHead
  <2>3. Later(fifo', 1, Command) \in Nat
    BY <1>6, LaterIsCount
  <2> QED BY <1>7, <2>1, <2>2, <2>3
<1>9. /\ w \in {0, 1} /\ m \in Nat /\ l \in Nat /\ n \in 0..Depth /\ d \in 0..n
  BY <1>2, CountsAre DEF CoreTypes, TagsOK
<1>10. /\ d + w + m + l = n
       /\ \A i \in 1..m : mesgQueue[i] = Sound!Waiting[d + w + i]
       /\ \A i \in 1..Len(fifo) : fifo[i] # None =>
            fifo[i] = Sound!Waiting[n + 1 - Later(fifo, i, Command)]
  BY <1>2 DEF TagsOK
<1>11. Sound!Waiting' = Sound!Waiting /\ One(working)' = w
  BY <1>3 DEF Sound!Waiting
<1>12. ASSUME NEW i \in 1..Len(fifo'), fifo'[i] # None
       PROVE  fifo'[i] = Sound!Waiting'[waitingCount' + 1 - Later(fifo', i, Command)]
  <2>1. i \in 1..Len(fifo) - 1 /\ i \in 1..Len(fifo) /\ i + 1 \in 1..Len(fifo)
    BY <1>6
  <2> QED BY <1>3, <1>6, <1>7, <1>10, <1>11, <1>12, <2>1
<1> HIDE DEF w, m, l, x
<1>13. /\ mesgQueue' \in Seq(Command) /\ Len(mesgQueue') <= Depth
       /\ d + w + Len(mesgQueue') + Later(fifo', 1, Command) = n
       /\ \A i \in 1..Len(mesgQueue') : mesgQueue'[i] = Sound!Waiting[d + w + i]
  <2>1. CASE x = None
    <3>1. One(x \in Command) = 0
      BY <1>5, <2>1 DEF One
    <3>2. mesgQueue' = mesgQueue
      BY <1>3, <1>6, <2>1 DEF x
    <3>3. Later(fifo', 1, Command) = l
      BY <1>8, <1>9, <3>1
    <3>4. m <= Depth /\ mesgQueue \in Seq(Command)
      BY <1>2 DEF CoreTypes, m
    <3> QED BY <1>10, <3>2, <3>3, <3>4 DEF m
  <2>2. CASE x # None
    <3>1. x \in Command /\ One(x \in Command) = 1
      BY <1>6, <2>2 DEF One, x
    <3>2. l = Later(fifo', 1, Command) + 1
      BY <1>8, <3>1
    <3>3. m < Depth /\ n + 1 - l = d + w + (m + 1)
      <4>1. Depth \in Nat /\ d + w + m + l = n
        BY <1>5, <1>10
      <4> QED BY <1>8, <1>9, <3>2, <4>1
    <3>4. mesgQueue' = Append(mesgQueue, x)
      BY <1>3, <1>5, <1>6, <1>9, <2>2, <3>3 DEF m, x
    <3>5. /\ mesgQueue' \in Seq(Command) /\ Len(mesgQueue') = m + 1
          /\ mesgQueue'[m + 1] = x /\ \A i \in 1..m : mesgQueue'[i] = mesgQueue[i]
      <4>1. mesgQueue' \in Seq(Command) /\ Len(mesgQueue') = m + 1 /\ mesgQueue'[m + 1] = x
        BY <1>5, <3>1, <3>4 DEF m
      <4>2. \A i \in 1..m : mesgQueue'[i] = mesgQueue[i]
        BY <1>5, <3>4 DEF m
      <4> QED BY <4>1, <4>2
    <3>6. x = Sound!Waiting[d + w + (m + 1)]
      <4>1. 1 \in 1..Len(fifo)
        BY <1>6
      <4>2. x = Sound!Waiting[n + 1 - l]
        BY <1>10, <2>2, <4>1 DEF x, l
      <4> QED BY <3>3, <4>2
    <3>7. m + 1 <= Depth /\ d + w + (m + 1) + Later(fifo', 1, Command) = n
      <4>1. Depth \in Nat /\ d + w + m + l = n
        BY <1>5, <1>10
      <4> QED BY <1>8, <1>9, <3>2, <3>3, <4>1
    <3>8. \A i \in 1..m + 1 : i \in 1..m \/ i = m + 1
      BY <1>9
    <3> QED BY <1>10, <3>5, <3>6, <3>7, <3>8
  <2> QED BY <2>1, <2>2
<1>14. CoreTypes'
  BY <1>2, <1>3, <1>6, <1>13 DEF CoreTypes
<1>15. TagsOK(s, d)'
  BY <1>2, <1>3, <1>11, <1>12, <1>13 DEF TagsOK
<1> QED BY <1>4, <1>14, <1>15 DEF CoreInv, CoreOK

\* The ARM7's thread takes the next list ...
LEMMA ReceiveKeeps == ASSUME SoundAssumption, CoreInv, Sound!CommandProc_Receive PROVE CoreInv'
<1>1. PICK f, r, s, d : CoreOK(f, r, s, d)
  BY DEF CoreInv
<1>2. CoreTypes /\ ChainsOK(f, r, s) /\ ApartOK(f, r, s) /\ TagsOK(s, d)
  BY <1>1 DEF CoreOK
<1>3. /\ UNCHANGED <<next, freeList, freeListEnd, reserveList, reserveListEnd>>
      /\ UNCHANGED <<ring, ringRead, waitingCount, held>>
      /\ UNCHANGED <<ringWrite, currentTag, finishedTag>>
      /\ UNCHANGED <<fifo, finishCommandTag>>
      /\ ~working /\ mesgQueue # <<>> /\ working' = TRUE
      /\ command_p' = Head(mesgQueue) /\ mesgQueue' = Tail(mesgQueue)
  BY DEF Sound!CommandProc_Receive, Sound!lists, Sound!waiting
<1>4. ChainsOK(f, r, s)' /\ ApartOK(f, r, s)'
  BY <1>2, <1>3, ListsKept
<1> DEFINE m == Len(mesgQueue)
           l == Later(fifo, 1, Command)
           x == mesgQueue[1]
<1>5. mesgQueue \in Seq(Command) /\ m <= Depth /\ Depth \in Nat
  BY <1>2 DEF CoreTypes, SoundAssumption
<1>6. /\ mesgQueue' \in Seq(Command) /\ Len(mesgQueue') = m - 1 /\ m \in Nat \ {0}
      /\ \A i \in 1..m - 1 : mesgQueue'[i] = mesgQueue[i + 1]
      /\ command_p' = x /\ x \in Command
  <2>1. mesgQueue' \in Seq(Command) /\ Len(mesgQueue') = m - 1 /\ m \in Nat \ {0}
    BY <1>3, <1>5
  <2>2. \A i \in 1..m - 1 : mesgQueue'[i] = mesgQueue[i + 1]
    BY <1>3, <1>5
  <2>3. command_p' = x /\ x \in Command
    BY <1>3, <1>5
  <2> QED BY <2>1, <2>2, <2>3
<1>7. /\ l \in Nat /\ waitingCount \in Nat /\ d \in 0..waitingCount
      /\ One(working) = 0 /\ One(working)' = 1
  BY <1>2, <1>3, CountsAre DEF TagsOK, One
<1>8. /\ d + 0 + m + l = waitingCount
      /\ \A i \in 1..m : mesgQueue[i] = Sound!Waiting[d + 0 + i]
  BY <1>2, <1>7 DEF TagsOK
<1>9. Sound!Waiting' = Sound!Waiting /\ Later(fifo, 1, Command)' = l
      /\ \A i : Later(fifo, i, Command)' = Later(fifo, i, Command)
  BY <1>3 DEF Sound!Waiting
<1> HIDE DEF m, l, x
<1>10. x \in ToSet(s[d + 1])
  <2>1. 1 \in 1..m /\ d + 0 + 1 = d + 1 /\ d + 1 \in 1..waitingCount
    BY <1>6, <1>7, <1>8
  <2>2. x = Sound!Waiting[d + 1]
    BY <1>8, <2>1 DEF x
  <2> DEFINE v == s[d + 1]
  <2>3. v \in Seq(Command) /\ v # <<>> /\ Follows(next, x, v, None)
    BY <1>2, <2>1, <2>2 DEF ChainsOK
  <2> HIDE DEF v
  <2>4. x = v[1] /\ 1 \in DOMAIN v
    BY <2>3 DEF Follows
  <2> QED BY <2>4 DEF ToSet, v
<1>11. /\ d + 1 + (m - 1) + l = waitingCount /\ m - 1 <= Depth
       /\ \A i \in 1..m - 1 : i + 1 \in 1..m /\ d + 0 + (i + 1) = d + 1 + i
  BY <1>5, <1>6, <1>7, <1>8
<1>12. \A i \in 1..m - 1 : mesgQueue'[i] = Sound!Waiting[d + 1 + i]
  BY <1>6, <1>8, <1>11
<1>13. CoreTypes'
  BY <1>2, <1>3, <1>6, <1>11 DEF CoreTypes
<1>14. TagsOK(s, d)'
  BY ZenonT(40), <1>2, <1>3, <1>6, <1>7, <1>9, <1>10, <1>11, <1>12 DEF TagsOK
<1> QED BY <1>4, <1>13, <1>14 DEF CoreInv, CoreOK

\* ... executes the commands of it one after the other ...
LEMMA ExecuteKeeps == ASSUME SoundAssumption, CoreInv, Sound!CommandProc_Execute PROVE CoreInv'
<1>1. PICK f, r, s, d : CoreOK(f, r, s, d)
  BY DEF CoreInv
<1>2. CoreTypes /\ ChainsOK(f, r, s) /\ ApartOK(f, r, s) /\ TagsOK(s, d)
  BY <1>1 DEF CoreOK
<1>3. /\ UNCHANGED <<next, freeList, freeListEnd, reserveList, reserveListEnd>>
      /\ UNCHANGED <<ring, ringRead, waitingCount, held>>
      /\ UNCHANGED <<ringWrite, currentTag, finishedTag>>
      /\ UNCHANGED <<fifo, finishCommandTag, mesgQueue, working>>
      /\ working /\ command_p # None /\ command_p' = next[command_p]
  BY DEF Sound!CommandProc_Execute, Sound!lists, Sound!waiting
<1>4. ChainsOK(f, r, s)' /\ ApartOK(f, r, s)'
  BY <1>2, <1>3, ListsKept
<1>5. command_p' = None \/ (command_p' \in ToSet(s[d + 1]) /\ command_p' \in Command)
  <2> DEFINE v == s[d + 1]
  <2>1. /\ d \in 0..waitingCount /\ waitingCount \in Nat /\ Len(mesgQueue) \in Nat
        /\ Later(fifo, 1, Command) \in Nat /\ One(working) = 1
        /\ d + One(working) + Len(mesgQueue) + Later(fifo, 1, Command) = waitingCount
    BY <1>2, <1>3, CountsAre DEF TagsOK, One
  <2>2. d + 1 \in 1..waitingCount
    BY <2>1
  <2>3. /\ v \in Seq(Command) /\ Follows(next, Sound!Waiting[d + 1], v, None)
        /\ command_p \in ToSet(v)
    BY <1>2, <1>3, <2>2 DEF ChainsOK, TagsOK
  <2> HIDE DEF v
  <2>4. PICK i \in 1..Len(v) : command_p = v[i]
    BY <2>3 DEF ToSet
  <2>5. next[command_p] = IF i = Len(v) THEN None ELSE v[i + 1]
    BY <2>3, <2>4 DEF Follows
  <2>6. i # Len(v) => i + 1 \in 1..Len(v) /\ v[i + 1] \in Command
    BY <2>3
  <2>7. i # Len(v) => v[i + 1] \in ToSet(v)
    BY <2>6 DEF ToSet
  <2>8. command_p' = next[command_p]
    BY <1>3
  <2>9. CASE i = Len(v)
    BY <2>5, <2>8, <2>9
  <2>10. CASE i # Len(v)
    <3>1. command_p' = v[i + 1]
      BY <2>5, <2>8, <2>10
    <3>2. command_p' \in ToSet(v) /\ command_p' \in Command
      BY <2>6, <2>7, <2>10, <3>1
    <3> QED BY <3>2 DEF v
  <2> QED BY <2>9, <2>10
<1>6. CoreTypes'
  BY <1>2, <1>3, <1>5 DEF CoreTypes
<1>7. Sound!Waiting' = Sound!Waiting
  BY <1>3 DEF Sound!Waiting
<1>8. TagsOK(s, d)'
  BY <1>2, <1>3, <1>5, <1>7 DEF TagsOK
<1> QED BY <1>4, <1>6, <1>8 DEF CoreInv, CoreOK

\* ... and counts it when there is none left.
LEMMA FinishKeeps == ASSUME SoundAssumption, CoreInv, Sound!CommandProc_Finish PROVE CoreInv'
<1>1. PICK f, r, s, d : CoreOK(f, r, s, d)
  BY DEF CoreInv
<1>2. CoreTypes /\ ChainsOK(f, r, s) /\ ApartOK(f, r, s) /\ TagsOK(s, d)
  BY <1>1 DEF CoreOK
<1>3. /\ UNCHANGED <<next, freeList, freeListEnd, reserveList, reserveListEnd>>
      /\ UNCHANGED <<ring, ringRead, waitingCount, held>>
      /\ UNCHANGED <<ringWrite, currentTag, finishedTag>>
      /\ UNCHANGED <<fifo, mesgQueue, command_p>>
      /\ working /\ command_p = None /\ working' = FALSE
      /\ finishCommandTag' = (finishCommandTag + 1) % TagRange
  BY DEF Sound!CommandProc_Finish, Sound!lists, Sound!waiting, Sound!Inc
<1>4. ChainsOK(f, r, s)' /\ ApartOK(f, r, s)'
  BY <1>2, <1>3, ListsKept
<1> DEFINE m == Len(mesgQueue)
           l == Later(fifo, 1, Command)
           N == TagRange
<1>5. /\ N \in Nat \ {0} /\ Depth + 1 <= N - 1 /\ Depth \in Nat
  <2>1. TagRange \div 2 \in Nat /\ TagRange \div 2 <= TagRange
    BY DEF SoundAssumption
  <2> QED BY <2>1 DEF SoundAssumption
<1>6. /\ d \in 0..waitingCount /\ waitingCount \in 0..Depth /\ m \in Nat /\ l \in Nat
      /\ d + 1 + m + l = waitingCount
      /\ \A i \in 1..m : mesgQueue[i] = Sound!Waiting[d + 1 + i]
      /\ One(working) = 1 /\ One(working)' = 0
      /\ finishCommandTag = (finishedTag + d) % N /\ finishedTag \in 0..N - 1
  BY <1>2, <1>3, CountsAre DEF TagsOK, One, CoreTypes
<1> HIDE DEF m, l
<1>7. /\ d + 1 \in 0..waitingCount /\ (d + 1) + 0 + m + l = waitingCount
      /\ \A i \in 1..m : (d + 1) + 0 + i = d + 1 + i
      /\ d \in 0..N - 1 /\ d + 1 \in 0..N
  BY <1>5, <1>6
<1>8. finishCommandTag' = (finishedTag + (d + 1)) % N /\ finishCommandTag' \in 0..N - 1
  <2>1. (((finishedTag + d) % N) + 1) % N = (finishedTag + (d + 1)) % N
    BY <1>5, <1>6, <1>7, TurnedTwice
  <2>2. (finishedTag + (d + 1)) % N \in 0..N - 1
    BY <1>5, <1>6, <1>7, Turned
  <2> QED BY <1>3, <1>6, <2>1, <2>2
<1>9. CoreTypes'
  BY <1>2, <1>3, <1>8 DEF CoreTypes
<1>10. Sound!Waiting' = Sound!Waiting /\ Later(fifo, 1, Command)' = l /\ Len(mesgQueue)' = m
       /\ \A i : Later(fifo, i, Command)' = Later(fifo, i, Command)
  BY <1>3 DEF Sound!Waiting, l, m
<1>11. \A i \in 1..m : mesgQueue[i] = Sound!Waiting[(d + 1) + 0 + i]
  BY <1>6, <1>7
<1>12. TagsOK(s, d + 1)'
  BY <1>2, <1>3, <1>6, <1>7, <1>8, <1>10, <1>11 DEF TagsOK
<1> QED BY <1>4, <1>9, <1>12 DEF CoreInv, CoreOK

\* What leaves the commands and the tags alone keeps what is said of them.
LEMMA CoreStutters ==
  ASSUME CoreInv, UNCHANGED <<Sound!lists, Sound!waiting, Sound!arm7, fifo, held>>
  PROVE  CoreInv'
<1>1. PICK f, r, s, d : CoreOK(f, r, s, d)
  BY DEF CoreInv
<1>2. CoreTypes /\ ChainsOK(f, r, s) /\ ApartOK(f, r, s) /\ TagsOK(s, d)
  BY <1>1 DEF CoreOK
<1>3. /\ UNCHANGED <<next, freeList, freeListEnd, reserveList, reserveListEnd>>
      /\ UNCHANGED <<ring, ringRead, waitingCount, held>>
      /\ UNCHANGED <<ring, ringRead, ringWrite, waitingCount, currentTag, finishedTag>>
      /\ UNCHANGED <<mesgQueue, working, command_p, finishCommandTag, fifo>>
  BY DEF Sound!lists, Sound!waiting, Sound!arm7
<1>4. ChainsOK(f, r, s)' /\ ApartOK(f, r, s)'
  BY <1>2, <1>3, ListsKept
<1>5. TagsOK(s, d)'
  BY <1>2, <1>3, TagsKept
<1>6. CoreTypes'
  BY <1>2, <1>3 DEF CoreTypes
<1> QED BY <1>4, <1>5, <1>6 DEF CoreInv, CoreOK

\* The commands of a list are counted.
LEMMA CountsFree == ASSUME SoundAssumption, CoreInv PROVE Sound!CountFree \in Nat
<1>1. PICK f, r, s, d : CoreOK(f, r, s, d)
  BY DEF CoreInv
<1>2. f \in Seq(Command) /\ EachOnce(f) /\ Follows(next, freeList, f, None)
  BY <1>1 DEF CoreOK, ChainsOK, IsChain
<1>3. Sound!Path(next, freeList) = f
  BY <1>2, PathFound
<1> QED BY <1>2, <1>3 DEF Sound!CountFree

\* The calls a thread may be in.
Calls == [op : Sound!Ops, at : Sound!Places, arg : Nat, n : Nat]

\* A thread that has no command of its own begins a call or goes on with one,
LEMMA CallChanges ==
  ASSUME CallsOK, NEW t \in Caller, NEW c \in Calls, soundCall' = [soundCall EXCEPT ![t] = c],
         c.op # "none" => held'[t] = None,
         \A u \in Caller : u # t => held'[u] = held[u],
         irqOff' \in Caller \cup {None}
  PROVE  CallsOK'
<1>1. /\ soundCall \in [Caller -> Calls]
      /\ \A u \in Caller : soundCall[u].op # "none" => held[u] = None
  BY DEF CallsOK, Calls
<1>2. soundCall' \in [Caller -> Calls] /\ \A u \in Caller : soundCall'[u] = IF u = t THEN c ELSE soundCall[u]
  BY <1>1
<1>3. \A u \in Caller : soundCall'[u].op # "none" => held'[u] = None
  BY <1>1, <1>2
<1> QED BY <1>2, <1>3 DEF CallsOK, Calls

\* or is at another place of it,
LEMMA GotoKeeps ==
  ASSUME CallsOK, NEW t \in Caller, NEW place \in Sound!Places, Sound!Goto(t, place),
         held' = held, irqOff' \in Caller \cup {None}
  PROVE  CallsOK'
<1> DEFINE c == [soundCall[t] EXCEPT !.at = place]
<1>1. soundCall' = [soundCall EXCEPT ![t] = c]
  BY DEF Sound!Goto
<1>2. soundCall[t] \in Calls /\ (soundCall[t].op # "none" => held[t] = None)
  BY DEF CallsOK, Calls
<1>3. c \in Calls /\ c.op = soundCall[t].op
  BY <1>2 DEF Calls
<1> HIDE DEF c
<1>4. c.op # "none" => held'[t] = None
  BY <1>2, <1>3
<1> QED BY <1>1, <1>3, <1>4, CallChanges

\* or returns.
LEMMA ReturnKeeps ==
  ASSUME CallsOK, NEW t \in Caller, Sound!Return(t),
         \A u \in Caller : u # t => held'[u] = held[u], irqOff' \in Caller \cup {None}
  PROVE  CallsOK'
<1> DEFINE c == Sound!Idle
<1>1. soundCall' = [soundCall EXCEPT ![t] = c] /\ c \in Calls /\ c.op = "none"
  BY DEF Sound!Return, Sound!Idle, Calls, Sound!Ops, Sound!Places
<1> HIDE DEF c
<1> QED BY <1>1, CallChanges

\* Neither changes what the calls do not touch.
LEMMA CallsStutter == ASSUME CallsOK, UNCHANGED <<soundCall, irqOff, held>> PROVE CallsOK'
BY DEF CallsOK

-----------------------------------------------------------------------------
\* A call that takes a command keeps the invariant,
LEMMA AllocStep ==
  ASSUME SoundAssumption, SoundInv, NEW t \in Caller, NEW block, Sound!SND_AllocCommand(t, block)
  PROVE  SoundInv'
<1>1. CallsOK /\ CoreInv /\ held[t] = None /\ soundCall[t].op = "none" /\ irqOff' = irqOff
      /\ irqOff \in Caller \cup {None} /\ held \in [Caller -> Command \cup {None}]
  BY DEF SoundInv, Sound!SND_AllocCommand, Sound!IsIdle, CallsOK, CoreInv, CoreOK, CoreTypes
<1>2. UNCHANGED <<Sound!waiting, Sound!arm7, fifo, irqOff>>
  BY DEF Sound!SND_AllocCommand
<1>3. CASE Sound!AllocCommand(t) /\ UNCHANGED soundCall
  <2>1. CoreInv'
    BY <1>1, <1>2, <1>3, AllocKeeps DEF Sound!waiting, Sound!arm7
  <2>2. \A u \in Caller : u # t => held'[u] = held[u]
    BY <1>1, <1>3 DEF Sound!AllocCommand
  <2>3. CallsOK'
    BY <1>1, <1>3, <2>2 DEF CallsOK
  <2> QED BY <2>1, <2>3 DEF SoundInv
<1>4. CASE /\ soundCall' = [soundCall EXCEPT ![t] =
                              [op |-> "alloc", at |-> "count", arg |-> 1, n |-> 1]]
           /\ UNCHANGED <<Sound!lists, held>>
  <2> DEFINE c == [op |-> "alloc", at |-> "count", arg |-> 1, n |-> 1]
  <2>1. c \in Calls
    BY DEF Calls, Sound!Ops, Sound!Places
  <2>2. soundCall' = [soundCall EXCEPT ![t] = c]
    BY <1>4
  <2> HIDE DEF c
  <2>3. CallsOK'
    BY <1>1, <1>4, <2>1, <2>2, CallChanges
  <2>4. CoreInv'
    BY <1>1, <1>2, <1>4, CoreStutters
  <2> QED BY <2>3, <2>4 DEF SoundInv
<1> QED BY <1>3, <1>4 DEF Sound!SND_AllocCommand

\* so does a push,
LEMMA PushStep ==
  ASSUME SoundAssumption, SoundInv, NEW t \in Caller, Sound!SND_PushCommand(t)
  PROVE  SoundInv'
<1>1. CallsOK /\ CoreInv /\ held \in [Caller -> Command \cup {None}]
  BY DEF SoundInv, CoreInv, CoreOK, CoreTypes
<1>2. CoreInv'
  BY <1>1, PushKeeps
<1>3. held' = [held EXCEPT ![t] = None] /\ UNCHANGED <<soundCall, irqOff>>
  BY DEF Sound!SND_PushCommand
<1>4. CallsOK'
  BY <1>1, <1>3 DEF CallsOK
<1> QED BY <1>2, <1>4 DEF SoundInv

\* a look for a reply,
LEMMA RecvStep ==
  ASSUME SoundAssumption, SoundInv, NEW t \in Caller, Sound!SND_RecvCommandReply(t)
  PROVE  SoundInv'
<1>1. CallsOK /\ CoreInv /\ Sound!Recv /\ UNCHANGED <<Sound!arm7, fifo, held, soundCall, irqOff>>
  BY DEF SoundInv, Sound!SND_RecvCommandReply
<1>2. CoreInv'
  BY <1>1, RecvKeeps DEF Sound!arm7
<1>3. CallsOK'
  BY <1>1, CallsStutter
<1> QED BY <1>2, <1>3 DEF SoundInv

\* a flush that does not block,
LEMMA FlushStep ==
  ASSUME SoundAssumption, SoundInv, NEW t \in Caller, NEW immediate,
         Sound!SND_FlushCommand(t, immediate)
  PROVE  SoundInv'
<1>1. /\ CallsOK /\ CoreInv /\ held[t] = None /\ irqOff' = irqOff /\ held' = held
      /\ Sound!Send /\ reserveList # None /\ waitingCount < Depth
      /\ UNCHANGED Sound!arm7 /\ irqOff \in Caller \cup {None}
  BY DEF SoundInv, Sound!SND_FlushCommand, Sound!IsIdle, CallsOK
<1>2. CoreInv'
  BY <1>1, SendKeeps DEF Sound!arm7
<1>3. CallsOK'
  <2>1. CASE soundCall' = soundCall
    BY <1>1, <2>1, CallsStutter
  <2>2. CASE soundCall' # soundCall
    <3> DEFINE c == [Sound!Idle EXCEPT !.op = "immediate", !.at = "request"]
    <3>1. soundCall' = [soundCall EXCEPT ![t] = c]
      BY <2>2 DEF Sound!SND_FlushCommand
    <3>2. c \in Calls
      BY DEF Calls, Sound!Idle, Sound!Ops, Sound!Places
    <3> HIDE DEF c
    <3> QED BY <1>1, <3>1, <3>2, CallChanges
  <2> QED BY <2>1, <2>2
<1> QED BY <1>2, <1>3 DEF SoundInv

\* A call that only begins.
LEMMA OnlyBegins ==
  ASSUME SoundInv, NEW t \in Caller, NEW c \in Calls, Sound!IsIdle(t),
         soundCall' = [soundCall EXCEPT ![t] = c],
         UNCHANGED <<Sound!lists, Sound!waiting, Sound!arm7, fifo, held, irqOff>>
  PROVE  SoundInv'
<1>1. CallsOK /\ CoreInv /\ held[t] = None /\ irqOff \in Caller \cup {None}
  BY DEF SoundInv, Sound!IsIdle, CallsOK
<1>2. CoreInv'
  BY <1>1, CoreStutters
<1>3. CallsOK'
  BY <1>1, CallChanges
<1> QED BY <1>2, <1>3 DEF SoundInv

\* the begin of one that does,
LEMMA FlushBlockStep ==
  ASSUME SoundInv, NEW t \in Caller, NEW op \in {"flush", "immediate"},
         Sound!SND_FlushCommandBlock(t, op)
  PROVE  SoundInv'
<1> DEFINE c == [Sound!Idle EXCEPT !.op = op, !.at = "flush"]
<1>1. c \in Calls
  BY DEF Calls, Sound!Idle, Sound!Ops, Sound!Places
<1>2. /\ Sound!IsIdle(t) /\ soundCall' = [soundCall EXCEPT ![t] = c]
      /\ UNCHANGED <<Sound!lists, Sound!waiting, Sound!arm7, fifo, held, irqOff>>
  BY DEF Sound!SND_FlushCommandBlock
<1> HIDE DEF c
<1> QED BY <1>1, <1>2, OnlyBegins

\* of a wait for a tag,
LEMMA WaitForProcStep ==
  ASSUME SoundAssumption, SoundInv, NEW t \in Caller, NEW tag \in Sound!SentTags,
         Sound!SND_WaitForCommandProc(t, tag)
  PROVE  SoundInv'
<1> DEFINE c == [op |-> "wait", at |-> "drain", arg |-> tag, n |-> 0]
<1>1. tag \in Nat
  <2>1. /\ finishedTag \in 0..TagRange - 1 /\ waitingCount \in 0..Depth
        /\ TagRange \in Nat \ {0}
    <3>1. TagRange \div 2 \in Nat /\ TagRange \div 2 <= TagRange
      BY DEF SoundAssumption
    <3> QED BY <3>1 DEF SoundInv, CoreInv, CoreOK, CoreTypes, SoundAssumption
  <2>2. PICK i \in 1..waitingCount : tag = (finishedTag + i) % TagRange
    BY DEF Sound!SentTags
  <2>3. finishedTag + i \in Int
    BY <2>1
  <2>4. (finishedTag + i) % TagRange \in 0..TagRange - 1
    BY <2>1, <2>3
  <2> QED BY <2>1, <2>2, <2>4
<1>2. c \in Calls
  BY <1>1 DEF Calls, Sound!Ops, Sound!Places
<1>3. /\ Sound!IsIdle(t) /\ soundCall' = [soundCall EXCEPT ![t] = c]
      /\ UNCHANGED <<Sound!lists, Sound!waiting, Sound!arm7, fifo, held, irqOff>>
  BY DEF Sound!SND_WaitForCommandProc
<1> HIDE DEF c
<1> QED BY <1>2, <1>3, OnlyBegins

\* and of a wait for free commands.
LEMMA WaitForFreeStep ==
  ASSUME SoundAssumption, SoundInv, NEW t \in Caller, NEW count \in Nat,
         Sound!SND_WaitForFreeCommand(t, count)
  PROVE  SoundInv'
<1> DEFINE c == [op |-> "free", at |-> "count", arg |-> count, n |-> count - Sound!CountFree]
<1>1. count - Sound!CountFree \in Nat
  <2>1. Sound!CountFree \in Nat
    BY CountsFree DEF SoundInv
  <2>2. Sound!CountFree < count
    BY DEF Sound!SND_WaitForFreeCommand
  <2> QED BY <2>1, <2>2
<1>2. c \in Calls
  BY <1>1 DEF Calls, Sound!Ops, Sound!Places
<1>3. /\ Sound!IsIdle(t) /\ soundCall' = [soundCall EXCEPT ![t] = c]
      /\ UNCHANGED <<Sound!lists, Sound!waiting, Sound!arm7, fifo, held, irqOff>>
  BY DEF Sound!SND_WaitForFreeCommand
<1> HIDE DEF c
<1> QED BY <1>2, <1>3, OnlyBegins

\* A call that begins keeps the invariant.
LEMMA BeginStep ==
  ASSUME SoundAssumption, SoundInv, NEW t \in Caller, Sound!Begin(t) PROVE SoundInv'
<1>1. \A count \in 1..Sound!Cardinality(Command) : count \in Nat
  <2>1. Sound!Cardinality(Command) \in Nat
    BY SoundOperators, FS_CardinalityType DEF SoundAssumption
  <2> QED BY <2>1
<1> QED BY <1>1, AllocStep, PushStep, RecvStep, FlushStep, FlushBlockStep, WaitForProcStep,
           WaitForFreeStep DEF Sound!Begin

\* A call that only goes on.
LEMMA OnlyGoesOn ==
  ASSUME SoundInv, NEW t \in Caller, NEW place \in Sound!Places, Sound!Goto(t, place),
         UNCHANGED <<Sound!lists, Sound!waiting, Sound!arm7, fifo, held>>,
         irqOff' \in Caller \cup {None}
  PROVE  SoundInv'
<1>1. CallsOK /\ CoreInv
  BY DEF SoundInv
<1>2. CoreInv'
  BY <1>1, CoreStutters
<1>3. CallsOK'
  BY <1>1, GotoKeeps
<1> QED BY <1>2, <1>3 DEF SoundInv

\* A call that only returns.
LEMMA OnlyReturns ==
  ASSUME SoundInv, NEW t \in Caller, Sound!Return(t),
         UNCHANGED <<Sound!lists, Sound!waiting, Sound!arm7, fifo, held>>,
         irqOff' \in Caller \cup {None}
  PROVE  SoundInv'
<1>1. CallsOK /\ CoreInv
  BY DEF SoundInv
<1>2. CoreInv'
  BY <1>1, CoreStutters
<1>3. CallsOK'
  BY <1>1, ReturnKeeps
<1> QED BY <1>2, <1>3 DEF SoundInv

\* The places calls go to.
LEMMA PlacesAre ==
  /\ "count" \in Sound!Places /\ "reserved" \in Sound!Places /\ "drain" \in Sound!Places
  /\ "drained" \in Sound!Places /\ "flush" \in Sound!Places /\ "flushReply" \in Sound!Places
  /\ "flushSend" \in Sound!Places /\ "flushDrain" \in Sound!Places
  /\ "request" \in Sound!Places /\ "reply" \in Sound!Places /\ "again" \in Sound!Places
BY DEF Sound!Places

\* The count of the free commands keeps the invariant,
LEMMA CountFreeStep ==
  ASSUME SoundAssumption, SoundInv, NEW t \in Caller, Sound!CountFreeCommand(t) PROVE SoundInv'
<1> DEFINE c == [soundCall[t] EXCEPT !.at = "reserved", !.n = @ + Sound!CountFree]
<1>1. soundCall[t] \in Calls /\ (soundCall[t].op # "none" => held[t] = None)
      /\ irqOff \in Caller \cup {None} /\ CallsOK /\ CoreInv
  BY DEF SoundInv, CallsOK, Calls
<1>2. /\ soundCall' = [soundCall EXCEPT ![t] = c]
      /\ UNCHANGED <<Sound!lists, Sound!waiting, Sound!arm7, fifo, held, irqOff>>
  BY DEF Sound!CountFreeCommand
<1>3. Sound!CountFree \in Nat
  BY CountsFree DEF SoundInv
<1>4. c \in Calls /\ c.op = soundCall[t].op
  <2>1. soundCall[t].n + Sound!CountFree \in Nat
    BY <1>1, <1>3 DEF Calls
  <2> DEFINE k == soundCall[t].n + Sound!CountFree
  <2>2. c = [soundCall[t] EXCEPT !.at = "reserved", !.n = k]
    OBVIOUS
  <2> HIDE DEF c, k
  <2>3. k \in Nat
    BY <2>1 DEF k
  <2> QED BY <1>1, <2>2, <2>3, PlacesAre DEF Calls
<1> HIDE DEF c
<1>5. c.op # "none" => held'[t] = None
  BY <1>1, <1>2, <1>4
<1>6. CallsOK'
  BY <1>1, <1>2, <1>4, <1>5, CallChanges
<1>7. CoreInv'
  BY <1>1, <1>2, CoreStutters
<1> QED BY <1>6, <1>7 DEF SoundInv

\* so does that of the reserved ones.
LEMMA CountReservedStep ==
  ASSUME SoundAssumption, SoundInv, NEW t \in Caller, Sound!CountReservedCommand(t)
  PROVE  SoundInv'
<1> SUFFICES ASSUME NEW place \in {"drain", "flush"},
                    soundCall' = [soundCall EXCEPT ![t].at = place, ![t].n = 0]
             PROVE  SoundInv'
  BY DEF Sound!CountReservedCommand
<1> DEFINE c == [soundCall[t] EXCEPT !.at = place, !.n = 0]
<1>1. soundCall[t] \in Calls /\ (soundCall[t].op # "none" => held[t] = None)
      /\ irqOff \in Caller \cup {None} /\ CallsOK /\ CoreInv
  BY DEF SoundInv, CallsOK, Calls
<1>2. /\ soundCall' = [soundCall EXCEPT ![t] = c]
      /\ UNCHANGED <<Sound!lists, Sound!waiting, Sound!arm7, fifo, held, irqOff>>
  BY DEF Sound!CountReservedCommand
<1>3. c \in Calls /\ c.op = soundCall[t].op
  BY <1>1, PlacesAre DEF Calls
<1> HIDE DEF c
<1>4. c.op # "none" => held'[t] = None
  BY <1>1, <1>2, <1>3
<1>5. CallsOK'
  BY <1>1, <1>2, <1>3, <1>4, CallChanges
<1>6. CoreInv'
  BY <1>1, <1>2, CoreStutters
<1> QED BY <1>5, <1>6 DEF SoundInv

\* A call that takes back a list and goes on, if at all.
LEMMA RecvGoesOn ==
  ASSUME SoundAssumption, SoundInv, NEW t \in Caller, Sound!Recv,
         soundCall' = soundCall \/ \E place \in Sound!Places : Sound!Goto(t, place),
         UNCHANGED <<Sound!arm7, fifo, held, irqOff>>
  PROVE  SoundInv'
<1>1. CallsOK /\ CoreInv /\ irqOff \in Caller \cup {None}
  BY DEF SoundInv, CallsOK
<1>2. CoreInv'
  BY <1>1, RecvKeeps DEF Sound!arm7
<1>3. CallsOK'
  BY <1>1, GotoKeeps, CallsStutter
<1> QED BY <1>2, <1>3 DEF SoundInv

\* The loop over the replies that are there keeps it,
LEMMA DrainStep ==
  ASSUME SoundAssumption, SoundInv, NEW t \in Caller, Sound!Drain(t) PROVE SoundInv'
<1>1. UNCHANGED <<Sound!arm7, fifo, held, irqOff>> /\ irqOff \in Caller \cup {None}
  BY DEF Sound!Drain, SoundInv, CallsOK
<1>2. CASE Sound!Recv /\ UNCHANGED soundCall
  BY <1>1, <1>2, RecvGoesOn
<1>3. CASE Sound!Goto(t, "drained") /\ UNCHANGED <<Sound!lists, Sound!waiting>>
  BY <1>1, <1>3, OnlyGoesOn, PlacesAre
<1> QED BY <1>2, <1>3 DEF Sound!Drain

\* so do the test of what a call waits for,
LEMMA TestStep ==
  ASSUME SoundAssumption, SoundInv, NEW t \in Caller, Sound!Test(t) PROVE SoundInv'
<1>1. /\ UNCHANGED <<Sound!waiting, Sound!arm7, fifo, irqOff>> /\ irqOff \in Caller \cup {None}
      /\ CallsOK /\ CoreInv /\ held \in [Caller -> Command \cup {None}]
  BY DEF Sound!Test, SoundInv, CallsOK, CoreInv, CoreOK, CoreTypes
<1>2. CASE soundCall[t].op = "alloc" /\ Sound!Return(t) /\ Sound!AllocCommand(t)
  <2>1. held[t] = None
    BY <1>1, <1>2 DEF CallsOK
  <2>2. CoreInv'
    BY <1>1, <1>2, <2>1, AllocKeeps DEF Sound!waiting, Sound!arm7
  <2>3. \A u \in Caller : u # t => held'[u] = held[u]
    BY <1>1, <1>2 DEF Sound!AllocCommand
  <2>4. CallsOK'
    BY <1>1, <1>2, <2>3, ReturnKeeps
  <2> QED BY <2>2, <2>4 DEF SoundInv
<1>3. CASE Sound!Return(t) /\ UNCHANGED <<Sound!lists, held>>
  BY <1>1, <1>3, OnlyReturns
<1>4. CASE (\E place \in {"request", "reply"} : Sound!Goto(t, place)) /\ UNCHANGED <<Sound!lists, held>>
  BY <1>1, <1>4, OnlyGoesOn, PlacesAre
<1> QED BY <1>2, <1>3, <1>4 DEF Sound!Test

\* a request to the ARM7,
LEMMA RequestStep ==
  ASSUME SoundAssumption, SoundInv, NEW t \in Caller, Sound!RequestCommandProc(t)
  PROVE  SoundInv'
<1>1. /\ ~Sound!Full /\ fifo' = Append(fifo, None) /\ irqOff \in Caller \cup {None}
      /\ UNCHANGED <<Sound!lists, Sound!waiting, Sound!arm7, held, irqOff>>
      /\ CallsOK /\ CoreInv
  BY DEF Sound!RequestCommandProc, SoundInv, CallsOK
<1>2. CoreInv'
  BY <1>1, RequestKeeps
<1>3. Sound!Return(t) \/ Sound!Goto(t, "again") \/ Sound!Goto(t, "reply")
  BY DEF Sound!RequestCommandProc
<1>4. CallsOK'
  BY <1>1, <1>3, ReturnKeeps, GotoKeeps, PlacesAre
<1> QED BY <1>2, <1>4 DEF SoundInv

\* and a wait for a reply.
LEMMA ReplyStep ==
  ASSUME SoundAssumption, SoundInv, NEW t \in Caller, Sound!Reply(t) PROVE SoundInv'
BY RecvGoesOn, PlacesAre DEF Sound!Reply

\* A call that sends the reserved list, and returns or goes on.
LEMMA SendGoesOn ==
  ASSUME SoundAssumption, SoundInv, NEW t \in Caller, Sound!Send, Sound!FlushHasSent(t),
         reserveList # None, waitingCount < Depth, UNCHANGED <<Sound!arm7, held>>,
         irqOff' \in Caller \cup {None}
  PROVE  SoundInv'
<1>1. CallsOK /\ CoreInv
  BY DEF SoundInv
<1>2. CoreInv'
  BY <1>1, SendKeeps DEF Sound!arm7
<1>3. Sound!Return(t) \/ Sound!Goto(t, "request")
  BY DEF Sound!FlushHasSent
<1>4. CallsOK'
  BY <1>1, <1>3, ReturnKeeps, GotoKeeps, PlacesAre
<1> QED BY <1>2, <1>4 DEF SoundInv

\* A call that has nothing to send.
LEMMA FlushEnds ==
  ASSUME SoundInv, NEW t \in Caller, Sound!FlushReturns(t),
         UNCHANGED <<Sound!lists, Sound!waiting, Sound!arm7, fifo, held>>,
         irqOff' \in Caller \cup {None}
  PROVE  SoundInv'
<1>1. Sound!Return(t) \/ Sound!Goto(t, "request")
  BY DEF Sound!FlushReturns
<1> QED BY <1>1, OnlyReturns, OnlyGoesOn, PlacesAre

\* The first section of a flush keeps the invariant,
LEMMA FlushFirstStep ==
  ASSUME SoundAssumption, SoundInv, NEW t \in Caller, Sound!Flush(t) PROVE SoundInv'
<1>1. UNCHANGED <<Sound!arm7, held>> /\ irqOff \in Caller \cup {None}
  BY DEF Sound!Flush, SoundInv, CallsOK
<1>2. CASE Sound!FlushReturns(t) /\ UNCHANGED <<Sound!lists, Sound!waiting, fifo, irqOff>>
  BY <1>1, <1>2, FlushEnds
<1>3. CASE /\ Sound!Goto(t, "flushReply") /\ irqOff' = t
           /\ UNCHANGED <<Sound!lists, Sound!waiting, fifo>>
  BY <1>1, <1>3, OnlyGoesOn, PlacesAre
<1>4. CASE /\ reserveList # None /\ waitingCount < Depth /\ Sound!Send /\ Sound!FlushHasSent(t)
           /\ UNCHANGED irqOff
  BY <1>1, <1>4, SendGoesOn
<1>5. CASE /\ Sound!Goto(t, "flushDrain")
           /\ UNCHANGED <<Sound!lists, Sound!waiting, fifo, irqOff>>
  BY <1>1, <1>5, OnlyGoesOn, PlacesAre
<1> QED BY <1>2, <1>3, <1>4, <1>5 DEF Sound!Flush

\* so do its wait for a reply,
LEMMA FlushReplyStep ==
  ASSUME SoundAssumption, SoundInv, NEW t \in Caller, Sound!FlushReply(t) PROVE SoundInv'
BY RecvGoesOn, PlacesAre DEF Sound!FlushReply

\* its attempts to send,
LEMMA FlushSendStep ==
  ASSUME SoundAssumption, SoundInv, NEW t \in Caller, Sound!FlushSend(t) PROVE SoundInv'
<1>1. UNCHANGED <<Sound!arm7, held>> /\ irqOff' \in Caller \cup {None}
  BY DEF Sound!FlushSend
<1>2. CASE Sound!FlushReturns(t) /\ UNCHANGED <<Sound!lists, Sound!waiting, fifo>>
  BY <1>1, <1>2, FlushEnds
<1>3. CASE reserveList # None /\ waitingCount < Depth /\ Sound!Send /\ Sound!FlushHasSent(t)
  BY <1>1, <1>3, SendGoesOn
<1>4. CASE Sound!Goto(t, "flushDrain") /\ UNCHANGED <<Sound!lists, Sound!waiting, fifo>>
  BY <1>1, <1>4, OnlyGoesOn, PlacesAre
<1> QED BY <1>2, <1>3, <1>4 DEF Sound!FlushSend

\* and its looks for replies between them.
LEMMA FlushDrainStep ==
  ASSUME SoundAssumption, SoundInv, NEW t \in Caller, Sound!FlushDrain(t) PROVE SoundInv'
<1>1. UNCHANGED <<Sound!arm7, fifo, held, irqOff>> /\ irqOff \in Caller \cup {None}
      /\ Sound!Goto(t, "flushSend")
  BY DEF Sound!FlushDrain, SoundInv, CallsOK
<1>2. CASE Sound!Recv
  BY <1>1, <1>2, RecvGoesOn, PlacesAre
<1>3. CASE UNCHANGED <<Sound!lists, Sound!waiting>>
  BY <1>1, <1>3, OnlyGoesOn, PlacesAre
<1> QED BY <1>2, <1>3 DEF Sound!FlushDrain

\* A call that goes on keeps the invariant.
LEMMA GoOnStep ==
  ASSUME SoundAssumption, SoundInv, NEW t \in Caller, Sound!GoOn(t) PROVE SoundInv'
BY CountFreeStep, CountReservedStep, DrainStep, TestStep, RequestStep, ReplyStep, FlushFirstStep,
   FlushReplyStep, FlushSendStep, FlushDrainStep DEF Sound!GoOn

\* Every step of the protocol keeps the invariant.
LEMMA SoundStep ==
  ASSUME SoundAssumption, SoundInv, [Sound!Next]_Sound!vars PROVE SoundInv'
<1>1. CASE Sound!PxiFifoCallback \/ Sound!SND_CommandProc
  <2>1. CoreInv'
    BY <1>1, PxiKeeps, ReceiveKeeps, ExecuteKeeps, FinishKeeps DEF SoundInv, Sound!SND_CommandProc
  <2>2. UNCHANGED <<soundCall, irqOff, held>>
    BY <1>1 DEF Sound!PxiFifoCallback, Sound!SND_CommandProc, Sound!CommandProc_Receive,
                Sound!CommandProc_Execute, Sound!CommandProc_Finish
  <2>3. CallsOK'
    BY <2>2, CallsStutter DEF SoundInv
  <2> QED BY <2>1, <2>3 DEF SoundInv
<1>2. ASSUME NEW t \in Caller, Sound!Begin(t) \/ Sound!GoOn(t) PROVE SoundInv'
  BY <1>2, BeginStep, GoOnStep
<1>3. CASE UNCHANGED Sound!vars
  BY <1>3, CoreStutters, CallsStutter DEF SoundInv, Sound!vars
<1> QED BY <1>1, <1>2, <1>3 DEF Sound!Next

\* An order of all commands has each at one place.
LEMMA OrdersAre ==
  ASSUME SoundAssumption, NEW s \in Sound!SetToSeqs(Command)
  PROVE  /\ s \in Seq(Command) /\ Len(s) = Cardinality(Command) /\ Len(s) >= 2
         /\ EachOnce(s) /\ ToSet(s) = Command
<1> DEFINE N == Cardinality(Command)
<1>1. IsFiniteSet(Command) /\ N >= 2 /\ N \in Nat
  BY FS_CardinalityType DEF SoundAssumption
<1>2. s \in [1..N -> Command] /\ \A i, j \in 1..N : i # j => s[i] # s[j]
  <2>1. Sound!Cardinality(Command) = N
    BY SoundOperators
  <2> HIDE DEF N
  <2> QED BY <2>1 DEF Sound!SetToSeqs
<1>3. s \in Injection(1..N, Command)
  <2> HIDE DEF N
  <2> QED BY <1>2 DEF Injection, IsInjective
<1>4. Cardinality(1..N) = N
  BY <1>1, CardinalityUpTo
<1>5. s \in Surjection(1..N, Command)
  <2> HIDE DEF N
  <2>1. Cardinality(1..N) = Cardinality(Command)
    BY <1>4 DEF N
  <2> QED BY <1>1, <1>3, <2>1, FS_Injection
<1>6. \A c \in Command : \E i \in 1..N : s[i] = c
  <2> HIDE DEF N
  <2> QED BY <1>5 DEF Surjection
<1> HIDE DEF N
<1>7. s \in Seq(Command) /\ Len(s) = N
  BY <1>1, <1>2
<1>8. EachOnce(s)
  BY <1>2, <1>7 DEF EachOnce
<1>9. ToSet(s) = Command
  BY <1>2, <1>6, <1>7 DEF ToSet
<1> QED BY <1>1, <1>7, <1>8, <1>9 DEF N

\* The links of the initial state are those of the free list and of the one list sent.
LEMMA InitLists ==
  ASSUME SoundAssumption, NEW s \in Seq(Command), Len(s) >= 2, EachOnce(s), ToSet(s) = Command,
         NEW link, link = [c \in Command |->
                            LET i == CHOOSE i \in DOMAIN s : s[i] = c
                            IN IF i \in {1, Len(s)} THEN None ELSE s[i + 1]]
  PROVE  /\ link \in [Command -> Command \cup {None}]
         /\ Follows(link, s[2], Tail(s), None) /\ Tail(s) \in Seq(Command) /\ Tail(s) # <<>>
         /\ EachOnce(Tail(s)) /\ Tail(s)[Len(Tail(s))] = s[Len(s)]
         /\ ToSet(Tail(s)) = Command \ {s[1]}
         /\ Follows(link, s[1], <<s[1]>>, None)
         /\ s[1] \in Command /\ s[2] \in Command /\ s[Len(s)] \in Command
<1> DEFINE g == Tail(s)
           N == Len(s)
<1>1. N \in Nat /\ N >= 2 /\ DOMAIN s = 1..N /\ \A i \in 1..N : s[i] \in Command
  OBVIOUS
<1>2. ASSUME NEW i \in 1..N PROVE link[s[i]] = IF i \in {1, N} THEN None ELSE s[i + 1]
  <2> DEFINE j == CHOOSE j \in DOMAIN s : s[j] = s[i]
  <2>1. j \in 1..N /\ s[j] = s[i]
    BY <1>1
  <2>2. j = i
    <3> HIDE DEF j
    <3> QED BY <1>1, <2>1 DEF EachOnce
  <2>3. link[s[i]] = IF j \in {1, N} THEN None ELSE s[j + 1]
    BY <1>1
  <2> HIDE DEF j
  <2> QED BY <2>2, <2>3
<1> HIDE DEF N
<1>3. link \in [Command -> Command \cup {None}]
  <2>1. ASSUME NEW c \in Command PROVE link[c] \in Command \cup {None}
    <3>1. PICK i \in 1..N : c = s[i]
      BY <1>1 DEF ToSet
    <3>2. i \notin {1, N} => i + 1 \in 1..N
      BY <1>1
    <3> QED BY <1>1, <1>2, <3>1, <3>2
  <2>2. link = [c \in Command |-> link[c]]
    OBVIOUS
  <2> QED BY <2>1, <2>2
<1>4. /\ g \in Seq(Command) /\ Len(g) = N - 1 /\ EachOnce(g)
      /\ \A i \in 1..N - 1 : g[i] = s[i + 1]
      /\ ToSet(g) = ToSet(s) \ {s[1]} /\ s[1] \in ToSet(s)
  <2>1. s # <<>>
    BY <1>1 DEF N
  <2> QED BY <2>1, TailOnce DEF N
<1> HIDE DEF g
<1>5. g # <<>> /\ g[Len(g)] = s[N] /\ g[1] = s[2]
  <2>1. 1 \in 1..N - 1 /\ N - 1 \in 1..N - 1 /\ (N - 1) + 1 = N /\ 1 + 1 = 2
    BY <1>1
  <2> QED BY <1>4, <2>1
<1>6. Follows(link, s[2], g, None)
  <2>1. ASSUME NEW i \in 1..N - 1 PROVE link[g[i]] = IF i = N - 1 THEN None ELSE g[i + 1]
    <3>1. /\ i + 1 \in 1..N /\ i + 1 # 1 /\ (i + 1 = N <=> i = N - 1)
          /\ i # N - 1 => i + 1 \in 1..N - 1
      BY <1>1
    <3>2. link[s[i + 1]] = IF i = N - 1 THEN None ELSE s[(i + 1) + 1]
      BY <1>2, <3>1
    <3> QED BY <1>4, <3>1, <3>2
  <2> QED BY ZenonT(40), <1>4, <1>5, <2>1 DEF Follows
<1>7. Follows(link, s[1], <<s[1]>>, None)
  <2> DEFINE x == s[1]
             b == <<x>>
  <2>1. link[x] = None
    BY <1>1, <1>2
  <2>2. b # <<>> /\ Len(b) = 1 /\ b[1] = x /\ \A i \in 1..1 : i = 1
    OBVIOUS
  <2> HIDE DEF x, b
  <2>3. Follows(link, x, b, None)
    BY <2>1, <2>2 DEF Follows
  <2> QED BY <2>3 DEF x, b
<1>8. 1 \in 1..N /\ 2 \in 1..N /\ N \in 1..N
  BY <1>1
<1> QED BY <1>1, <1>3, <1>4, <1>5, <1>6, <1>7, <1>8 DEF g, N

\* The state SND_CommandInit leaves has the one list sent and the free list.
LEMMA SoundInit == ASSUME SoundAssumption, Sound!Init PROVE SoundInv
<1>1. PICK s \in Sound!SetToSeqs(Command) :
        /\ next = [c \in Command |->
                    LET i == CHOOSE i \in DOMAIN s : s[i] = c
                    IN IF i \in {1, Len(s)} THEN None ELSE s[i + 1]]
        /\ freeList = s[2] /\ freeListEnd = s[Len(s)]
        /\ ring = [i \in 0..Depth |-> IF i = 0 THEN s[1] ELSE None]
        /\ fifo = <<s[1]>>
  BY DEF Sound!Init
<1> DEFINE f == Tail(s)
           x == s[1]
           b == <<x>>
           u == [i \in 1..1 |-> b]
<1>2. /\ s \in Seq(Command) /\ Len(s) >= 2 /\ EachOnce(s) /\ ToSet(s) = Command
  BY OrdersAre
<1>3. /\ next \in [Command -> Command \cup {None}]
      /\ Follows(next, freeList, f, None) /\ f \in Seq(Command) /\ f # <<>>
      /\ EachOnce(f) /\ f[Len(f)] = freeListEnd /\ ToSet(f) = Command \ {x}
      /\ Follows(next, x, b, None)
      /\ x \in Command /\ freeList \in Command /\ freeListEnd \in Command
  BY <1>1, <1>2, InitLists
<1>4. /\ reserveList = None /\ reserveListEnd = None
      /\ ringRead = 0 /\ ringWrite = 1 /\ waitingCount = 1
      /\ currentTag = 2 /\ finishedTag = 0 /\ finishCommandTag = 0
      /\ mesgQueue = <<>> /\ working = FALSE /\ command_p = None
      /\ held = [t \in Caller |-> None]
      /\ soundCall = [t \in Caller |-> Sound!Idle]
      /\ irqOff = None
  BY DEF Sound!Init
<1>5. /\ Depth \in Nat /\ Depth >= 1 /\ FifoDepth \in Nat /\ FifoDepth >= 1
      /\ TagRange \in Nat /\ TagRange > 4 /\ None \notin Command
  <2>1. TagRange \div 2 \in Nat /\ 2 * (TagRange \div 2) <= TagRange
    BY DEF SoundAssumption
  <2> QED BY <2>1 DEF SoundAssumption
<1> HIDE DEF f, x
<1>6. CoreTypes
  <2>1. ring \in [0..Depth -> Command \cup {None}]
    BY <1>1, <1>3 DEF x
  <2>2. fifo \in Seq(Command \cup {None}) /\ Len(fifo) = 1
    BY <1>1, <1>3 DEF x
  <2>3. mesgQueue \in Seq(Command) /\ Len(mesgQueue) = 0
    BY <1>4
  <2>4. /\ ringRead \in 0..Depth /\ ringWrite \in 0..Depth /\ waitingCount \in 0..Depth
        /\ currentTag \in 0..TagRange - 1 /\ finishedTag \in 0..TagRange - 1
        /\ finishCommandTag \in 0..TagRange - 1 /\ Len(fifo) <= FifoDepth /\ Len(mesgQueue) <= Depth
    BY <1>4, <1>5, <2>2, <2>3
  <2>5. held \in [Caller -> Command \cup {None}] /\ working \in BOOLEAN
    BY <1>4
  <2> QED BY <1>3, <1>4, <2>1, <2>2, <2>3, <2>4, <2>5 DEF CoreTypes
<1>7. Sound!Waiting[1] = x
  <2>1. Sound!Waiting[1] = ring[ringRead]
    BY <1>4, <1>6, WaitingIs
  <2> QED BY <1>1, <1>4, <1>5, <2>1 DEF x
<1>8. /\ b \in Seq(Command) /\ b # <<>> /\ EachOnce(b) /\ ToSet(b) = {x}
  <2>1. b \in Seq(Command) /\ b # <<>> /\ Len(b) = 1 /\ b[1] = x /\ DOMAIN b = 1..1
    BY <1>3
  <2>2. \A i \in 1..1 : i = 1
    OBVIOUS
  <2> HIDE DEF b
  <2> QED BY <2>1, <2>2 DEF EachOnce, ToSet
<1> HIDE DEF b
<1>9. u \in [1..1 -> Seq(Command)] /\ u[1] = b /\ \A i \in 1..1 : i = 1
  BY <1>8
<1> HIDE DEF u
<1>10. ChainsOK(f, <<>>, u)
  <2>1. IsChain(f, freeList, freeListEnd)
    BY <1>3 DEF IsChain
  <2>2. IsChain(<<>>, reserveList, reserveListEnd)
    <3>1. <<>> \in Seq(Command) /\ EachOnce(<<>>) /\ Follows(next, None, <<>>, None)
      BY DEF EachOnce, Follows
    <3> QED BY <1>4, <3>1 DEF IsChain
  <2> QED BY <1>3, <1>4, <1>7, <1>8, <1>9, <2>1, <2>2 DEF ChainsOK
<1>11. ApartOK(f, <<>>, u)
  <2>1. Sound!Held = {} /\ ToSet(<<>>) = {}
    BY <1>4 DEF Sound!Held, ToSet
  <2>2. \A t \in Caller : held[t] = None
    BY <1>4
  <2> QED BY <1>3, <1>4, <1>8, <1>9, <2>1, <2>2 DEF ApartOK
<1>12. TagsOK(u, 0)
  <2>1. /\ 0 \in 0..waitingCount /\ (0 + 0) % TagRange = 0 /\ (0 + (1 + 1)) % TagRange = 2
        /\ (0 + 1) % (Depth + 1) = 1
    <3>1. 0 \in 0..TagRange - 1 /\ TagRange \in Nat \ {0} /\ 2 \in 0..TagRange /\ 0 + 2 < TagRange
          /\ 0 \in 0..TagRange /\ 0 + 0 < TagRange
      BY <1>5
    <3>2. (0 + 0) % TagRange = 0 + 0 /\ (0 + 2) % TagRange = 0 + 2
      BY <3>1, Turned
    <3>3. 0 \in 0..(Depth + 1) - 1 /\ Depth + 1 \in Nat \ {0} /\ 1 \in 0..Depth + 1 /\ 0 + 1 < Depth + 1
      BY <1>5
    <3>4. (0 + 1) % (Depth + 1) = 0 + 1
      BY <3>3, Turned
    <3>5. 1 + 1 = 2 /\ 0 + 2 = 2 /\ 0 + 0 = 0 /\ 0 + 1 = 1 /\ 0 \in 0..1
      OBVIOUS
    <3> QED BY <1>4, <3>2, <3>4, <3>5
  <2>2. Later(fifo, 1, Command) = 1 /\ Len(fifo) = 1 /\ fifo[1] = x
    <3>1. fifo \in Seq(Command \cup {None}) /\ Len(fifo) = 1 /\ fifo[1] = x
      BY <1>1, <1>3 DEF x
    <3>2. 1 \in 1..Len(fifo) /\ 1 + 1 = 2 /\ 2 \in Nat /\ \A i \in 2..Len(fifo) : fifo[i] \notin Command
      BY <3>1
    <3>3. Later(fifo, 2, Command) = 0
      BY <3>1, <3>2, LaterIsCount
    <3>4. Later(fifo, 1, Command) = Later(fifo, 1 + 1, Command) + One(fifo[1] \in Command)
      BY <3>1, <3>2, LaterOfHead
    <3>5. One(fifo[1] \in Command) = 1
      BY <1>3, <3>1 DEF One
    <3> QED BY <3>1, <3>2, <3>3, <3>4, <3>5
  <2>3. One(working) = 0 /\ Len(mesgQueue) = 0
    BY <1>4 DEF One
  <2>4. 0 + 0 + 0 + 1 = 1 /\ 1 + 1 - 1 = 1 /\ 1..0 = {}
    OBVIOUS
  <2> QED BY <1>4, <1>7, <1>9, <2>1, <2>2, <2>3, <2>4 DEF TagsOK
<1>13. CallsOK
  BY <1>4 DEF CallsOK, Sound!Idle, Sound!Ops, Sound!Places
<1> QED BY <1>6, <1>10, <1>11, <1>12, <1>13 DEF SoundInv, CoreInv, CoreOK

\* The invariant has each command at one place.
LEMMA ListsAreApart == ASSUME SoundAssumption, SoundInv PROVE Sound!CommandsInOneList
<1>1. PICK f, r, s, d : CoreTypes /\ ChainsOK(f, r, s) /\ ApartOK(f, r, s)
  BY DEF SoundInv, CoreInv, CoreOK
<1> DEFINE n == waitingCount
           ends == <<f, r>>
           all == ends \o s
<1>2. /\ f \in Seq(Command) /\ EachOnce(f) /\ Follows(next, freeList, f, None)
      /\ r \in Seq(Command) /\ EachOnce(r) /\ Follows(next, reserveList, r, None)
      /\ freeListEnd = IF f = <<>> THEN None ELSE f[Len(f)]
      /\ reserveListEnd = IF r = <<>> THEN None ELSE r[Len(r)]
      /\ s \in [1..n -> Seq(Command)]
      /\ n \in Nat /\ None \notin Command
      /\ \A i \in 1..n : s[i] # <<>> /\ EachOnce(s[i]) /\ Follows(next, Sound!Waiting[i], s[i], None)
  <2>1. n \in Nat /\ None \notin Command
    BY <1>1 DEF CoreTypes, SoundAssumption
  <2>2. IsChain(f, freeList, freeListEnd) /\ IsChain(r, reserveList, reserveListEnd)
        /\ s \in [1..n -> Seq(Command)]
        /\ \A i \in 1..n : s[i] # <<>> /\ EachOnce(s[i]) /\ Follows(next, Sound!Waiting[i], s[i], None)
    BY <1>1 DEF ChainsOK
  <2> HIDE DEF n
  <2> QED BY <2>1, <2>2 DEF IsChain
<1> HIDE DEF n
<1>3. Sound!Path(next, freeList) = f /\ Sound!Path(next, reserveList) = r
  BY <1>2, PathFound
<1>4. [i \in 1..n |-> Sound!Path(next, Sound!Waiting[i])] = s
  <2>1. ASSUME NEW i \in 1..n PROVE Sound!Path(next, Sound!Waiting[i]) = s[i]
    <3> DEFINE v == s[i]
    <3>1. v \in Seq(Command) /\ EachOnce(v) /\ Follows(next, Sound!Waiting[i], v, None)
      BY <1>2
    <3> HIDE DEF v
    <3>2. Sound!Path(next, Sound!Waiting[i]) = v
      BY <3>1, PathFound
    <3> QED BY <3>2 DEF v
  <2> QED BY <1>2, <2>1
<1>5. /\ all \in Seq(Seq(Command)) /\ DOMAIN all = 1..(n + 2)
      /\ all[1] = f /\ all[2] = r /\ \A i \in 1..n : all[2 + i] = s[i]
  <2>1. ends \in Seq(Seq(Command)) /\ Len(ends) = 2 /\ ends[1] = f /\ ends[2] = r
    BY <1>2
  <2>2. s \in Seq(Seq(Command)) /\ Len(s) = n
    BY <1>2
  <2> HIDE DEF ends
  <2>3. /\ all \in Seq(Seq(Command)) /\ Len(all) = 2 + n
        /\ \A i \in 1..2 : all[i] = ends[i]
        /\ \A i \in 1..n : all[2 + i] = s[i]
    <3> DEFINE T == Seq(Command)
    <3>1. ends \in Seq(T) /\ s \in Seq(T) /\ all = ends \o s
      BY <2>1, <2>2
    <3> HIDE DEF T, all
    <3>2. /\ all \in Seq(T) /\ Len(all) = Len(ends) + Len(s)
          /\ \A i \in 1..Len(ends) : all[i] = ends[i]
          /\ \A i \in 1..Len(s) : all[Len(ends) + i] = s[i]
      BY <3>1, JoinedOnce
    <3> QED BY <2>1, <2>2, <3>2 DEF T
  <2> HIDE DEF all
  <2>4. 1 \in 1..2 /\ 2 \in 1..2 /\ 2 + n = n + 2
    BY <1>2
  <2>5. DOMAIN all = 1..Len(all)
    BY <2>3
  <2> QED BY <2>1, <2>3, <2>4, <2>5
<1> HIDE DEF all
<1>6. \A i \in DOMAIN all : i = 1 \/ i = 2 \/ \E k \in 1..n : i = 2 + k
  <2>1. ASSUME NEW i \in 1..(n + 2), i # 1, i # 2 PROVE \E k \in 1..n : i = 2 + k
    <3>1. i - 2 \in 1..n /\ i = 2 + (i - 2)
      BY <1>2, <2>1
    <3> QED BY <3>1
  <2> QED BY <1>5, <2>1
<1>7. /\ 1 \in DOMAIN all /\ 2 \in DOMAIN all /\ \A k \in 1..n : 2 + k \in DOMAIN all
  <2>1. 1 \in 1..(n + 2) /\ 2 \in 1..(n + 2) /\ \A k \in 1..n : 2 + k \in 1..(n + 2)
    BY <1>2
  <2> QED BY <1>5, <2>1
<1>8. /\ ToSet(f) \cap ToSet(r) = {}
      /\ \A i \in 1..n : ToSet(s[i]) \cap (ToSet(f) \cup ToSet(r)) = {}
      /\ \A i, j \in 1..n : i # j => ToSet(s[i]) \cap ToSet(s[j]) = {}
      /\ Sound!Held \cap (ToSet(f) \cup ToSet(r)) = {}
      /\ \A i \in 1..n : Sound!Held \cap ToSet(s[i]) = {}
      /\ \A c \in Command : c \in Sound!Held \cup ToSet(f) \cup ToSet(r)
                              \/ \E i \in 1..n : c \in ToSet(s[i])
      /\ \A t, u \in Caller : t # u => held[t] = None \/ held[t] # held[u]
  BY <1>1 DEF ApartOK, n
<1>9. \A i \in DOMAIN all : EachOnce(all[i]) /\ ToSet(all[i]) \subseteq Command \ Sound!Held
  <2>1. \A v \in Seq(Command) : ToSet(v) \subseteq Command
    BY DEF ToSet
  <2>2. \A k \in 1..n : s[k] \in Seq(Command)
    BY <1>2
  <2>3. ASSUME NEW i \in DOMAIN all
        PROVE  EachOnce(all[i]) /\ ToSet(all[i]) \subseteq Command \ Sound!Held
    <3>1. CASE i = 1
      BY <1>2, <1>5, <1>8, <2>1, <3>1
    <3>2. CASE i = 2
      BY <1>2, <1>5, <1>8, <2>1, <3>2
    <3>3. CASE i \notin {1, 2}
      <4>1. PICK k \in 1..n : i = 2 + k
        BY <1>6, <3>3
      <4>2. all[i] = s[k] /\ EachOnce(s[k]) /\ ToSet(s[k]) \subseteq Command
        BY <1>2, <1>5, <2>1, <2>2, <4>1
      <4> QED BY <1>8, <4>2
    <3> QED BY <3>1, <3>2, <3>3
  <2> QED BY <2>3
<1>10. ASSUME NEW i \in DOMAIN all, NEW j \in DOMAIN all, i # j
       PROVE  ToSet(all[i]) \cap ToSet(all[j]) = {}
  <2>1. CASE i \in {1, 2} /\ j \in {1, 2}
    BY <1>5, <1>8, <1>10, <2>1
  <2>2. CASE i \in {1, 2} /\ j \notin {1, 2}
    <3>1. PICK k \in 1..n : j = 2 + k
      BY <1>6, <2>2
    <3> QED BY <1>5, <1>8, <2>2, <3>1
  <2>3. CASE i \notin {1, 2} /\ j \in {1, 2}
    <3>1. PICK k \in 1..n : i = 2 + k
      BY <1>6, <2>3
    <3> QED BY <1>5, <1>8, <2>3, <3>1
  <2>4. CASE i \notin {1, 2} /\ j \notin {1, 2}
    <3>1. PICK k \in 1..n : i = 2 + k
      BY <1>6, <2>4
    <3>2. PICK l \in 1..n : j = 2 + l
      BY <1>6, <2>4
    <3> QED BY <1>5, <1>8, <1>10, <3>1, <3>2
  <2> QED BY <2>1, <2>2, <2>3, <2>4
<1>11. UNION {ToSet(all[i]) : i \in DOMAIN all} = Command \ Sound!Held
  <2>1. ASSUME NEW c \in Command \ Sound!Held PROVE \E i \in DOMAIN all : c \in ToSet(all[i])
    BY <1>5, <1>7, <1>8, <2>1
  <2> QED BY <1>9, <2>1
<1>12. \A i, j \in DOMAIN all : \A m \in DOMAIN all[i], k \in DOMAIN all[j] :
          all[i][m] = all[j][k] => i = j /\ m = k
  BY <1>5, <1>9, <1>10, OneListEach
<1>13. /\ freeListEnd = IF freeList = None THEN None ELSE f[Len(f)]
       /\ reserveListEnd = IF reserveList = None THEN None ELSE r[Len(r)]
  <2>1. \A v \in Seq(Command) : v # <<>> => v[1] \in Command
    OBVIOUS
  <2>2. (freeList = None <=> f = <<>>) /\ (reserveList = None <=> r = <<>>)
    BY <1>2, <2>1 DEF Follows
  <2> QED BY <1>2, <2>2
<1> DEFINE chains == <<Sound!Path(next, freeList), Sound!Path(next, reserveList)>>
                     \o [i \in 1..waitingCount |-> Sound!Path(next, Sound!Waiting[i])]
<1>14. chains = all
  BY <1>3, <1>4 DEF all, n
<1>15. \A v : Sound!ToSet(v) = ToSet(v) /\ Sound!Last(v) = v[Len(v)]
  BY SoundOperators
<1> HIDE DEF chains
<1>16. /\ \A i, j \in DOMAIN chains : \A m \in DOMAIN chains[i], k \in DOMAIN chains[j] :
            chains[i][m] = chains[j][k] => i = j /\ m = k
       /\ UNION {Sound!ToSet(chains[i]) : i \in DOMAIN chains} = Command \ Sound!Held
  BY <1>11, <1>12, <1>14, <1>15
<1>17. /\ freeListEnd = IF freeList = None THEN None ELSE Sound!Last(Sound!Path(next, freeList))
       /\ reserveListEnd = IF reserveList = None THEN None ELSE Sound!Last(Sound!Path(next, reserveList))
  BY <1>3, <1>13, <1>15
<1>18. \A t, u \in Caller : t # u => held[t] = None \/ held[t] # held[u]
  BY <1>8
<1> QED BY <1>16, <1>17, <1>18 DEF Sound!CommandsInOneList, chains

\* A tag is finished up to half a round.
LEMMA TagsCompare ==
  ASSUME SoundAssumption, NEW n, n = waitingCount, CoreTypes
  PROVE  /\ Sound!IsFinished(finishedTag)
         /\ \A i \in 1..(n + 1) : ~Sound!IsFinished((finishedTag + i) % TagRange)
<1> DEFINE N == TagRange
           h == N \div 2
<1>1. /\ h \in Nat /\ N = 2 * h /\ h > n + 1 /\ n \in Nat /\ N \in Nat \ {0}
      /\ finishedTag \in 0..N - 1
  <2>1. N \in Nat /\ N % 2 = 0 /\ h > Depth + 1 /\ Depth \in Nat /\ waitingCount \in 0..Depth
        /\ finishedTag \in 0..N - 1
    BY DEF SoundAssumption, CoreTypes
  <2>2. h \in Nat /\ N = 2 * h
    BY <2>1
  <2> HIDE DEF h
  <2> QED BY <2>1, <2>2
<1>2. \A tag : Sound!IsFinished(tag) <=> IF tag > finishedTag THEN tag - finishedTag >= h
                                                              ELSE finishedTag - tag < h
  BY DEF Sound!IsFinished
<1> HIDE DEF h
<1>3. Sound!IsFinished(finishedTag)
  <2>1. ~(finishedTag > finishedTag) /\ finishedTag - finishedTag < h
    BY <1>1
  <2> QED BY <1>2, <2>1
<1>4. ASSUME NEW i \in 1..(n + 1) PROVE ~Sound!IsFinished((finishedTag + i) % N)
  <2> DEFINE tag == (finishedTag + i) % N
  <2>1. i \in 0..N
    BY <1>1
  <2>2. tag = IF finishedTag + i < N THEN finishedTag + i ELSE finishedTag + i - N
    BY <1>1, <2>1, Turned
  <2> HIDE DEF tag, N
  <2>3. IF tag > finishedTag THEN ~(tag - finishedTag >= h) ELSE ~(finishedTag - tag < h)
    BY <1>1, <2>2
  <2>4. ~Sound!IsFinished(tag)
    BY <1>2, <2>3
  <2> QED BY <2>4 DEF tag
<1> QED BY <1>3, <1>4

\* The invariant has the tags of both processors count the same lists.
LEMMA TagsAreCounts == ASSUME SoundAssumption, SoundInv PROVE Sound!TagsCountLists
<1>1. PICK f, r, s, d : CoreTypes /\ ChainsOK(f, r, s) /\ TagsOK(s, d)
  BY DEF SoundInv, CoreInv, CoreOK
<1> DEFINE N == TagRange
           n == waitingCount
           done == (finishCommandTag + N - finishedTag) % N
<1>2. /\ N \in Nat \ {0} /\ Depth + 1 <= N - 1 /\ Depth \in Nat
  <2>1. TagRange \div 2 \in Nat /\ TagRange \div 2 <= TagRange
    BY DEF SoundAssumption
  <2> QED BY <2>1 DEF SoundAssumption
<1>3. /\ finishedTag \in 0..N - 1 /\ d \in 0..n /\ n \in 0..Depth
      /\ finishCommandTag = (finishedTag + d) % N
      /\ currentTag = (finishedTag + (n + 1)) % N
      /\ ringWrite = (ringRead + n) % (Depth + 1)
      /\ d + One(working) + Len(mesgQueue) + Later(fifo, 1, Command) = n
      /\ \A i \in 1..Len(mesgQueue) : mesgQueue[i] = Sound!Waiting[d + One(working) + i]
      /\ \A i \in 1..Len(fifo) : fifo[i] # None =>
           fifo[i] = Sound!Waiting[n + 1 - Later(fifo, i, Command)]
      /\ working /\ command_p # None => command_p \in ToSet(s[d + 1])
      /\ mesgQueue \in Seq(Command) /\ fifo \in Seq(Command \cup {None})
  BY <1>1 DEF CoreTypes, TagsOK
<1>12. /\ finishedTag \in 0..N - 1 /\ d \in 0..n /\ n \in 0..Depth
       /\ d + One(working) + Len(mesgQueue) + Later(fifo, 1, Command) = n
  BY <1>3
<1>4. done = d
  <2>1. d \in 0..N /\ d < N
    BY <1>2, <1>12
  <2>2. finishCommandTag = IF finishedTag + d < N THEN finishedTag + d ELSE finishedTag + d - N
    BY <1>2, <1>3, <2>1, Turned
  <2>3. finishedTag \in 0..N - 1 /\ N \in Nat \ {0}
    BY <1>2, <1>3
  <2> DEFINE k == finishCommandTag + N - finishedTag
  <2>4. done = k % N /\ k = finishCommandTag + N - finishedTag
    OBVIOUS
  <2> HIDE DEF k, done, N
  <2>5. k = IF finishedTag + d < N THEN d + N ELSE d
    BY <2>1, <2>2, <2>3, <2>4
  <2>6. k \in 0..2 * N - 1
    BY <2>1, <2>3, <2>5
  <2>7. /\ k < N => k % N = k
        /\ k >= N => k % N = k - N
    BY <2>3, <2>6, Wrap
  <2>8. CASE finishedTag + d < N
    BY <2>1, <2>3, <2>4, <2>5, <2>7, <2>8
  <2>9. CASE ~(finishedTag + d < N)
    BY <2>1, <2>3, <2>4, <2>5, <2>7, <2>9
  <2> QED BY <2>8, <2>9
<1>5. \A i : Sound!ListsFrom(i) = Later(fifo, i, Command)
  BY SoundOperators DEF Sound!ListsFrom, Later, Hits
<1>6. Sound!IsFinished(finishedTag) /\ \A i \in 1..(n + 1) : ~Sound!IsFinished((finishedTag + i) % N)
  BY <1>1, TagsCompare
<1>7. currentTag = (finishedTag + n + 1) % N
  <2>1. finishedTag + n + 1 = finishedTag + (n + 1)
    BY <1>2, <1>3
  <2> QED BY <1>3, <2>1
<1>8. ASSUME working, command_p # None
      PROVE  command_p \in Sound!ToSet(Sound!Path(next, Sound!Waiting[d + 1]))
  <2> DEFINE v == s[d + 1]
  <2>1. One(working) = 1 /\ Len(mesgQueue) \in Nat /\ Later(fifo, 1, Command) \in Nat
    BY <1>1, <1>8, CountsAre DEF One
  <2>2. d + 1 \in 1..waitingCount
    BY <1>2, <1>12, <2>1
  <2>3. v \in Seq(Command) /\ EachOnce(v) /\ Follows(next, Sound!Waiting[d + 1], v, None)
    BY <1>1, <2>2 DEF ChainsOK
  <2>4. command_p \in ToSet(v)
    BY <1>3, <1>8
  <2> HIDE DEF v
  <2>5. Sound!Path(next, Sound!Waiting[d + 1]) = v
    BY <2>3, PathFound
  <2> QED BY <2>4, <2>5, SoundOperators
<1>9. DOMAIN mesgQueue = 1..Len(mesgQueue) /\ DOMAIN fifo = 1..Len(fifo)
  BY <1>3
<1>10. One(working) = IF working THEN 1 ELSE 0
  BY DEF One
<1>11. (finishCommandTag + TagRange - finishedTag) % TagRange = d
  BY <1>4
<1> HIDE DEF done
<1> QED BY <1>3, <1>5, <1>6, <1>7, <1>8, <1>9, <1>10, <1>11 DEF Sound!TagsCountLists

\* The types of the protocol.
LEMMA SoundTypes == ASSUME SoundInv PROVE Sound!TypeOK
<1>1. CoreTypes /\ CallsOK
  BY DEF SoundInv, CoreInv, CoreOK
<1> QED BY <1>1 DEF CoreTypes, CallsOK, Sound!TypeOK

\* A behaviour of the single caller is one of the two that stands still.
LEMMA PartOfCallers == SoundSpec => Sound!Spec
<1>1. CallersInit => Sound!Init
  BY DEF CallersInit
<1>2. [CallersNext]_<<callers, twoVars, oneVars>> => [Sound!Next]_Sound!vars
  <2>1. UNCHANGED twoVars => UNCHANGED Sound!vars
    BY DEF twoVars, Sound!vars, Sound!lists, Sound!waiting, Sound!arm7
  <2> QED BY <2>1 DEF CallersNext
<1> QED BY <1>1, <1>2, PTL DEF SoundSpec, Sound!Spec

\* Each sound command is at one place: free, reserved, on a list sent, or with the
\* thread that took it; and the tags of both processors count the same lists
\* (SND_RecvCommandReply, SND_FlushCommand, SND_CommandProc).
THEOREM CommandsAreListed == ASSUME SoundAssumption PROVE SoundSpec => []ListsAndTags
<1>1. Sound!Init => SoundInv
  BY SoundInit
<1>2. SoundInv /\ [Sound!Next]_Sound!vars => SoundInv'
  BY SoundStep
<1>3. SoundInv => ListsAndTags
  BY SoundTypes, ListsAreApart, TagsAreCounts DEF ListsAndTags
<1> QED BY <1>1, <1>2, <1>3, PartOfCallers, PTL DEF Sound!Spec

-----------------------------------------------------------------------------
(* The order in which the sound commands are executed.                        *)

\* The words of q are lists of the sequences of L; a word that is no list has none.
Unrolls(link, q, L) ==
  /\ L \in Lists(Command) /\ Len(L) = Len(q)
  /\ \A i \in 1..Len(q) :
       L[i] \in Seq(Command) /\ EachOnce(L[i]) /\ Follows(link, q[i], L[i], None)

\* What the ARM7 works on, has queued and gets, and what is reserved are lists of v, of
\* those of Q, of those of W, and of r.
IsOrdered(link, c, q, w, a, v, Q, W, r) ==
  /\ v \in Seq(Command) /\ EachOnce(v) /\ Follows(link, c, v, None)
  /\ Unrolls(link, q, Q) /\ Unrolls(link, w, W)
  /\ r \in Seq(Command) /\ EachOnce(r) /\ Follows(link, a, r, None)

\* All of them in the order of execution.
Listed(v, Q, W, r) == ((v \o Gathered(Q, Command)) \o Gathered(W, Command)) \o r

\* The commands of the lists of q one after the other, as Joined has them;
IsJoin(g, link, q) ==
  g = [n \in 0..Len(q) |-> IF n = 0 THEN <<>> ELSE g[n - 1] \o Sound!Path(link, q[n])]
\* all of them;
JoinedOf(link, q) == (CHOOSE g : IsJoin(g, link, q))[Len(q)]

\* and what is pending, of any links and words.
PendingOf(link, c, q, w, a) ==
  Sound!Path(link, c) \o JoinedOf(link, q) \o JoinedOf(link, w) \o Sound!Path(link, a)

\* Pending before and after a step.
LEMMA PendingIs ==
  /\ Sound!Pending = PendingOf(next, command_p, mesgQueue, fifo, reserveList)
  /\ Sound!Pending' = PendingOf(next', command_p', mesgQueue', fifo', reserveList')
<1>1. /\ Sound!Joined(fifo) = JoinedOf(next, fifo)
      /\ Sound!Joined(mesgQueue) = JoinedOf(next, mesgQueue)
  BY DEF Sound!Joined, JoinedOf, IsJoin
<1>2. /\ Sound!Joined(fifo)' = JoinedOf(next', fifo')
      /\ Sound!Joined(mesgQueue)' = JoinedOf(next', mesgQueue')
  BY DEF Sound!Joined, JoinedOf, IsJoin
<1> QED BY <1>1, <1>2 DEF Sound!Pending, PendingOf

\* Lists one after the other are the sequences one after the other.
LEMMA JoinedFound ==
  ASSUME SoundAssumption, NEW link, NEW q, NEW L, Unrolls(link, q, L)
  PROVE  JoinedOf(link, q) = Gathered(L, Command)
<1> DEFINE N == Len(q)
<1>1. L \in Lists(Command) /\ Len(L) = N /\ N \in Nat
  BY DEF Unrolls, Lists
<1>2. \A i \in 1..N : Sound!Path(link, q[i]) = L[i]
  <2>1. ASSUME NEW i \in 1..N PROVE Sound!Path(link, q[i]) = L[i]
    <3> DEFINE u == L[i]
               a == q[i]
    <3>1. u \in Seq(Command) /\ EachOnce(u) /\ Follows(link, a, u, None)
      BY DEF Unrolls
    <3> HIDE DEF u, a
    <3>2. Sound!Path(link, a) = u
      BY <3>1, PathFound
    <3> QED BY <3>2 DEF u, a
  <2> QED BY <2>1
<1>3. PICK g : Gathers(g, L, Command)
  BY <1>1, GatheredOnce
<1>4. Gathered(L, Command) = g[N]
  BY <1>1, <1>3, GatheredOnce
<1>5. /\ g \in [0..N -> Seq(Command)] /\ g[0] = <<>>
      /\ \A n \in 1..N : g[n] = g[n - 1] \o L[n]
  BY <1>1, <1>3 DEF Gathers, GathersTo
<1> HIDE DEF N
<1>6. IsJoin(g, link, q)
  <2>1. \A n \in 0..N : g[n] = IF n = 0 THEN <<>> ELSE g[n - 1] \o Sound!Path(link, q[n])
    <3>1. \A n \in 0..N : n # 0 => n \in 1..N
      BY <1>1
    <3> QED BY <1>2, <1>5, <3>1
  <2>2. g = [n \in 0..N |-> g[n]]
    BY <1>5
  <2>3. g = [n \in 0..N |-> IF n = 0 THEN <<>> ELSE g[n - 1] \o Sound!Path(link, q[n])]
    BY <2>1, <2>2
  <2> QED BY <2>3 DEF IsJoin, N
<1> DEFINE h == CHOOSE j : IsJoin(j, link, q)
<1>7. IsJoin(h, link, q)
  <2> HIDE DEF IsJoin
  <2> QED BY <1>6
<1>8. JoinedOf(link, q) = h[N]
  BY DEF JoinedOf, N
<1> HIDE DEF h
<1>9. h[0] = <<>> /\ \A n \in 1..N : h[n] = h[n - 1] \o L[n]
  <2>1. h = [n \in 0..N |-> IF n = 0 THEN <<>> ELSE h[n - 1] \o Sound!Path(link, q[n])]
    BY <1>7 DEF IsJoin, N
  <2>2. 0 \in 0..N /\ \A n \in 1..N : n \in 0..N /\ n # 0
    BY <1>1
  <2>3. \A n \in 0..N : h[n] = IF n = 0 THEN <<>> ELSE h[n - 1] \o Sound!Path(link, q[n])
    BY <2>1
  <2> QED BY <1>2, <2>2, <2>3
<1> DEFINE differ == {n \in 0..N : g[n] # h[n]}
<1>10. differ = {}
  <2> SUFFICES ASSUME differ # {} PROVE FALSE
    OBVIOUS
  <2>1. PICK n \in differ : \A k \in differ : n <= k
    <3>1. differ \in SUBSET Nat
      OBVIOUS
    <3> HIDE DEF differ
    <3> QED BY <3>1, MinIsLeast
  <2>2. n \in 0..N /\ g[n] # h[n]
    OBVIOUS
  <2>3. n # 0
    BY <1>5, <1>9, <2>2
  <2>4. n - 1 \in 0..N /\ ~(n <= n - 1) /\ n \in 1..N
    BY <1>1, <2>2, <2>3
  <2>5. g[n - 1] = h[n - 1]
    <3>1. n - 1 \notin differ
      <4> HIDE DEF differ
      <4> QED BY <2>1, <2>4
    <3> QED BY <2>4, <3>1
  <2> QED BY <1>5, <1>9, <2>2, <2>4, <2>5
<1>11. g[N] = h[N]
  BY <1>1, <1>10
<1> QED BY <1>4, <1>8, <1>11

\* Pending are the sequences of the lists.
LEMMA PendingFound ==
  ASSUME SoundAssumption, NEW link, NEW c, NEW q, NEW w, NEW a, NEW v, NEW Q, NEW W, NEW r,
         IsOrdered(link, c, q, w, a, v, Q, W, r)
  PROVE  PendingOf(link, c, q, w, a) = Listed(v, Q, W, r)
<1>1. /\ v \in Seq(Command) /\ EachOnce(v) /\ Follows(link, c, v, None)
      /\ r \in Seq(Command) /\ EachOnce(r) /\ Follows(link, a, r, None)
  BY DEF IsOrdered
<1>2. Sound!Path(link, c) = v /\ Sound!Path(link, a) = r
  BY <1>1, PathFound
<1>3. Unrolls(link, q, Q) /\ Unrolls(link, w, W)
  BY DEF IsOrdered
<1>4. JoinedOf(link, q) = Gathered(Q, Command) /\ JoinedOf(link, w) = Gathered(W, Command)
  BY <1>3, JoinedFound
<1> QED BY <1>2, <1>4 DEF PendingOf, Listed

\* New links that are the same for what is listed do not change the order.
LEMMA UnrollsKept ==
  ASSUME NEW link, NEW new, NEW q, NEW L, Unrolls(link, q, L),
         \A i \in 1..Len(q) : \A x \in ToSet(L[i]) : new[x] = link[x]
  PROVE  Unrolls(new, q, L)
<1>1. ASSUME NEW i \in 1..Len(q) PROVE Follows(new, q[i], L[i], None)
  <2> DEFINE u == L[i]
             a == q[i]
  <2>1. u \in Seq(Command) /\ Follows(link, a, u, None) /\ \A x \in ToSet(u) : new[x] = link[x]
    BY DEF Unrolls
  <2> HIDE DEF u, a
  <2>2. Follows(new, a, u, None)
    BY <2>1, FollowsKept
  <2> QED BY <2>2 DEF u, a
<1> QED BY <1>1 DEF Unrolls

\* The words after one more.
LEMMA UnrollsAppend ==
  ASSUME NEW link, NEW q \in Seq(Command \cup {None}), NEW L, Unrolls(link, q, L),
         NEW a \in Command \cup {None}, NEW u \in Seq(Command), EachOnce(u), Follows(link, a, u, None)
  PROVE  Unrolls(link, Append(q, a), Append(L, u))
<1> DEFINE p == Append(q, a)
           M == Append(L, u)
           n == Len(q)
<1>1. /\ p \in Seq(Command \cup {None}) /\ Len(p) = n + 1 /\ n \in Nat /\ p[n + 1] = a
      /\ \A i \in 1..n : p[i] = q[i]
  OBVIOUS
<1>2. L \in Lists(Command) /\ Len(L) = n
  BY DEF Unrolls
<1>3. /\ M \in Lists(Command) /\ Len(M) = n + 1 /\ M[n + 1] = u
      /\ \A i \in 1..n : M[i] = L[i]
  <2>1. M \in Lists(Command) /\ Len(M) = n + 1
    BY <1>2 DEF Lists
  <2>2. M[n + 1] = u
    BY <1>2 DEF Lists
  <2>3. \A i \in 1..n : M[i] = L[i]
    BY <1>2 DEF Lists
  <2> QED BY <2>1, <2>2, <2>3
<1>4. \A i \in 1..n : L[i] \in Seq(Command) /\ EachOnce(L[i]) /\ Follows(link, q[i], L[i], None)
  BY DEF Unrolls
<1> HIDE DEF p, M, n
<1>5. \A i \in 1..n + 1 : i \in 1..n \/ i = n + 1
  BY <1>1
<1>6. \A i \in 1..n + 1 : M[i] \in Seq(Command) /\ EachOnce(M[i]) /\ Follows(link, p[i], M[i], None)
  BY <1>1, <1>3, <1>4, <1>5
<1>7. Unrolls(link, p, M)
  BY <1>1, <1>3, <1>6 DEF Unrolls
<1> QED BY <1>7 DEF p, M

\* The words after the first.
LEMMA UnrollsTail ==
  ASSUME NEW link, NEW q \in Seq(Command \cup {None}), q # <<>>, NEW L, Unrolls(link, q, L)
  PROVE  /\ Unrolls(link, Tail(q), Tail(L)) /\ L # <<>>
         /\ L[1] \in Seq(Command) /\ EachOnce(L[1]) /\ Follows(link, q[1], L[1], None)
<1> DEFINE p == Tail(q)
           M == Tail(L)
           n == Len(q)
<1>1. /\ p \in Seq(Command \cup {None}) /\ Len(p) = n - 1 /\ n \in Nat \ {0}
      /\ \A i \in 1..n - 1 : p[i] = q[i + 1]
  OBVIOUS
<1>2. L \in Lists(Command) /\ Len(L) = n
  BY DEF Unrolls
<1>3. /\ M \in Lists(Command) /\ Len(M) = n - 1 /\ L # <<>>
      /\ \A i \in 1..n - 1 : M[i] = L[i + 1]
  <2>1. L # <<>>
    BY <1>1, <1>2 DEF Lists
  <2>2. M \in Lists(Command) /\ Len(M) = n - 1
    BY <1>2, <2>1 DEF Lists
  <2>3. \A i \in 1..n - 1 : M[i] = L[i + 1]
    BY <1>2, <2>1 DEF Lists
  <2> QED BY <2>1, <2>2, <2>3
<1>4. \A i \in 1..n : L[i] \in Seq(Command) /\ EachOnce(L[i]) /\ Follows(link, q[i], L[i], None)
  BY DEF Unrolls
<1> HIDE DEF p, M, n
<1>5. 1 \in 1..n /\ \A i \in 1..n - 1 : i + 1 \in 1..n
  BY <1>1
<1>6. \A i \in 1..n - 1 : M[i] \in Seq(Command) /\ EachOnce(M[i]) /\ Follows(link, p[i], M[i], None)
  BY <1>1, <1>3, <1>4, <1>5
<1>7. Unrolls(link, p, M)
  BY <1>1, <1>3, <1>6 DEF Unrolls
<1> QED BY <1>3, <1>4, <1>5, <1>7 DEF p, M

\* What is listed has nothing of S.
Away(v, Q, W, S) ==
  /\ ToSet(v) \cap S = {}
  /\ \A i \in 1..Len(Q) : ToSet(Q[i]) \cap S = {}
  /\ \A i \in 1..Len(W) : ToSet(W[i]) \cap S = {}

\* Each list that is sent and not done is listed, the free and the taken commands are not.
LEMMA WordsFound ==
  ASSUME SoundAssumption, NEW f, NEW r, NEW s, NEW d, CoreOK(f, r, s, d)
  PROVE  \E v, Q, W :
            /\ IsOrdered(next, command_p, mesgQueue, fifo, reserveList, v, Q, W, r)
            /\ Away(v, Q, W, ToSet(f) \cup ToSet(r) \cup Sound!Held)
<1>1. CoreTypes /\ ChainsOK(f, r, s) /\ ApartOK(f, r, s) /\ TagsOK(s, d)
  BY DEF CoreOK
<1> DEFINE w == One(working)
           m == Len(mesgQueue)
           l == Later(fifo, 1, Command)
           k == Len(fifo)
           n == waitingCount
           S == ToSet(f) \cup ToSet(r) \cup Sound!Held
           good(u, a) == /\ u \in Seq(Command) /\ EachOnce(u) /\ Follows(next, a, u, None)
                         /\ ToSet(u) \cap S = {}
<1>2. /\ w \in {0, 1} /\ m \in Nat /\ k \in Nat /\ l \in Nat /\ n \in Nat /\ d \in 0..n
      /\ d + w + m + l = n
      /\ \A i \in 1..k : /\ Later(fifo, i, Command) \in Nat
                         /\ Later(fifo, i, Command) <= l
                         /\ fifo[i] # None => Later(fifo, i, Command) >= 1
  BY <1>1, CountsAre DEF TagsOK
<1>3. /\ \A i \in 1..m : mesgQueue[i] = Sound!Waiting[d + w + i]
      /\ \A i \in 1..k : fifo[i] # None =>
            fifo[i] = Sound!Waiting[n + 1 - Later(fifo, i, Command)]
      /\ working /\ command_p # None => command_p \in ToSet(s[d + 1])
      /\ ~working => command_p = None
  BY <1>1 DEF TagsOK
<1>4. /\ mesgQueue \in Seq(Command) /\ fifo \in Seq(Command \cup {None})
      /\ working \in BOOLEAN
  BY <1>1 DEF CoreTypes
<1>5. ASSUME NEW i \in 1..n PROVE good(s[i], Sound!Waiting[i])
  <2>1. s[i] \in Seq(Command) /\ EachOnce(s[i]) /\ Follows(next, Sound!Waiting[i], s[i], None)
    BY <1>1 DEF ChainsOK
  <2>2. ToSet(s[i]) \cap (ToSet(f) \cup ToSet(r)) = {} /\ Sound!Held \cap ToSet(s[i]) = {}
    BY <1>1 DEF ApartOK
  <2> QED BY <2>1, <2>2
<1>6. good(<<>>, None)
  <2>1. ToSet(<<>>) = {} /\ Len(<<>>) = 0
    BY DEF ToSet
  <2> QED BY <2>1 DEF EachOnce, Follows
<1>7. r \in Seq(Command) /\ EachOnce(r) /\ Follows(next, reserveList, r, None)
  BY <1>1 DEF ChainsOK, IsChain
<1> HIDE DEF w, m, l, k, n
<1>8. \E v : good(v, command_p)
  <2>1. CASE command_p = None
    BY <1>6, <2>1
  <2>2. CASE command_p # None
    <3>1. working /\ w = 1
      BY <1>3, <1>4, <2>2 DEF w, One
    <3>2. d + 1 \in 1..n
      BY <1>2, <3>1
    <3> DEFINE u == s[d + 1]
               a == Sound!Waiting[d + 1]
    <3>3. good(u, a) /\ command_p \in ToSet(u)
      BY <1>3, <1>5, <2>2, <3>1, <3>2
    <3> HIDE DEF u, a
    <3>4. PICK j \in 1..Len(u) : u[j] = command_p
      BY <3>3 DEF ToSet
    <3>5. u \in Seq(Command) /\ EachOnce(u) /\ Follows(next, a, u, None) /\ ToSet(u) \cap S = {}
      BY <3>3
    <3> HIDE DEF S
    <3>6. \E v \in Seq(Command) : /\ EachOnce(v) /\ Follows(next, u[j], v, None)
                                  /\ ToSet(v) \subseteq ToSet(u)
      BY <3>5, FollowsRest
    <3> QED BY <3>4, <3>5, <3>6
  <2> QED BY <2>1, <2>2
<1>9. \E Q : /\ Q \in [1..m -> Seq(Command)]
             /\ \A i \in 1..m : good(Q[i], mesgQueue[i])
  <2> DEFINE Q == [i \in 1..m |-> s[d + w + i]]
  <2>1. \A i \in 1..m : d + w + i \in 1..n
    BY <1>2
  <2> HIDE DEF good
  <2>2. \A i \in 1..m : good(s[d + w + i], mesgQueue[i])
    BY <1>3, <1>5, <2>1
  <2>3. \A i \in 1..m : good(Q[i], mesgQueue[i])
    BY <2>2
  <2>4. \A i \in 1..m : Q[i] \in Seq(Command)
    BY <2>3 DEF good
  <2>5. Q \in [1..m -> Seq(Command)]
    BY <2>4
  <2> QED BY <2>3, <2>5
<1>10. \E W : /\ W \in [1..k -> Seq(Command)]
              /\ \A i \in 1..k : good(W[i], fifo[i])
  <2> DEFINE at(i) == n + 1 - Later(fifo, i, Command)
             W == [i \in 1..k |-> IF fifo[i] = None THEN <<>> ELSE s[at(i)]]
  <2>1. \A i \in 1..k : fifo[i] # None => at(i) \in 1..n
    BY <1>2
  <2> HIDE DEF good
  <2>2. \A i \in 1..k : fifo[i] # None => good(s[at(i)], fifo[i])
    <3>1. \A i \in 1..k : fifo[i] # None => fifo[i] = Sound!Waiting[at(i)]
      BY <1>3
    <3> HIDE DEF at
    <3> QED BY <1>5, <2>1, <3>1
  <2> HIDE DEF at
  <2>3. \A i \in 1..k : good(W[i], fifo[i])
    BY <1>6, <2>2
  <2>4. \A i \in 1..k : W[i] \in Seq(Command)
    BY <2>3 DEF good
  <2>5. W \in [1..k -> Seq(Command)]
    BY <2>4
  <2> QED BY <2>3, <2>5
<1>11. ASSUME NEW q, NEW j \in Nat, Len(q) = j, NEW L \in [1..j -> Seq(Command)],
              \A i \in 1..j : good(L[i], q[i])
       PROVE  Unrolls(next, q, L) /\ Len(L) = j /\ \A i \in 1..j : ToSet(L[i]) \cap S = {}
  <2>1. L \in Lists(Command) /\ Len(L) = j
    BY DEF Lists
  <2>2. \A i \in 1..j : /\ L[i] \in Seq(Command) /\ EachOnce(L[i])
                        /\ Follows(next, q[i], L[i], None) /\ ToSet(L[i]) \cap S = {}
    <3> HIDE DEF S
    <3> QED BY <1>11
  <2> QED BY <1>11, <2>1, <2>2 DEF Unrolls
<1>12. PICK v : good(v, command_p)
  BY <1>8
<1>13. PICK Q : Q \in [1..m -> Seq(Command)] /\ \A i \in 1..m : good(Q[i], mesgQueue[i])
  BY <1>9
<1>14. PICK W : W \in [1..k -> Seq(Command)] /\ \A i \in 1..k : good(W[i], fifo[i])
  BY <1>10
<1>15. /\ Unrolls(next, mesgQueue, Q) /\ Len(Q) = m
       /\ \A i \in 1..m : ToSet(Q[i]) \cap S = {}
  <2> HIDE DEF good
  <2> QED BY <1>2, <1>11, <1>13 DEF m
<1>16. /\ Unrolls(next, fifo, W) /\ Len(W) = k
       /\ \A i \in 1..k : ToSet(W[i]) \cap S = {}
  <2> HIDE DEF good
  <2> QED BY <1>2, <1>11, <1>14 DEF k
<1>17. IsOrdered(next, command_p, mesgQueue, fifo, reserveList, v, Q, W, r)
  BY <1>7, <1>12, <1>15, <1>16 DEF IsOrdered
<1>18. Away(v, Q, W, S)
  BY <1>12, <1>15, <1>16 DEF Away
<1> QED BY <1>17, <1>18

\* What is pending is in one of the sequences.
LEMMA ListedMembers ==
  ASSUME NEW v \in Seq(Command), NEW Q \in Lists(Command), NEW W \in Lists(Command),
         NEW r \in Seq(Command), NEW S, Away(v, Q, W, S), ToSet(r) \cap S = {}
  PROVE  ToSet(Listed(v, Q, W, r)) \cap S = {}
<1> DEFINE G == Gathered(Q, Command)
           H == Gathered(W, Command)
<1>1. G \in Seq(Command) /\ H \in Seq(Command)
  BY GatheredOnce
<1>2. ToSet(G) \cap S = {} /\ ToSet(H) \cap S = {}
  BY GatheredMembers DEF Away
<1>3. Listed(v, Q, W, r) = ((v \o G) \o H) \o r
  BY DEF Listed
<1> HIDE DEF G, H
<1> DEFINE x == v \o G
<1>4. x \in Seq(Command) /\ ToSet(x) = ToSet(v) \cup ToSet(G)
  BY <1>1, JoinedOnce
<1> HIDE DEF x
<1> DEFINE y == x \o H
<1>5. y \in Seq(Command) /\ ToSet(y) = ToSet(x) \cup ToSet(H)
  BY <1>1, <1>4, JoinedOnce
<1> HIDE DEF y
<1>6. ToSet(y \o r) = ToSet(y) \cup ToSet(r)
  BY <1>5, JoinedOnce
<1>7. ToSet(v) \cap S = {}
  BY DEF Away
<1> QED BY <1>2, <1>3, <1>4, <1>5, <1>6, <1>7 DEF x, y

\* Pending are the sequences, now
LEMMA PendingNow ==
  ASSUME SoundAssumption, NEW v, NEW Q, NEW W, NEW r,
         IsOrdered(next, command_p, mesgQueue, fifo, reserveList, v, Q, W, r)
  PROVE  Sound!Pending = Listed(v, Q, W, r)
BY PendingIs, PendingFound

\* and after a step.
LEMMA PendingNext ==
  ASSUME SoundAssumption, NEW v, NEW Q, NEW W, NEW r,
         IsOrdered(next', command_p', mesgQueue', fifo', reserveList', v, Q, W, r)
  PROVE  Sound!Pending' = Listed(v, Q, W, r)
BY PendingIs, PendingFound

\* What is listed is made of sequences of commands.
LEMMA ListedTyped ==
  ASSUME NEW link, NEW c, NEW q, NEW w, NEW a, NEW v, NEW Q, NEW W, NEW r,
         IsOrdered(link, c, q, w, a, v, Q, W, r)
  PROVE  /\ v \in Seq(Command) /\ r \in Seq(Command)
         /\ Q \in Lists(Command) /\ W \in Lists(Command)
         /\ Gathered(Q, Command) \in Seq(Command) /\ Gathered(W, Command) \in Seq(Command)
<1>1. /\ v \in Seq(Command) /\ r \in Seq(Command)
      /\ Q \in Lists(Command) /\ W \in Lists(Command)
  BY DEF IsOrdered, Unrolls
<1> QED BY <1>1, GatheredOnce

\* Links that differ only where nothing is listed.
LEMMA OrderKept ==
  ASSUME NEW link, NEW new, NEW c, NEW q, NEW w, NEW a, NEW v, NEW Q, NEW W, NEW r, NEW S,
         IsOrdered(link, c, q, w, a, v, Q, W, r), Away(v, Q, W, S),
         \A x \in Command \ S : new[x] = link[x]
  PROVE  Follows(new, c, v, None) /\ Unrolls(new, q, Q) /\ Unrolls(new, w, W)
<1>1. /\ v \in Seq(Command) /\ Follows(link, c, v, None)
      /\ Unrolls(link, q, Q) /\ Unrolls(link, w, W)
  BY DEF IsOrdered
<1>2. ASSUME NEW u \in Seq(Command), ToSet(u) \cap S = {} PROVE \A x \in ToSet(u) : new[x] = link[x]
  <2>1. ToSet(u) \subseteq Command
    BY DEF ToSet
  <2> QED BY <1>2, <2>1
<1>3. Follows(new, c, v, None)
  <2>1. \A x \in ToSet(v) : new[x] = link[x]
    BY <1>1, <1>2 DEF Away
  <2> QED BY <1>1, <2>1, FollowsKept
<1>4. ASSUME NEW p, NEW L, Unrolls(link, p, L), \A i \in 1..Len(L) : ToSet(L[i]) \cap S = {}
      PROVE  Unrolls(new, p, L)
  <2>1. ASSUME NEW i \in 1..Len(p) PROVE \A x \in ToSet(L[i]) : new[x] = link[x]
    <3>1. L[i] \in Seq(Command) /\ ToSet(L[i]) \cap S = {}
      BY <1>4 DEF Unrolls
    <3> QED BY <1>2, <3>1
  <2> QED BY <1>4, <2>1, UnrollsKept
<1>5. Unrolls(new, q, Q) /\ Unrolls(new, w, W)
  BY <1>1, <1>4 DEF Away
<1> QED BY <1>3, <1>5

\* To take back a list changes nothing of what is pending.
LEMMA RecvOrdered ==
  ASSUME SoundAssumption, SoundInv, Sound!Recv, UNCHANGED <<Sound!arm7, fifo, held>>
  PROVE  Sound!Pending' = Sound!Pending /\ Sound!Held' = Sound!Held
<1>1. PICK f, r, s, d : CoreOK(f, r, s, d)
  BY DEF SoundInv, CoreInv
<1> DEFINE S == ToSet(f) \cup ToSet(r) \cup Sound!Held
<1>2. PICK v, Q, W : /\ IsOrdered(next, command_p, mesgQueue, fifo, reserveList, v, Q, W, r)
                     /\ Away(v, Q, W, S)
  BY <1>1, WordsFound
<1>3. /\ r \in Seq(Command) /\ EachOnce(r) /\ Follows(next, reserveList, r, None)
      /\ f \in Seq(Command) /\ freeListEnd = (IF f = <<>> THEN None ELSE f[Len(f)])
      /\ None \notin Command /\ ToSet(f) \cap ToSet(r) = {}
      /\ next \in [Command -> Command \cup {None}]
  BY <1>1 DEF CoreOK, ChainsOK, IsChain, ApartOK, CoreTypes, SoundAssumption
<1>4. /\ reserveList' = reserveList /\ fifo' = fifo
      /\ mesgQueue' = mesgQueue /\ command_p' = command_p
  BY DEF Sound!Recv, Sound!arm7
<1>5. \A x \in Command \ ToSet(f) : next'[x] = next[x]
  <2>1. CASE freeListEnd = None
    BY <2>1 DEF Sound!Recv
  <2>2. CASE freeListEnd # None
    <3>1. freeListEnd \in ToSet(f)
      <4>1. f # <<>> => Len(f) \in DOMAIN f
        BY <1>3
      <4> QED BY <1>3, <2>2, <4>1 DEF ToSet
    <3>2. PICK e : next' = [next EXCEPT ![freeListEnd] = e]
      BY <2>2 DEF Sound!Recv
    <3> QED BY <1>3, <3>1, <3>2
  <2> QED BY <2>1, <2>2
<1>6. Follows(next', reserveList', r, None)
  <2>1. \A x \in ToSet(r) : next'[x] = next[x]
    <3>1. ToSet(r) \subseteq Command
      BY <1>3 DEF ToSet
    <3> QED BY <1>3, <1>5, <3>1
  <2> QED BY <1>3, <1>4, <2>1, FollowsKept
<1>7. /\ Follows(next', command_p, v, None)
      /\ Unrolls(next', mesgQueue, Q) /\ Unrolls(next', fifo, W)
  <2>1. \A x \in Command \ S : next'[x] = next[x]
    BY <1>5
  <2> HIDE DEF S
  <2> QED BY <1>2, <2>1, OrderKept
<1>8. IsOrdered(next', command_p', mesgQueue', fifo', reserveList', v, Q, W, r)
  BY <1>2, <1>4, <1>6, <1>7 DEF IsOrdered
<1>9. Sound!Pending = Listed(v, Q, W, r) /\ Sound!Pending' = Listed(v, Q, W, r)
  BY <1>2, <1>8, PendingNow, PendingNext
<1> QED BY <1>9, HeldKept

\* A thread takes a command that is not pending.
LEMMA AllocOrdered ==
  ASSUME SoundAssumption, SoundInv, NEW t \in Caller, held[t] = None, Sound!AllocCommand(t),
         UNCHANGED <<Sound!arm7, fifo>>
  PROVE  Sound!Order!Take(freeList) /\ freeList \in Command
<1>1. PICK f, r, s, d : CoreOK(f, r, s, d)
  BY DEF SoundInv, CoreInv
<1> DEFINE S == ToSet(f) \cup ToSet(r) \cup Sound!Held
<1>2. PICK v, Q, W : /\ IsOrdered(next, command_p, mesgQueue, fifo, reserveList, v, Q, W, r)
                     /\ Away(v, Q, W, S)
  BY <1>1, WordsFound
<1>3. /\ f \in Seq(Command) /\ Follows(next, freeList, f, None) /\ None \notin Command
      /\ ToSet(f) \cap ToSet(r) = {} /\ Sound!Held \cap ToSet(f) = {}
      /\ held \in [Caller -> Command \cup {None}]
  BY <1>1 DEF CoreOK, ChainsOK, IsChain, ApartOK, CoreTypes, SoundAssumption
<1>4. freeList \in ToSet(f) /\ freeList \in Command
  <2>1. freeList # None
    BY DEF Sound!AllocCommand
  <2>2. f # <<>> /\ freeList = f[1]
    BY <1>3, <2>1 DEF Follows
  <2>3. 1 \in DOMAIN f /\ f[1] \in Command
    BY <1>3, <2>2
  <2> QED BY <2>2, <2>3 DEF ToSet
<1>5. Sound!Pending = Listed(v, Q, W, r)
  BY <1>2, PendingNow
<1>6. freeList \notin ToSet(Sound!Pending)
  <2>1. /\ v \in Seq(Command) /\ r \in Seq(Command)
        /\ Q \in Lists(Command) /\ W \in Lists(Command)
    BY <1>2, ListedTyped
  <2>2. Away(v, Q, W, ToSet(f)) /\ ToSet(r) \cap ToSet(f) = {}
    BY <1>2, <1>3 DEF Away
  <2> QED BY <1>4, <1>5, <2>1, <2>2, ListedMembers
<1>7. Sound!Held' = Sound!Held \cup {freeList}
  <2>1. held' = [held EXCEPT ![t] = freeList] /\ freeList # None
    BY DEF Sound!AllocCommand
  <2> QED BY <1>3, <1>4, <2>1, HeldAfterTake
<1>8. Sound!Pending' = Sound!Pending
  <2>1. /\ next' = next /\ command_p' = command_p /\ mesgQueue' = mesgQueue /\ fifo' = fifo
        /\ reserveList' = reserveList
    BY DEF Sound!AllocCommand, Sound!arm7
  <2> QED BY <2>1, PendingIs
<1>9. Sound!Order!ToSet(Sound!Pending) = ToSet(Sound!Pending)
  BY DEF Sound!Order!ToSet, ToSet
<1> QED BY <1>3, <1>4, <1>6, <1>7, <1>8, <1>9 DEF Sound!Order!Take

\* A thread pushes the command it took behind those that are pending.
LEMMA PushOrdered ==
  ASSUME SoundAssumption, SoundInv, NEW t \in Caller, Sound!SND_PushCommand(t)
  PROVE  \E c \in Command : Sound!Order!Push(c)
<1> SUFFICES ASSUME NEW command, command = held[t]
             PROVE  \E c \in Command : Sound!Order!Push(c)
  OBVIOUS
<1>1. PICK f, r, s, d : CoreOK(f, r, s, d)
  BY DEF SoundInv, CoreInv
<1> DEFINE S == ToSet(f) \cup ToSet(r) \cup Sound!Held
           q == Append(r, command)
<1>2. PICK v, Q, W : /\ IsOrdered(next, command_p, mesgQueue, fifo, reserveList, v, Q, W, r)
                     /\ Away(v, Q, W, S)
  BY <1>1, WordsFound
<1>3. /\ r \in Seq(Command) /\ reserveListEnd = (IF r = <<>> THEN None ELSE r[Len(r)])
      /\ None \notin Command /\ held \in [Caller -> Command \cup {None}]
      /\ \A x, y \in Caller : x # y => held[x] = None \/ held[x] # held[y]
  BY <1>1 DEF CoreOK, ChainsOK, IsChain, ApartOK, CoreTypes, SoundAssumption
<1>4. /\ command # None /\ command \in Command
      /\ next' = [c \in Command |->
                   IF c = command THEN None
                   ELSE IF c = reserveListEnd THEN command ELSE next[c]]
      /\ held' = [held EXCEPT ![t] = None]
      /\ fifo' = fifo /\ mesgQueue' = mesgQueue /\ command_p' = command_p
  BY <1>3 DEF Sound!SND_PushCommand, Sound!arm7
<1>5. Sound!Held' = Sound!Held \ {command} /\ command \in Sound!Held
  <2>1. Sound!Held' = Sound!Held \ {held[t]} /\ held[t] \in Sound!Held
    BY <1>3, <1>4, HeldAfterPush
  <2> QED BY <2>1
<1>6. q \in Seq(Command) /\ EachOnce(q) /\ Follows(next', reserveList', q, None)
  <2>1. ChainsOK(f, q, s)'
    <3>1. CoreTypes /\ ChainsOK(f, r, s) /\ ApartOK(f, r, s)
      BY <1>1 DEF CoreOK
    <3> QED BY <3>1, PushLists
  <2> QED BY <2>1 DEF ChainsOK, IsChain
<1>7. \A x \in Command \ S : next'[x] = next[x]
  <2>1. reserveListEnd # None => reserveListEnd \in ToSet(r)
    <3>1. r # <<>> => Len(r) \in DOMAIN r
      BY <1>3
    <3> QED BY <1>3, <3>1 DEF ToSet
  <2> QED BY <1>3, <1>4, <1>5, <2>1
<1> HIDE DEF S
<1>8. /\ Follows(next', command_p, v, None)
      /\ Unrolls(next', mesgQueue, Q) /\ Unrolls(next', fifo, W)
  BY <1>2, <1>7, OrderKept
<1>9. IsOrdered(next', command_p', mesgQueue', fifo', reserveList', v, Q, W, q)
  BY <1>2, <1>4, <1>6, <1>8 DEF IsOrdered
<1>10. Sound!Pending = Listed(v, Q, W, r) /\ Sound!Pending' = Listed(v, Q, W, q)
  BY <1>2, <1>9, PendingNow, PendingNext
<1>11. Listed(v, Q, W, q) = Append(Listed(v, Q, W, r), command)
  <2> DEFINE x == (v \o Gathered(Q, Command)) \o Gathered(W, Command)
  <2>1. x \in Seq(Command)
    <3>1. v \in Seq(Command) /\ Gathered(Q, Command) \in Seq(Command)
          /\ Gathered(W, Command) \in Seq(Command)
      BY <1>2, ListedTyped
    <3> QED BY <3>1
  <2>2. Listed(v, Q, W, q) = x \o q /\ Listed(v, Q, W, r) = x \o r
    BY DEF Listed
  <2> HIDE DEF x
  <2>3. x \o q = Append(x \o r, command)
    BY <1>3, <1>4, <2>1
  <2> QED BY <2>2, <2>3
<1>12. Sound!Order!Push(command)
  BY <1>5, <1>10, <1>11 DEF Sound!Order!Push
<1> QED BY <1>4, <1>12

\* Joined sequences are sequences, in whatever order they are joined.
LEMMA Joins ==
  ASSUME NEW T, NEW All, All = Seq(T)
  PROVE  /\ <<>> \in All
         /\ \A x \in All : <<>> \o x = x /\ x \o <<>> = x
         /\ \A x, y \in All : x \o y \in All
         /\ \A x, y, z \in All : (x \o y) \o z = x \o (y \o z)
<1>1. \A x, y, z \in Seq(T) : (x \o y) \o z = x \o (y \o z)
  BY JoinedTwice
<1>2. \A x \in Seq(T) : <<>> \o x = x /\ x \o <<>> = x
  BY ConcatEmptySeq
<1>3. <<>> \in Seq(T) /\ \A x, y \in Seq(T) : x \o y \in Seq(T)
  OBVIOUS
<1> QED BY <1>1, <1>2, <1>3

\* The order is the same when the last list is among the words,
LEMMA ListedSent ==
  ASSUME NEW v \in Seq(Command), NEW Q \in Lists(Command), NEW W \in Lists(Command),
         NEW r \in Seq(Command)
  PROVE  /\ Listed(v, Q, Append(W, r), <<>>) = Listed(v, Q, W, r)
         /\ Listed(v, Q, Append(W, <<>>), r) = Listed(v, Q, W, r)
<1> DEFINE G == Gathered(Q, Command)
           H == Gathered(W, Command)
           All == Seq(Command)
<1>1. G \in All /\ H \in All /\ v \in All /\ r \in All
  BY GatheredOnce
<1>2. /\ Gathered(Append(W, r), Command) = H \o r
      /\ Gathered(Append(W, <<>>), Command) = H \o <<>>
  <2>1. <<>> \in Seq(Command)
    OBVIOUS
  <2> QED BY <2>1, GatheredAppend
<1>3. /\ <<>> \in All
      /\ \A x \in All : <<>> \o x = x /\ x \o <<>> = x
      /\ \A x, y \in All : x \o y \in All
      /\ \A x, y, z \in All : (x \o y) \o z = x \o (y \o z)
  BY Joins
<1>4. /\ Listed(v, Q, Append(W, r), <<>>) = ((v \o G) \o (H \o r)) \o <<>>
      /\ Listed(v, Q, Append(W, <<>>), r) = ((v \o G) \o (H \o <<>>)) \o r
      /\ Listed(v, Q, W, r) = ((v \o G) \o H) \o r
  BY <1>2 DEF Listed
<1> HIDE DEF G, H, All
<1>5. ((v \o G) \o (H \o r)) \o <<>> = ((v \o G) \o H) \o r
  <2> DEFINE a == v \o G
             b == H \o r
  <2>1. a \in All /\ b \in All
    BY <1>1, <1>3
  <2> HIDE DEF a
  <2>2. a \o b = (a \o H) \o r
    <3>1. \A x, y, z \in All : (x \o y) \o z = x \o (y \o z)
      BY <1>3
    <3>2. a \in All /\ H \in All /\ r \in All
      BY <1>1, <2>1
    <3>3. (a \o H) \o r = a \o (H \o r)
      BY <3>1, <3>2, Zenon
    <3> QED BY <3>3
  <2> HIDE DEF b
  <2>3. (a \o b) \o <<>> = a \o b
    <3>1. a \o b \in All
      BY <1>3, <2>1
    <3> QED BY <1>3, <3>1
  <2> QED BY <2>2, <2>3 DEF a, b
<1>6. H \o <<>> = H
  BY <1>1, <1>3
<1> QED BY <1>4, <1>5, <1>6

\* when the first word is queued,
LEMMA ListedQueued ==
  ASSUME NEW v \in Seq(Command), NEW Q \in Lists(Command), NEW W \in Lists(Command), W # <<>>,
         NEW r \in Seq(Command), NEW u \in Seq(Command), u = W[1]
  PROVE  /\ Listed(v, Append(Q, u), Tail(W), r) = Listed(v, Q, W, r)
         /\ u = <<>> => Listed(v, Q, Tail(W), r) = Listed(v, Q, W, r)
<1> DEFINE G == Gathered(Q, Command)
           H == Gathered(Tail(W), Command)
           All == Seq(Command)
<1>1. Tail(W) \in Lists(Command)
  BY DEF Lists
<1>2. G \in All /\ H \in All /\ v \in All /\ r \in All /\ u \in All
  BY <1>1, GatheredOnce
<1>3. Gathered(Append(Q, u), Command) = G \o u /\ Gathered(W, Command) = u \o H
  BY GatheredAppend, GatheredTail
<1>4. /\ <<>> \in All
      /\ \A x \in All : <<>> \o x = x /\ x \o <<>> = x
      /\ \A x, y \in All : x \o y \in All
      /\ \A x, y, z \in All : (x \o y) \o z = x \o (y \o z)
  BY Joins
<1>5. /\ Listed(v, Append(Q, u), Tail(W), r) = ((v \o (G \o u)) \o H) \o r
      /\ Listed(v, Q, W, r) = ((v \o G) \o (u \o H)) \o r
      /\ Listed(v, Q, Tail(W), r) = ((v \o G) \o H) \o r
  BY <1>3 DEF Listed
<1> HIDE DEF G, H, All
<1>6. (v \o (G \o u)) \o H = (v \o G) \o (u \o H)
  <2> DEFINE a == v \o G
  <2>1. v \o (G \o u) = a \o u /\ a \in All
    BY ZenonT(40), <1>2, <1>4
  <2> HIDE DEF a
  <2>2. (a \o u) \o H = a \o (u \o H)
    <3>1. \A x, y, z \in All : (x \o y) \o z = x \o (y \o z)
      BY <1>4
    <3>2. a \in All /\ u \in All /\ H \in All
      BY <1>2, <2>1
    <3> QED BY <3>1, <3>2, Zenon
  <2> QED BY <2>1, <2>2 DEF a
<1>7. u = <<>> => u \o H = H
  BY <1>2, <1>4
<1> QED BY <1>5, <1>6, <1>7

\* and when the ARM7 takes the first that is queued.
LEMMA ListedTaken ==
  ASSUME NEW Q \in Lists(Command), Q # <<>>, NEW W \in Lists(Command), NEW r,
         NEW u \in Seq(Command), u = Q[1]
  PROVE  Listed(u, Tail(Q), W, r) = Listed(<<>>, Q, W, r)
<1> DEFINE G == Gathered(Tail(Q), Command)
           All == Seq(Command)
<1>1. Tail(Q) \in Lists(Command)
  BY DEF Lists
<1>2. G \in All /\ u \in All
  BY <1>1, GatheredOnce
<1>3. Gathered(Q, Command) = u \o G
  BY GatheredTail
<1>4. <<>> \o (u \o G) = u \o G
  <2>1. u \o G \in All
    BY <1>2
  <2> HIDE DEF G
  <2> QED BY <2>1, ConcatEmptySeq
<1> QED BY <1>3, <1>4 DEF Listed

\* The first of joined sequences is the first of the first of them.
LEMMA TailJoined ==
  ASSUME NEW T, NEW s \in Seq(T), s # <<>>, NEW t \in Seq(T)
  PROVE  s \o t # <<>> /\ Tail(s \o t) = Tail(s) \o t
<1> DEFINE r == s \o t
           u == Tail(s)
           x == Tail(r)
           y == u \o t
<1>1. /\ r \in Seq(T) /\ Len(r) = Len(s) + Len(t) /\ Len(s) \in Nat \ {0} /\ Len(t) \in Nat
      /\ \A i \in 1..Len(r) : r[i] = IF i <= Len(s) THEN s[i] ELSE t[i - Len(s)]
  OBVIOUS
<1>2. u \in Seq(T) /\ Len(u) = Len(s) - 1 /\ \A i \in 1..Len(s) - 1 : u[i] = s[i + 1]
  OBVIOUS
<1> HIDE DEF r, u
<1>3. r # <<>>
  BY <1>1
<1>4. /\ x \in Seq(T) /\ Len(x) = Len(r) - 1 /\ \A i \in 1..Len(r) - 1 : x[i] = r[i + 1]
  BY <1>1, <1>3
<1>5. /\ y \in Seq(T) /\ Len(y) = Len(u) + Len(t)
      /\ \A i \in 1..Len(y) : y[i] = IF i <= Len(u) THEN u[i] ELSE t[i - Len(u)]
  <2>1. u \in Seq(T) /\ t \in Seq(T)
    BY <1>2
  <2>2. y \in Seq(T) /\ Len(y) = Len(u) + Len(t)
    BY <2>1
  <2>3. \A i \in 1..Len(y) : y[i] = IF i <= Len(u) THEN u[i] ELSE t[i - Len(u)]
    BY <2>1
  <2> QED BY <2>2, <2>3
<1> HIDE DEF x, y
<1>6. ASSUME NEW i \in 1..Len(y) PROVE x[i] = y[i]
  <2>1. i \in 1..Len(r) - 1 /\ i + 1 \in 1..Len(r)
    BY <1>1, <1>2, <1>5
  <2>2. CASE i <= Len(u)
    <3>1. i + 1 <= Len(s) /\ i \in 1..Len(s) - 1
      BY <1>1, <1>2, <2>1, <2>2
    <3>2. x[i] = s[i + 1]
      BY <1>1, <1>4, <2>1, <3>1
    <3>3. y[i] = s[i + 1]
      BY <1>2, <1>5, <2>2, <3>1
    <3> QED BY <3>2, <3>3
  <2>3. CASE ~(i <= Len(u))
    <3>1. ~(i + 1 <= Len(s)) /\ i + 1 - Len(s) = i - Len(u)
      BY <1>1, <1>2, <2>1, <2>3
    <3>2. x[i] = t[i + 1 - Len(s)]
      BY <1>1, <1>4, <2>1, <3>1
    <3>3. y[i] = t[i - Len(u)]
      BY <1>5, <2>3
    <3> QED BY <3>1, <3>2, <3>3
  <2> QED BY <2>2, <2>3
<1>7. x = y
  <2>1. Len(x) = Len(y)
    BY <1>1, <1>2, <1>4, <1>5
  <2> QED BY <1>4, <1>5, <1>6, <2>1
<1> QED BY <1>3, <1>7 DEF r, u, x, y

\* The first of all that are listed is the first of those at work.
LEMMA ListedExecuted ==
  ASSUME NEW v \in Seq(Command), v # <<>>, NEW Q \in Lists(Command), NEW W \in Lists(Command),
         NEW r \in Seq(Command)
  PROVE  /\ Listed(v, Q, W, r) # <<>>
         /\ Listed(Tail(v), Q, W, r) = Tail(Listed(v, Q, W, r))
<1> DEFINE G == Gathered(Q, Command)
           H == Gathered(W, Command)
           a == v \o G
           b == a \o H
<1>1. G \in Seq(Command) /\ H \in Seq(Command)
  BY GatheredOnce
<1> HIDE DEF G, H
<1>2. a \in Seq(Command) /\ a # <<>> /\ Tail(a) = Tail(v) \o G
  BY <1>1, TailJoined
<1> HIDE DEF a
<1>3. b \in Seq(Command) /\ b # <<>> /\ Tail(b) = Tail(a) \o H
  BY <1>1, <1>2, TailJoined
<1> HIDE DEF b
<1>4. b \o r # <<>> /\ Tail(b \o r) = Tail(b) \o r
  BY <1>3, TailJoined
<1>5. Listed(v, Q, W, r) = b \o r
  BY DEF Listed, a, b, G, H
<1>6. Listed(Tail(v), Q, W, r) = ((Tail(v) \o G) \o H) \o r
  BY DEF Listed, G, H
<1> QED BY <1>2, <1>3, <1>4, <1>5, <1>6

\* Links from nowhere are those of no commands, other links are those of some.
LEMMA FollowsNothing ==
  ASSUME SoundAssumption, NEW link, NEW a, NEW v \in Seq(Command), Follows(link, a, v, None)
  PROVE  v = <<>> <=> a = None
<1>1. v # <<>> => v[1] \in Command
  OBVIOUS
<1> QED BY <1>1 DEF Follows, SoundAssumption

\* What leaves the words and the links alone leaves the order alone.
LEMMA OrderStutters ==
  ASSUME UNCHANGED <<next, reserveList, command_p, mesgQueue, fifo, held>>
  PROVE  UNCHANGED Sound!Order!vars
<1>1. Sound!Pending' = Sound!Pending
  BY PendingIs
<1> QED BY <1>1, HeldKept DEF Sound!Order!vars

\* The sequences of what is pending.
LEMMA Ordered ==
  ASSUME SoundAssumption, SoundInv
  PROVE  /\ \E v, Q, W, r : /\ IsOrdered(next, command_p, mesgQueue, fifo, reserveList, v, Q, W, r)
                            /\ Sound!Pending = Listed(v, Q, W, r)
         /\ fifo \in Seq(Command \cup {None}) /\ mesgQueue \in Seq(Command)
         /\ ~working => command_p = None
<1>1. PICK f, r, s, d : CoreOK(f, r, s, d)
  BY DEF SoundInv, CoreInv
<1>2. PICK v, Q, W : IsOrdered(next, command_p, mesgQueue, fifo, reserveList, v, Q, W, r)
  BY <1>1, WordsFound
<1>3. Sound!Pending = Listed(v, Q, W, r)
  BY <1>2, PendingNow
<1>4. /\ fifo \in Seq(Command \cup {None}) /\ mesgQueue \in Seq(Command)
      /\ ~working => command_p = None
  BY <1>1 DEF CoreOK, CoreTypes, TagsOK
<1> QED BY <1>2, <1>3, <1>4

\* The reserved list is sent to the ARM7,
LEMMA SendOrdered ==
  ASSUME SoundAssumption, SoundInv, Sound!Send, reserveList # None, UNCHANGED <<Sound!arm7, held>>
  PROVE  UNCHANGED Sound!Order!vars
<1>1. PICK v, Q, W, r : /\ IsOrdered(next, command_p, mesgQueue, fifo, reserveList, v, Q, W, r)
                        /\ Sound!Pending = Listed(v, Q, W, r)
  BY Ordered
<1>2. /\ next' = next /\ command_p' = command_p /\ mesgQueue' = mesgQueue
      /\ fifo' = Append(fifo, reserveList) /\ reserveList' = None
  BY DEF Sound!Send, Sound!arm7
<1>3. /\ v \in Seq(Command) /\ EachOnce(v) /\ Follows(next, command_p, v, None)
      /\ Unrolls(next, mesgQueue, Q) /\ Unrolls(next, fifo, W)
      /\ r \in Seq(Command) /\ EachOnce(r) /\ Follows(next, reserveList, r, None)
  BY <1>1 DEF IsOrdered
<1>4. fifo \in Seq(Command \cup {None}) /\ reserveList \in Command \cup {None}
  BY Ordered DEF SoundInv, CoreInv, CoreOK, CoreTypes
<1>5. Unrolls(next, fifo', Append(W, r))
  BY <1>2, <1>3, <1>4, UnrollsAppend
<1>6. <<>> \in Seq(Command) /\ EachOnce(<<>>) /\ Follows(next, None, <<>>, None)
  BY DEF EachOnce, Follows
<1>7. IsOrdered(next', command_p', mesgQueue', fifo', reserveList', v, Q, Append(W, r), <<>>)
  BY <1>2, <1>3, <1>5, <1>6 DEF IsOrdered
<1>8. Sound!Pending' = Listed(v, Q, Append(W, r), <<>>)
  BY <1>7, PendingNext
<1>9. Listed(v, Q, Append(W, r), <<>>) = Listed(v, Q, W, r)
  <2>1. Q \in Lists(Command) /\ W \in Lists(Command)
    BY <1>1, ListedTyped
  <2> QED BY <1>3, <2>1, ListedSent
<1> QED BY <1>1, <1>8, <1>9, HeldKept DEF Sound!Order!vars

\* or a word that is no list: the order is the same.
LEMMA RequestOrdered ==
  ASSUME SoundAssumption, SoundInv, fifo' = Append(fifo, None),
         UNCHANGED <<Sound!lists, Sound!arm7, held>>
  PROVE  UNCHANGED Sound!Order!vars
<1>1. PICK v, Q, W, r : /\ IsOrdered(next, command_p, mesgQueue, fifo, reserveList, v, Q, W, r)
                        /\ Sound!Pending = Listed(v, Q, W, r)
  BY Ordered
<1>2. /\ next' = next /\ command_p' = command_p /\ mesgQueue' = mesgQueue
      /\ reserveList' = reserveList
  BY DEF Sound!lists, Sound!arm7
<1>3. /\ v \in Seq(Command) /\ EachOnce(v) /\ Follows(next, command_p, v, None)
      /\ Unrolls(next, mesgQueue, Q) /\ Unrolls(next, fifo, W)
      /\ r \in Seq(Command) /\ EachOnce(r) /\ Follows(next, reserveList, r, None)
  BY <1>1 DEF IsOrdered
<1>4. fifo \in Seq(Command \cup {None})
  BY Ordered
<1>5. <<>> \in Seq(Command) /\ EachOnce(<<>>) /\ Follows(next, None, <<>>, None)
  BY DEF EachOnce, Follows
<1>6. Unrolls(next, fifo', Append(W, <<>>))
  BY <1>3, <1>4, <1>5, UnrollsAppend
<1>7. IsOrdered(next', command_p', mesgQueue', fifo', reserveList', v, Q, Append(W, <<>>), r)
  BY <1>2, <1>3, <1>6 DEF IsOrdered
<1>8. Sound!Pending' = Listed(v, Q, Append(W, <<>>), r)
  BY <1>7, PendingNext
<1>9. Listed(v, Q, Append(W, <<>>), r) = Listed(v, Q, W, r)
  <2>1. Q \in Lists(Command) /\ W \in Lists(Command)
    BY <1>1, ListedTyped
  <2> QED BY <1>3, <2>1, ListedSent
<1> QED BY <1>1, <1>8, <1>9, HeldKept DEF Sound!Order!vars

\* The ARM7 queues the list it gets:
LEMMA PxiOrdered ==
  ASSUME SoundAssumption, SoundInv, Sound!PxiFifoCallback
  PROVE  UNCHANGED Sound!Order!vars
<1>1. PICK v, Q, W, r : /\ IsOrdered(next, command_p, mesgQueue, fifo, reserveList, v, Q, W, r)
                        /\ Sound!Pending = Listed(v, Q, W, r)
  BY Ordered
<1>2. /\ next' = next /\ command_p' = command_p /\ reserveList' = reserveList /\ held' = held
      /\ fifo # <<>> /\ fifo' = Tail(fifo)
      /\ mesgQueue' = IF Head(fifo) = None \/ Len(mesgQueue) >= Depth
                      THEN mesgQueue ELSE Append(mesgQueue, Head(fifo))
  BY DEF Sound!PxiFifoCallback, Sound!lists
<1>3. /\ v \in Seq(Command) /\ EachOnce(v) /\ Follows(next, command_p, v, None)
      /\ Unrolls(next, mesgQueue, Q) /\ Unrolls(next, fifo, W)
      /\ r \in Seq(Command) /\ EachOnce(r) /\ Follows(next, reserveList, r, None)
  BY <1>1 DEF IsOrdered
<1>4. /\ fifo \in Seq(Command \cup {None}) /\ mesgQueue \in Seq(Command)
      /\ mesgQueue \in Seq(Command \cup {None})
  <2>1. mesgQueue \in Seq(Command)
    BY Ordered
  <2>2. \A i \in 1..Len(mesgQueue) : mesgQueue[i] \in Command \cup {None}
    BY <2>1
  <2>3. mesgQueue \in Seq(Command \cup {None})
    BY <2>1, <2>2
  <2> QED BY <2>1, <2>3, Ordered
<1> DEFINE x == fifo[1]
           u == W[1]
<1>5. /\ Unrolls(next, fifo', Tail(W)) /\ W # <<>>
      /\ u \in Seq(Command) /\ EachOnce(u) /\ Follows(next, x, u, None)
  BY <1>2, <1>3, <1>4, UnrollsTail
<1>6. Head(fifo) = x /\ x \in Command \cup {None}
  BY <1>2, <1>4
<1>7. Q \in Lists(Command) /\ W \in Lists(Command)
  BY <1>1, ListedTyped
<1>8. /\ Listed(v, Append(Q, u), Tail(W), r) = Listed(v, Q, W, r)
      /\ u = <<>> => Listed(v, Q, Tail(W), r) = Listed(v, Q, W, r)
  BY <1>3, <1>5, <1>7, ListedQueued
<1>9. CASE x = None
  <2>1. u = <<>>
    BY <1>5, <1>9, FollowsNothing
  <2>2. mesgQueue' = mesgQueue
    BY <1>2, <1>6, <1>9
  <2>3. IsOrdered(next', command_p', mesgQueue', fifo', reserveList', v, Q, Tail(W), r)
    BY <1>2, <1>3, <1>5, <2>2 DEF IsOrdered
  <2>4. Sound!Pending' = Listed(v, Q, Tail(W), r)
    BY <2>3, PendingNext
  <2> QED BY <1>1, <1>2, <1>8, <2>1, <2>4, HeldKept DEF Sound!Order!vars
<1>10. CASE x # None
  <2>1. mesgQueue' = Append(mesgQueue, x)
    <3>1. Len(mesgQueue) < Depth
      <4>1. PICK f, q, s, d : CoreOK(f, q, s, d)
        BY DEF SoundInv, CoreInv
      <4>2. /\ waitingCount \in Nat /\ waitingCount <= Depth /\ Depth \in Nat
            /\ One(working) \in {0, 1} /\ Len(mesgQueue) \in Nat /\ d \in Nat
            /\ Later(fifo, 1, Command) \in Nat /\ Later(fifo, 1, Command) >= 1
            /\ d + One(working) + Len(mesgQueue) + Later(fifo, 1, Command) = waitingCount
        <5>1. 1 \in 1..Len(fifo)
          BY <1>2, <1>4
        <5>2. /\ waitingCount \in Nat /\ waitingCount <= Depth
              /\ One(working) \in {0, 1} /\ Len(mesgQueue) \in Nat
              /\ Later(fifo, 1, Command) \in Nat /\ Later(fifo, 1, Command) >= 1
          BY <1>10, <4>1, <5>1, CountsAre DEF CoreOK
        <5>3. /\ d \in 0..waitingCount
              /\ d + One(working) + Len(mesgQueue) + Later(fifo, 1, Command) = waitingCount
          BY <4>1 DEF CoreOK, TagsOK
        <5>4. Depth \in Nat
          BY DEF SoundAssumption
        <5> QED BY <5>2, <5>3, <5>4
      <4> DEFINE w == One(working)
                 m == Len(mesgQueue)
                 l == Later(fifo, 1, Command)
      <4>3. /\ waitingCount \in Nat /\ waitingCount <= Depth /\ Depth \in Nat
            /\ w \in Nat /\ m \in Nat /\ d \in Nat /\ l \in Nat /\ l >= 1
            /\ d + w + m + l = waitingCount
        BY <4>2
      <4> HIDE DEF w, m, l
      <4>4. m < Depth
        BY <4>3
      <4> QED BY <4>4 DEF m
    <3>2. ~(Len(mesgQueue) >= Depth)
      <4>1. Len(mesgQueue) \in Nat /\ Depth \in Nat
        BY <1>4 DEF SoundAssumption
      <4> QED BY <3>1, <4>1
    <3> QED BY <1>2, <1>6, <1>10, <3>2
  <2>2. Unrolls(next, mesgQueue', Append(Q, u))
    <3> HIDE DEF x, u
    <3> QED BY <1>3, <1>4, <1>5, <1>6, <2>1, UnrollsAppend
  <2>3. IsOrdered(next', command_p', mesgQueue', fifo', reserveList', v, Append(Q, u), Tail(W), r)
    BY <1>2, <1>3, <1>5, <2>2 DEF IsOrdered
  <2>4. Sound!Pending' = Listed(v, Append(Q, u), Tail(W), r)
    BY <2>3, PendingNext
  <2> QED BY <1>1, <1>2, <1>8, <2>4, HeldKept DEF Sound!Order!vars
<1> QED BY <1>9, <1>10

\* The thread of the ARM7 takes it: the order is the same.
LEMMA ReceiveOrdered ==
  ASSUME SoundAssumption, SoundInv, Sound!CommandProc_Receive
  PROVE  UNCHANGED Sound!Order!vars
<1>1. PICK v, Q, W, r : /\ IsOrdered(next, command_p, mesgQueue, fifo, reserveList, v, Q, W, r)
                        /\ Sound!Pending = Listed(v, Q, W, r)
  BY Ordered
<1>2. /\ next' = next /\ fifo' = fifo /\ reserveList' = reserveList /\ held' = held
      /\ ~working /\ mesgQueue # <<>> /\ mesgQueue' = Tail(mesgQueue)
      /\ command_p' = Head(mesgQueue)
  BY DEF Sound!CommandProc_Receive, Sound!lists
<1>3. /\ v \in Seq(Command) /\ EachOnce(v) /\ Follows(next, command_p, v, None)
      /\ Unrolls(next, mesgQueue, Q) /\ Unrolls(next, fifo, W)
      /\ r \in Seq(Command) /\ EachOnce(r) /\ Follows(next, reserveList, r, None)
  BY <1>1 DEF IsOrdered
<1>4. mesgQueue \in Seq(Command) /\ mesgQueue \in Seq(Command \cup {None})
  <2>1. mesgQueue \in Seq(Command)
    BY Ordered
  <2>2. \A i \in 1..Len(mesgQueue) : mesgQueue[i] \in Command \cup {None}
    BY <2>1
  <2>3. mesgQueue \in Seq(Command \cup {None})
    BY <2>1, <2>2
  <2> QED BY <2>1, <2>3
<1> DEFINE x == mesgQueue[1]
           u == Q[1]
<1>5. /\ Unrolls(next, mesgQueue', Tail(Q)) /\ Q # <<>>
      /\ u \in Seq(Command) /\ EachOnce(u) /\ Follows(next, x, u, None)
  BY <1>2, <1>3, <1>4, UnrollsTail
<1>6. command_p' = x
  BY <1>2, <1>4
<1>7. v = <<>>
  <2>1. command_p = None
    BY <1>2, Ordered
  <2> QED BY <1>3, <2>1, FollowsNothing
<1>8. IsOrdered(next', command_p', mesgQueue', fifo', reserveList', u, Tail(Q), W, r)
  BY <1>2, <1>3, <1>5, <1>6 DEF IsOrdered
<1>9. Sound!Pending' = Listed(u, Tail(Q), W, r)
  BY <1>8, PendingNext
<1>10. Listed(u, Tail(Q), W, r) = Listed(<<>>, Q, W, r)
  <2>1. Q \in Lists(Command) /\ W \in Lists(Command)
    BY <1>1, ListedTyped
  <2> QED BY <1>5, <2>1, ListedTaken
<1> QED BY <1>1, <1>2, <1>7, <1>9, <1>10, HeldKept DEF Sound!Order!vars

\* It executes the first of all that are pending.
LEMMA ExecuteOrdered ==
  ASSUME SoundAssumption, SoundInv, Sound!CommandProc_Execute
  PROVE  Sound!Order!Execute
<1>1. PICK v, Q, W, r : /\ IsOrdered(next, command_p, mesgQueue, fifo, reserveList, v, Q, W, r)
                        /\ Sound!Pending = Listed(v, Q, W, r)
  BY Ordered
<1>2. /\ next' = next /\ fifo' = fifo /\ reserveList' = reserveList /\ held' = held
      /\ mesgQueue' = mesgQueue /\ command_p # None /\ command_p' = next[command_p]
  BY DEF Sound!CommandProc_Execute, Sound!lists
<1>3. /\ v \in Seq(Command) /\ EachOnce(v) /\ Follows(next, command_p, v, None)
      /\ Unrolls(next, mesgQueue, Q) /\ Unrolls(next, fifo, W)
      /\ r \in Seq(Command) /\ EachOnce(r) /\ Follows(next, reserveList, r, None)
  BY <1>1 DEF IsOrdered
<1>4. v # <<>>
  BY <1>2, <1>3, FollowsNothing
<1>5. /\ Follows(next, next[command_p], Tail(v), None)
      /\ Tail(v) \in Seq(Command) /\ EachOnce(Tail(v))
  <2>1. None \notin Command
    BY DEF SoundAssumption
  <2> QED BY <1>3, <1>4, <2>1, FollowsTail, TailOnce
<1>6. IsOrdered(next', command_p', mesgQueue', fifo', reserveList', Tail(v), Q, W, r)
  BY <1>2, <1>3, <1>5 DEF IsOrdered
<1>7. Sound!Pending' = Listed(Tail(v), Q, W, r)
  BY <1>6, PendingNext
<1>8. /\ Listed(v, Q, W, r) # <<>>
      /\ Listed(Tail(v), Q, W, r) = Tail(Listed(v, Q, W, r))
  <2>1. Q \in Lists(Command) /\ W \in Lists(Command)
    BY <1>1, ListedTyped
  <2> QED BY <1>3, <1>4, <2>1, ListedExecuted
<1> QED BY <1>1, <1>2, <1>7, <1>8, HeldKept DEF Sound!Order!Execute

\* At first the one command of the list SND_CommandInit sends is pending.
LEMMA InitOrdered == ASSUME SoundAssumption, Sound!Init PROVE Sound!Order!Init
<1>1. PICK s \in Sound!SetToSeqs(Command) :
        /\ next = [c \in Command |->
                    LET i == CHOOSE i \in DOMAIN s : s[i] = c
                    IN IF i \in {1, Len(s)} THEN None ELSE s[i + 1]]
        /\ fifo = <<s[1]>>
  BY DEF Sound!Init
<1> DEFINE x == s[1]
           b == <<x>>
           none == <<>>
<1>2. s \in Seq(Command) /\ Len(s) >= 2 /\ EachOnce(s) /\ ToSet(s) = Command
  BY OrdersAre
<1>3. Follows(next, x, b, None) /\ x \in Command
  BY <1>1, <1>2, InitLists
<1>4. reserveList = None /\ mesgQueue = none /\ command_p = None /\ fifo = <<x>>
      /\ held = [t \in Caller |-> None]
  BY <1>1 DEF Sound!Init
<1> HIDE DEF x
<1>5. /\ b \in Seq(Command) /\ EachOnce(b) /\ b \in [1..1 -> Command]
      /\ none \o b = b /\ b \o none = b /\ none \o none = none
      /\ Append(none, x) = <<x>> /\ Append(none, b) \in Seq(Seq(Command))
  <2>1. b \in Seq(Command) /\ Len(b) = 1 /\ b[1] = x /\ \A i \in 1..1 : i = 1
    BY <1>3
  <2>2. b \in [1..1 -> Command]
    BY <1>3
  <2>3. none \in Seq(Command)
    OBVIOUS
  <2>4. Append(none, x) = <<x>> /\ Append(none, b) \in Seq(Seq(Command))
    BY <2>1
  <2> HIDE DEF b, none
  <2>5. EachOnce(b)
    BY <2>1 DEF EachOnce
  <2>6. none \o b = b /\ b \o none = b /\ none \o none = none
    BY <2>1, <2>3, ConcatEmptySeq DEF none
  <2> QED BY <2>1, <2>2, <2>4, <2>5, <2>6
<1>6. /\ none \in Seq(Command) /\ EachOnce(none) /\ Follows(next, None, none, None)
      /\ Unrolls(next, none, none)
  <2>1. none \in Seq(Command) /\ Len(none) = 0 /\ 1..0 = {} /\ none \in Lists(Command)
    BY DEF Lists
  <2>2. Follows(next, None, none, None)
    BY DEF Follows
  <2> HIDE DEF none
  <2> QED BY <2>1, <2>2 DEF EachOnce, Unrolls
<1> DEFINE all == Append(none, b)
<1>7. Unrolls(next, Append(none, x), all) /\ none \in Lists(Command)
  <2>1. none \in Seq(Command \cup {None}) /\ none \in Lists(Command)
    BY DEF Lists
  <2> HIDE DEF none, b, all
  <2> QED BY <1>3, <1>5, <1>6, <2>1, UnrollsAppend DEF all
<1>8. Gathered(none, Command) = none
  BY GatheredNone
<1> HIDE DEF b, none
<1>9. Gathered(all, Command) = b
  BY <1>5, <1>7, <1>8, GatheredAppend
<1> HIDE DEF all
<1>10. IsOrdered(next, command_p, mesgQueue, fifo, reserveList, none, none, all, none)
  BY <1>4, <1>5, <1>6, <1>7 DEF IsOrdered
<1>11. Sound!Pending = b
  <2>1. Sound!Pending = Listed(none, none, all, none)
    BY <1>10, PendingNow
  <2> QED BY <1>5, <1>8, <1>9, <2>1 DEF Listed
<1>12. Sound!Held = {}
  BY <1>4 DEF Sound!Held
<1> QED BY <1>5, <1>11, <1>12 DEF Sound!Order!Init

\* A call begins: it takes a command, pushes it, or leaves the order alone.
LEMMA BeginOrdered ==
  ASSUME SoundAssumption, SoundInv, NEW t \in Caller, Sound!Begin(t)
  PROVE  [Sound!Order!Next]_Sound!Order!vars
<1>1. ASSUME NEW block \in BOOLEAN, Sound!SND_AllocCommand(t, block)
      PROVE  [Sound!Order!Next]_Sound!Order!vars
  <2>1. CASE Sound!AllocCommand(t)
    <3>1. held[t] = None /\ UNCHANGED <<Sound!arm7, fifo>>
      BY <1>1 DEF Sound!SND_AllocCommand, Sound!IsIdle
    <3>2. Sound!Order!Take(freeList) /\ freeList \in Command
      BY <2>1, <3>1, AllocOrdered
    <3> QED BY <3>2 DEF Sound!Order!Next
  <2>2. CASE UNCHANGED <<Sound!lists, held>>
    <3>1. UNCHANGED <<next, reserveList, command_p, mesgQueue, fifo, held>>
      BY <1>1, <2>2 DEF Sound!SND_AllocCommand, Sound!lists, Sound!arm7
    <3> QED BY <3>1, OrderStutters
  <2> QED BY <1>1, <2>1, <2>2 DEF Sound!SND_AllocCommand
<1>2. CASE Sound!SND_PushCommand(t)
  <2>1. \E c \in Command : Sound!Order!Push(c)
    BY <1>2, PushOrdered
  <2> QED BY <2>1 DEF Sound!Order!Next
<1>3. CASE Sound!SND_RecvCommandReply(t)
  <2>1. Sound!Recv /\ UNCHANGED <<Sound!arm7, fifo, held>>
    BY <1>3 DEF Sound!SND_RecvCommandReply
  <2> QED BY <2>1, RecvOrdered DEF Sound!Order!vars, Sound!arm7
<1>4. ASSUME NEW immediate \in BOOLEAN, Sound!SND_FlushCommand(t, immediate)
      PROVE  [Sound!Order!Next]_Sound!Order!vars
  <2>1. Sound!Send /\ reserveList # None /\ UNCHANGED <<Sound!arm7, held>>
    BY <1>4 DEF Sound!SND_FlushCommand
  <2> QED BY <2>1, SendOrdered
<1>5. CASE UNCHANGED <<Sound!lists, Sound!arm7, fifo, held>>
  <2>1. UNCHANGED <<next, reserveList, command_p, mesgQueue, fifo, held>>
    BY <1>5 DEF Sound!lists, Sound!arm7
  <2> QED BY <2>1, OrderStutters
<1>6. \/ \E block \in BOOLEAN : Sound!SND_AllocCommand(t, block)
      \/ Sound!SND_PushCommand(t)
      \/ Sound!SND_RecvCommandReply(t)
      \/ \E immediate \in BOOLEAN : Sound!SND_FlushCommand(t, immediate)
      \/ UNCHANGED <<Sound!lists, Sound!arm7, fifo, held>>
  BY DEF Sound!Begin, Sound!SND_FlushCommandBlock, Sound!SND_WaitForCommandProc,
         Sound!SND_WaitForFreeCommand
<1> QED BY <1>1, <1>2, <1>3, <1>4, <1>5, <1>6

\* What a call does as it goes on: it takes a command, or leaves the order alone.
LEMMA GoOnOrdered ==
  ASSUME SoundAssumption, SoundInv, NEW t \in Caller, Sound!GoOn(t)
  PROVE  [Sound!Order!Next]_Sound!Order!vars
<1>1. CASE UNCHANGED <<Sound!lists, Sound!arm7, fifo, held>>
  <2>1. UNCHANGED <<next, reserveList, command_p, mesgQueue, fifo, held>>
    BY <1>1 DEF Sound!lists, Sound!arm7
  <2> QED BY <2>1, OrderStutters
<1>2. CASE Sound!Recv /\ UNCHANGED <<Sound!arm7, fifo, held>>
  BY <1>2, RecvOrdered DEF Sound!Order!vars, Sound!arm7
<1>3. CASE Sound!Send /\ reserveList # None /\ UNCHANGED <<Sound!arm7, held>>
  BY <1>3, SendOrdered
<1>4. CASE Sound!AllocCommand(t) /\ soundCall[t].op = "alloc" /\ UNCHANGED <<Sound!arm7, fifo>>
  <2>1. held[t] = None
    BY <1>4 DEF SoundInv, CallsOK
  <2>2. Sound!Order!Take(freeList) /\ freeList \in Command
    BY <1>4, <2>1, AllocOrdered
  <2> QED BY <2>2 DEF Sound!Order!Next
<1>5. CASE fifo' = Append(fifo, None) /\ UNCHANGED <<Sound!lists, Sound!arm7, held>>
  BY <1>5, RequestOrdered
<1> DEFINE Alone == UNCHANGED <<Sound!lists, Sound!arm7, fifo, held>>
           Back == Sound!Recv /\ UNCHANGED <<Sound!arm7, fifo, held>>
           Sent == Sound!Send /\ reserveList # None /\ UNCHANGED <<Sound!arm7, held>>
<1>6. CASE \/ Sound!CountFreeCommand(t) \/ Sound!CountReservedCommand(t) \/ Sound!Drain(t)
           \/ Sound!Reply(t) \/ Sound!FlushReply(t) \/ Sound!FlushDrain(t)
  <2>1. Sound!CountFreeCommand(t) \/ Sound!CountReservedCommand(t) => Alone
    BY DEF Sound!CountFreeCommand, Sound!CountReservedCommand
  <2>2. Sound!Drain(t) \/ Sound!FlushDrain(t) => Alone \/ Back
    BY DEF Sound!Drain, Sound!FlushDrain
  <2>3. Sound!Reply(t) \/ Sound!FlushReply(t) => Back
    BY DEF Sound!Reply, Sound!FlushReply
  <2> QED BY <1>1, <1>2, <1>6, <2>1, <2>2, <2>3
<1>7. CASE Sound!Flush(t) \/ Sound!FlushSend(t)
  <2>1. Sound!Flush(t) => Alone \/ Sent
    BY DEF Sound!Flush
  <2>2. Sound!FlushSend(t) => Alone \/ Sent
    BY DEF Sound!FlushSend
  <2> QED BY <1>1, <1>3, <1>7, <2>1, <2>2
<1>8. CASE Sound!Test(t)
  <2>1. \/ Alone
        \/ /\ Sound!AllocCommand(t) /\ soundCall[t].op = "alloc"
           /\ UNCHANGED <<Sound!arm7, fifo>>
    BY <1>8 DEF Sound!Test
  <2> QED BY <1>1, <1>4, <2>1
<1>9. CASE Sound!RequestCommandProc(t)
  <2>1. fifo' = Append(fifo, None) /\ UNCHANGED <<Sound!lists, Sound!arm7, held>>
    BY <1>9 DEF Sound!RequestCommandProc
  <2> QED BY <1>5, <2>1
<1> QED BY <1>6, <1>7, <1>8, <1>9 DEF Sound!GoOn

\* Every step of the protocol is one of the order, or none.
LEMMA StepOrdered ==
  ASSUME SoundAssumption, SoundInv, [Sound!Next]_Sound!vars
  PROVE  [Sound!Order!Next]_Sound!Order!vars
<1>1. CASE Sound!PxiFifoCallback \/ Sound!CommandProc_Receive
  BY <1>1, PxiOrdered, ReceiveOrdered
<1>2. CASE Sound!CommandProc_Execute
  <2>1. Sound!Order!Execute
    BY <1>2, ExecuteOrdered
  <2> QED BY <2>1 DEF Sound!Order!Next
<1>3. CASE Sound!CommandProc_Finish \/ UNCHANGED Sound!vars
  <2>1. UNCHANGED <<next, reserveList, command_p, mesgQueue, fifo, held>>
    BY <1>3 DEF Sound!CommandProc_Finish, Sound!vars, Sound!lists, Sound!arm7
  <2> QED BY <2>1, OrderStutters
<1>4. ASSUME NEW t \in Caller, Sound!Begin(t) \/ Sound!GoOn(t)
      PROVE  [Sound!Order!Next]_Sound!Order!vars
  BY <1>4, BeginOrdered, GoOnOrdered
<1> QED BY <1>1, <1>2, <1>3, <1>4 DEF Sound!Next, Sound!SND_CommandProc

\* The sound commands implement SNDOrder: each command that is pushed is executed
\* once, behind those pushed before it, and is not taken again before that
\* (SND_PushCommand, SND_FlushCommand, SND_CommandProc).
THEOREM CommandsExecutedInOrder == ASSUME SoundAssumption PROVE SoundSpec => ExecutedInOrder
<1>1. Sound!Init => SoundInv /\ Sound!Order!Init
  BY SoundInit, InitOrdered
<1>2. SoundInv /\ [Sound!Next]_Sound!vars => SoundInv'
  BY SoundStep
<1>3. SoundInv /\ [Sound!Next]_Sound!vars => [Sound!Order!Next]_Sound!Order!vars
  BY StepOrdered
<1> QED BY <1>1, <1>2, <1>3, PartOfCallers, PTL
        DEF Sound!Spec, ExecutedInOrder, Sound!ExecutedInOrder, Sound!Order!Spec
=============================================================================
