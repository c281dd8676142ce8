------------------------------ MODULE OSMessage ------------------------------
(* One OSMessageQueue (libraries/os/src/os_message.c): a ring buffer, and the *)
(* threads that sleep until there is room or a message.                       *)
(*                                                                            *)
(* A call runs with interrupts disabled from its start, or from where it was  *)
(* resumed, until it returns or sleeps: that is one action.  Of the scheduler *)
(* is kept that OS_SleepThread stops a thread until it is woken; which of the *)
(* runnable threads runs is open.  Interrupt handlers call without blocking.  *)

EXTENDS Naturals, Sequences, FiniteSets

CONSTANTS
  Thread,
  Msg,       \* the messages
  MsgCount,  \* msgCount: the size of msgArray
  NULL       \* no message; what msgArray holds before the first one

ASSUME MessageAssumption ==
  /\ MsgCount \in Nat \ {0}
  /\ NULL \notin Msg

VARIABLES
  msgArray,
  firstIndex,
  usedCount,
  queueSend,     \* the threads linked in queueSend
  queueReceive,  \* the threads linked in queueReceive
  asleep,        \* the threads OS_SleepThread stopped
  call,          \* per thread: the call it is in
  got            \* per thread: what its last receive or read stored

bufferVars == <<msgArray, firstIndex, usedCount>>
vars == <<msgArray, firstIndex, usedCount, queueSend, queueReceive, asleep, call, got>>

Index == 0..MsgCount - 1

\* A call puts or takes; block is the flag OS_MESSAGE_BLOCK.
Request ==
  [op : {"send", "jam"}, msg : Msg, block : BOOLEAN]
    \cup [op : {"receive", "read"}, msg : {NULL}, block : BOOLEAN]

NoCall(op) == [op |-> op, msg |-> NULL, block |-> FALSE]
NoCalls == {NoCall("idle"), NoCall("ended")}

Puts(t) == call[t].op \in {"send", "jam"}
Takes(t) == call[t].op \in {"receive", "read"}

TypeOK ==
  /\ msgArray \in [Index -> Msg \cup {NULL}]
  /\ firstIndex \in Index
  /\ usedCount \in 0..MsgCount
  /\ queueSend \subseteq Thread /\ queueReceive \subseteq Thread /\ asleep \subseteq Thread
  /\ call \in [Thread -> Request \cup NoCalls]
  /\ got \in [Thread -> Msg \cup {NULL}]

\* OS_InitMessageQueue.  The array is the caller's; its contents do not matter.
Init ==
  /\ msgArray = [i \in Index |-> NULL]
  /\ firstIndex = 0
  /\ usedCount = 0
  /\ queueSend = {} /\ queueReceive = {} /\ asleep = {}
  /\ call = [t \in Thread |-> NoCall("idle")]
  /\ got = [t \in Thread |-> NULL]

Full == MsgCount <= usedCount
Empty == usedCount = 0

-----------------------------------------------------------------------------
(* Slips one could make in this code; no action of Next uses them.  For each  *)
(* there is a property that is checked to be violated when it is made.        *)

\* The new message goes one place too far.
StoreBehind(m) ==
  /\ msgArray' = [msgArray EXCEPT ![(firstIndex + usedCount + 1) % MsgCount] = m]
  /\ UNCHANGED firstIndex

\* A taken message wakes nobody.
WakeNobody == UNCHANGED <<queueSend, queueReceive, asleep>>

-----------------------------------------------------------------------------
(* The parts calls are made of.                                               *)

StoreLast(m) ==
  /\ msgArray' = [msgArray EXCEPT ![(firstIndex + usedCount) % MsgCount] = m]
  /\ UNCHANGED firstIndex

StoreFirst(m) ==
  /\ firstIndex' = (firstIndex + MsgCount - 1) % MsgCount
  /\ msgArray' = [msgArray EXCEPT ![firstIndex'] = m]

\* OS_WakeupThread(&mq->queueReceive) and OS_WakeupThread(&mq->queueSend).
WakeReceivers ==
  /\ asleep' = asleep \ queueReceive
  /\ queueReceive' = {}
  /\ UNCHANGED queueSend

WakeSenders ==
  /\ asleep' = asleep \ queueSend
  /\ queueSend' = {}
  /\ UNCHANGED queueReceive

SleepForRoom(t) ==
  /\ asleep' = asleep \cup {t}
  /\ queueSend' = queueSend \cup {t}
  /\ UNCHANGED queueReceive

SleepForMessage(t) ==
  /\ asleep' = asleep \cup {t}
  /\ queueReceive' = queueReceive \cup {t}
  /\ UNCHANGED queueSend

\* The message buffer after a put, and after a take.
Send(m) == ~Full /\ StoreLast(m) /\ usedCount' = usedCount + 1 /\ WakeReceivers
Jam(m) == ~Full /\ StoreFirst(m) /\ usedCount' = usedCount + 1 /\ WakeReceivers
Receive ==
  /\ ~Empty
  /\ firstIndex' = (firstIndex + 1) % MsgCount
  /\ usedCount' = usedCount - 1
  /\ UNCHANGED msgArray
  /\ WakeSenders

Running(t) == t \notin asleep
Return(t) == call' = [call EXCEPT ![t] = NoCall("idle")]
Store(t) == got' = [got EXCEPT ![t] = msgArray[firstIndex]]

-----------------------------------------------------------------------------
(* The steps.                                                                 *)

Call(t, request) ==
  /\ call[t].op = "idle" /\ Running(t)
  /\ call' = [call EXCEPT ![t] = request]
  /\ UNCHANGED <<bufferVars, queueSend, queueReceive, asleep, got>>

OS_SendMessage(t) ==
  /\ call[t].op = "send" /\ Running(t)
  /\ Send(call[t].msg)
  /\ Return(t)
  /\ UNCHANGED got

OS_JamMessage(t) ==
  /\ call[t].op = "jam" /\ Running(t)
  /\ Jam(call[t].msg)
  /\ Return(t)
  /\ UNCHANGED got

OS_ReceiveMessage(t) ==
  /\ call[t].op = "receive" /\ Running(t)
  /\ Receive
  /\ Store(t)
  /\ Return(t)

OS_ReadMessage(t) ==
  /\ call[t].op = "read" /\ Running(t)
  /\ ~Empty
  /\ Store(t)
  /\ Return(t)
  /\ UNCHANGED <<bufferVars, queueSend, queueReceive, asleep>>

\* The call cannot do its work: it sleeps, and looks again when it is resumed,
\* or, called with OS_MESSAGE_NOBLOCK, returns FALSE.
Wait(t) ==
  /\ Running(t) /\ call[t].block
  /\ \/ Puts(t) /\ Full /\ SleepForRoom(t)
     \/ Takes(t) /\ Empty /\ SleepForMessage(t)
  /\ UNCHANGED <<bufferVars, call, got>>

Fail(t) ==
  /\ Running(t) /\ ~call[t].block
  /\ (Puts(t) /\ Full) \/ (Takes(t) /\ Empty)
  /\ Return(t)
  /\ UNCHANGED <<bufferVars, queueSend, queueReceive, asleep, got>>

\* An interrupt handler sends, jams or takes without blocking.
HandlerCalls ==
  /\ (\E m \in Msg : Send(m) \/ Jam(m)) \/ Receive
  /\ UNCHANGED <<call, got>>

\* Another thread wakes t directly; t stays linked where it waits.
OS_WakeupThreadDirect(t) ==
  /\ t \in asleep
  /\ asleep' = asleep \ {t}
  /\ UNCHANGED <<bufferVars, queueSend, queueReceive, call, got>>

\* Another thread ends t, wherever it is in its call.
OS_DestroyThread(t) ==
  /\ call[t].op # "ended"
  /\ call' = [call EXCEPT ![t] = NoCall("ended")]
  /\ queueSend' = queueSend \ {t}
  /\ queueReceive' = queueReceive \ {t}
  /\ asleep' = asleep \ {t}
  /\ UNCHANGED <<bufferVars, got>>

\* What a runnable thread inside a call does.
Resume(t) ==
  \/ OS_SendMessage(t) \/ OS_JamMessage(t) \/ OS_ReceiveMessage(t) \/ OS_ReadMessage(t)
  \/ Wait(t) \/ Fail(t)

Next ==
  \/ \E t \in Thread :
       \/ \E request \in Request : Call(t, request)
       \/ Resume(t) \/ OS_WakeupThreadDirect(t) \/ OS_DestroyThread(t)
  \/ HandlerCalls

Spec == Init /\ [][Next]_vars

\* A runnable thread gets the processor some time.  This is the assumption on
\* the rest of the program that no more urgent thread keeps it for ever.
Fairness == \A t \in Thread : WF_vars(Resume(t))

-----------------------------------------------------------------------------

\* The messages in the ring, the next one to receive first.
Contents == [i \in 1..usedCount |-> msgArray[(firstIndex + i - 1) % MsgCount]]

Channel == INSTANCE OSChannel WITH Capacity <- MsgCount, contents <- Contents

\* The ring buffer is a channel: whoever sends, jams, receives and reads in
\* whatever order, nothing is lost, doubled, overtaken or read outside of what
\* was sent.
ImplementsChannel == Channel!Spec

\* No thread sleeps for room while there is room or for a message while there
\* is one, also after direct wakeups and after the end of a thread in its call.
NobodyForgotten ==
  /\ ~Full => queueSend = {}
  /\ ~Empty => queueReceive = {}

\* A thread that sleeps will be found: it is linked in the queue that wakes it.
SleepersAreLinked ==
  \A t \in asleep :
    \/ Puts(t) /\ t \in queueSend
    \/ Takes(t) /\ t \in queueReceive

\* While there is a message, a thread that wants one gets it, unless others take
\* the messages first; while there is room, a thread that puts one puts it.
CallsServed ==
  \A t \in Thread :
    /\ (Takes(t) /\ ~Empty) ~> (~Takes(t) \/ Empty)
    /\ (Puts(t) /\ ~Full) ~> (~Puts(t) \/ Full)
=============================================================================
