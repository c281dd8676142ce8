------------------------------- MODULE OSEvent -------------------------------
(* One OSEvent (libraries/os/src/os_event.c): bits that threads and interrupt *)
(* handlers set, and the threads that sleep until those they want are set.    *)
(*                                                                            *)
(* A call runs with interrupts disabled from its start, or from where it was  *)
(* resumed, until it returns or sleeps: that is one action.  Which of the     *)
(* runnable threads runs is open.                                             *)

EXTENDS FiniteSets

CONSTANTS
  Thread,
  Bit      \* the bits of OSEvent.flag

VARIABLES
  flag,
  queue,   \* the threads linked in OSEvent.queue
  asleep,  \* the threads OS_SleepThread stopped
  call     \* per thread: the OS_WaitEventEx it is in

vars == <<flag, queue, asleep, call>>

Request == [op : {"wait"}, mode : {"and", "or"}, pattern : SUBSET Bit, clear : SUBSET Bit]
NoCall(op) == [op |-> op, mode |-> "or", pattern |-> {}, clear |-> {}]

TypeOK ==
  /\ flag \subseteq Bit
  /\ asleep \subseteq queue /\ queue \subseteq Thread
  /\ call \in [Thread -> Request \cup {NoCall("idle"), NoCall("ended")}]

Init ==
  /\ flag = {} /\ queue = {} /\ asleep = {}
  /\ call = [t \in Thread |-> NoCall("idle")]

\* The bits request r asks for are set.
Met(r) ==
  \/ r.mode = "and" /\ r.pattern \subseteq flag
  \/ r.mode = "or" /\ r.pattern \cap flag # {}

-----------------------------------------------------------------------------
(* A slip one could make in this code; no action of Next uses it.  A property *)
(* is checked to be violated when it is made.                                 *)

\* A signal wakes only one of the threads that wait.
SignalOne(bits) ==
  /\ bits # {}
  /\ flag' = flag \cup bits
  /\ \/ queue = {} /\ UNCHANGED <<queue, asleep>>
     \/ \E t \in queue : queue' = queue \ {t} /\ asleep' = asleep \ {t}
  /\ UNCHANGED call

-----------------------------------------------------------------------------
(* The steps.                                                                 *)

Call(t, request) ==
  /\ call[t].op = "idle"
  /\ call' = [call EXCEPT ![t] = request]
  /\ UNCHANGED <<flag, queue, asleep>>

\* OS_WaitEventEx looks: it returns ...
Return(t) ==
  /\ call[t].op = "wait" /\ t \notin asleep
  /\ Met(call[t])
  /\ flag' = flag \ call[t].clear
  /\ call' = [call EXCEPT ![t] = NoCall("idle")]
  /\ UNCHANGED <<queue, asleep>>

\* ... or sleeps, and looks again when it is resumed.
Wait(t) ==
  /\ call[t].op = "wait" /\ t \notin asleep
  /\ ~Met(call[t])
  /\ queue' = queue \cup {t}
  /\ asleep' = asleep \cup {t}
  /\ UNCHANGED <<flag, call>>

OS_WaitEventEx(t) == Return(t) \/ Wait(t)

\* Threads and interrupt handlers signal, clear and poll.
OS_SignalEvent(bits) ==
  /\ bits # {}
  /\ flag' = flag \cup bits
  /\ queue' = {}
  /\ asleep' = asleep \ queue
  /\ UNCHANGED call

\* OS_ClearEvent, OS_ClearAllEvent (all the bits), and an OS_PollEventEx that
\* finds its bits set.
OS_ClearEvent(bits) ==
  /\ flag' = flag \ bits
  /\ UNCHANGED <<queue, asleep, call>>

\* Another thread wakes t directly, which stays linked, or ends t.
OS_WakeupThreadDirect(t) ==
  /\ t \in asleep
  /\ asleep' = asleep \ {t}
  /\ UNCHANGED <<flag, queue, call>>

OS_DestroyThread(t) ==
  /\ call[t].op # "ended"
  /\ call' = [call EXCEPT ![t] = NoCall("ended")]
  /\ queue' = queue \ {t}
  /\ asleep' = asleep \ {t}
  /\ UNCHANGED flag

Next ==
  \/ \E t \in Thread :
       \/ \E request \in Request : Call(t, request)
       \/ OS_WaitEventEx(t) \/ OS_WakeupThreadDirect(t) \/ OS_DestroyThread(t)
  \/ \E bits \in SUBSET Bit : OS_SignalEvent(bits) \/ OS_ClearEvent(bits)

Spec == Init /\ [][Next]_vars

\* A runnable thread gets the processor some time.
Fairness == \A t \in Thread : WF_vars(OS_WaitEventEx(t))

-----------------------------------------------------------------------------
\* No thread sleeps for bits that are set, whoever signalled them, cleared them
\* before, was woken directly or ended meanwhile.
NobodyForgotten == \A t \in asleep : ~Met(call[t])

\* A thread returns once its bits are set, unless they are cleared before it
\* gets to run.
WaitersServed ==
  \A t \in Thread : (call[t].op = "wait" /\ Met(call[t])) ~> (call[t].op # "wait" \/ ~Met(call[t]))
=============================================================================
