------------------------------- MODULE MCWaits -------------------------------
(* What threads wait for, on small instances: a behaviour is one of a message *)
(* queue (OSMessage) or one of an event (OSEvent).                            *)
EXTENDS OSMessage

CONSTANT Bit

VARIABLES part, flag, eventQueue, eventAsleep, eventCall

eventVars == <<flag, eventQueue, eventAsleep, eventCall>>

Event == INSTANCE OSEvent WITH queue <- eventQueue, asleep <- eventAsleep, call <- eventCall

MCInit == Init /\ Event!Init /\ part \in {"message", "event"}
MCNext ==
  \/ part = "message" /\ Next /\ UNCHANGED <<part, eventVars>>
  \/ part = "event" /\ Event!Next /\ UNCHANGED <<part, vars>>
MCSpec == MCInit /\ [][MCNext]_<<part, vars, eventVars>> /\ Fairness /\ Event!Fairness

-----------------------------------------------------------------------------
\* No thread sleeps in OS_WaitEventEx while the bits it waits for are set: of those
\* a signal wakes one may clear the bits, the others sleep again, and some are
\* still linked when they do (with the types of the message queue and the event).
NobodySleepsOnSetBits == TypeOK /\ Event!TypeOK /\ Event!NobodyForgotten

\* Who is in a call gets its message, its room or its bits while there are
\* such, unless others take them first.
EachIsServed == CallsServed /\ Event!WaitersServed
=============================================================================
