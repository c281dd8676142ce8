------------------------------ MODULE MCTimers ------------------------------
(* Alarms, V-count alarms and the tick on small instances: a behaviour is one *)
(* of three alarms (OSAlarm), one of two alarms over more time, for their     *)
(* liveness, one of two V-count alarms (OSVAlarm), or one of OSTick.  The     *)
(* three alarms can be exchanged: liveness is that of the others.             *)
EXTENDS OSAlarm, TLC

CONSTANTS Pair, PairDelay, PairPeriod, TimerRange, MaxTick, VAlarm, Patient, Lines, Delay, Latency

VARIABLES
  part,
  pQueue, pUsed, pDue, pStart, pPeriod, pPending, pServing, pCalled,
  count, reload, raised, counter, needReset, low, since, late, time,
  vQueue, vUsed, fire, frame, periodic, previous, lcd, pc, lag, vServing,
  wraps, came, hurried

pairVars == <<pQueue, pUsed, pDue, pStart, pPeriod, pPending, pServing, pCalled>>
tickVars == <<count, reload, raised, counter, needReset, low, since, late, time>>
lineVars == <<vQueue, vUsed, fire, frame, periodic, previous, lcd, pc, lag, vServing,
              wraps, came, hurried>>

Two == INSTANCE OSAlarm WITH
  Alarm <- Pair, MaxDelay <- PairDelay, MaxPeriod <- PairPeriod,
  queue <- pQueue, used <- pUsed, due <- pDue, start <- pStart, period <- pPeriod,
  pending <- pPending, serving <- pServing, called <- pCalled

Ticks == INSTANCE OSTick WITH pending <- raised

Screen == INSTANCE OSVAlarm WITH queue <- vQueue, used <- vUsed, serving <- vServing

Exchange == Permutations(Alarm)

MCInit ==
  /\ Init /\ Two!Init /\ Ticks!Init /\ Screen!Init
  /\ part \in {"three", "two", "tick", "lines"}
  /\ part # "lines" => lcd.line = 0
MCNext ==
  \/ part = "three" /\ Next /\ UNCHANGED <<part, pairVars, tickVars, lineVars>>
  \/ part = "two" /\ Two!Next /\ UNCHANGED <<part, vars, tickVars, lineVars>>
  \/ part = "tick" /\ Ticks!Next /\ UNCHANGED <<part, vars, pairVars, lineVars>>
  \/ part = "lines" /\ Screen!Next /\ UNCHANGED <<part, vars, pairVars, tickVars>>

\* The fairness of the part a behaviour is about, Two!Fairness or
\* Screen!Fairness.
MCFairness ==
  /\ WF_pairVars(part = "two" /\ Two!Tick)
  /\ WF_pairVars(part = "two" /\ Two!OSi_ArrangeTimer)
  /\ WF_pairVars(part = "two" /\ Two!OSi_ArrangeTimer_Return)
  /\ WF_lineVars(part = "lines" /\ Screen!NextLine)
  /\ WF_lineVars(part = "lines" /\ Screen!OSi_VAlarmHandler)
  /\ WF_lineVars(part = "lines" /\ Screen!HandlerStep)

MCSpec == MCInit /\ [][MCNext]_<<part, vars, pairVars, tickVars, lineVars>> /\ MCFairness

-----------------------------------------------------------------------------
\* Of two alarms, and of two V-count alarms that may be late by a frame, each
\* that is set fires or is cancelled.
AlarmsFire == Two!AlarmFires /\ Screen!PatientFires

\* V-count alarms fire after their lines have begun (with the types of both kinds of
\* alarms).
FiresAfterItsLine == [](TypeOK /\ Screen!TypeOK) /\ Screen!FiresAfterItsLine

\* OS_GetTick returns a tick that was current during its call.
TickIsCurrent == Ticks!TypeOK /\ Ticks!TickIsCurrent
=============================================================================
