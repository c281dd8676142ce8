-------------------------------- MODULE OSTick -------------------------------
(* The tick of libraries/os/src/os_tick.c: a 16-bit timer, the interrupt of   *)
(* its overflow that counts up OSi_TickCounter, and OS_GetTick, which reads   *)
(* the timer, the counter and the interrupt flag while the timer goes on.     *)

EXTENDS Integers

CONSTANTS
  TimerRange,  \* the range of the timer, 2^16; an even number
  MaxTick,     \* bound: the last tick
  NULL

VARIABLES
  count,      \* the timer
  reload,     \* what it restarts from after an overflow
  pending,    \* its flag in reg_OS_IF
  counter,    \* OSi_TickCounter
  needReset,  \* OSi_NeedResetTimer
  low,        \* countL of an OS_GetTick, NULL outside of one
  since,      \* when it was read
  late,       \* for how long the interrupt or an OS_GetTick waits
  time        \* the ticks that passed

vars == <<count, reload, pending, counter, needReset, low, since, late, time>>

Half == TimerRange \div 2
Overflows == MaxTick \div TimerRange

TypeOK ==
  /\ count \in 0..TimerRange - 1 /\ reload \in 0..TimerRange - 1
  /\ pending \in BOOLEAN /\ needReset \in BOOLEAN
  /\ counter \in 0..Overflows
  /\ low \in 0..TimerRange - 1 \cup {NULL}
  /\ since \in 0..MaxTick /\ time \in 0..MaxTick
  /\ late \in 0..Half - 1

\* OS_InitTick
Init ==
  /\ count = 0 /\ reload = 0 /\ counter = 0
  /\ pending = FALSE /\ needReset = FALSE
  /\ low = NULL /\ since = 0 /\ late = 0 /\ time = 0

\* A slip one could make here: OS_GetTick adds an overflow it may have seen.
TickCounted == counter * TimerRange + low + (IF pending THEN TimerRange ELSE 0)

\* The timer counts, and raises its interrupt when it runs over.  Interrupts
\* are disabled, and OS_GetTick takes, for less than half of its range.
Count ==
  /\ time < MaxTick
  /\ IF pending \/ low # NULL THEN late + 1 < Half /\ late' = late + 1 ELSE late' = 0
  /\ IF count = TimerRange - 1
     THEN count' = reload /\ pending' = TRUE
     ELSE count' = count + 1 /\ UNCHANGED pending
  /\ time' = time + 1
  /\ UNCHANGED <<reload, counter, needReset, low, since>>

\* The interrupt is handled.  After OS_SetTick the timer starts again from 0:
\* the ticks since the overflow are lost.
OSi_CountUpTick ==
  /\ pending /\ low = NULL
  /\ pending' = FALSE /\ late' = 0
  /\ counter' = counter + 1
  /\ needReset' = FALSE
  /\ IF needReset
     THEN count' = 0 /\ reload' = 0 /\ time' = counter' * TimerRange
     ELSE UNCHANGED <<count, reload, time>>
  /\ UNCHANGED <<low, since>>

\* OS_GetTick disables interrupts and reads the timer ...
OS_GetTick ==
  /\ low = NULL
  /\ low' = count
  /\ since' = time
  /\ UNCHANGED <<count, reload, pending, counter, needReset, late, time>>

\* ... then the counter and the flag: an overflow counts that was not handled,
\* unless it came after the timer was read.
GetTick == counter * TimerRange + low + (IF pending /\ low < Half THEN TimerRange ELSE 0)

OS_GetTick_Return ==
  /\ low # NULL
  /\ low' = NULL /\ since' = 0
  /\ late' = IF pending THEN late ELSE 0
  /\ UNCHANGED <<count, reload, pending, counter, needReset, time>>

OS_SetTick(tick) ==
  /\ low = NULL
  /\ pending' = FALSE /\ late' = 0
  /\ needReset' = TRUE
  /\ counter' = tick \div TimerRange
  /\ count' = tick % TimerRange /\ reload' = tick % TimerRange
  /\ time' = tick
  /\ UNCHANGED <<low, since>>

Next ==
  \/ Count \/ OSi_CountUpTick \/ OS_GetTick \/ OS_GetTick_Return
  \/ \E tick \in 0..MaxTick : OS_SetTick(tick)

Spec == Init /\ [][Next]_vars

-----------------------------------------------------------------------------
\* OS_GetTick returns a tick that was current between its call and its return,
\* whenever the timer runs over and however late that is handled.  From an
\* OS_SetTick to the next overflow's handling it does not, for the timer then
\* restarts from the tick that was set.
TickIsCurrent == low # NULL /\ ~needReset => since <= GetTick /\ GetTick <= time
=============================================================================
