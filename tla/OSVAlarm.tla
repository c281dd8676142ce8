------------------------------ MODULE OSVAlarm ------------------------------
(* The V-count alarms of libraries/os/src/os_valarm.c: a queue by frame and   *)
(* line of the screen, the line for which the LCD is to raise its interrupt,  *)
(* and the handler of that interrupt.                                         *)
(*                                                                            *)
(* Nobody tells the code when a frame begins: OSi_GetVFrame counts one when   *)
(* the line it is given lies before the one it was given last.  Frames are    *)
(* counted from OSi_VFrameCount: frame[a] is OSVAlarm.frame - OSi_VFrameCount,*)
(* and -1 stands for every earlier one, which is exact, for the queue has     *)
(* their order and new alarms are never set for them.  The list is a sequence *)
(* here, and no line is skipped (GX_SetVCount).                               *)

EXTENDS Integers, SequencesExt

CONSTANTS
  VAlarm,
  Lines,    \* HW_LCD_LINES, 263
  Patient,  \* the alarms set with OS_VALARM_DELAY_MAX,
  Delay,    \* and the delay of the others
  Latency,  \* the lines that begin, at most, before a raised interrupt is
            \* handled and the handler has returned: less than Lines - 1
  NULL

Line == 0..Lines - 1

\* OSVAlarm.delay: an alarm is always set with the same.
delay == [a \in VAlarm |-> IF a \in Patient THEN Lines ELSE Delay]

VARIABLES
  queue,     \* OSi_VAlarmQueue
  used,      \* the alarms whose handler is not NULL
  fire,      \* OSVAlarm.fire
  frame,     \* OSVAlarm.frame, from OSi_VFrameCount
  periodic,  \* the alarms with period and without canceled
  previous,  \* OSi_PreviousVCount
  lcd,       \* the line, that of the interrupt, whether it is enabled, and
             \* whether it was raised and not yet handled
  pc,        \* what OSi_VAlarmHandler does
  lag,       \* the lines that began since the interrupt was raised or entered
  serving,   \* the alarm whose handler it calls, or NULL
  wraps,     \* of history: frames that began since the last line that was
             \* read and given to OSi_GetVFrame, up to 2
  came,      \* of history: alarms whose line began since they began to wait
  hurried    \* of history: alarms for which a frame was counted that had not
             \* begun

vars == <<queue, used, fire, frame, periodic, previous, lcd, pc, lag, serving,
          wraps, came, hurried>>
settings == <<fire, periodic>>

TypeOK ==
  /\ queue \in Seq(VAlarm) /\ IsInjective(queue)
  /\ used = ToSet(queue)
  /\ fire \in [VAlarm -> Line] /\ frame \in [VAlarm -> -1..1]
  /\ periodic \subseteq used \cup {serving}
  /\ previous \in -1..Lines - 1
  /\ lcd \in [line : Line, eq : Line, on : BOOLEAN, raised : BOOLEAN]
  /\ pc \in {"idle", "loop", "arm", "check", "call"}
  /\ serving \in VAlarm \cup {NULL} /\ (serving # NULL <=> pc = "call")
  /\ lag \in 0..Latency /\ wraps \in 0..2 /\ came \subseteq VAlarm /\ hurried \subseteq VAlarm

\* OS_InitVAlarm, at any line.  Fire and frame of an alarm that is not
\* set do not count, and are kept at their first values.
Init ==
  /\ queue = <<>> /\ used = {} /\ periodic = {}
  /\ fire = [a \in VAlarm |-> 0] /\ frame = [a \in VAlarm |-> -1]
  /\ previous = 0
  /\ lcd \in [line : Line, eq : {0}, on : {FALSE}, raised : {FALSE}]
  /\ pc = "idle" /\ lag = 0 /\ serving = NULL
  /\ wraps = 0 /\ came = {} /\ hurried = {}

-----------------------------------------------------------------------------
(* Frames and the queue.                                                      *)

\* The frames OSi_GetVFrame counts when it is given line v after line u.
Begun(u, v) == IF v < u THEN 1 ELSE 0

\* A slip: the handler counts frames for the line that is only.
FramesOfLine == Begun(previous, lcd.line)

\* The handler counts them for the line before that of the interrupt, and then
\* for the line that is.
FramesAtEntry == Begun(previous, lcd.eq - 1) + Begun(lcd.eq - 1, lcd.line)

\* A slip: an alarm for the line that is can still fire in this frame.
FrameFrom(count) == IF count >= lcd.line THEN 0 ELSE 1

\* The frame in which an alarm for line count fires first.
FirstFrame(count) == IF count > lcd.line THEN 0 ELSE 1

\* The alarms' frames when n more are counted.
Earlier(n) == [a \in VAlarm |-> IF a \in used THEN Max({frame[a] - n, -1}) ELSE -1]

\* The frames n are counted, and the line is read: what history notes.
Noted(n) ==
  /\ previous' = lcd.line
  /\ wraps' = 0
  /\ hurried' = IF n > wraps THEN hurried \cup ToSet(queue) ELSE hurried

\* OSi_InsertVAlarm: alarm a goes behind those of its frame and line.
Place(q, frames, fires, a) ==
  LET later == {i \in 1..Len(q) :
        \/ frames[q[i]] > frames[a]
        \/ frames[q[i]] = frames[a] /\ fires[q[i]] > fires[a]}
  IN IF later = {} THEN Len(q) + 1 ELSE Min(later)

\* The queue q after OSi_DetachVAlarm of the alarms in gone, one after the other.
Without(q, gone) ==
  LET rest[n \in 0..Len(q)] ==
        IF n = 0 THEN <<>>
        ELSE IF q[n] \in gone THEN rest[n - 1] ELSE Append(rest[n - 1], q[n])
  IN rest[Len(q)]

\* OSi_SetNextVAlarm.
OSi_SetNextVAlarm(screen, line) == [screen EXCEPT !.eq = line, !.on = TRUE]

\* Alarm a goes into the queue q; when it is the first there, its line is the
\* next to interrupt.
Insert(screen, q, frames, fires, a) ==
  LET place == Place(q, frames, fires, a)
  IN /\ queue' = InsertAt(q, place, a)
     /\ lcd' = IF place = 1 THEN OSi_SetNextVAlarm(screen, fires[a]) ELSE screen

Forget(a) ==
  /\ fire' = [fire EXCEPT ![a] = 0]
  /\ periodic' = periodic \ {a}

-----------------------------------------------------------------------------
(* The calls, by threads or by the handler of an alarm.                       *)

MayCall == pc \in {"idle", "call"}

\* OS_SetVAlarm, OS_SetPeriodicVAlarm.  An alarm that is set is refused
\* (OS_Panic); the handler of a periodic alarm, which is put back after it,
\* does not make it periodic itself.
OS_SetVAlarm(a, count, again) ==
  LET n == Begun(previous, lcd.line)
      frames == [Earlier(n) EXCEPT ![a] = FirstFrame(count)]
  IN /\ MayCall /\ a \notin used /\ ~(again /\ serving = a)
     /\ previous' = lcd.line /\ wraps' = 0
     /\ hurried' = (IF n > wraps THEN hurried \cup ToSet(queue) ELSE hurried) \ {a}
     /\ fire' = [fire EXCEPT ![a] = count]
     /\ periodic' = IF again THEN periodic \cup {a} ELSE periodic \ {a}
     /\ frame' = frames
     /\ used' = used \cup {a}
     /\ Insert(lcd, queue, frames, fire', a)
     /\ came' = came \ {a}
     /\ UNCHANGED <<pc, lag, serving>>

\* An alarm that is not set is only marked canceled, which counts when its
\* handler runs.  The line that is to interrupt stays.
OS_CancelVAlarm(a) ==
  /\ MayCall /\ a \in used \cup periodic
  /\ queue' = Without(queue, {a})
  /\ used' = used \ {a}
  /\ frame' = [frame EXCEPT ![a] = -1]
  /\ Forget(a)
  /\ came' = came \ {a} /\ hurried' = hurried \ {a}
  /\ UNCHANGED <<previous, lcd, pc, lag, serving, wraps>>

\* OS_CancelVAlarms, for the alarms S with the tag, and OS_CancelAllVAlarms.
OS_CancelVAlarms(S) ==
  LET gone == S \cap used
  IN /\ MayCall /\ gone # {}
     /\ queue' = Without(queue, gone)
     /\ used' = used \ gone
     /\ frame' = [a \in VAlarm |-> IF a \in gone THEN -1 ELSE frame[a]]
     /\ fire' = [a \in VAlarm |-> IF a \in gone THEN 0 ELSE fire[a]]
     /\ periodic' = periodic \ gone
     /\ came' = came \ gone /\ hurried' = hurried \ gone
     /\ UNCHANGED <<previous, lcd, pc, lag, serving, wraps>>

-----------------------------------------------------------------------------
(* The screen and its interrupt.                                              *)

\* A line begins, the first after the last.  The interrupt is raised as the
\* line for it begins.
NextLine ==
  LET line == (lcd.line + 1) % Lines
      busy == lcd.raised \/ pc # "idle"
  IN /\ busy => lag < Latency
     /\ lag' = IF busy THEN lag + 1 ELSE 0
     /\ lcd' = [lcd EXCEPT !.line = line, !.raised = @ \/ (lcd.on /\ lcd.eq = line)]
     /\ wraps' = IF line = 0 THEN Min({wraps + 1, 2}) ELSE wraps
     /\ came' = came \cup {a \in used \cup periodic : fire[a] = line}
     /\ UNCHANGED <<queue, used, frame, settings, previous, pc, serving, hurried>>

\* The first alarm goes out and its handler is called.
Serve(screen) ==
  LET a == Head(queue)
  IN /\ queue' = Tail(queue)
     /\ used' = used \ {a}
     /\ serving' = a /\ pc' = "call"
     /\ lcd' = screen
     /\ came' = came \ {a}
     /\ IF a \in periodic THEN UNCHANGED settings ELSE Forget(a)

\* OSi_CompareVCount of the first alarm with the line, n frames after: it is
\* for later, for now, or late by more than its delay and put off by a frame.
Compare(screen, n) ==
  LET a == Head(queue)
      frames == Earlier(n)
      later == frames[a] > 0 \/ (frames[a] = 0 /\ lcd.line < fire[a])
      late == (lcd.line - fire[a]) % Lines > delay[a]
  IN \/ /\ later
        /\ pc' = "arm" /\ lcd' = screen /\ frame' = frames
        /\ Noted(n)
        /\ UNCHANGED <<queue, used, settings, serving, came>>
     \/ /\ ~later /\ ~late
        /\ Serve(screen)
        /\ frame' = [frames EXCEPT ![a] = -1]
        /\ Noted(n)
     \/ /\ ~later /\ late
        /\ frame' = [frames EXCEPT ![a] = 1]
        /\ Insert(screen, Tail(queue), frame', fire, a)
        /\ pc' = "loop"
        /\ previous' = lcd.line /\ wraps' = 0
        /\ hurried' = (IF n > wraps THEN ToSet(queue) ELSE hurried) \ {a}
        /\ came' = came \ {a}
        /\ UNCHANGED <<used, settings, serving>>

\* No time is needed for a step of the handler; at its end none has passed.
Lag == lag' = IF lcd'.raised \/ pc' # "idle" THEN lag ELSE 0

\* OSi_VAlarmHandler, up to the first alarm.
OSi_VAlarmHandler ==
  LET screen == [lcd EXCEPT !.on = FALSE, !.raised = FALSE]
  IN /\ pc = "idle" /\ lcd.raised
     /\ \/ /\ queue = <<>>
           /\ lcd' = screen
           /\ previous' = lcd.eq - 1
           /\ UNCHANGED <<queue, used, frame, settings, pc, serving, wraps, came, hurried>>
        \/ /\ queue # <<>>
           /\ Compare(screen, FramesAtEntry)
     /\ Lag

\* Its loop, from the second alarm on.
Loop ==
  /\ pc = "loop"
  /\ \/ /\ queue = <<>>
        /\ pc' = "idle"
        /\ UNCHANGED <<queue, used, frame, settings, previous, lcd, serving, wraps, came, hurried>>
     \/ /\ queue # <<>>
        /\ Compare(lcd, Begun(previous, lcd.line))
  /\ Lag

\* The alarm is for later: its line is to interrupt,
Arm ==
  /\ pc = "arm"
  /\ lcd' = OSi_SetNextVAlarm(lcd, fire[Head(queue)])
  /\ pc' = "check" /\ Lag
  /\ UNCHANGED <<queue, used, frame, settings, previous, serving, wraps, came, hurried>>

\* and unless it has begun meanwhile, that is all.
Check ==
  LET a == Head(queue)
      arrived == fire[a] = lcd.line /\ frame[a] = 0
  IN /\ pc = "check"
     /\ \/ /\ ~arrived
           /\ pc' = "idle"
           /\ UNCHANGED <<queue, used, frame, settings, lcd, serving, came>>
        \/ /\ arrived
           /\ Serve([lcd EXCEPT !.on = FALSE, !.raised = FALSE])
           /\ frame' = [frame EXCEPT ![a] = -1]
     /\ Lag
     /\ UNCHANGED <<previous, wraps, hurried>>

\* The alarm's handler returns; a periodic alarm waits for the next frame.
Return ==
  /\ pc = "call"
  /\ IF serving \in periodic
     THEN /\ used' = used \cup {serving}
          /\ frame' = [frame EXCEPT ![serving] = 1]
          /\ Insert(lcd, queue, frame', fire, serving)
          /\ hurried' = hurried \ {serving}
     ELSE /\ hurried' = hurried \ ({serving} \ used)
          /\ UNCHANGED <<used, frame, queue, lcd>>
  /\ pc' = "loop" /\ serving' = NULL /\ Lag
  /\ UNCHANGED <<settings, previous, wraps, came>>

HandlerStep == Loop \/ Arm \/ Check \/ Return

Next ==
  \/ \E a \in VAlarm, count \in Line, again \in BOOLEAN : OS_SetVAlarm(a, count, again)
  \/ \E a \in VAlarm : OS_CancelVAlarm(a)
  \/ \E S \in SUBSET VAlarm : OS_CancelVAlarms(S)
  \/ NextLine \/ OSi_VAlarmHandler \/ HandlerStep

Spec == Init /\ [][Next]_vars

\* Lines begin, interrupts are enabled again and handlers return.
Fairness == WF_vars(NextLine) /\ WF_vars(OSi_VAlarmHandler) /\ WF_vars(HandlerStep)

-----------------------------------------------------------------------------
\* An alarm fires only after its line has begun since it was set, or since it
\* fired or was put off; unless a frame was counted for it that had not begun.
FiresAfterItsLine ==
  [][\A a \in VAlarm : serving' = a /\ serving # a => a \in came \cup hurried']_vars

\* An alarm that may be late by all lines of a frame fires or is cancelled, if
\* not again and again alarms are set while the interrupt for another waits.
SetWhileRaised == pc = "idle" /\ lcd.raised /\ ~(used' \subseteq used)

PatientFires ==
  \/ []<><<SetWhileRaised>>_vars
  \/ \A a \in Patient : a \in used ~> (serving = a \/ a \notin used)
=============================================================================
