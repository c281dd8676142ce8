------------------------------- MODULE OSAlarm -------------------------------
(* The alarms of libraries/os/src/os_alarm.c: a queue by the tick at which    *)
(* they fire, a 16-bit timer set for the first of them, and the timer's       *)
(* interrupt handler.                                                         *)
(*                                                                            *)
(* Ticks are counted from now: due[a] is fire - OS_GetTick(), and -1 stands   *)
(* for all that is past, which is exact, for the code compares a fire with    *)
(* now and with later ones only.  Every call runs with interrupts disabled.   *)
(* While a handler runs (serving) it makes the calls, otherwise threads do.   *)
(* OS_SetTick does not run while alarms are set.                              *)

EXTENDS Integers, SequencesExt

CONSTANTS
  Alarm,
  MaxDelay,   \* bound: how far ahead alarms are set
  MaxPeriod,  \* bound: the longest period
  Wrap,       \* the range of the timer, 2^16
  Careful,    \* handlers leave their own alarm alone, see SetsOwn
  NULL

ASSUME AlarmAssumption ==
  /\ IsFiniteSet(Alarm) /\ NULL \notin Alarm
  /\ MaxDelay \in Nat /\ MaxPeriod \in 1..MaxDelay /\ Wrap \in Nat \ {0, 1}
  /\ Careful \in BOOLEAN

VARIABLES
  queue,    \* OSi_AlarmQueue (head, tail), OSAlarm.next and prev, and the
            \* ticks until the timer runs over (0: it is off)
  used,     \* the alarms whose handler is not NULL
  due,      \* OSAlarm.fire, from now
  start,    \* OSAlarm.start, from now; of the past its phase counts
  period,   \* OSAlarm.period
  pending,  \* the timer's interrupt was raised and not yet handled
  serving,  \* the alarm whose handler runs, or NULL
  called    \* the handler has made a call

vars == <<queue, used, due, start, period, pending, serving, called>>

TypeOK ==
  /\ queue \in [head : Alarm \cup {NULL}, tail : Alarm \cup {NULL},
                next : [Alarm -> Alarm \cup {NULL}], prev : [Alarm -> Alarm \cup {NULL}],
                timer : 0..Wrap]
  /\ queue.head = NULL <=> queue.tail = NULL
  /\ used \subseteq Alarm
  /\ due \in [Alarm -> -1..MaxDelay]
  /\ start \in [Alarm -> -MaxPeriod..MaxDelay]
  /\ period \in [Alarm -> 0..MaxPeriod]
  /\ pending \in BOOLEAN /\ called \in BOOLEAN
  /\ serving \in Alarm \cup {NULL}

Init ==
  /\ queue = [head |-> NULL, tail |-> NULL, timer |-> 0,
              next |-> [a \in Alarm |-> NULL], prev |-> [a \in Alarm |-> NULL]]
  /\ used = {}
  /\ due = [a \in Alarm |-> -1]
  /\ start = [a \in Alarm |-> 0]
  /\ period = [a \in Alarm |-> 0]
  /\ pending = FALSE /\ called = FALSE
  /\ serving = NULL

-----------------------------------------------------------------------------
(* The queue.  An operator returns the queue it leaves.                       *)

\* The timer runs over when the alarm is due, after two ticks when it is late,
\* or after its whole range, to be set again.
OSi_SetTimer(q, d) ==
  [q EXCEPT !.timer = IF d < 0 THEN 2 ELSE IF d < Wrap THEN d + 1 ELSE Wrap]

\* The queue as a loop from the head, or backwards from the tail, finds it.
Path(link, a) ==
  LET node[n \in 1..Cardinality(Alarm)] ==
        IF n = 1 THEN a
        ELSE IF node[n - 1] = NULL THEN NULL ELSE link[node[n - 1]]
  IN [n \in 1..Cardinality({i \in DOMAIN node : node[i] # NULL}) |-> node[n]]

Chain(q) == Path(q.next, q.head)

\* Alarm a goes before the first of the alarms later, the timer is set when it
\* is the first of all.
LinkBefore(q, dues, a, later) ==
  LET chain == Chain(q)
      place == {i \in 1..Len(chain) : chain[i] \in later}
      after == IF place = {} THEN NULL ELSE chain[Min(place)]
      before == IF after = NULL THEN q.tail ELSE q.prev[after]
      linked == [q EXCEPT
        !.head = IF before = NULL THEN a ELSE @,
        !.tail = IF after = NULL THEN a ELSE @,
        !.next = [b \in Alarm |-> IF b = a THEN after ELSE IF b = before THEN a ELSE @[b]],
        !.prev = [b \in Alarm |-> IF b = a THEN before ELSE IF b = after THEN a ELSE @[b]]]
  IN IF before = NULL THEN OSi_SetTimer(linked, dues[a]) ELSE linked

\* A slip: an alarm goes before those due when it is.
InsertBeforeEqual(q, dues, a) ==
  LinkBefore(q, dues, a, {b \in Alarm : dues[b] >= dues[a]})

\* Alarm a goes behind those due when it is; dues are all alarms' dues.
OSi_InsertAlarm(q, dues, a) ==
  LinkBefore(q, dues, a, {b \in Alarm : dues[b] > dues[a]})

\* A slip: the links backwards are forgotten.
UnlinkForth(q, a) ==
  [q EXCEPT
    !.tail = IF q.next[a] = NULL THEN q.prev[a] ELSE @,
    !.head = IF q.prev[a] = NULL THEN q.next[a] ELSE @,
    !.next = [b \in Alarm |-> IF b = q.prev[a] THEN q.next[a] ELSE @[b]]]

\* Alarm a goes out, by the links it has; the timer is set for a new first.
Unlink(q, a) ==
  LET after == q.next[a]
      before == q.prev[a]
      rest == [q EXCEPT
        !.tail = IF after = NULL THEN before ELSE @,
        !.head = IF before = NULL THEN after ELSE @,
        !.next = [b \in Alarm |-> IF b = before THEN after ELSE @[b]],
        !.prev = [b \in Alarm |-> IF b = after THEN before ELSE @[b]]]
  IN IF before = NULL /\ after # NULL THEN OSi_SetTimer(rest, due[after]) ELSE rest

\* When a periodic alarm fires next: at the first multiple of its period from
\* its start that is not past.
NextFire(s, p) == IF s < 0 THEN s + p * ((-s) \div p + 1) ELSE s

-----------------------------------------------------------------------------
(* The calls.                                                                 *)

\* What a careful handler does not do to its own alarm: make it periodic, or
\* cancel it when it is periodic and the handler has made other calls.
SetsOwn(a) == serving = a /\ Careful
CancelsOwn(a) == serving = a /\ Careful /\ period[a] > 0 /\ called

\* An alarm that is set is refused (OS_Panic).
OS_SetAlarm(a, tick) ==
  /\ a \notin used
  /\ due' = [due EXCEPT ![a] = tick]
  /\ period' = [period EXCEPT ![a] = 0]
  /\ start' = [start EXCEPT ![a] = 0]
  /\ used' = used \cup {a}
  /\ queue' = OSi_InsertAlarm(queue, due', a)
  /\ called' = (serving # NULL)
  /\ UNCHANGED <<pending, serving>>

OS_SetPeriodicAlarm(a, first, p) ==
  /\ a \notin used /\ ~SetsOwn(a)
  /\ start' = [start EXCEPT ![a] = first]
  /\ period' = [period EXCEPT ![a] = p]
  /\ due' = [due EXCEPT ![a] = NextFire(first, p)]
  /\ used' = used \cup {a}
  /\ queue' = OSi_InsertAlarm(queue, due', a)
  /\ called' = (serving # NULL)
  /\ UNCHANGED <<pending, serving>>

\* Nothing happens to an alarm that is not set.
OS_CancelAlarm(a) ==
  /\ a \in used /\ ~CancelsOwn(a)
  /\ queue' = Unlink(queue, a)
  /\ used' = used \ {a}
  /\ period' = [period EXCEPT ![a] = 0]
  /\ start' = [start EXCEPT ![a] = 0]
  /\ called' = (serving # NULL)
  /\ UNCHANGED <<due, pending, serving>>

\* OS_CancelAlarms, for the alarms S with the tag, and OS_CancelAllAlarms: one
\* after the other as the queue has them.
OS_CancelAlarms(S) ==
  LET chain == Chain(queue)
      gone == ToSet(chain) \cap S \cap used
      without[n \in 0..Len(chain)] ==
        IF n = 0 THEN queue
        ELSE IF chain[n] \in gone THEN Unlink(without[n - 1], chain[n]) ELSE without[n - 1]
  IN /\ gone # {}
     /\ queue' = without[Len(chain)]
     /\ used' = used \ gone
     /\ period' = [a \in Alarm |-> IF a \in gone THEN 0 ELSE period[a]]
     /\ start' = [a \in Alarm |-> IF a \in gone THEN 0 ELSE start[a]]
     /\ called' = (serving # NULL)
     /\ UNCHANGED <<due, pending, serving>>

-----------------------------------------------------------------------------
(* The timer and its interrupt.                                               *)

Tick ==
  /\ due' = [a \in Alarm |-> IF due[a] < 0 THEN due[a] ELSE due[a] - 1]
  /\ start' = [a \in Alarm |->
       IF period[a] = 0 THEN start[a] ELSE IF start[a] = -period[a] THEN -1 ELSE start[a] - 1]
  /\ queue' = [queue EXCEPT !.timer = IF @ = 0 THEN 0 ELSE @ - 1]
  /\ pending' = (pending \/ queue.timer = 1)
  /\ UNCHANGED <<used, period, serving, called>>

\* The first alarm goes out of the queue.
Pop(q) ==
  LET after == q.next[q.head]
  IN [q EXCEPT
       !.head = after,
       !.tail = IF after = NULL THEN NULL ELSE @,
       !.prev = [b \in Alarm |-> IF b = after THEN NULL ELSE @[b]],
       !.timer = 0]

\* OSi_ArrangeTimer up to the call of the handler.  The timer is stopped.
OSi_ArrangeTimer ==
  /\ pending /\ serving = NULL
  /\ pending' = FALSE
  /\ \/ /\ queue.head = NULL
        /\ queue' = [queue EXCEPT !.timer = 0]
        /\ UNCHANGED <<used, serving>>
     \/ /\ queue.head # NULL
        /\ due[queue.head] > 0
        /\ queue' = OSi_SetTimer(queue, due[queue.head])
        /\ UNCHANGED <<used, serving>>
     \/ /\ queue.head # NULL
        /\ due[queue.head] <= 0
        /\ queue' = Pop(queue)
        /\ serving' = queue.head
        /\ used' = IF period[queue.head] = 0 THEN used \ {queue.head} ELSE used
  /\ UNCHANGED <<due, start, period, called>>

\* A slip: the timer is set only when the alarm goes back into the queue.
ReturnUnarmed ==
  /\ serving # NULL
  /\ IF period[serving] > 0
     THEN /\ used' = used \cup {serving}
          /\ due' = [due EXCEPT ![serving] = NextFire(start[serving], period[serving])]
          /\ queue' = OSi_InsertAlarm(queue, due', serving)
     ELSE UNCHANGED <<used, due, queue>>
  /\ serving' = NULL /\ called' = FALSE
  /\ UNCHANGED <<start, period, pending>>

\* And after it: a periodic alarm goes back into the queue, and the timer is
\* set for the first.
OSi_ArrangeTimer_Return ==
  LET Armed(q, dues) == IF q.head = NULL THEN q ELSE OSi_SetTimer(q, dues[q.head])
  IN /\ serving # NULL
     /\ IF period[serving] > 0
        THEN /\ used' = used \cup {serving}
             /\ due' = [due EXCEPT ![serving] = NextFire(start[serving], period[serving])]
             /\ queue' = Armed(OSi_InsertAlarm(queue, due', serving), due')
        ELSE /\ queue' = Armed(queue, due)
             /\ UNCHANGED <<used, due>>
     /\ serving' = NULL /\ called' = FALSE
     /\ UNCHANGED <<start, period, pending>>

Next ==
  \/ \E a \in Alarm :
       \/ \E tick \in 0..MaxDelay : OS_SetAlarm(a, tick)
       \/ \E p \in 1..MaxPeriod : \E first \in -p..MaxDelay : OS_SetPeriodicAlarm(a, first, p)
       \/ OS_CancelAlarm(a)
  \/ \E S \in SUBSET Alarm : OS_CancelAlarms(S)
  \/ Tick \/ OSi_ArrangeTimer \/ OSi_ArrangeTimer_Return

Spec == Init /\ [][Next]_vars

\* Time passes, interrupts are enabled again and handlers return.
Fairness == WF_vars(Tick) /\ WF_vars(OSi_ArrangeTimer) /\ WF_vars(OSi_ArrangeTimer_Return)

-----------------------------------------------------------------------------
Before(s, a, b) == \E i, j \in 1..Len(s) : i < j /\ s[i] = a /\ s[j] = b

\* The alarms that are set are those in the queue, each once, by the tick when
\* they fire, with links that agree; a periodic one is out while its handler
\* runs.
QueueIsUsed ==
  LET chain == Chain(queue)
  IN /\ ToSet(chain) = used \ (IF serving # NULL /\ period[serving] > 0 THEN {serving} ELSE {})
     /\ \A i, j \in 1..Len(chain) : i < j => chain[i] # chain[j] /\ due[chain[i]] <= due[chain[j]]
     /\ Path(queue.prev, queue.tail) = Reverse(chain)

\* The timer is never off, nor set for later than the first alarm, while alarms
\* wait: whatever is set or cancelled, and in a handler or not, no alarm is
\* left to a timer that does not come.
TimerServesFirst ==
  queue.head # NULL /\ serving = NULL =>
    \/ pending
    \/ queue.timer > 0 /\ (due[queue.head] >= 0 => queue.timer <= due[queue.head] + 1)

\* Alarms fire in the order of their ticks, and those of one tick in the order
\* they were set: who waits is overtaken only by who is due earlier.
FiresInOrder ==
  [][\A a \in ToSet(Chain(queue)), b \in Alarm :
       Before(Chain(queue)', b, a) => Before(Chain(queue), b, a) \/ due'[b] < due'[a]]_vars

\* An alarm that is set fires or is cancelled.
AlarmFires == \A a \in Alarm : a \in used ~> (serving = a \/ a \notin used)

\* "OS_EndAlarm: Cannot end alarm system while using alarm.": when the queue is
\* empty no alarm is in use.
EmptyMeansUnused == queue.head = NULL /\ serving = NULL => used = {}
=============================================================================
