--------------------------- MODULE OSTimerProofs ---------------------------
(* Proofs about the parts of MCTimers: the alarms, for any number of them and *)
(* any delays and periods; OS_GetTick, for every even range of the timer; the *)
(* V-count alarms, for any number of them and of lines, and an interrupt that *)
(* comes less than a frame late.                                              *)

EXTENDS MCTimers, OSSequenceLemmas

-----------------------------------------------------------------------------
(* The queue of alarms as a sequence.                                         *)

\* Queue q has the alarms of s in this order, each once.
IsList(q, s) == IsListOf(q, s, Alarm, NULL)

LEMMA ListFound ==
  ASSUME AlarmAssumption, NEW q, NEW s, IsList(q, s)
  PROVE  Chain(q) = s /\ Path(q.prev, q.tail) = Reverse(s)
<1>1. /\ IsFiniteSet(Alarm) /\ NULL \notin Alarm
      /\ s \in Seq(Alarm) /\ EachOnce(s) /\ Follows(q.next, q.head, s, NULL)
  BY DEF AlarmAssumption, IsList, IsListOf
<1>2. ASSUME NEW link, NEW a, NEW t \in Seq(Alarm), EachOnce(t), Follows(link, a, t, NULL)
      PROVE  Path(link, a) = t
  <2> DEFINE node == CHOOSE f : IsWalk(f, link, a, Cardinality(Alarm), NULL)
  <2>1. Path(link, a) = [n \in 1..Cardinality({i \in DOMAIN node : node[i] # NULL}) |-> node[n]]
    BY DEF Path, IsWalk
  <2>2. \A f : IsWalk(f, link, a, Cardinality(Alarm), NULL)
                => IsWalk(node, link, a, Cardinality(Alarm), NULL)
    <3> HIDE DEF IsWalk
    <3> QED OBVIOUS
  <2> HIDE DEF node
  <2> QED BY ONLY <1>1, <1>2, <2>1, <2>2, t \in Seq(Alarm), WalkFinds
<1>3. Chain(q) = s
  BY <1>1, <1>2 DEF Chain
<1>4. Reverse(s) \in Seq(Alarm) /\ EachOnce(Reverse(s))
  BY <1>1, ReverseFacts, ReverseOnce
<1>5. Follows(q.prev, q.tail, Reverse(s), NULL)
  BY <1>1, BackFollows DEF IsList, IsListOf
<1> QED BY <1>2, <1>3, <1>4, <1>5

-----------------------------------------------------------------------------
(* What inserting and unlinking do to it.                                     *)

Links == Alarm \cup {NULL}
Queues == [head : Links, tail : Links, next : [Alarm -> Links], prev : [Alarm -> Links],
           timer : 0..Wrap]
Dues == [Alarm -> -1..MaxDelay]

\* The timer comes in time for the first alarm.
Timely(q, dues) ==
  q.head # NULL => q.timer > 0 /\ (dues[q.head] >= 0 => q.timer <= dues[q.head] + 1)

SameTimer(q, r) == r.head = q.head /\ r.timer = q.timer

\* No two alarms have changed their order.
KeepsOrder(s, t) == \A a, b : Before(t, a, b) => Before(s, a, b)

LEMMA TimerIsSet ==
  ASSUME AlarmAssumption, NEW q \in Queues, NEW dues \in Dues, NEW a \in Alarm
  PROVE  LET r == OSi_SetTimer(q, dues[a])
         IN /\ r \in Queues
            /\ r.head = q.head /\ r.tail = q.tail /\ r.next = q.next /\ r.prev = q.prev
            /\ q.head = a => Timely(r, dues)
<1> DEFINE d == dues[a]
<1> DEFINE r == OSi_SetTimer(q, d)
<1>1. d \in -1..MaxDelay /\ MaxDelay \in Nat /\ Wrap \in Nat /\ Wrap > 1
  BY DEF AlarmAssumption, Dues
<1>2. r = [q EXCEPT !.timer = IF d < 0 THEN 2 ELSE IF d < Wrap THEN d + 1 ELSE Wrap]
  BY DEF OSi_SetTimer
<1> HIDE DEF d
<1>3. (IF d < 0 THEN 2 ELSE IF d < Wrap THEN d + 1 ELSE Wrap) \in 1..Wrap
  BY <1>1
<1>4. r \in Queues
  BY <1>1, <1>2, <1>3 DEF Queues
<1>5. /\ r.head = q.head /\ r.tail = q.tail /\ r.next = q.next /\ r.prev = q.prev
      /\ r.timer = IF d < 0 THEN 2 ELSE IF d < Wrap THEN d + 1 ELSE Wrap
  BY <1>2 DEF Queues
<1>6. r.timer > 0 /\ (d >= 0 => r.timer <= d + 1)
  BY <1>1, <1>5
<1> QED BY <1>4, <1>5, <1>6 DEF Timely, d

\* An alarm goes in behind those that are due when it is, or earlier.
LEMMA Inserted ==
  ASSUME AlarmAssumption, NEW q \in Queues, NEW s, IsList(q, s),
         NEW dues \in Dues, InOrder(s, dues), NEW a \in Alarm, a \notin ToSet(s)
  PROVE  LET r == OSi_InsertAlarm(q, dues, a)
         IN /\ r \in Queues
            /\ \E i \in 1..Len(s) + 1 :
                 /\ IsList(r, InsertAt(s, i, a))
                 /\ \A j \in 1..Len(s) : IF j < i THEN dues[s[j]] <= dues[a]
                                                   ELSE dues[s[j]] > dues[a]
            /\ Timely(r, dues) \/ SameTimer(q, r)
<1> DEFINE later == {b \in Alarm : dues[b] > dues[a]}
<1> DEFINE place == {i \in 1..Len(s) : s[i] \in later}
<1> DEFINE i == IF place = {} THEN Len(s) + 1 ELSE Min(place)
<1> DEFINE after == IF place = {} THEN NULL ELSE s[Min(place)]
<1> DEFINE before == IF after = NULL THEN q.tail ELSE q.prev[after]
<1> DEFINE r == [q EXCEPT
        !.head = IF before = NULL THEN a ELSE @,
        !.tail = IF after = NULL THEN a ELSE @,
        !.next = [b \in Alarm |-> IF b = a THEN after ELSE IF b = before THEN a ELSE @[b]],
        !.prev = [b \in Alarm |-> IF b = a THEN before ELSE IF b = after THEN a ELSE @[b]]]
<1> DEFINE t == InsertAt(s, i, a)
<1>1. OSi_InsertAlarm(q, dues, a) = IF before = NULL THEN OSi_SetTimer(r, dues[a]) ELSE r
  <2>1. Chain(q) = s
    BY ListFound
  <2> QED BY <2>1 DEF OSi_InsertAlarm, LinkBefore
<1>2. /\ s \in Seq(Alarm) /\ Len(s) \in Nat /\ \A j \in 1..Len(s) : s[j] \in Alarm /\ s[j] # NULL
      /\ a # NULL /\ \A j \in 1..Len(s) : s[j] # a
  BY DEF IsList, IsListOf, AlarmAssumption, ToSet
<1>0. place \in SUBSET Nat
  BY <1>2
<1>3. /\ i \in 1..Len(s) + 1
      /\ \A j \in 1..Len(s) : IF j < i THEN s[j] \notin later ELSE i \in 1..Len(s) /\ s[i] \in later
  <2>1. CASE place = {}
    BY <1>2, <2>1
  <2>2. CASE place # {}
    <3>1. Min(place) \in place /\ \A m \in place : Min(place) <= m
      <4> HIDE DEF place
      <4> QED BY <1>0, <2>2, MinIsLeast
    <3> HIDE DEF later
    <3>2. i \in 1..Len(s) /\ s[i] \in later /\ \A j \in 1..Len(s) : s[j] \in later => i <= j
      BY <2>2, <3>1
    <3> HIDE DEF i
    <3> QED BY <1>2, <3>2
  <2> QED BY <2>1, <2>2
<1>4. \A j \in 1..Len(s) : IF j < i THEN dues[s[j]] <= dues[a] ELSE dues[s[j]] > dues[a]
  <2> SUFFICES ASSUME NEW j \in 1..Len(s)
               PROVE  IF j < i THEN dues[s[j]] <= dues[a] ELSE dues[s[j]] > dues[a]
    OBVIOUS
  <2> HIDE DEF i, place
  <2>1. /\ dues[a] \in Int /\ dues[s[j]] \in Int
        /\ i \in 1..Len(s) => dues[s[i]] \in Int
    BY <1>2 DEF Dues
  <2>2. CASE j < i
    BY <1>2, <1>3, <2>1, <2>2
  <2>3. CASE ~(j < i)
    <3>1. i \in 1..Len(s) /\ dues[s[i]] > dues[a]
      BY <1>2, <1>3, <2>3
    <3>2. dues[s[i]] <= dues[s[j]]
      <4>1. CASE i = j
        BY <2>1, <4>1
      <4>2. CASE i < j
        BY <3>1, <4>2 DEF InOrder
      <4> QED BY <1>3, <2>3, <4>1, <4>2
    <3> QED BY <2>1, <2>3, <3>1, <3>2
  <2> QED BY <2>2, <2>3
<1>5. /\ after = IF i = Len(s) + 1 THEN NULL ELSE s[i]
      /\ before = IF i = 1 THEN NULL ELSE s[i - 1]
  <2>1. after = IF i = Len(s) + 1 THEN NULL ELSE s[i]
    <3>1. CASE place = {}
      BY <3>1
    <3>2. CASE place # {}
      <4>1. Min(place) \in place
        <5> HIDE DEF place
        <5> QED BY <1>0, <3>2, MinIsLeast
      <4> QED BY <1>2, <3>2, <4>1
    <3> QED BY <3>1, <3>2
  <2> HIDE DEF after, i, place
  <2>2. CASE i = Len(s) + 1
    BY <1>2, <2>1, <2>2 DEF IsList, IsListOf
  <2>3. CASE i # Len(s) + 1
    BY <1>2, <1>3, <2>1, <2>3 DEF IsList, IsListOf
  <2> QED BY <2>2, <2>3
<1>6. /\ t \in Seq(Alarm) /\ Len(t) = Len(s) + 1 /\ EachOnce(t)
      /\ \A j \in 1..Len(s) + 1 : t[j] = IF j < i THEN s[j] ELSE IF j = i THEN a ELSE s[j - 1]
  <2> HIDE DEF i
  <2>1. t \in Seq(Alarm) /\ Len(t) = Len(s) + 1
    BY <1>2, <1>3, InsertAtFacts
  <2>2. \A j \in 1..Len(s) + 1 : t[j] = IF j < i THEN s[j] ELSE IF j = i THEN a ELSE s[j - 1]
    BY <1>2, <1>3, InsertAtFacts
  <2>3. EachOnce(t)
    BY <1>2, <1>3, InsertAtOnce DEF IsList, IsListOf
  <2> QED BY <2>1, <2>2, <2>3
<1> HIDE DEF i, after, before, t
<1>7. after \in Links /\ before \in Links
  BY <1>2, <1>3, <1>5 DEF Links
<1>8. r \in Queues
  BY <1>7 DEF Queues, Links
<1>9. /\ r.head = IF before = NULL THEN a ELSE q.head
      /\ r.tail = IF after = NULL THEN a ELSE q.tail
      /\ \A b \in Alarm :
           /\ r.next[b] = IF b = a THEN after ELSE IF b = before THEN a ELSE q.next[b]
           /\ r.prev[b] = IF b = a THEN before ELSE IF b = after THEN a ELSE q.prev[b]
      /\ r.timer = q.timer
  BY DEF Queues
<1> HIDE DEF r
<1>10. IsList(r, t)
  <2>1. a \in Alarm /\ a \notin ToSet(s) /\ NULL \notin Alarm /\ IsListOf(q, s, Alarm, NULL)
    BY DEF AlarmAssumption, IsList, IsListOf
  <2>2. i \in 1..Len(s) + 1
    BY <1>3
  <2>3. IsListOf(r, InsertAt(s, i, a), Alarm, NULL)
    BY ONLY <1>5, <1>9, <2>1, <2>2, ListInserted
  <2> QED BY <2>3 DEF IsList, IsListOf, t
<1>11. CASE before = NULL
  <2> DEFINE u == OSi_SetTimer(r, dues[a])
  <2>1. /\ u \in Queues
        /\ u.head = r.head /\ u.tail = r.tail /\ u.next = r.next /\ u.prev = r.prev
        /\ Timely(u, dues)
    BY <1>8, <1>9, <1>11, TimerIsSet
  <2>2. IsList(u, t)
    BY <1>10, <2>1 DEF IsList, IsListOf
  <2> HIDE DEF u
  <2>3. OSi_InsertAlarm(q, dues, a) = u
    BY <1>1, <1>11 DEF u, r
  <2> QED BY <1>3, <1>4, <2>1, <2>2, <2>3 DEF t
<1>12. CASE before # NULL
  <2>1. OSi_InsertAlarm(q, dues, a) = r
    BY <1>1, <1>12 DEF r
  <2>2. SameTimer(q, r)
    BY <1>9, <1>12 DEF SameTimer
  <2> QED BY <1>3, <1>4, <1>8, <1>10, <2>1, <2>2 DEF t
<1> QED BY <1>11, <1>12

\* Taking out one of the alarms.
LEMMA Removed ==
  ASSUME NEW s \in Seq(Alarm), EachOnce(s), NEW k \in 1..Len(s)
  PROVE  LET t == RemoveAt(s, k)
         IN /\ t \in Seq(Alarm) /\ EachOnce(t)
            /\ ToSet(t) = ToSet(s) \ {s[k]}
            /\ KeepsOrder(s, t)
<1> DEFINE t == RemoveAt(s, k)
<1>1. /\ t \in Seq(Alarm) /\ Len(t) = Len(s) - 1
      /\ \A j \in 1..Len(s) - 1 : t[j] = IF j < k THEN s[j] ELSE s[j + 1]
  BY RemoveAtFacts
<1>2. s \in Seq(Alarm) /\ Len(s) \in Nat /\ k \in 1..Len(s)
  OBVIOUS
<1> HIDE DEF t
<1> DEFINE old == [j \in 1..Len(t) |-> IF j < k THEN j ELSE j + 1]
<1>3. \A j \in 1..Len(t) : old[j] \in 1..Len(s) /\ old[j] # k /\ t[j] = s[old[j]]
  BY <1>1, <1>2
<1>4. \A i, j \in 1..Len(t) : i < j => old[i] < old[j]
  BY <1>1, <1>2
<1>5. \A m \in 1..Len(s) : m # k => \E j \in 1..Len(t) : old[j] = m
  <2> SUFFICES ASSUME NEW m \in 1..Len(s), m # k PROVE \E j \in 1..Len(t) : old[j] = m
    OBVIOUS
  <2> DEFINE j == IF m < k THEN m ELSE m - 1
  <2>1. j \in 1..Len(t) /\ old[j] = m
    BY <1>1, <1>2
  <2> QED BY <2>1
<1> HIDE DEF old
<1>6. EachOnce(t)
  <2> SUFFICES ASSUME NEW i \in 1..Len(t), NEW j \in 1..Len(t), t[i] = t[j] PROVE i = j
    BY DEF EachOnce
  <2>1. old[i] = old[j]
    BY <1>3 DEF EachOnce
  <2>2. i \in Nat /\ j \in Nat /\ old[i] \in Nat
    BY <1>1, <1>3
  <2> QED BY <1>4, <2>1, <2>2
<1>7. ToSet(t) = ToSet(s) \ {s[k]}
  <2>1. \A x : x \in ToSet(t) <=> \E j \in 1..Len(t) : x = t[j]
    BY <1>1 DEF ToSet
  <2>2. \A x : x \in ToSet(s) <=> \E j \in 1..Len(s) : x = s[j]
    BY DEF ToSet
  <2>3. \A m \in 1..Len(s) : m # k => s[m] # s[k]
    BY DEF EachOnce
  <2>4. ASSUME NEW x \in ToSet(t) PROVE x \in ToSet(s) \ {s[k]}
    <3>1. PICK j \in 1..Len(t) : x = t[j]
      BY <2>1
    <3> QED BY <1>3, <2>2, <2>3, <3>1
  <2>5. ASSUME NEW x \in ToSet(s) \ {s[k]} PROVE x \in ToSet(t)
    <3>1. PICK m \in 1..Len(s) : x = s[m]
      BY <2>2
    <3>2. PICK j \in 1..Len(t) : old[j] = m
      BY <1>5, <3>1
    <3> QED BY <1>3, <2>1, <3>1, <3>2
  <2> QED BY <2>4, <2>5
<1>8. KeepsOrder(s, t)
  <2> SUFFICES ASSUME NEW a, NEW b, NEW i \in 1..Len(t), NEW j \in 1..Len(t),
                      i < j, t[i] = a, t[j] = b
               PROVE  \E m, n \in 1..Len(s) : m < n /\ s[m] = a /\ s[n] = b
    BY DEF KeepsOrder, Before
  <2> QED BY <1>3, <1>4
<1> QED BY <1>1, <1>6, <1>7, <1>8 DEF t

\* An alarm goes out of the queue by its links.
LEMMA Unlinked ==
  ASSUME AlarmAssumption, NEW q \in Queues, NEW s, IsList(q, s), due \in Dues, NEW k \in 1..Len(s)
  PROVE  LET r == Unlink(q, s[k])
         IN /\ r \in Queues
            /\ IsList(r, RemoveAt(s, k))
            /\ Timely(r, due) \/ SameTimer(q, r)
<1> DEFINE after == q.next[s[k]]
<1> DEFINE before == q.prev[s[k]]
<1> DEFINE r == [q EXCEPT
        !.tail = IF after = NULL THEN before ELSE @,
        !.head = IF before = NULL THEN after ELSE @,
        !.next = [b \in Alarm |-> IF b = before THEN after ELSE @[b]],
        !.prev = [b \in Alarm |-> IF b = after THEN before ELSE @[b]]]
<1> DEFINE t == RemoveAt(s, k)
<1>1. Unlink(q, s[k]) = IF before = NULL /\ after # NULL THEN OSi_SetTimer(r, due[after]) ELSE r
  BY DEF Unlink
<1>2. /\ s \in Seq(Alarm) /\ Len(s) \in Nat /\ \A j \in 1..Len(s) : s[j] \in Alarm /\ s[j] # NULL
      /\ k \in 1..Len(s) /\ \A i, j \in 1..Len(s) : s[i] = s[j] => i = j
  BY DEF IsList, IsListOf, AlarmAssumption, EachOnce
<1>3. /\ after = IF k = Len(s) THEN NULL ELSE s[k + 1]
      /\ before = IF k = 1 THEN NULL ELSE s[k - 1]
  BY DEF IsList, IsListOf, Follows
<1>4. /\ t \in Seq(Alarm) /\ Len(t) = Len(s) - 1 /\ EachOnce(t)
      /\ \A j \in 1..Len(s) - 1 : t[j] = IF j < k THEN s[j] ELSE s[j + 1]
  BY <1>2, RemoveAtFacts, Removed DEF IsList, IsListOf
<1> HIDE DEF after, before, t
<1>5. after \in Links /\ before \in Links
  BY <1>2, <1>3 DEF Links
<1>6. r \in Queues
  BY <1>5 DEF Queues, Links
<1>7. /\ r.head = IF before = NULL THEN after ELSE q.head
      /\ r.tail = IF after = NULL THEN before ELSE q.tail
      /\ \A b \in Alarm :
           /\ r.next[b] = IF b = before THEN after ELSE q.next[b]
           /\ r.prev[b] = IF b = after THEN before ELSE q.prev[b]
      /\ r.timer = q.timer
  BY DEF Queues
<1> HIDE DEF r
<1>8. IsList(r, t)
  <2>1. NULL \notin Alarm /\ IsListOf(q, s, Alarm, NULL) /\ k \in 1..Len(s)
    BY DEF AlarmAssumption, IsList, IsListOf
  <2>2. IsListOf(r, RemoveAt(s, k), Alarm, NULL)
    BY ONLY <1>3, <1>7, <2>1, ListRemoved
  <2> QED BY <2>2 DEF IsList, IsListOf, t
<1>9. CASE before = NULL /\ after # NULL
  <2> DEFINE u == OSi_SetTimer(r, due[after])
  <2>1. after \in Alarm
    BY <1>5, <1>9 DEF Links
  <2>2. /\ u \in Queues
        /\ u.head = r.head /\ u.tail = r.tail /\ u.next = r.next /\ u.prev = r.prev
        /\ Timely(u, due)
    BY <1>6, <1>7, <1>9, <2>1, TimerIsSet
  <2>3. IsList(u, t)
    BY <1>8, <2>2 DEF IsList, IsListOf
  <2> HIDE DEF u
  <2>4. Unlink(q, s[k]) = u
    BY <1>1, <1>9 DEF u, r
  <2> QED BY <2>2, <2>3, <2>4 DEF t
<1>10. CASE ~(before = NULL /\ after # NULL)
  <2>1. Unlink(q, s[k]) = r
    BY <1>1, <1>10 DEF r
  <2>2. Timely(r, due) \/ SameTimer(q, r)
    BY <1>7, <1>10 DEF SameTimer, Timely
  <2> QED BY <1>6, <1>8, <2>1, <2>2 DEF t
<1> QED BY <1>9, <1>10

LEMMA UnlinkTyped ==
  ASSUME AlarmAssumption, due \in Dues, NEW q \in Queues, NEW a \in Alarm
  PROVE  Unlink(q, a) \in Queues
<1> DEFINE after == q.next[a]
<1> DEFINE before == q.prev[a]
<1> DEFINE r == [q EXCEPT
        !.tail = IF after = NULL THEN before ELSE @,
        !.head = IF before = NULL THEN after ELSE @,
        !.next = [b \in Alarm |-> IF b = before THEN after ELSE @[b]],
        !.prev = [b \in Alarm |-> IF b = after THEN before ELSE @[b]]]
<1>1. Unlink(q, a) = IF before = NULL /\ after # NULL THEN OSi_SetTimer(r, due[after]) ELSE r
  BY DEF Unlink
<1>2. after \in Links /\ before \in Links
  BY DEF Queues, Links
<1> HIDE DEF after, before
<1>3. r \in Queues
  BY <1>2 DEF Queues, Links
<1> HIDE DEF r
<1>4. before = NULL /\ after # NULL => OSi_SetTimer(r, due[after]) \in Queues
  BY <1>2, <1>3, TimerIsSet DEF Links
<1> QED BY <1>1, <1>3, <1>4

\* The first alarm goes out of the queue, and still has the links of the first.
LEMMA Popped ==
  ASSUME AlarmAssumption, NEW q \in Queues, NEW s, IsList(q, s), q.head # NULL
  PROVE  LET r == Pop(q)
         IN /\ r \in Queues
            /\ 1 \in 1..Len(s) /\ q.head = s[1]
            /\ IsList(r, RemoveAt(s, 1))
            /\ r.prev[q.head] = NULL /\ r.next[q.head] = r.head
<1> DEFINE after == q.next[q.head]
<1> DEFINE r == Pop(q)
<1> DEFINE t == RemoveAt(s, 1)
<1>1. /\ s \in Seq(Alarm) /\ Len(s) \in Nat /\ \A j \in 1..Len(s) : s[j] \in Alarm /\ s[j] # NULL
      /\ \A i, j \in 1..Len(s) : s[i] = s[j] => i = j
  BY DEF IsList, IsListOf, AlarmAssumption, EachOnce
<1>2. 1 \in 1..Len(s) /\ q.head = s[1]
  BY <1>1 DEF IsList, IsListOf, Follows
<1>3. after = IF Len(s) = 1 THEN NULL ELSE s[2]
  <2>1. \A i \in 1..Len(s) : q.next[s[i]] = IF i = Len(s) THEN NULL ELSE s[i + 1]
    BY DEF IsList, IsListOf, Follows
  <2>2. q.next[s[1]] = IF 1 = Len(s) THEN NULL ELSE s[1 + 1]
    BY <1>2, <2>1
  <2> QED BY <1>2, <2>2
<1>4. /\ t \in Seq(Alarm) /\ Len(t) = Len(s) - 1 /\ EachOnce(t)
      /\ \A j \in 1..Len(s) - 1 : t[j] = s[j + 1]
  BY <1>1, <1>2, RemoveAtFacts, Removed DEF IsList, IsListOf
<1>5. r = [q EXCEPT
       !.head = after,
       !.tail = IF after = NULL THEN NULL ELSE @,
       !.prev = [b \in Alarm |-> IF b = after THEN NULL ELSE @[b]],
       !.timer = 0]
  BY DEF Pop
<1> HIDE DEF after, t, r
<1>6. after \in Links
  <2>1. CASE Len(s) = 1
    BY <1>3, <2>1 DEF Links
  <2>2. CASE Len(s) # 1
    <3>1. 2 \in 1..Len(s)
      <4>1. Len(s) \in Nat /\ Len(s) >= 1
        BY <1>1, <1>2
      <4> QED BY <2>2, <4>1
    <3> QED BY <1>1, <1>3, <2>2, <3>1 DEF Links
  <2> QED BY <2>1, <2>2
<1>7. r \in Queues
  <2>1. 0 \in 0..Wrap /\ NULL \in Links
    BY DEF AlarmAssumption, Links
  <2>2. [b \in Alarm |-> IF b = after THEN NULL ELSE q.prev[b]] \in [Alarm -> Links]
    BY <2>1 DEF Queues
  <2> QED BY <1>5, <1>6, <2>1, <2>2 DEF Queues
<1>8. /\ r.head = after /\ r.tail = (IF after = NULL THEN NULL ELSE q.tail)
      /\ \A b \in Alarm : r.prev[b] = IF b = after THEN NULL ELSE q.prev[b]
      /\ r.next = q.next
  BY <1>5 DEF Queues
<1>9. IsList(r, t)
  <2>1. r.head = IF t = <<>> THEN NULL ELSE t[1]
    BY <1>1, <1>2, <1>3, <1>4, <1>8
  <2>2. r.tail = IF t = <<>> THEN NULL ELSE t[Len(t)]
    <3>1. q.tail = s[Len(s)]
      BY <1>2 DEF IsList, IsListOf
    <3> QED BY <1>1, <1>2, <1>3, <1>4, <1>8, <3>1
  <2>3. ASSUME NEW j \in 1..Len(t)
        PROVE  /\ r.next[t[j]] = IF j = Len(t) THEN NULL ELSE t[j + 1]
               /\ r.prev[t[j]] = IF j = 1 THEN NULL ELSE t[j - 1]
    <3>1. t[j] = s[j + 1] /\ j + 1 \in 1..Len(s)
      BY <1>1, <1>4
    <3>2. /\ q.next[s[j + 1]] = IF j + 1 = Len(s) THEN NULL ELSE s[j + 2]
          /\ q.prev[s[j + 1]] = s[j]
      BY <1>1, <3>1 DEF IsList, IsListOf, Follows
    <3>3. r.next[t[j]] = IF j = Len(t) THEN NULL ELSE t[j + 1]
      <4>1. j # Len(t) => t[j + 1] = s[j + 2]
        BY <1>1, <1>4
      <4> QED BY <1>1, <1>4, <1>8, <3>1, <3>2, <4>1
    <3>4. s[j + 1] = after <=> j = 1
      BY <1>1, <1>3, <3>1
    <3>5. r.prev[t[j]] = IF j = 1 THEN NULL ELSE t[j - 1]
      BY <1>1, <1>4, <1>8, <3>1, <3>2, <3>4
    <3> QED BY <3>3, <3>5
  <2> QED BY <1>4, <2>1, <2>2, <2>3 DEF IsList, IsListOf, Follows
<1>10. r.prev[q.head] = NULL /\ r.next[q.head] = r.head
  <2>1. q.prev[s[1]] = NULL
    BY <1>2 DEF IsList, IsListOf
  <2> QED BY <1>1, <1>2, <1>8, <2>1 DEF after
<1> QED BY <1>2, <1>7, <1>9, <1>10 DEF r, t

\* To unlink an alarm that is out, with the links of the first, changes nothing.
LEMMA OwnUnlinked ==
  ASSUME AlarmAssumption, due \in Dues, NEW q \in Queues, NEW s, IsList(q, s),
         NEW a \in Alarm, q.prev[a] = NULL, q.next[a] = q.head
  PROVE  LET r == Unlink(q, a)
         IN /\ r \in Queues
            /\ IsList(r, s)
            /\ Timely(r, due) \/ SameTimer(q, r)
<1> DEFINE r == [q EXCEPT
        !.tail = IF q.head = NULL THEN NULL ELSE @,
        !.head = q.head,
        !.next = [b \in Alarm |-> IF b = NULL THEN q.head ELSE @[b]],
        !.prev = [b \in Alarm |-> IF b = q.head THEN NULL ELSE @[b]]]
<1>1. Unlink(q, a) = IF q.head # NULL THEN OSi_SetTimer(r, due[q.head]) ELSE r
  BY DEF Unlink
<1>2. /\ s \in Seq(Alarm) /\ \A j \in 1..Len(s) : s[j] \in Alarm /\ s[j] # NULL
      /\ EachOnce(s)
  BY DEF IsList, IsListOf, AlarmAssumption
<1>3. r \in Queues
  BY DEF Queues, Links
<1>4. /\ r.head = q.head /\ r.tail = IF q.head = NULL THEN NULL ELSE q.tail
      /\ \A b \in Alarm : /\ r.next[b] = q.next[b]
                          /\ r.prev[b] = IF b = q.head THEN NULL ELSE q.prev[b]
  BY DEF Queues, AlarmAssumption
<1> HIDE DEF r
<1>5. r.tail = IF s = <<>> THEN NULL ELSE s[Len(s)]
  BY <1>2, <1>4 DEF IsList, IsListOf, Follows
<1>6. ASSUME NEW j \in 1..Len(s) PROVE r.prev[s[j]] = IF j = 1 THEN NULL ELSE s[j - 1]
  BY <1>2, <1>4 DEF IsList, IsListOf, Follows
<1>7. Follows(r.next, r.head, s, NULL)
  BY <1>2, <1>4 DEF IsList, IsListOf, Follows
<1>8. IsList(r, s)
  BY <1>2, <1>5, <1>6, <1>7 DEF IsList, IsListOf
<1>9. CASE q.head # NULL
  <2> DEFINE u == OSi_SetTimer(r, due[q.head])
  <2>1. q.head \in Alarm
    BY <1>9 DEF Queues, Links
  <2>2. /\ u \in Queues
        /\ u.head = r.head /\ u.tail = r.tail /\ u.next = r.next /\ u.prev = r.prev
        /\ Timely(u, due)
    BY <1>3, <1>4, <2>1, TimerIsSet
  <2>3. IsList(u, s)
    BY <1>8, <2>2 DEF IsList, IsListOf
  <2> HIDE DEF u
  <2>4. Unlink(q, a) = u
    BY <1>1, <1>9 DEF u, r
  <2> QED BY <2>2, <2>3, <2>4
<1>10. CASE q.head = NULL
  <2>1. Unlink(q, a) = r
    BY <1>1, <1>10 DEF r
  <2>2. Timely(r, due)
    BY <1>4, <1>10 DEF Timely
  <2> QED BY <1>3, <1>8, <2>1, <2>2
<1> QED BY <1>9, <1>10

\* What OS_CancelAlarms leaves is the rest of the queue, in its order.
LEMMA AllCancelled ==
  ASSUME AlarmAssumption, queue \in Queues, due \in Dues, NEW s, IsList(queue, s),
         NEW S, OS_CancelAlarms(S)
  PROVE  /\ queue' \in Queues
         /\ Timely(queue', due) \/ SameTimer(queue, queue')
         /\ \E t : /\ IsList(queue', t) /\ KeepsOrder(s, t)
                   /\ ToSet(t) = ToSet(s) \ (ToSet(s) \cap S \cap used)
<1> DEFINE gone == ToSet(s) \cap S \cap used
<1> DEFINE IsWithout(f) ==
      f = [n \in 0..Len(s) |->
            IF n = 0 THEN queue
            ELSE IF s[n] \in gone THEN Unlink(f[n - 1], s[n]) ELSE f[n - 1]]
<1> DEFINE without == CHOOSE f : IsWithout(f)
<1>1. queue' = without[Len(s)]
  <2>1. Chain(queue) = s
    BY ListFound
  <2> QED BY <2>1 DEF OS_CancelAlarms
<1>2. /\ s \in Seq(Alarm) /\ Len(s) \in Nat /\ \A j \in 1..Len(s) : s[j] \in Alarm
      /\ EachOnce(s)
  BY DEF IsList, IsListOf
<1> HIDE DEF gone
<1>3. \E f : IsWithout(f)
  <2> DEFINE step == [n \in 1..Len(s) |-> [q \in Queues |->
                        IF s[n] \in gone THEN Unlink(q, s[n]) ELSE q]]
  <2>1. step \in [1..Len(s) -> [Queues -> Queues]]
    <3>1. ASSUME NEW n \in 1..Len(s), NEW q \in Queues
          PROVE  (IF s[n] \in gone THEN Unlink(q, s[n]) ELSE q) \in Queues
      BY <1>2, UnlinkTyped
    <3> QED BY <3>1
  <2>2. PICK f \in [0..Len(s) -> Queues] :
          f[0] = queue /\ \A m \in 1..Len(s) : f[m] = step[m][f[m - 1]]
    <3> HIDE DEF step
    <3>1. Len(s) \in Nat
      BY <1>2
    <3>2. \A n \in Nat : \A st \in [1..n -> [Queues -> Queues]] :
            \E f \in [0..n -> Queues] : f[0] = queue /\ \A m \in 1..n : f[m] = st[m][f[m - 1]]
      BY RecursionExists
    <3> QED BY <2>1, <3>1, <3>2, Zenon
  <2>3. ASSUME NEW n \in 0..Len(s)
        PROVE  f[n] = IF n = 0 THEN queue
                      ELSE IF s[n] \in gone THEN Unlink(f[n - 1], s[n]) ELSE f[n - 1]
    <3>1. CASE n = 0
      BY <2>2, <3>1
    <3>2. CASE n # 0
      <4>1. n \in 1..Len(s) /\ n - 1 \in 0..Len(s)
        BY <1>2, <3>2
      <4>2. f[n - 1] \in Queues
        BY <2>2, <4>1
      <4> QED BY <2>2, <3>2, <4>1, <4>2
    <3> QED BY <3>1, <3>2
  <2>4. IsWithout(f)
    <3>1. f = [n \in 0..Len(s) |-> f[n]]
      BY <2>2
    <3> QED BY <2>3, <3>1
  <2> QED BY <2>4
<1>4. IsWithout(without)
  <2> HIDE DEF IsWithout
  <2> QED BY <1>3
<1> HIDE DEF without
<1>5. /\ without[0] = queue
      /\ \A n \in 1..Len(s) :
           without[n] = IF s[n] \in gone THEN Unlink(without[n - 1], s[n]) ELSE without[n - 1]
  <2>1. 0 \in 0..Len(s) /\ \A n \in 1..Len(s) : n \in 0..Len(s) /\ n # 0
    BY <1>2
  <2> QED BY <1>4, <2>1
<1> HIDE DEF IsWithout
<1> DEFINE goneBy(n) == {x \in gone : \E j \in 1..n : s[j] = x}
<1> DEFINE IsRest(q, n) ==
      /\ q \in Queues
      /\ Timely(q, due) \/ SameTimer(queue, q)
      /\ \E t : IsList(q, t) /\ KeepsOrder(s, t) /\ ToSet(t) = ToSet(s) \ goneBy(n)
<1>6. IsRest(without[0], 0)
  <2>1. goneBy(0) = {} /\ KeepsOrder(s, s) /\ SameTimer(queue, queue)
    BY DEF KeepsOrder, SameTimer
  <2> HIDE DEF goneBy
  <2> QED BY <1>5, <2>1
<1>7. ASSUME NEW n \in 1..Len(s), IsRest(without[n - 1], n - 1) PROVE IsRest(without[n], n)
  <2> DEFINE q == without[n - 1]
  <2>1. PICK t : IsList(q, t) /\ KeepsOrder(s, t) /\ ToSet(t) = ToSet(s) \ goneBy(n - 1)
    BY <1>7
  <2>2. q \in Queues /\ (Timely(q, due) \/ SameTimer(queue, q))
    BY <1>7
  <2> HIDE DEF q
  <2>3. CASE s[n] \in gone
    <3>1. s[n] \in ToSet(t)
      <4>1. s[n] \in ToSet(s)
        BY <2>3 DEF gone
      <4>2. ASSUME NEW j \in 1..n - 1 PROVE s[j] # s[n]
        <5>1. j \in 1..Len(s) /\ j # n
          BY <1>2
        <5> QED BY <5>1, <1>2 DEF EachOnce
      <4> QED BY <2>1, <4>1, <4>2
    <3>2. goneBy(n) = goneBy(n - 1) \cup {s[n]}
      <4>1. \A j : j \in 1..n <=> j \in 1..n - 1 \/ j = n
        BY <1>2
      <4> QED BY <2>3, <4>1
    <3> HIDE DEF goneBy
    <3>3. PICK k \in 1..Len(t) : t[k] = s[n]
      BY <2>1, <3>1 DEF ToSet, IsList, IsListOf
    <3> DEFINE r == Unlink(q, t[k])
    <3> DEFINE u == RemoveAt(t, k)
    <3>4. t \in Seq(Alarm) /\ EachOnce(t)
      BY <2>1 DEF IsList, IsListOf
    <3>5. r \in Queues /\ IsList(r, u) /\ (Timely(r, due) \/ SameTimer(q, r))
      BY <2>1, <2>2, Unlinked
    <3>6. ToSet(u) = ToSet(t) \ {t[k]} /\ KeepsOrder(t, u)
      BY <3>4, Removed
    <3> HIDE DEF r, u
    <3>7. ToSet(u) = ToSet(s) \ goneBy(n)
      BY <2>1, <3>2, <3>3, <3>6
    <3>8. KeepsOrder(s, u)
      BY <2>1, <3>6 DEF KeepsOrder
    <3>9. Timely(r, due) \/ SameTimer(queue, r)
      BY <2>2, <3>5 DEF Timely, SameTimer
    <3>10. without[n] = r
      BY <1>5, <2>3, <3>3 DEF q, r
    <3> QED BY <3>5, <3>7, <3>8, <3>9, <3>10
  <2>4. CASE s[n] \notin gone
    <3>1. without[n] = q
      BY <1>5, <2>4 DEF q
    <3>2. goneBy(n) = goneBy(n - 1)
      <4>1. \A j : j \in 1..n <=> j \in 1..n - 1 \/ j = n
        BY <1>2
      <4> QED BY <2>4, <4>1
    <3> HIDE DEF goneBy
    <3> QED BY <2>1, <2>2, <3>1, <3>2
  <2> QED BY <2>3, <2>4
<1>8. ASSUME NEW n \in 0..Len(s) PROVE IsRest(without[n], n)
  <2> DEFINE wrong == {m \in 0..Len(s) : ~IsRest(without[m], m)}
  <2> HIDE DEF IsRest
  <2>1. wrong \in SUBSET Nat
    BY <1>2
  <2>2. ASSUME wrong # {} PROVE FALSE
    <3>1. PICK m \in wrong : \A k \in wrong : m <= k
      <4> HIDE DEF wrong
      <4> QED BY <2>1, <2>2, MinIsLeast
    <3>2. m \in 0..Len(s) /\ ~IsRest(without[m], m)
      OBVIOUS
    <3>3. m # 0
      BY <1>6, <3>2
    <3>4. m \in 1..Len(s) /\ m - 1 \in 0..Len(s) /\ ~(m <= m - 1)
      BY <1>2, <3>2, <3>3
    <3>5. m - 1 \notin wrong
      <4> HIDE DEF wrong
      <4> QED BY <3>1, <3>4
    <3>6. IsRest(without[m - 1], m - 1)
      BY <3>4, <3>5
    <3> QED BY <1>7, <3>2, <3>4, <3>6
  <2> QED BY <2>2
<1>9. IsRest(queue', Len(s))
  <2> HIDE DEF IsRest
  <2>1. Len(s) \in 0..Len(s)
    BY <1>2
  <2> QED BY <1>1, <1>8, <2>1
<1>10. goneBy(Len(s)) = gone
  BY <1>2 DEF gone, ToSet
<1> HIDE DEF goneBy
<1> QED BY <1>9, <1>10 DEF gone

-----------------------------------------------------------------------------
(* The invariant of alarms.                                                   *)

\* The alarms in the queue: a periodic one is out while its handler runs.
Queued == used \ (IF serving # NULL /\ period[serving] > 0 THEN {serving} ELSE {})

QueueOK == \E s : IsList(queue, s) /\ ToSet(s) = Queued /\ InOrder(s, due)

\* A periodic alarm that is out has the links of the first until its handler
\* makes a call: to cancel it then does no harm.
OwnLinks ==
  serving \in used /\ period[serving] > 0 /\ ~called =>
    queue.prev[serving] = NULL /\ queue.next[serving] = queue.head

\* A start that is past is so by a period at most.
PhaseOK == \A a \in Alarm : period[a] > 0 => start[a] >= -period[a]

CallsInHandlers == serving = NULL => ~called

QueueInv == TypeOK /\ QueueOK /\ OwnLinks /\ PhaseOK /\ CallsInHandlers /\ TimerServesFirst

\* A step leaves queue r in order, and nobody in it overtakes who waited but who is
\* due earlier.
Rearranges(r) ==
  \E s, t :
    /\ IsList(queue, s) /\ IsList(r, t)
    /\ ToSet(t) = Queued' /\ InOrder(t, due')
    /\ \A a \in ToSet(s), b \in Alarm :
         Before(t, b, a) => Before(s, b, a) \/ due'[b] < due'[a]

NoneOvertaken ==
  \A a \in ToSet(Chain(queue)), b \in Alarm :
    Before(Chain(queue)', b, a) => Before(Chain(queue), b, a) \/ due'[b] < due'[a]

LEMMA RearrangedInOrder ==
  ASSUME AlarmAssumption, Rearranges(queue')
  PROVE  QueueOK' /\ NoneOvertaken
<1>1. PICK s, t :
        /\ IsList(queue, s) /\ IsList(queue', t)
        /\ ToSet(t) = Queued' /\ InOrder(t, due')
        /\ \A a \in ToSet(s), b \in Alarm :
             Before(t, b, a) => Before(s, b, a) \/ due'[b] < due'[a]
  BY DEF Rearranges
<1>2. Chain(queue) = s
  BY <1>1, ListFound
<1>3. Chain(queue') = t
  BY <1>1, ListFound
<1>4. Chain(queue)' = t
  BY <1>3 DEF Chain, Path
<1>5. NoneOvertaken
  BY <1>1, <1>2, <1>4 DEF NoneOvertaken
<1>6. IsList(queue, t)' /\ InOrder(t, due)'
  BY <1>1 DEF IsList, IsListOf, Follows, InOrder, EachOnce
<1> QED BY <1>1, <1>5, <1>6 DEF QueueOK

\* What is in the queue before what, when alarm a has been put in.
LEMMA InsertedBetween ==
  ASSUME NEW s \in Seq(Alarm), NEW i \in 1..Len(s) + 1, NEW a \in Alarm, a \notin ToSet(s),
         NEW x \in ToSet(s), NEW y, Before(InsertAt(s, i, a), y, x)
  PROVE  Before(s, y, x) \/ (y = a /\ \E j \in i..Len(s) : s[j] = x)
<1> DEFINE t == InsertAt(s, i, a)
<1>1. /\ Len(t) = Len(s) + 1 /\ Len(s) \in Nat
      /\ \A j \in 1..Len(s) + 1 : t[j] = IF j < i THEN s[j] ELSE IF j = i THEN a ELSE s[j - 1]
  BY InsertAtFacts
<1>2. PICK j, k \in 1..Len(s) + 1 : j < k /\ t[j] = y /\ t[k] = x
  BY <1>1 DEF Before
<1> HIDE DEF t
<1>3. k # i
  BY <1>1, <1>2
<1> DEFINE n == IF k < i THEN k ELSE k - 1
<1>4. n \in 1..Len(s) /\ s[n] = x
  BY <1>1, <1>2, <1>3
<1>5. CASE j = i
  <2>1. y = a /\ n \in i..Len(s)
    BY <1>1, <1>2, <1>4, <1>5
  <2> QED BY <1>4, <2>1
<1>6. CASE j # i
  <2> DEFINE m == IF j < i THEN j ELSE j - 1
  <2>1. m \in 1..Len(s) /\ s[m] = y /\ m < n
    BY <1>1, <1>2, <1>3, <1>6
  <2> HIDE DEF m, n
  <2> QED BY <1>4, <2>1 DEF Before
<1> QED BY <1>5, <1>6

LEMMA InsertedInTurn ==
  ASSUME AlarmAssumption, TypeOK, QueueOK, NEW a \in Alarm, a \notin Queued,
         NEW tick \in -1..MaxDelay, due' = [due EXCEPT ![a] = tick], Queued' = Queued \cup {a}
  PROVE  LET r == OSi_InsertAlarm(queue, due', a)
         IN /\ r \in Queues /\ Rearranges(r)
            /\ \/ Timely(r, due')
               \/ /\ SameTimer(queue, r)
                  /\ queue.head # NULL => due'[queue.head] = due[queue.head]
<1> DEFINE r == OSi_InsertAlarm(queue, due', a)
<1>1. PICK s : IsList(queue, s) /\ ToSet(s) = Queued /\ InOrder(s, due)
  BY DEF QueueOK
<1>2. queue \in Queues /\ due \in Dues /\ due' \in Dues
  BY DEF TypeOK, Queues, Links, Dues
<1>3. /\ s \in Seq(Alarm) /\ EachOnce(s) /\ a \notin ToSet(s)
      /\ \A j \in 1..Len(s) : s[j] # a /\ s[j] \in Alarm
  BY <1>1 DEF IsList, IsListOf, ToSet
<1>4. \A b \in Alarm : b # a => due'[b] = due[b]
  BY <1>2 DEF Dues
<1>5. InOrder(s, due')
  BY <1>1, <1>3, <1>4 DEF InOrder
<1>6. /\ r \in Queues
      /\ \E i \in 1..Len(s) + 1 :
           /\ IsList(r, InsertAt(s, i, a))
           /\ \A j \in 1..Len(s) : IF j < i THEN due'[s[j]] <= due'[a] ELSE due'[s[j]] > due'[a]
      /\ Timely(r, due') \/ SameTimer(queue, r)
  BY <1>1, <1>2, <1>3, <1>5, Inserted
<1> HIDE DEF r
<1>7. PICK i \in 1..Len(s) + 1 :
        /\ IsList(r, InsertAt(s, i, a))
        /\ \A j \in 1..Len(s) : IF j < i THEN due'[s[j]] <= due'[a] ELSE due'[s[j]] > due'[a]
  BY <1>6
<1> DEFINE t == InsertAt(s, i, a)
<1>8. ToSet(t) = Queued'
  BY <1>1, <1>3, InsertAtMembers
<1>9. InOrder(t, due')
  <2>1. due' \in [Alarm -> Int]
    BY <1>2 DEF Dues
  <2>2. \A j \in 1..Len(s) : /\ j < i => due'[s[j]] <= due'[a]
                             /\ j >= i => due'[a] <= due'[s[j]]
    <3> SUFFICES ASSUME NEW j \in 1..Len(s)
                 PROVE  /\ j < i => due'[s[j]] <= due'[a]
                        /\ j >= i => due'[a] <= due'[s[j]]
      OBVIOUS
    <3>1. due'[a] \in Int /\ due'[s[j]] \in Int
      BY <1>3, <2>1
    <3> QED BY <1>7, <3>1
  <2> QED BY <1>3, <1>5, <2>1, <2>2, InsertInOrder
<1>10. ASSUME NEW x \in ToSet(s), NEW y \in Alarm, Before(t, y, x)
       PROVE  Before(s, y, x) \/ due'[y] < due'[x]
  <2>1. Before(s, y, x) \/ (y = a /\ \E j \in i..Len(s) : s[j] = x)
    BY <1>3, <1>10, InsertedBetween
  <2>2. ASSUME NEW j \in i..Len(s), s[j] = x, y = a PROVE due'[y] < due'[x]
    <3>1. j \in 1..Len(s) /\ ~(j < i)
      BY <1>3
    <3>2. due'[a] \in Int /\ due'[s[j]] \in Int
      BY <1>2, <1>3, <3>1 DEF Dues
    <3> QED BY <1>7, <2>2, <3>1, <3>2
  <2> QED BY <2>1, <2>2
<1>11. Rearranges(r)
  <2> HIDE DEF t
  <2>1. IsList(r, t)
    BY <1>7 DEF t
  <2> QED BY <1>1, <1>8, <1>9, <1>10, <2>1 DEF Rearranges
<1>12. queue.head # NULL => due'[queue.head] = due[queue.head]
  <2>1. queue.head # NULL => queue.head \in Alarm /\ queue.head # a
    BY <1>1, <1>3 DEF IsList, IsListOf, Follows
  <2> QED BY <1>4, <2>1
<1> QED BY <1>6, <1>11, <1>12 DEF r

\* Nothing happened to the order where the links are what they were, or alarms
\* only went out.
LEMMA TakenInTurn ==
  ASSUME AlarmAssumption, NEW r, NEW s, NEW t, IsList(queue, s), InOrder(s, due),
         IsList(r, t), KeepsOrder(s, t), ToSet(t) = Queued', due' = due
  PROVE  Rearranges(r)
<1>1. InOrder(t, due')
  <2> SUFFICES ASSUME NEW i \in 1..Len(t), NEW j \in 1..Len(t), i < j PROVE due[t[i]] <= due[t[j]]
    BY DEF InOrder
  <2>1. Before(t, t[i], t[j])
    BY DEF Before
  <2>2. Before(s, t[i], t[j])
    BY <2>1 DEF KeepsOrder
  <2> QED BY <2>2 DEF Before, InOrder
<1> QED BY <1>1 DEF Rearranges, KeepsOrder

LEMMA Fires ==
  ASSUME AlarmAssumption, NEW p \in 1..MaxPeriod, NEW first \in -p..MaxDelay
  PROVE  NextFire(first, p) \in 0..MaxDelay
<1>1. MaxDelay \in Nat /\ p \in Nat \ {0} /\ p <= MaxDelay /\ first \in Int
  BY DEF AlarmAssumption
<1>2. CASE first >= 0
  BY <1>1, <1>2 DEF NextFire
<1>3. CASE first = -p
  <2>1. (-first) \div p = 1
    BY <1>1, <1>3
  <2>2. first + p * ((-first) \div p + 1) = p
    BY <1>1, <1>3, <2>1
  <2> QED BY <1>1, <1>3, <2>2 DEF NextFire
<1>4. CASE first < 0 /\ first # -p
  <2>1. (-first) \div p = 0
    BY <1>1, <1>4
  <2>2. first + p * ((-first) \div p + 1) = first + p
    BY <1>1, <1>4, <2>1
  <2>3. first + p \in 0..MaxDelay
    BY <1>1, <1>4
  <2> QED BY <1>4, <2>2, <2>3 DEF NextFire
<1> QED BY <1>1, <1>2, <1>3, <1>4

-----------------------------------------------------------------------------
(* The steps of alarms.                                                       *)

\* The types but those of the queue.
Types ==
  /\ used \subseteq Alarm
  /\ due \in Dues
  /\ start \in [Alarm -> -MaxPeriod..MaxDelay]
  /\ period \in [Alarm -> 0..MaxPeriod]
  /\ pending \in BOOLEAN /\ called \in BOOLEAN
  /\ serving \in Links

LEMMA TypesApart == TypeOK => queue \in Queues /\ Types
BY DEF TypeOK, Types, Queues, Links, Dues

LEMMA TypesAfter ==
  ASSUME AlarmAssumption, Types', queue' \in Queues, Rearranges(queue')
  PROVE  TypeOK'
<1>1. PICK t : IsList(queue', t)
  BY DEF Rearranges
<1>2. queue'.head = NULL <=> queue'.tail = NULL
  <2>1. /\ t \in Seq(Alarm) /\ queue'.head = (IF t = <<>> THEN NULL ELSE t[1])
        /\ queue'.tail = IF t = <<>> THEN NULL ELSE t[Len(t)]
    BY <1>1 DEF IsList, IsListOf, Follows
  <2>2. t # <<>> => t[1] \in Alarm /\ t[Len(t)] \in Alarm
    BY <2>1
  <2> QED BY <2>1, <2>2 DEF AlarmAssumption
<1> QED BY <1>2 DEF TypeOK, Types, Queues, Links, Dues

\* The timer serves the first where a call armed it or left it and the first alone.
LEMMA TimerAfter ==
  ASSUME TimerServesFirst, pending' = pending, serving' = serving,
         \/ Timely(queue', due')
         \/ /\ SameTimer(queue, queue')
            /\ queue.head # NULL => due'[queue.head] = due[queue.head]
  PROVE  TimerServesFirst'
BY DEF TimerServesFirst, Timely, SameTimer

LEMMA SetKeeps ==
  ASSUME AlarmAssumption, Careful, QueueInv, NEW a \in Alarm, NEW tick \in 0..MaxDelay,
         OS_SetAlarm(a, tick)
  PROVE  QueueInv' /\ Rearranges(queue')
<1>1. queue \in Queues /\ Types
  BY TypesApart DEF QueueInv
<1>2. /\ a \notin used /\ due' = [due EXCEPT ![a] = tick]
      /\ period' = [period EXCEPT ![a] = 0] /\ start' = [start EXCEPT ![a] = 0]
      /\ used' = used \cup {a} /\ queue' = OSi_InsertAlarm(queue, due', a)
      /\ called' = (serving # NULL) /\ pending' = pending /\ serving' = serving
  BY DEF OS_SetAlarm
<1>3. tick \in -1..MaxDelay /\ MaxDelay \in Nat /\ MaxPeriod \in Nat
  BY DEF AlarmAssumption
<1>4. a \notin Queued /\ Queued' = Queued \cup {a}
  BY <1>1, <1>2 DEF Queued, Types
<1>5. /\ queue' \in Queues /\ Rearranges(queue')
      /\ \/ Timely(queue', due')
         \/ /\ SameTimer(queue, queue')
            /\ queue.head # NULL => due'[queue.head] = due[queue.head]
  BY <1>2, <1>3, <1>4, InsertedInTurn DEF QueueInv
<1>6. Types'
  <2>1. due' \in Dues
    BY <1>1, <1>2, <1>3 DEF Types, Dues
  <2>2. start' \in [Alarm -> -MaxPeriod..MaxDelay] /\ period' \in [Alarm -> 0..MaxPeriod]
    BY <1>1, <1>2, <1>3 DEF Types
  <2> QED BY <1>1, <1>2, <2>1, <2>2 DEF Types
<1>7. TypeOK' /\ QueueOK'
  BY <1>5, <1>6, TypesAfter, RearrangedInOrder
<1>8. OwnLinks' /\ CallsInHandlers'
  BY <1>1, <1>2 DEF OwnLinks, CallsInHandlers, Types, AlarmAssumption
<1>9. PhaseOK'
  BY <1>1, <1>2, <1>3 DEF PhaseOK, QueueInv, Types
<1>10. TimerServesFirst'
  BY <1>2, <1>5, TimerAfter DEF QueueInv
<1> QED BY <1>5, <1>7, <1>8, <1>9, <1>10 DEF QueueInv

LEMMA SetPeriodicKeeps ==
  ASSUME AlarmAssumption, Careful, QueueInv, NEW a \in Alarm, NEW p \in 1..MaxPeriod,
         NEW first \in -p..MaxDelay, OS_SetPeriodicAlarm(a, first, p)
  PROVE  QueueInv' /\ Rearranges(queue')
<1>1. queue \in Queues /\ Types
  BY TypesApart DEF QueueInv
<1>2. /\ a \notin used /\ serving # a /\ due' = [due EXCEPT ![a] = NextFire(first, p)]
      /\ period' = [period EXCEPT ![a] = p] /\ start' = [start EXCEPT ![a] = first]
      /\ used' = used \cup {a} /\ queue' = OSi_InsertAlarm(queue, due', a)
      /\ called' = (serving # NULL) /\ pending' = pending /\ serving' = serving
  BY DEF OS_SetPeriodicAlarm, SetsOwn
<1>3. NextFire(first, p) \in -1..MaxDelay /\ first \in -MaxPeriod..MaxDelay
  BY Fires DEF AlarmAssumption
<1>4. a \notin Queued /\ Queued' = Queued \cup {a}
  BY <1>1, <1>2 DEF Queued, Types
<1>5. /\ queue' \in Queues /\ Rearranges(queue')
      /\ \/ Timely(queue', due')
         \/ /\ SameTimer(queue, queue')
            /\ queue.head # NULL => due'[queue.head] = due[queue.head]
  BY <1>2, <1>3, <1>4, InsertedInTurn DEF QueueInv
<1>6. Types'
  <2>1. due' \in Dues
    BY <1>1, <1>2, <1>3 DEF Types, Dues
  <2>2. start' \in [Alarm -> -MaxPeriod..MaxDelay] /\ period' \in [Alarm -> 0..MaxPeriod]
    BY <1>1, <1>2, <1>3 DEF Types, AlarmAssumption
  <2> QED BY <1>1, <1>2, <2>1, <2>2 DEF Types
<1>7. TypeOK' /\ QueueOK'
  BY <1>5, <1>6, TypesAfter, RearrangedInOrder
<1>8. OwnLinks' /\ CallsInHandlers'
  BY <1>1, <1>2 DEF OwnLinks, CallsInHandlers, Types, AlarmAssumption
<1>9. PhaseOK'
  BY <1>1, <1>2, <1>3 DEF PhaseOK, QueueInv, Types, AlarmAssumption
<1>10. TimerServesFirst'
  BY <1>2, <1>5, TimerAfter DEF QueueInv
<1> QED BY <1>5, <1>7, <1>8, <1>9, <1>10 DEF QueueInv

LEMMA CancelKeeps ==
  ASSUME AlarmAssumption, Careful, QueueInv, NEW a \in Alarm, OS_CancelAlarm(a)
  PROVE  QueueInv' /\ Rearranges(queue')
<1>1. queue \in Queues /\ Types
  BY TypesApart DEF QueueInv
<1>2. /\ a \in used /\ ~CancelsOwn(a) /\ queue' = Unlink(queue, a) /\ used' = used \ {a}
      /\ period' = [period EXCEPT ![a] = 0] /\ start' = [start EXCEPT ![a] = 0]
      /\ called' = (serving # NULL) /\ due' = due /\ pending' = pending /\ serving' = serving
  BY DEF OS_CancelAlarm
<1>3. PICK s : IsList(queue, s) /\ ToSet(s) = Queued /\ InOrder(s, due)
  BY DEF QueueInv, QueueOK
<1>4. s \in Seq(Alarm) /\ EachOnce(s) /\ KeepsOrder(s, s)
  BY <1>3 DEF IsList, IsListOf, KeepsOrder
<1>5. /\ queue' \in Queues /\ Rearranges(queue')
      /\ Timely(queue', due') \/ SameTimer(queue, queue')
  <2>1. CASE a \in Queued
    <3>1. PICK k \in 1..Len(s) : s[k] = a
      BY <1>3, <1>4, <2>1 DEF ToSet
    <3> DEFINE t == RemoveAt(s, k)
    <3>2. /\ queue' \in Queues /\ IsList(queue', t)
          /\ Timely(queue', due') \/ SameTimer(queue, queue')
      BY <1>1, <1>2, <1>3, <3>1, Unlinked DEF Types
    <3>3. ToSet(t) = ToSet(s) \ {a} /\ KeepsOrder(s, t)
      BY <1>4, <3>1, Removed
    <3>4. Queued' = Queued \ {a}
      BY <1>1, <1>2, <2>1 DEF Queued, Types
    <3> HIDE DEF t
    <3>5. Rearranges(queue')
      BY <1>2, <1>3, <3>2, <3>3, <3>4, TakenInTurn
    <3> QED BY <3>2, <3>5
  <2>2. CASE a \notin Queued
    <3>1. serving = a /\ period[a] > 0
      BY <1>1, <1>2, <2>2 DEF Queued
    <3>2. ~called
      BY <1>2, <3>1 DEF CancelsOwn
    <3>3. queue.prev[a] = NULL /\ queue.next[a] = queue.head
      BY <1>2, <3>1, <3>2 DEF QueueInv, OwnLinks
    <3>4. /\ queue' \in Queues /\ IsList(queue', s)
          /\ Timely(queue', due') \/ SameTimer(queue, queue')
      BY <1>1, <1>2, <1>3, <3>3, OwnUnlinked DEF Types
    <3>5. Queued' = Queued
      BY <1>1, <1>2, <3>1 DEF Queued, Types
    <3>6. Rearranges(queue')
      BY <1>2, <1>3, <1>4, <3>4, <3>5, TakenInTurn
    <3> QED BY <3>4, <3>6
  <2> QED BY <2>1, <2>2
<1>6. Types'
  <2>1. start' \in [Alarm -> -MaxPeriod..MaxDelay] /\ period' \in [Alarm -> 0..MaxPeriod]
    BY <1>1, <1>2 DEF Types, AlarmAssumption
  <2> QED BY <1>1, <1>2, <2>1 DEF Types
<1>7. TypeOK' /\ QueueOK'
  BY <1>5, <1>6, TypesAfter, RearrangedInOrder
<1>8. OwnLinks' /\ CallsInHandlers'
  BY <1>1, <1>2 DEF OwnLinks, CallsInHandlers, Types, AlarmAssumption
<1>9. PhaseOK'
  BY <1>1, <1>2 DEF PhaseOK, QueueInv, Types
<1>10. TimerServesFirst'
  BY <1>2, <1>5, TimerAfter DEF QueueInv
<1> QED BY <1>5, <1>7, <1>8, <1>9, <1>10 DEF QueueInv

LEMMA CancelAllKeeps ==
  ASSUME AlarmAssumption, Careful, QueueInv, NEW S, OS_CancelAlarms(S)
  PROVE  QueueInv' /\ Rearranges(queue')
<1>1. queue \in Queues /\ Types
  BY TypesApart DEF QueueInv
<1>2. PICK s : IsList(queue, s) /\ ToSet(s) = Queued /\ InOrder(s, due)
  BY DEF QueueInv, QueueOK
<1> DEFINE gone == ToSet(s) \cap S \cap used
<1>3. /\ used' = used \ gone
      /\ period' = [a \in Alarm |-> IF a \in gone THEN 0 ELSE period[a]]
      /\ start' = [a \in Alarm |-> IF a \in gone THEN 0 ELSE start[a]]
      /\ called' = (serving # NULL) /\ due' = due /\ pending' = pending /\ serving' = serving
  <2>1. Chain(queue) = s
    BY <1>2, ListFound
  <2> QED BY <2>1 DEF OS_CancelAlarms
<1>4. /\ queue' \in Queues /\ (Timely(queue', due') \/ SameTimer(queue, queue'))
      /\ \E t : IsList(queue', t) /\ KeepsOrder(s, t) /\ ToSet(t) = ToSet(s) \ gone
  BY <1>1, <1>2, <1>3, AllCancelled DEF Types
<1>5. gone \subseteq Queued
  BY <1>2
<1> HIDE DEF gone
<1>6. Queued' = Queued \ gone
  <2>1. serving \notin gone \/ ~(period[serving] > 0)
    BY <1>1, <1>5 DEF Queued, Types, AlarmAssumption
  <2>2. serving # NULL /\ serving \notin gone => period'[serving] = period[serving]
    BY <1>1, <1>3 DEF Types, Links
  <2>3. serving \in gone => period'[serving] = 0
    BY <1>3, <1>5, <1>1 DEF Queued, Types
  <2> QED BY <1>3, <2>1, <2>2, <2>3 DEF Queued
<1>7. Rearranges(queue')
  BY <1>2, <1>3, <1>4, <1>6, TakenInTurn
<1>8. Types'
  <2>1. start' \in [Alarm -> -MaxPeriod..MaxDelay] /\ period' \in [Alarm -> 0..MaxPeriod]
    BY <1>1, <1>3 DEF Types, AlarmAssumption
  <2> QED BY <1>1, <1>3, <2>1 DEF Types
<1>9. TypeOK' /\ QueueOK'
  BY <1>4, <1>7, <1>8, TypesAfter, RearrangedInOrder
<1>10. OwnLinks' /\ CallsInHandlers'
  BY <1>1, <1>3 DEF OwnLinks, CallsInHandlers, Types, AlarmAssumption
<1>11. PhaseOK'
  BY <1>1, <1>3 DEF PhaseOK, QueueInv, Types
<1>12. TimerServesFirst'
  BY <1>3, <1>4, TimerAfter DEF QueueInv
<1> QED BY <1>7, <1>9, <1>10, <1>11, <1>12 DEF QueueInv

LEMMA TickKeeps ==
  ASSUME AlarmAssumption, QueueInv, Tick
  PROVE  QueueInv' /\ Rearranges(queue')
<1>1. queue \in Queues /\ Types
  BY TypesApart DEF QueueInv
<1>2. /\ due' = [a \in Alarm |-> IF due[a] < 0 THEN due[a] ELSE due[a] - 1]
      /\ start' = [a \in Alarm |->
           IF period[a] = 0 THEN start[a] ELSE IF start[a] = -period[a] THEN -1 ELSE start[a] - 1]
      /\ queue' = [queue EXCEPT !.timer = IF @ = 0 THEN 0 ELSE @ - 1]
      /\ pending' = (pending \/ queue.timer = 1)
      /\ used' = used /\ period' = period /\ serving' = serving /\ called' = called
  BY DEF Tick
<1>3. PICK s : IsList(queue, s) /\ ToSet(s) = Queued /\ InOrder(s, due)
  BY DEF QueueInv, QueueOK
<1>4. MaxDelay \in Nat /\ MaxPeriod \in Nat \ {0} /\ Wrap \in Nat
  BY DEF AlarmAssumption
<1>5. /\ queue.timer \in 0..Wrap
      /\ queue'.timer = IF queue.timer = 0 THEN 0 ELSE queue.timer - 1
      /\ queue'.head = queue.head /\ queue'.tail = queue.tail
      /\ queue'.next = queue.next /\ queue'.prev = queue.prev
  BY <1>1, <1>2 DEF Queues
<1>6. queue' \in Queues
  <2>1. (IF queue.timer = 0 THEN 0 ELSE queue.timer - 1) \in 0..Wrap
    BY <1>4, <1>5
  <2> QED BY <1>1, <1>2, <2>1 DEF Queues
<1>7. IsList(queue', s) /\ Queued' = Queued
  BY <1>2, <1>3, <1>5 DEF IsList, IsListOf, Queued
<1>8. \A a \in Alarm : /\ due[a] \in -1..MaxDelay
                       /\ due'[a] = IF due[a] < 0 THEN due[a] ELSE due[a] - 1
  BY <1>1, <1>2 DEF Types, Dues
<1>9. InOrder(s, due')
  <2> SUFFICES ASSUME NEW i \in 1..Len(s), NEW j \in 1..Len(s), i < j PROVE due'[s[i]] <= due'[s[j]]
    BY DEF InOrder
  <2>1. s[i] \in Alarm /\ s[j] \in Alarm
    BY <1>3 DEF IsList, IsListOf
  <2>2. due[s[i]] <= due[s[j]]
    BY <1>3 DEF InOrder
  <2> QED BY <1>4, <1>8, <2>1, <2>2
<1>10. Rearranges(queue')
  BY <1>3, <1>7, <1>9 DEF Rearranges
<1>11. Types' /\ PhaseOK'
  <2>1. due' \in Dues
    BY <1>2, <1>4, <1>8 DEF Dues
  <2>2. ASSUME NEW a \in Alarm
        PROVE  start'[a] \in -MaxPeriod..MaxDelay /\ (period[a] > 0 => start'[a] >= -period[a])
    <3>1. /\ start[a] \in -MaxPeriod..MaxDelay /\ period[a] \in 0..MaxPeriod
          /\ period[a] > 0 => start[a] >= -period[a]
      BY <1>1 DEF Types, QueueInv, PhaseOK
    <3>2. start'[a] = IF period[a] = 0 THEN start[a]
                      ELSE IF start[a] = -period[a] THEN -1 ELSE start[a] - 1
      BY <1>2
    <3> QED BY <1>4, <3>1, <3>2
  <2>3. start' \in [Alarm -> -MaxPeriod..MaxDelay]
    <3>1. DOMAIN start' = Alarm /\ start' = [a \in Alarm |-> start'[a]]
      BY <1>2
    <3> QED BY <2>2, <3>1
  <2>4. pending' \in BOOLEAN
    BY <1>1, <1>2 DEF Types
  <2> QED BY <1>1, <1>2, <2>1, <2>2, <2>3, <2>4 DEF Types, PhaseOK
<1>12. TypeOK' /\ QueueOK'
  BY <1>6, <1>10, <1>11, TypesAfter, RearrangedInOrder
<1>13. OwnLinks' /\ CallsInHandlers'
  BY <1>2, <1>5 DEF QueueInv, OwnLinks, CallsInHandlers
<1>14. TimerServesFirst'
  <2> SUFFICES ASSUME queue.head # NULL, serving = NULL, ~pending, queue.timer # 1
               PROVE  /\ queue'.timer > 0
                      /\ due'[queue.head] >= 0 => queue'.timer <= due'[queue.head] + 1
    BY <1>2, <1>5 DEF TimerServesFirst
  <2>1. queue.timer > 0 /\ (due[queue.head] >= 0 => queue.timer <= due[queue.head] + 1)
    BY DEF QueueInv, TimerServesFirst
  <2>2. queue.head \in Alarm
    BY <1>1 DEF Queues, Links
  <2> QED BY <1>4, <1>5, <1>8, <2>1, <2>2
<1> QED BY <1>10, <1>11, <1>12, <1>13, <1>14 DEF QueueInv

LEMMA ArrangeKeeps ==
  ASSUME AlarmAssumption, QueueInv, OSi_ArrangeTimer
  PROVE  QueueInv' /\ Rearranges(queue')
<1>1. queue \in Queues /\ Types
  BY TypesApart DEF QueueInv
<1>2. PICK s : IsList(queue, s) /\ ToSet(s) = Queued /\ InOrder(s, due)
  BY DEF QueueInv, QueueOK
<1>3. /\ pending /\ serving = NULL /\ pending' = FALSE /\ ~called
      /\ due' = due /\ start' = start /\ period' = period /\ called' = called
  BY DEF OSi_ArrangeTimer, QueueInv, CallsInHandlers
<1>4. s \in Seq(Alarm) /\ EachOnce(s) /\ KeepsOrder(s, s) /\ Queued = used
  BY <1>2, <1>3 DEF IsList, IsListOf, KeepsOrder, Queued
<1>5. PhaseOK'
  BY <1>3 DEF QueueInv, PhaseOK
<1>6. CASE queue.head # NULL /\ due[queue.head] <= 0
  <2>1. /\ queue' = Pop(queue) /\ serving' = queue.head
        /\ used' = IF period[queue.head] = 0 THEN used \ {queue.head} ELSE used
    BY <1>1, <1>6 DEF OSi_ArrangeTimer, Types, Dues, Queues, Links
  <2> DEFINE t == RemoveAt(s, 1)
  <2>2. /\ queue' \in Queues /\ 1 \in 1..Len(s) /\ queue.head = s[1] /\ IsList(queue', t)
        /\ queue'.prev[queue.head] = NULL /\ queue'.next[queue.head] = queue'.head
    BY <1>1, <1>2, <1>6, <2>1, Popped
  <2>3. ToSet(t) = ToSet(s) \ {queue.head} /\ KeepsOrder(s, t)
    BY <1>4, <2>2, Removed
  <2>4. queue.head \in Alarm /\ period[queue.head] \in 0..MaxPeriod
    BY <1>1, <1>4, <2>2 DEF Types
  <2>5. Queued' = Queued \ {queue.head}
    BY <1>3, <1>4, <1>6, <2>1, <2>4 DEF Queued, AlarmAssumption
  <2> HIDE DEF t
  <2>6. Rearranges(queue')
    BY <1>2, <1>3, <2>2, <2>3, <2>5, TakenInTurn
  <2>7. Types'
    BY <1>1, <1>3, <2>1, <2>4 DEF Types, Links
  <2>8. TypeOK' /\ QueueOK'
    BY <2>2, <2>6, <2>7, TypesAfter, RearrangedInOrder
  <2>9. OwnLinks' /\ CallsInHandlers' /\ TimerServesFirst'
    BY <1>3, <1>6, <2>1, <2>2 DEF OwnLinks, CallsInHandlers, TimerServesFirst
  <2> QED BY <1>5, <2>6, <2>8, <2>9 DEF QueueInv
<1>7. CASE ~(queue.head # NULL /\ due[queue.head] <= 0)
  <2>1. /\ \/ queue.head = NULL /\ queue' = [queue EXCEPT !.timer = 0]
           \/ queue.head # NULL /\ queue' = OSi_SetTimer(queue, due[queue.head])
        /\ used' = used /\ serving' = serving
    BY <1>7 DEF OSi_ArrangeTimer
  <2>2. /\ queue' \in Queues /\ Timely(queue', due')
        /\ queue'.head = queue.head /\ queue'.tail = queue.tail
        /\ queue'.next = queue.next /\ queue'.prev = queue.prev
    <3>1. CASE queue.head = NULL
      BY <1>1, <2>1, <3>1 DEF Queues, Timely, AlarmAssumption
    <3>2. CASE queue.head # NULL
      <4>1. queue.head \in Alarm
        BY <1>1, <3>2 DEF Queues, Links
      <4> QED BY <1>1, <1>3, <2>1, <3>2, <4>1, TimerIsSet DEF Types
    <3> QED BY <3>1, <3>2
  <2>3. IsList(queue', s) /\ Queued' = Queued
    BY <1>2, <1>3, <2>1, <2>2 DEF IsList, IsListOf, Queued
  <2>4. Rearranges(queue')
    BY <1>2, <1>3, <1>4, <2>3, TakenInTurn
  <2>5. Types'
    BY <1>1, <1>3, <2>1 DEF Types
  <2>6. TypeOK' /\ QueueOK'
    BY <2>2, <2>4, <2>5, TypesAfter, RearrangedInOrder
  <2>7. OwnLinks' /\ CallsInHandlers' /\ TimerServesFirst'
    BY <1>1, <1>3, <2>1, <2>2
    DEF OwnLinks, CallsInHandlers, TimerServesFirst, Timely, Types, AlarmAssumption
  <2> QED BY <1>5, <2>4, <2>6, <2>7 DEF QueueInv
<1> QED BY <1>6, <1>7

\* What the end of the handler does to the timer.
LEMMA ArmedKeeps ==
  ASSUME AlarmAssumption, NEW q \in Queues, NEW dues \in Dues
  PROVE  LET r == IF q.head = NULL THEN q ELSE OSi_SetTimer(q, dues[q.head])
         IN /\ r \in Queues /\ Timely(r, dues)
            /\ r.head = q.head /\ r.tail = q.tail /\ r.next = q.next /\ r.prev = q.prev
<1>1. CASE q.head = NULL
  BY <1>1 DEF Timely
<1>2. CASE q.head # NULL
  <2>1. q.head \in Alarm
    BY <1>2 DEF Queues, Links
  <2> QED BY <1>2, <2>1, TimerIsSet
<1> QED BY <1>1, <1>2

LEMMA ArrangeReturnKeeps ==
  ASSUME AlarmAssumption, QueueInv, OSi_ArrangeTimer_Return
  PROVE  QueueInv' /\ Rearranges(queue')
<1>1. queue \in Queues /\ Types
  BY TypesApart DEF QueueInv
<1>2. /\ serving # NULL /\ serving' = NULL /\ called' = FALSE
      /\ start' = start /\ period' = period /\ pending' = pending
  BY DEF OSi_ArrangeTimer_Return
<1>3. serving \in Alarm /\ period[serving] \in 0..MaxPeriod
  BY <1>1, <1>2 DEF Types, Links
<1> DEFINE Armed(q, dues) == IF q.head = NULL THEN q ELSE OSi_SetTimer(q, dues[q.head])
<1>4. /\ PhaseOK' /\ OwnLinks' /\ CallsInHandlers' /\ Queued' = used'
      /\ Timely(queue', due') => TimerServesFirst'
  <2>1. PhaseOK'
    BY <1>2 DEF QueueInv, PhaseOK
  <2>2. CallsInHandlers' /\ Queued' = used'
    BY <1>2 DEF CallsInHandlers, Queued
  <2>3. Timely(queue', due') => TimerServesFirst'
    BY DEF TimerServesFirst, Timely
  <2>4. used' \subseteq Alarm
    BY <1>1, <1>3 DEF OSi_ArrangeTimer_Return, Types
  <2>5. OwnLinks'
    BY <1>2, <2>4 DEF OwnLinks, AlarmAssumption
  <2> QED BY <2>1, <2>2, <2>3, <2>5
<1>5. CASE period[serving] > 0
  <2> DEFINE tick == NextFire(start[serving], period[serving])
  <2> DEFINE q == OSi_InsertAlarm(queue, due', serving)
  <2>1. /\ used' = used \cup {serving} /\ due' = [due EXCEPT ![serving] = tick]
        /\ queue' = Armed(q, due')
    BY <1>5 DEF OSi_ArrangeTimer_Return
  <2>2. tick \in -1..MaxDelay
    <3>1. period[serving] \in 1..MaxPeriod
      BY <1>3, <1>5 DEF AlarmAssumption
    <3>2. start[serving] \in -period[serving]..MaxDelay
      BY <1>1, <1>3, <1>5 DEF Types, QueueInv, PhaseOK, AlarmAssumption
    <3>3. tick \in 0..MaxDelay
      BY <3>1, <3>2, Fires
    <3> HIDE DEF tick
    <3> QED BY <3>3 DEF AlarmAssumption
  <2> HIDE DEF tick
  <2>3. serving \notin Queued /\ Queued' = Queued \cup {serving}
    BY <1>2, <1>4, <1>5, <2>1 DEF Queued
  <2>4. q \in Queues /\ Rearranges(q)
    BY <1>3, <2>1, <2>2, <2>3, InsertedInTurn DEF QueueInv
  <2>5. due' \in Dues
    BY <1>1, <2>1, <2>2 DEF Types, Dues
  <2> HIDE DEF q
  <2>6. /\ queue' \in Queues /\ Timely(queue', due')
        /\ queue'.head = q.head /\ queue'.tail = q.tail
        /\ queue'.next = q.next /\ queue'.prev = q.prev
    BY <2>1, <2>4, <2>5, ArmedKeeps
  <2>7. Rearranges(queue')
    <3>1. \A t : IsList(q, t) => IsList(queue', t)
      BY <2>6 DEF IsList, IsListOf
    <3> QED BY <2>4, <3>1 DEF Rearranges
  <2>8. Types'
    BY <1>1, <1>2, <1>3, <2>1, <2>5 DEF Types, Links
  <2>9. TypeOK' /\ QueueOK'
    BY <2>6, <2>7, <2>8, TypesAfter, RearrangedInOrder
  <2> QED BY <1>4, <2>6, <2>7, <2>9 DEF QueueInv
<1>6. CASE ~(period[serving] > 0)
  <2>1. queue' = Armed(queue, due) /\ used' = used /\ due' = due
    BY <1>6 DEF OSi_ArrangeTimer_Return
  <2>2. PICK s : IsList(queue, s) /\ ToSet(s) = Queued /\ InOrder(s, due)
    BY DEF QueueInv, QueueOK
  <2>3. /\ queue' \in Queues /\ Timely(queue', due')
        /\ queue'.head = queue.head /\ queue'.tail = queue.tail
        /\ queue'.next = queue.next /\ queue'.prev = queue.prev
    BY <1>1, <2>1, ArmedKeeps DEF Types
  <2>4. IsList(queue', s) /\ KeepsOrder(s, s) /\ Queued' = Queued
    BY <1>4, <1>6, <2>1, <2>2, <2>3 DEF IsList, IsListOf, KeepsOrder, Queued
  <2>5. Rearranges(queue')
    BY <2>1, <2>2, <2>4, TakenInTurn
  <2>6. Types'
    BY <1>1, <1>2, <2>1 DEF Types, Links
  <2>7. TypeOK' /\ QueueOK'
    BY <2>3, <2>5, <2>6, TypesAfter, RearrangedInOrder
  <2> QED BY <1>4, <2>3, <2>5, <2>7 DEF QueueInv
<1> QED BY <1>5, <1>6

-----------------------------------------------------------------------------
(* The theorems about alarms.                                                 *)

LEMMA InitQueueInv == ASSUME AlarmAssumption, Init PROVE QueueInv
<1>1. TypeOK
  <2>1. /\ 0 \in 0..Wrap /\ -1 \in -1..MaxDelay /\ 0 \in 0..MaxPeriod
        /\ 0 \in -MaxPeriod..MaxDelay
    BY DEF AlarmAssumption
  <2>2. queue \in Queues
    BY <2>1 DEF Init, Queues, Links
  <2>3. queue.head = NULL <=> queue.tail = NULL
    BY DEF Init
  <2>4. Types
    BY <2>1 DEF Init, Types, Dues, Links
  <2> QED BY <2>2, <2>3, <2>4 DEF TypeOK, Types, Queues, Links, Dues
<1>2. QueueOK
  <2>1. IsList(queue, <<>>)
    BY DEF Init, IsList, IsListOf, Follows, EachOnce
  <2>2. ToSet(<<>>) = Queued /\ InOrder(<<>>, due)
    BY DEF Init, Queued, ToSet, InOrder
  <2> QED BY <2>1, <2>2 DEF QueueOK
<1>3. OwnLinks /\ PhaseOK /\ CallsInHandlers /\ TimerServesFirst
  BY DEF Init, OwnLinks, PhaseOK, CallsInHandlers, TimerServesFirst
<1> QED BY <1>1, <1>2, <1>3 DEF QueueInv

LEMMA StepKeeps ==
  ASSUME AlarmAssumption, Careful, QueueInv, [Next]_vars
  PROVE  QueueInv' /\ [NoneOvertaken]_vars
<1>1. CASE UNCHANGED vars
  <2>1. QueueInv'
    BY <1>1 DEF vars, QueueInv, TypeOK, QueueOK, IsList, IsListOf, Follows, Queued, InOrder,
               EachOnce, OwnLinks, PhaseOK, CallsInHandlers, TimerServesFirst
  <2> QED BY <1>1, <2>1
<1>2. CASE Next
  <2>1. QueueInv' /\ Rearranges(queue')
    BY <1>2, SetKeeps, SetPeriodicKeeps, CancelKeeps, CancelAllKeeps, TickKeeps, ArrangeKeeps,
       ArrangeReturnKeeps DEF Next
  <2> QED BY <2>1, RearrangedInOrder
<1> QED BY <1>1, <1>2

LEMMA QueueInvariant ==
  ASSUME AlarmAssumption, Careful
  PROVE  Spec => []QueueInv /\ [][NoneOvertaken]_vars
<1>1. Init => QueueInv
  BY InitQueueInv
<1>2. QueueInv /\ [Next]_vars => QueueInv' /\ [NoneOvertaken]_vars
  BY StepKeeps
<1> QED BY <1>1, <1>2, PTL DEF Spec

\* A behaviour of MCTimers is one of alarms, which may stand still.
LEMMA PartOfAlarms == MCSpec => Spec
<1>1. MCInit => Init
  BY DEF MCInit
<1>2. [MCNext]_<<part, vars, pairVars, tickVars, lineVars>> => [Next]_vars
  BY DEF MCNext
<1> QED BY <1>1, <1>2, PTL DEF MCSpec, Spec

\* The alarms that are set are those in the queue, each once, by the tick when they
\* fire, linked both ways alike, whatever threads and careful handlers call.
THEOREM AlarmsAreQueued == ASSUME Careful PROVE MCSpec => []QueueIsUsed
<1>1. QueueInv => QueueIsUsed
  <2> SUFFICES ASSUME QueueInv PROVE QueueIsUsed
    OBVIOUS
  <2>1. PICK s : IsList(queue, s) /\ ToSet(s) = Queued /\ InOrder(s, due)
    BY DEF QueueInv, QueueOK
  <2>2. Chain(queue) = s /\ Path(queue.prev, queue.tail) = Reverse(s)
    BY <2>1, AlarmAssumption, ListFound
  <2>3. \A i, j \in 1..Len(s) : i < j => s[i] # s[j] /\ due[s[i]] <= due[s[j]]
    <3> SUFFICES ASSUME NEW i \in 1..Len(s), NEW j \in 1..Len(s), i < j
                 PROVE  s[i] # s[j] /\ due[s[i]] <= due[s[j]]
      OBVIOUS
    <3>1. i # j
      BY <2>1 DEF IsList, IsListOf
    <3> QED BY <2>1, <3>1 DEF IsList, IsListOf, EachOnce, InOrder
  <2> QED BY <2>1, <2>2, <2>3 DEF QueueIsUsed, Queued
<1> QED BY <1>1, AlarmAssumption, QueueInvariant, PartOfAlarms, PTL

\* The timer of the first alarm that waits is running, and runs over no later than
\* the alarm is due, or its interrupt is pending.
THEOREM TimerComesInTime == ASSUME Careful PROVE MCSpec => []TimerServesFirst
<1>1. QueueInv => TimerServesFirst
  BY DEF QueueInv
<1> QED BY <1>1, AlarmAssumption, QueueInvariant, PartOfAlarms, PTL

\* No step puts an alarm before one that waits but for being due earlier.
THEOREM AlarmsKeepTurns == ASSUME Careful PROVE MCSpec => FiresInOrder
<1>1. [NoneOvertaken]_vars => [\A a \in ToSet(Chain(queue)), b \in Alarm :
        Before(Chain(queue)', b, a) => Before(Chain(queue), b, a) \/ due'[b] < due'[a]]_vars
  BY DEF NoneOvertaken
<1> QED BY <1>1, AlarmAssumption, QueueInvariant, PartOfAlarms, PTL DEF FiresInOrder

-----------------------------------------------------------------------------
(* The tick.                                                                  *)

\* What is assumed: the timer has an even range, 2^16.
TickAssumption ==
  /\ TimerRange \in Nat \ {0} /\ 2 * (TimerRange \div 2) = TimerRange
  /\ MaxTick \in Nat
  /\ NULL \notin Nat

\* The ticks of the overflows that were handled.
Counted == counter * TimerRange

\* What the time has to do with the timer.  After OS_SetTick the timer restarts
\* from the tick that was set until its first overflow is handled; till then
\* the counter is only known to be behind.
TimeIsCounted ==
  /\ ~needReset =>
       /\ reload = 0
       /\ time = Counted + count + (IF raised THEN TimerRange ELSE 0)
       /\ raised => count <= late
  /\ needReset => IF raised THEN Counted + TimerRange <= time ELSE time = Counted + count

\* OS_GetTick already has what it will return when it has read the timer: the
\* tick of that moment, which is less than half the timer's range ago.
ReadIsKept ==
  low # NULL =>
    /\ since <= time /\ time <= since + late
    /\ ~needReset => since = Ticks!GetTick

TickInv == Ticks!TypeOK /\ TimeIsCounted /\ ReadIsKept

-----------------------------------------------------------------------------
(* Division and multiples.                                                    *)

LEMMA Divided ==
  ASSUME NEW n \in Nat, NEW r \in Nat \ {0}
  PROVE  /\ n \div r \in Nat /\ n % r \in 0..r - 1
         /\ n = (n \div r) * r + (n % r)
BY SMT

LEMMA QuotientIsLargest ==
  ASSUME NEW n \in Nat, NEW r \in Nat \ {0}, NEW c \in Nat, c * r <= n
  PROVE  c \in 0..n \div r
BY SMT

LEMMA NextMultiple ==
  ASSUME NEW r \in Nat \ {0}, NEW c \in Nat
  PROVE  (c + 1) * r = c * r + r /\ c * r \in Nat
BY SMT

-----------------------------------------------------------------------------
(* The steps of the tick.                                                     *)

LEMMA HalfIsHalf ==
  ASSUME TickAssumption
  PROVE  /\ Ticks!Half \in Nat \ {0} /\ Ticks!Half' = Ticks!Half
         /\ TimerRange = Ticks!Half + Ticks!Half
         /\ Ticks!Overflows \in Nat /\ Ticks!Overflows' = Ticks!Overflows
<1>1. TimerRange \div 2 \in Nat
  BY Divided DEF TickAssumption
<1>2. Ticks!Half \in Nat \ {0} /\ TimerRange = Ticks!Half + Ticks!Half /\ Ticks!Half' = Ticks!Half
  BY <1>1 DEF TickAssumption, Ticks!Half
<1>3. Ticks!Overflows \in Nat /\ Ticks!Overflows' = Ticks!Overflows
  BY Divided DEF TickAssumption, Ticks!Overflows
<1> QED
  BY <1>2, <1>3

\* The types in two parts, for the provers: one about numbers, one that is not.
Numbers ==
  /\ count \in 0..TimerRange - 1 /\ reload \in 0..TimerRange - 1
  /\ counter \in 0..Ticks!Overflows
  /\ low \in 0..TimerRange - 1 \cup {NULL}
  /\ since \in 0..MaxTick /\ time \in 0..MaxTick
  /\ late \in 0..Ticks!Half - 1
Flags == raised \in BOOLEAN /\ needReset \in BOOLEAN

LEMMA InitTickInv == ASSUME TickAssumption, Ticks!Init PROVE TickInv
<1>1. /\ Ticks!Half \in Nat \ {0} /\ Ticks!Half' = Ticks!Half
      /\ TimerRange = Ticks!Half + Ticks!Half
      /\ Ticks!Overflows \in Nat /\ Ticks!Overflows' = Ticks!Overflows
  BY HalfIsHalf
<1>2. 0 * TimerRange = 0
  BY DEF TickAssumption
<1>3. Numbers
  BY <1>1 DEF TickAssumption, Ticks!Init, Numbers
<1>4. Flags
  BY DEF Ticks!Init, Flags
<1>5. TimeIsCounted /\ ReadIsKept
  BY <1>2 DEF Ticks!Init, TimeIsCounted, ReadIsKept, Counted
<1> QED
  BY <1>3, <1>4, <1>5 DEF TickInv, Ticks!TypeOK, Numbers, Flags

LEMMA CountKeeps == ASSUME TickAssumption, TickInv, Ticks!Count PROVE TickInv'
<1> DEFINE base == Counted
<1>1. /\ Ticks!Half \in Nat \ {0} /\ Ticks!Half' = Ticks!Half
      /\ TimerRange = Ticks!Half + Ticks!Half
      /\ Ticks!Overflows \in Nat /\ Ticks!Overflows' = Ticks!Overflows
  BY HalfIsHalf
<1>2. counter \in Nat /\ base \in Nat /\ base' = base
  <2>1. counter \in Nat
    BY DEF TickInv, Ticks!TypeOK
  <2> QED
    BY <2>1, NextMultiple DEF TickAssumption, Counted, Ticks!Count
<1>3. Ticks!TypeOK'
  <2>1. Numbers'
    BY <1>1
       DEF TickAssumption, TickInv, Ticks!TypeOK, Numbers, Ticks!Count
  <2>2. Flags'
    BY DEF TickInv, Ticks!TypeOK, Flags, Ticks!Count
  <2> QED
    BY <2>1, <2>2 DEF Ticks!TypeOK, Numbers, Flags
<1>4. TimeIsCounted'
  <2> HIDE DEF base
  <2>1. TimeIsCounted <=>
          /\ ~needReset =>
               /\ reload = 0
               /\ time = base + count + (IF raised THEN TimerRange ELSE 0)
               /\ raised => count <= late
          /\ needReset => IF raised THEN base + TimerRange <= time ELSE time = base + count
    BY DEF TimeIsCounted, base
  <2>2. TimeIsCounted' <=>
          /\ ~needReset' =>
               /\ reload' = 0
               /\ time' = base' + count' + (IF raised' THEN TimerRange ELSE 0)
               /\ raised' => count' <= late'
          /\ needReset' => IF raised' THEN base' + TimerRange <= time' ELSE time' = base' + count'
    BY DEF TimeIsCounted, base
  <2> QED
    BY <1>1, <1>2, <2>1, <2>2 DEF TickInv, Ticks!TypeOK, Ticks!Count
<1>5. ReadIsKept'
  <2> HIDE DEF base
  <2>1. Ticks!GetTick = base + low + (IF raised /\ low < Ticks!Half THEN TimerRange ELSE 0)
    BY DEF Ticks!GetTick, base, Counted
  <2>2. Ticks!GetTick' = base' + low' + (IF raised' /\ low' < Ticks!Half THEN TimerRange ELSE 0)
    BY DEF Ticks!GetTick, base, Counted, Ticks!Half
  <2>3. ~needReset =>
           /\ reload = 0
           /\ time = base + count + (IF raised THEN TimerRange ELSE 0)
           /\ raised => count <= late
    BY DEF TickInv, TimeIsCounted, base
  <2> QED
    BY <1>1, <1>2, <2>1, <2>2, <2>3
    DEF TickAssumption, TickInv, Ticks!TypeOK, ReadIsKept, Ticks!Count
<1> QED
  BY <1>3, <1>4, <1>5 DEF TickInv

LEMMA CountUpKeeps == ASSUME TickAssumption, TickInv, Ticks!OSi_CountUpTick PROVE TickInv'
<1>1. /\ Ticks!Half \in Nat \ {0} /\ Ticks!Half' = Ticks!Half
      /\ TimerRange = Ticks!Half + Ticks!Half
      /\ Ticks!Overflows \in Nat /\ Ticks!Overflows' = Ticks!Overflows
  BY HalfIsHalf
<1>2. /\ counter \in Nat /\ counter' = counter + 1
      /\ Counted \in Nat /\ Counted' = Counted + TimerRange
  <2>1. counter \in Nat /\ counter' = counter + 1
    BY DEF TickInv, Ticks!TypeOK, Ticks!OSi_CountUpTick
  <2> QED
    BY <2>1, NextMultiple DEF TickAssumption, Counted
<1>3. Counted + TimerRange <= time /\ time <= MaxTick
  BY <1>2, <1>1 DEF TickInv, Ticks!TypeOK, TimeIsCounted, Ticks!OSi_CountUpTick
<1>4. counter' \in 0..Ticks!Overflows
  <2>1. counter' * TimerRange <= MaxTick
    BY <1>1, <1>2, <1>3 DEF Counted, TickAssumption, TickInv, Ticks!TypeOK
  <2> QED
    BY <1>2, <2>1, QuotientIsLargest DEF TickAssumption, Ticks!Overflows
<1>5. time' = IF needReset THEN Counted' ELSE time
  BY DEF Ticks!OSi_CountUpTick, Counted
<1>6. Ticks!TypeOK'
  <2>1. Numbers'
    BY <1>1, <1>2, <1>3, <1>4, <1>5
       DEF TickAssumption, TickInv, Ticks!TypeOK, Numbers, Ticks!OSi_CountUpTick
  <2>2. Flags'
    BY DEF TickInv, Ticks!TypeOK, Flags, Ticks!OSi_CountUpTick
  <2> QED
    BY <2>1, <2>2 DEF Ticks!TypeOK, Numbers, Flags
<1>7. TimeIsCounted'
  BY <1>1, <1>2, <1>3, <1>5 DEF TickInv, Ticks!TypeOK, TimeIsCounted, Ticks!OSi_CountUpTick
<1>8. ReadIsKept'
  BY DEF ReadIsKept, Ticks!OSi_CountUpTick
<1> QED
  BY <1>6, <1>7, <1>8 DEF TickInv

LEMMA GetTickKeeps == ASSUME TickAssumption, TickInv, Ticks!OS_GetTick PROVE TickInv'
<1>1. /\ Ticks!Half \in Nat \ {0} /\ Ticks!Half' = Ticks!Half
      /\ TimerRange = Ticks!Half + Ticks!Half
      /\ Ticks!Overflows \in Nat /\ Ticks!Overflows' = Ticks!Overflows
  BY HalfIsHalf
<1>2. Counted \in Nat /\ Counted' = Counted
  <2>1. counter \in Nat
    BY DEF TickInv, Ticks!TypeOK
  <2> QED
    BY <2>1, NextMultiple DEF TickAssumption, Counted, Ticks!OS_GetTick
<1>3. Ticks!TypeOK'
  BY DEF TickInv, Ticks!TypeOK, Ticks!OS_GetTick
<1>4. TimeIsCounted'
  BY <1>2 DEF TickInv, TimeIsCounted, Ticks!OS_GetTick
<1>5. ReadIsKept'
  <2>1. Ticks!GetTick' = Counted + count + (IF raised /\ count < Ticks!Half THEN TimerRange ELSE 0)
    BY <1>2 DEF Ticks!GetTick, Counted, Ticks!OS_GetTick, Ticks!Half
  <2> QED
    BY <1>1, <1>2, <2>1 DEF TickInv, Ticks!TypeOK, TimeIsCounted, ReadIsKept, Ticks!OS_GetTick
<1> QED
  BY <1>3, <1>4, <1>5 DEF TickInv

LEMMA GetTickReturnKeeps == ASSUME TickAssumption, TickInv, Ticks!OS_GetTick_Return PROVE TickInv'
<1>1. /\ Ticks!Half \in Nat \ {0} /\ Ticks!Half' = Ticks!Half
      /\ Ticks!Overflows \in Nat /\ Ticks!Overflows' = Ticks!Overflows
  BY HalfIsHalf
<1> QED
  BY <1>1
  DEF TickAssumption, TickInv, Ticks!TypeOK, TimeIsCounted, ReadIsKept, Counted,
      Ticks!OS_GetTick_Return

LEMMA SetTickKeeps ==
  ASSUME TickAssumption, TickInv, NEW tick \in 0..MaxTick, Ticks!OS_SetTick(tick)
  PROVE  TickInv'
<1>1. /\ Ticks!Half \in Nat \ {0} /\ Ticks!Half' = Ticks!Half
      /\ Ticks!Overflows \in Nat /\ Ticks!Overflows' = Ticks!Overflows
  BY HalfIsHalf
<1>2. /\ tick \div TimerRange \in Nat /\ tick % TimerRange \in 0..TimerRange - 1
      /\ tick = (tick \div TimerRange) * TimerRange + (tick % TimerRange)
  <2>1. tick \in Nat
    BY DEF TickAssumption
  <2> QED
    BY <2>1, Divided DEF TickAssumption
<1>3. (tick \div TimerRange) * TimerRange \in Nat
  BY <1>2, NextMultiple DEF TickAssumption
<1>4. tick \div TimerRange \in 0..Ticks!Overflows
  <2>1. (tick \div TimerRange) * TimerRange <= MaxTick
    BY <1>2, <1>3 DEF TickAssumption
  <2> QED
    BY <1>2, <2>1, QuotientIsLargest DEF TickAssumption, Ticks!Overflows
<1>5. Ticks!TypeOK'
  <2>1. Numbers'
    BY <1>1, <1>2, <1>4
       DEF TickAssumption, TickInv, Ticks!TypeOK, Numbers, Ticks!OS_SetTick
  <2>2. Flags'
    BY DEF TickInv, Ticks!TypeOK, Flags, Ticks!OS_SetTick
  <2> QED
    BY <2>1, <2>2 DEF Ticks!TypeOK, Numbers, Flags
<1>6. TimeIsCounted'
  BY <1>2 DEF TimeIsCounted, Counted, Ticks!OS_SetTick
<1>7. ReadIsKept'
  BY DEF ReadIsKept, Ticks!OS_SetTick
<1> QED
  BY <1>5, <1>6, <1>7 DEF TickInv

LEMMA TickInvariant == ASSUME TickAssumption PROVE Ticks!Spec => []TickInv
<1>1. Ticks!Init => TickInv
  BY InitTickInv
<1>2. TickInv /\ [Ticks!Next]_Ticks!vars => TickInv'
  <2> SUFFICES ASSUME TickInv, [Ticks!Next]_Ticks!vars PROVE TickInv'
    OBVIOUS
  <2>1. CASE UNCHANGED Ticks!vars
    BY <2>1 DEF Ticks!vars, TickInv, Ticks!TypeOK, TimeIsCounted, ReadIsKept, Counted, Ticks!GetTick
  <2> QED
    BY <2>1, CountKeeps, CountUpKeeps, GetTickKeeps, GetTickReturnKeeps, SetTickKeeps DEF Ticks!Next
<1> QED
  BY <1>1, <1>2, PTL DEF Ticks!Spec

\* A behaviour of MCTimers is one of the tick, which may stand still.
LEMMA PartOfTicks == MCSpec => Ticks!Spec
<1>1. MCInit => Ticks!Init
  BY DEF MCInit
<1>2. [MCNext]_<<part, vars, pairVars, tickVars, lineVars>> => [Ticks!Next]_Ticks!vars
  BY DEF MCNext, tickVars, Ticks!vars
<1> QED
  BY <1>1, <1>2, PTL DEF MCSpec, Ticks!Spec

\* OS_GetTick returns a tick that was current during its call, however the
\* timer's overflow and the handling of its interrupt fall in between.
THEOREM TickWasCurrent == ASSUME TickAssumption PROVE MCSpec => []TickIsCurrent
<1>1. TickInv => TickIsCurrent
  BY DEF TickInv, Ticks!TypeOK, ReadIsKept, TickIsCurrent, Ticks!TickIsCurrent
<1> QED
  BY <1>1, TickInvariant, PartOfTicks, PTL

-----------------------------------------------------------------------------
(* V-count alarms: what is true of them.                                      *)

\* What is assumed: a frame has several lines, and a raised interrupt is handled
\* before they have all begun.
ScreenAssumption ==
  /\ Lines \in Nat /\ Latency \in Nat /\ Latency < Lines - 1
  /\ NULL \notin VAlarm

\* The queue q has the alarms of S, each once.
HoldsEach(q, S) == q \in Seq(VAlarm) /\ EachOnce(q) /\ ToSet(q) = S

Screens == [line : Screen!Line, eq : Screen!Line, on : BOOLEAN, raised : BOOLEAN]

LineTypes ==
  /\ fire \in [VAlarm -> Screen!Line] /\ frame \in [VAlarm -> -1..1]
  /\ periodic \subseteq VAlarm /\ periodic \subseteq vUsed \cup {vServing}
  /\ previous \in -1..Lines - 1
  /\ lcd \in Screens
  /\ pc \in {"idle", "loop", "arm", "check", "call"}
  /\ vServing \in VAlarm \cup {NULL} /\ (vServing # NULL <=> pc = "call")
  /\ lag \in 0..Latency /\ wraps \in 0..2 /\ came \subseteq VAlarm /\ hurried \subseteq VAlarm

\* That line of the frame that is n after the one counted last has not begun.
StillToCome(n, line) == wraps < n \/ (wraps = n /\ lcd.line < line)

\* An alarm that waits, or is put back after its handler, has its line to come if
\* it did not come already or a frame was counted for it too early.
LinesToCome ==
  /\ \A a \in vUsed : a \in came \cup hurried \/ StillToCome(frame[a], fire[a])
  /\ vServing \in periodic =>
       /\ vServing \notin vUsed
       /\ vServing \in came \/ StillToCome(1, fire[vServing])

\* The lines that began since the handler read the line are among those of lag.
ReadLately ==
  pc # "idle" =>
    \/ wraps = 0 /\ previous <= lcd.line /\ lcd.line - previous <= lag
    \/ wraps = 1 /\ lcd.line + Lines - previous <= lag

\* The first alarm was for later when the handler compared it.
ForLater ==
  pc \in {"arm", "check"} =>
    /\ vQueue # <<>>
    /\ \/ frame[Head(vQueue)] = 1
       \/ frame[Head(vQueue)] = 0 /\ previous < fire[Head(vQueue)]

ScreenInv ==
  /\ HoldsEach(vQueue, vUsed) /\ LineTypes
  /\ LinesToCome /\ ReadLately /\ ForLater

\* The alarm whose handler is called has seen its line.
LineHasCome ==
  \A a \in VAlarm : vServing' = a /\ vServing # a => a \in came \cup hurried'

-----------------------------------------------------------------------------
(* What happens to their queue and frames.                                    *)

LEMMA WithoutLeaves ==
  ASSUME NEW T, NEW q \in Seq(T), EachOnce(q), NEW gone
  PROVE  LET r == Screen!Without(q, gone)
         IN r \in Seq(T) /\ EachOnce(r) /\ ToSet(r) = ToSet(q) \ gone
<1> DEFINE Next1(n, t) == IF q[n] \in gone THEN t ELSE Append(t, q[n])
<1> DEFINE IsRest(f) ==
      f = [n \in 0..Len(q) |->
            IF n = 0 THEN <<>>
            ELSE IF q[n] \in gone THEN f[n - 1] ELSE Append(f[n - 1], q[n])]
<1> DEFINE rest == CHOOSE f : IsRest(f)
<1>1. Screen!Without(q, gone) = rest[Len(q)]
  BY DEF Screen!Without
<1>2. Len(q) \in Nat /\ \A n \in 1..Len(q) : q[n] \in T
  OBVIOUS
<1>3. \E f : IsRest(f)
  <2> DEFINE step == [n \in 1..Len(q) |-> [t \in Seq(T) |-> Next1(n, t)]]
  <2>1. step \in [1..Len(q) -> [Seq(T) -> Seq(T)]]
    <3>1. ASSUME NEW n \in 1..Len(q), NEW t \in Seq(T) PROVE Next1(n, t) \in Seq(T)
      BY <1>2
    <3> HIDE DEF Next1
    <3> QED BY <3>1
  <2>2. PICK f \in [0..Len(q) -> Seq(T)] :
          f[0] = <<>> /\ \A m \in 1..Len(q) : f[m] = step[m][f[m - 1]]
    <3> HIDE DEF step
    <3> DEFINE All == Seq(T)
    <3> DEFINE empty == <<>>
    <3>1. empty \in All
      OBVIOUS
    <3> HIDE DEF All, empty
    <3>2. \A n \in Nat : \A st \in [1..n -> [All -> All]] :
            \E f \in [0..n -> All] : f[0] = empty /\ \A m \in 1..n : f[m] = st[m][f[m - 1]]
      BY <3>1, RecursionExists
    <3> QED BY <2>1, <1>2, <3>2, Zenon DEF All, empty
  <2>3. ASSUME NEW n \in 0..Len(q)
        PROVE  f[n] = IF n = 0 THEN <<>>
                      ELSE IF q[n] \in gone THEN f[n - 1] ELSE Append(f[n - 1], q[n])
    <3>1. CASE n = 0
      BY <2>2, <3>1
    <3>2. CASE n # 0
      <4>1. n \in 1..Len(q) /\ n - 1 \in 0..Len(q)
        BY <1>2, <3>2
      <4>2. f[n - 1] \in Seq(T)
        BY <2>2, <4>1
      <4>3. f[n] = Next1(n, f[n - 1])
        <5> HIDE DEF Next1
        <5> QED BY <2>2, <4>1, <4>2
      <4> QED BY <3>2, <4>3
    <3> QED BY <3>1, <3>2
  <2>4. f = [n \in 0..Len(q) |-> f[n]]
    BY <2>2
  <2> QED BY <2>3, <2>4
<1>4. IsRest(rest)
  <2> HIDE DEF IsRest
  <2> QED BY <1>3
<1> HIDE DEF rest
<1>5. /\ rest[0] = <<>>
      /\ \A n \in 1..Len(q) :
           rest[n] = IF q[n] \in gone THEN rest[n - 1] ELSE Append(rest[n - 1], q[n])
  <2>1. 0 \in 0..Len(q) /\ \A n \in 1..Len(q) : n \in 0..Len(q) /\ n # 0
    BY <1>2
  <2> QED BY <1>4, <2>1
<1> HIDE DEF IsRest
<1> DEFINE Upto(n) == {x \in ToSet(q) : \E j \in 1..n : q[j] = x}
<1> DEFINE IsLeft(n) ==
      rest[n] \in Seq(T) /\ EachOnce(rest[n]) /\ ToSet(rest[n]) = Upto(n) \ gone
<1>6. IsLeft(0)
  <2>1. Upto(0) = {}
    OBVIOUS
  <2>2. <<>> \in Seq(T) /\ EachOnce(<<>>) /\ ToSet(<<>>) = {}
    BY DEF EachOnce, ToSet
  <2> QED BY <1>5, <2>1, <2>2
<1>7. ASSUME NEW n \in 1..Len(q), IsLeft(n - 1) PROVE IsLeft(n)
  <2>1. Upto(n) = Upto(n - 1) \cup {q[n]} /\ q[n] \notin Upto(n - 1)
    <3>1. \A j : j \in 1..n <=> j \in 1..n - 1 \/ j = n
      BY <1>2
    <3>2. \A j \in 1..n - 1 : j \in 1..Len(q) /\ j # n
      BY <1>2
    <3>3. q[n] \in ToSet(q)
      BY DEF ToSet
    <3> QED BY <3>1, <3>2, <3>3 DEF EachOnce
  <2> HIDE DEF Upto
  <2>2. CASE q[n] \in gone
    BY <1>5, <1>7, <2>1, <2>2
  <2>3. CASE q[n] \notin gone
    <3>1. /\ Append(rest[n - 1], q[n]) \in Seq(T)
          /\ ToSet(Append(rest[n - 1], q[n])) = ToSet(rest[n - 1]) \cup {q[n]}
          /\ EachOnce(rest[n - 1]) /\ q[n] \notin ToSet(rest[n - 1])
               => EachOnce(Append(rest[n - 1], q[n]))
      BY <1>2, <1>7, AppendOnce
    <3> QED BY <1>5, <1>7, <2>1, <2>3, <3>1
  <2> QED BY <2>2, <2>3
<1>8. IsLeft(Len(q))
  <2> HIDE DEF IsLeft
  <2> DEFINE wrong == {m \in 0..Len(q) : ~IsLeft(m)}
  <2>1. wrong \in SUBSET Nat
    BY <1>2
  <2>2. ASSUME wrong # {} PROVE FALSE
    <3>1. PICK m \in wrong : \A k \in wrong : m <= k
      <4> HIDE DEF wrong
      <4> QED BY <2>1, <2>2, MinIsLeast
    <3>2. m \in 1..Len(q) /\ m - 1 \in 0..Len(q) /\ ~(m <= m - 1)
      BY <1>2, <1>6
    <3>3. m - 1 \notin wrong
      <4> HIDE DEF wrong
      <4> QED BY <3>1, <3>2
    <3> QED BY <1>7, <3>2, <3>3
  <2> QED BY <1>2, <2>2
<1>9. Upto(Len(q)) = ToSet(q)
  BY DEF ToSet
<1> HIDE DEF Upto
<1> QED BY <1>1, <1>8, <1>9

LEMMA TailLeaves ==
  ASSUME NEW q, NEW S, HoldsEach(q, S), q # <<>>
  PROVE  Head(q) \in S /\ Head(q) \in VAlarm /\ HoldsEach(Tail(q), S \ {Head(q)})
<1>1. q \in Seq(VAlarm) /\ EachOnce(q) /\ ToSet(q) = S /\ 1 \in 1..Len(q) /\ Head(q) = q[1]
  BY DEF HoldsEach
<1>2. Tail(q) = RemoveAt(q, 1)
  <2>1. /\ RemoveAt(q, 1) \in Seq(VAlarm) /\ Len(RemoveAt(q, 1)) = Len(q) - 1
        /\ \A j \in 1..Len(q) - 1 : RemoveAt(q, 1)[j] = IF j < 1 THEN q[j] ELSE q[j + 1]
    BY <1>1, RemoveAtFacts
  <2>2. /\ Tail(q) \in Seq(VAlarm) /\ Len(Tail(q)) = Len(q) - 1
        /\ \A j \in 1..Len(q) - 1 : Tail(q)[j] = q[j + 1]
    BY <1>1
  <2> DEFINE r == RemoveAt(q, 1)
  <2> DEFINE t == Tail(q)
  <2> HIDE DEF r, t
  <2>3. \A j \in 1..Len(q) - 1 : r[j] = t[j]
    BY <1>1, <2>1, <2>2 DEF r, t
  <2> QED BY <2>1, <2>2, <2>3 DEF r, t
<1>3. EachOnce(RemoveAt(q, 1)) /\ ToSet(RemoveAt(q, 1)) = ToSet(q) \ {q[1]}
  BY <1>1, RemoveAtOnce
<1>4. Tail(q) \in Seq(VAlarm) /\ q[1] \in ToSet(q) /\ q[1] \in VAlarm
  BY <1>1 DEF ToSet
<1> QED BY <1>1, <1>2, <1>3, <1>4 DEF HoldsEach

LEMMA LineInserted ==
  ASSUME NEW q, NEW S, HoldsEach(q, S), NEW a \in VAlarm, a \notin S,
         NEW screen \in Screens, NEW frames, NEW fires, fires[a] \in Screen!Line,
         Screen!Insert(screen, q, frames, fires, a)
  PROVE  /\ HoldsEach(vQueue', S \cup {a})
         /\ lcd' \in Screens /\ lcd'.line = screen.line /\ lcd'.raised = screen.raised
<1> DEFINE later == {i \in 1..Len(q) :
        \/ frames[q[i]] > frames[a]
        \/ frames[q[i]] = frames[a] /\ fires[q[i]] > fires[a]}
<1> DEFINE place == IF later = {} THEN Len(q) + 1 ELSE Min(later)
<1>1. q \in Seq(VAlarm) /\ Len(q) \in Nat /\ EachOnce(q) /\ ToSet(q) = S
  BY DEF HoldsEach
<1>2. later \in SUBSET (1..Len(q))
  OBVIOUS
<1>3. /\ vQueue' = InsertAt(q, place, a)
      /\ lcd' = IF place = 1 THEN [screen EXCEPT !.eq = fires[a], !.on = TRUE] ELSE screen
  <2>1. Screen!Min(later) = Min(later)
    BY DEF Screen!Min, Min
  <2>2. Screen!Place(q, frames, fires, a) = place
    BY <2>1 DEF Screen!Place
  <2> HIDE DEF place
  <2>3. Screen!InsertAt(q, place, a) = InsertAt(q, place, a)
    BY DEF Screen!InsertAt, InsertAt
  <2> QED BY <2>2, <2>3 DEF Screen!Insert, Screen!OSi_SetNextVAlarm
<1> HIDE DEF later
<1>4. place \in 1..Len(q) + 1
  <2>1. CASE later = {}
    BY <1>1, <2>1
  <2>2. CASE later # {}
    <3>1. later \in SUBSET Nat
      BY <1>1, <1>2
    <3>2. Min(later) \in later
      BY <2>2, <3>1, MinIsLeast
    <3>3. Min(later) \in 1..Len(q)
      BY <1>2, <3>2
    <3> QED BY <1>1, <2>2, <3>3
  <2> QED BY <2>1, <2>2
<1> HIDE DEF place
<1>5. HoldsEach(vQueue', S \cup {a})
  <2>1. InsertAt(q, place, a) \in Seq(VAlarm)
    BY <1>1, <1>4, InsertAtFacts
  <2>2. ToSet(InsertAt(q, place, a)) = ToSet(q) \cup {a}
    BY <1>1, <1>4, InsertAtMembers
  <2>3. EachOnce(InsertAt(q, place, a))
    BY <1>1, <1>4, InsertAtOnce
  <2> QED BY <1>1, <1>3, <2>1, <2>2, <2>3 DEF HoldsEach
<1> QED BY <1>3, <1>5 DEF Screens

\* An alarm for which no frame was counted too early has, in what is the frame now,
\* its line to come, unless it came.
LEMMA FramesCounted ==
  ASSUME ScreenAssumption, ScreenInv, NEW n \in Nat
  PROVE  LET frames == Screen!Earlier(n)
         IN /\ frames \in [VAlarm -> -1..1]
            /\ n <= wraps => \A a \in vUsed :
                 \/ a \in came \cup hurried
                 \/ frames[a] = 1
                 \/ frames[a] = 0 /\ lcd.line < fire[a]
<1> DEFINE frames == Screen!Earlier(n)
<1>1. frame \in [VAlarm -> -1..1] /\ wraps \in 0..2
  BY DEF ScreenInv, LineTypes
<1>2. \A i, j \in Int : Screen!Max({i, j}) = IF i < j THEN j ELSE i
  <2> SUFFICES ASSUME NEW i \in Int, NEW j \in Int
               PROVE  Screen!Max({i, j}) = IF i < j THEN j ELSE i
    OBVIOUS
  <2> DEFINE most == IF i < j THEN j ELSE i
  <2>1. most \in {i, j} /\ \A y \in {i, j} : most >= y
    OBVIOUS
  <2>2. \A x \in {i, j} : (\A y \in {i, j} : x >= y) => x = most
    OBVIOUS
  <2> HIDE DEF most
  <2>3. Screen!Max({i, j}) = most
    BY <2>1, <2>2 DEF Screen!Max
  <2> QED BY <2>3 DEF most
<1>3. \A a \in VAlarm :
        frames[a] = IF a \in vUsed THEN IF frame[a] - n < -1 THEN -1 ELSE frame[a] - n ELSE -1
  BY <1>1, <1>2 DEF Screen!Earlier
<1>4. frames \in [VAlarm -> -1..1]
  <2>1. \A a \in VAlarm : frames[a] \in -1..1
    BY <1>1, <1>3
  <2>2. frames = [a \in VAlarm |-> frames[a]]
    BY DEF Screen!Earlier
  <2> HIDE DEF frames
  <2> QED BY <2>1, <2>2
<1> HIDE DEF frames
<1>5. ASSUME n <= wraps, NEW a \in vUsed, a \notin came \cup hurried
      PROVE  frames[a] = 1 \/ (frames[a] = 0 /\ lcd.line < fire[a])
  <2>1. a \in VAlarm
    BY DEF ScreenInv, HoldsEach, ToSet
  <2>2. wraps < frame[a] \/ (wraps = frame[a] /\ lcd.line < fire[a])
    BY <1>5 DEF ScreenInv, LinesToCome, StillToCome
  <2> QED BY <1>1, <1>3, <1>5, <2>1, <2>2
<1> QED BY <1>4, <1>5 DEF frames

-----------------------------------------------------------------------------
(* Their steps.                                                               *)

\* Frames are counted by a natural number.
LEMMA NoneBegun ==
  ASSUME NEW u, NEW v
  PROVE  Screen!Begun(u, v) \in Nat
BY DEF Screen!Begun

LEMMA SetVAlarmKeeps ==
  ASSUME ScreenAssumption, ScreenInv, NEW a \in VAlarm, NEW line \in Screen!Line,
         NEW again \in BOOLEAN, Screen!OS_SetVAlarm(a, line, again)
  PROVE  ScreenInv' /\ LineHasCome
<1> DEFINE n == Screen!Begun(previous, lcd.line)
<1> DEFINE first == Screen!FirstFrame(line)
<1>1. /\ pc \in {"idle", "call"} /\ a \notin vUsed /\ ~(again /\ vServing = a)
      /\ previous' = lcd.line /\ wraps' = 0
      /\ hurried' = (IF n > wraps THEN hurried \cup ToSet(vQueue) ELSE hurried) \ {a}
      /\ fire' = [fire EXCEPT ![a] = line]
      /\ periodic' = IF again THEN periodic \cup {a} ELSE periodic \ {a}
      /\ frame' = [Screen!Earlier(n) EXCEPT ![a] = first]
      /\ vUsed' = vUsed \cup {a} /\ came' = came \ {a}
      /\ pc' = pc /\ lag' = lag /\ vServing' = vServing
      /\ Screen!Insert(lcd, vQueue, frame', fire', a)
  BY DEF Screen!OS_SetVAlarm, Screen!MayCall, Screen!ToSet, ToSet
<1>2. HoldsEach(vQueue, vUsed) /\ LineTypes /\ LinesToCome
  BY DEF ScreenInv
<1>3. /\ Screen!Earlier(n) \in [VAlarm -> -1..1]
      /\ n <= wraps => \A b \in vUsed :
           \/ b \in came \cup hurried
           \/ Screen!Earlier(n)[b] = 1
           \/ Screen!Earlier(n)[b] = 0 /\ lcd.line < fire[b]
  BY FramesCounted, NoneBegun
<1>4. n \in Nat
  BY NoneBegun
<1> HIDE DEF n
<1>5. /\ lcd \in Screens /\ lcd.line \in 0..Lines - 1 /\ Lines \in Nat
      /\ line \in Screen!Line /\ line \in 0..Lines - 1
  BY <1>2 DEF LineTypes, Screens, Screen!Line, ScreenAssumption
<1>6. first \in 0..1 /\ (first = 0 => lcd.line < line)
  BY <1>5 DEF Screen!FirstFrame
<1> HIDE DEF first
<1>7. fire' \in [VAlarm -> Screen!Line] /\ frame' \in [VAlarm -> -1..1] /\ fire'[a] = line
  BY <1>1, <1>2, <1>3, <1>5, <1>6 DEF LineTypes
<1>8. HoldsEach(vQueue', vUsed') /\ lcd' \in Screens /\ lcd'.line = lcd.line
  BY <1>1, <1>2, <1>5, <1>7, LineInserted
<1>9. LineTypes'
  <2>1. periodic' \subseteq VAlarm /\ periodic' \subseteq vUsed' \cup {vServing'}
    BY <1>1, <1>2 DEF LineTypes
  <2>2. hurried' \subseteq VAlarm /\ came' \subseteq VAlarm
    BY <1>1, <1>2 DEF LineTypes, HoldsEach, ToSet
  <2>3. previous' \in -1..Lines - 1 /\ wraps' \in 0..2
    BY <1>1, <1>5
  <2> QED BY <1>1, <1>2, <1>7, <1>8, <2>1, <2>2, <2>3 DEF LineTypes
<1>10. LinesToCome'
  <2>1. ASSUME NEW b \in vUsed', b \notin came' \cup hurried'
        PROVE  StillToCome(frame[b], fire[b])'
    <3>1. CASE b = a
      BY <1>1, <1>3, <1>5, <1>6, <1>7, <1>8, <3>1 DEF StillToCome
    <3>2. CASE b # a
      <4>1. b \in vUsed /\ b \in VAlarm /\ b \in ToSet(vQueue)
        BY <1>1, <1>2, <3>2 DEF HoldsEach, ToSet
      <4>2. n <= wraps /\ b \notin came \cup hurried
        BY <1>1, <1>2, <1>4, <2>1, <3>2, <4>1 DEF LineTypes
      <4>3. frame'[b] = Screen!Earlier(n)[b] /\ fire'[b] = fire[b]
        BY <1>1, <1>2, <1>3, <3>2, <4>1 DEF LineTypes
      <4> QED BY <1>1, <1>3, <1>8, <4>1, <4>2, <4>3 DEF StillToCome
    <3> QED BY <3>1, <3>2
  <2>2. vServing' \in periodic' => vServing' \notin vUsed' /\ StillToCome(1, fire[vServing])'
    BY <1>1, <1>2 DEF LinesToCome, StillToCome
  <2> QED BY <2>1, <2>2 DEF LinesToCome
<1>11. ReadLately' /\ ForLater'
  BY <1>1, <1>2, <1>5, <1>8 DEF ReadLately, ForLater, LineTypes
<1> QED BY <1>1, <1>8, <1>9, <1>10, <1>11 DEF ScreenInv, LineHasCome

\* Cancelling the alarms of a set, which both calls do.
LEMMA CancelledKeeps ==
  ASSUME ScreenAssumption, ScreenInv, NEW gone \in SUBSET VAlarm, Screen!MayCall,
         vQueue' = Screen!Without(vQueue, gone), vUsed' = vUsed \ gone,
         frame' \in [VAlarm -> -1..1], fire' \in [VAlarm -> Screen!Line],
         \A a \in VAlarm \ gone : frame'[a] = frame[a] /\ fire'[a] = fire[a],
         periodic' = periodic \ gone, came' = came \ gone, hurried' = hurried \ gone,
         UNCHANGED <<previous, lcd, pc, lag, vServing, wraps>>
  PROVE  ScreenInv' /\ LineHasCome
<1>1. HoldsEach(vQueue, vUsed) /\ LineTypes /\ LinesToCome /\ ReadLately /\ ForLater
  BY DEF ScreenInv
<1>2. HoldsEach(vQueue', vUsed')
  BY <1>1, WithoutLeaves DEF HoldsEach
<1>3. LineTypes'
  BY <1>1 DEF LineTypes
<1>4. LinesToCome'
  <2>1. ASSUME NEW b \in vUsed', b \notin came' \cup hurried'
        PROVE  StillToCome(frame[b], fire[b])'
    <3>1. b \in vUsed /\ b \in VAlarm /\ b \notin gone
      BY <1>1 DEF HoldsEach, ToSet
    <3>2. b \notin came \cup hurried
      BY <2>1, <3>1
    <3> QED BY <1>1, <3>1, <3>2 DEF LinesToCome, StillToCome
  <2>2. ASSUME vServing' \in periodic'
        PROVE  vServing' \notin vUsed' /\ (vServing' \in came' \/ StillToCome(1, fire[vServing])')
    <3>1. vServing \in periodic /\ vServing \in VAlarm \ gone
      BY <1>1, <2>2 DEF LineTypes
    <3> QED BY <1>1, <3>1 DEF LinesToCome, StillToCome
  <2> QED BY <2>1, <2>2 DEF LinesToCome
<1>5. ReadLately' /\ ForLater'
  BY <1>1 DEF ReadLately, ForLater, Screen!MayCall
<1> QED BY <1>2, <1>3, <1>4, <1>5 DEF ScreenInv, LineHasCome

LEMMA CancelVAlarmKeeps ==
  ASSUME ScreenAssumption, ScreenInv, NEW a \in VAlarm, Screen!OS_CancelVAlarm(a)
  PROVE  ScreenInv' /\ LineHasCome
<1>1. 0 \in Screen!Line /\ -1 \in -1..1
  BY DEF Screen!Line, ScreenAssumption
<1>2. frame' \in [VAlarm -> -1..1] /\ fire' \in [VAlarm -> Screen!Line]
  BY <1>1 DEF Screen!OS_CancelVAlarm, Screen!Forget, ScreenInv, LineTypes
<1>3. \A b \in VAlarm \ {a} : frame'[b] = frame[b] /\ fire'[b] = fire[b]
  BY DEF Screen!OS_CancelVAlarm, Screen!Forget, ScreenInv, LineTypes
<1> QED
  BY <1>2, <1>3, CancelledKeeps DEF Screen!OS_CancelVAlarm, Screen!Forget

LEMMA CancelVAlarmsKeeps ==
  ASSUME ScreenAssumption, ScreenInv, NEW S \in SUBSET VAlarm, Screen!OS_CancelVAlarms(S)
  PROVE  ScreenInv' /\ LineHasCome
<1> DEFINE gone == S \cap vUsed
<1>1. 0 \in Screen!Line /\ -1 \in -1..1
  BY DEF Screen!Line, ScreenAssumption
<1>2. /\ Screen!MayCall /\ vQueue' = Screen!Without(vQueue, gone) /\ vUsed' = vUsed \ gone
      /\ frame' = [a \in VAlarm |-> IF a \in gone THEN -1 ELSE frame[a]]
      /\ fire' = [a \in VAlarm |-> IF a \in gone THEN 0 ELSE fire[a]]
      /\ periodic' = periodic \ gone /\ came' = came \ gone /\ hurried' = hurried \ gone
      /\ UNCHANGED <<previous, lcd, pc, lag, vServing, wraps>>
  BY DEF Screen!OS_CancelVAlarms
<1>3. gone \in SUBSET VAlarm
  OBVIOUS
<1> HIDE DEF gone
<1>4. frame' \in [VAlarm -> -1..1] /\ fire' \in [VAlarm -> Screen!Line]
  BY <1>1, <1>2 DEF ScreenInv, LineTypes
<1>5. \A b \in VAlarm \ gone : frame'[b] = frame[b] /\ fire'[b] = fire[b]
  BY <1>2
<1> QED
  BY <1>2, <1>3, <1>4, <1>5, CancelledKeeps

\* As the next line begins, it is the one that was to come or that is still to come.
LEMMA MoreToCome ==
  ASSUME ScreenAssumption, LineTypes, Screen!NextLine,
         NEW n \in -1..1, NEW line \in Screen!Line, StillToCome(n, line)
  PROVE  line = lcd'.line \/ wraps' < n \/ (wraps' = n /\ lcd'.line < line)
<1>1. /\ lcd.line \in 0..Lines - 1 /\ wraps \in 0..2 /\ Lines \in Nat /\ Lines > 1
      /\ line \in 0..Lines - 1
  BY DEF LineTypes, Screens, Screen!Line, ScreenAssumption
<1>2. lcd'.line = (lcd.line + 1) % Lines
      /\ wraps' = IF lcd'.line = 0 THEN Screen!Min({wraps + 1, 2}) ELSE wraps
  BY DEF Screen!NextLine, LineTypes, Screens
<1>3. (lcd.line + 1) % Lines = IF lcd.line = Lines - 1 THEN 0 ELSE lcd.line + 1
  BY <1>1
<1>4. CASE lcd.line = Lines - 1
  <2>1. wraps < n
    BY <1>1, <1>4 DEF StillToCome
  <2>2. wraps = 0 /\ n = 1 /\ lcd'.line = 0
    BY <1>1, <1>2, <1>3, <1>4, <2>1
  <2>3. Screen!Min({1, 2}) = 1
    BY DEF Screen!Min
  <2> QED BY <1>1, <1>2, <2>2, <2>3
<1>5. CASE lcd.line # Lines - 1
  <2>1. lcd'.line = lcd.line + 1 /\ wraps' = wraps
    BY <1>1, <1>2, <1>3, <1>5
  <2> QED BY <1>1, <2>1 DEF StillToCome
<1> QED BY <1>4, <1>5

LEMMA NextLineKeeps ==
  ASSUME ScreenAssumption, ScreenInv, Screen!NextLine
  PROVE  ScreenInv' /\ LineHasCome
<1>1. HoldsEach(vQueue, vUsed) /\ LineTypes /\ LinesToCome /\ ReadLately /\ ForLater
  BY DEF ScreenInv
<1>2. /\ (lcd.raised \/ pc # "idle") => lag < Latency
      /\ lag' = IF lcd.raised \/ pc # "idle" THEN lag + 1 ELSE 0
      /\ lcd' = [lcd EXCEPT !.line = (lcd.line + 1) % Lines,
                            !.raised = lcd.raised \/ (lcd.on /\ lcd.eq = (lcd.line + 1) % Lines)]
      /\ wraps' = IF (lcd.line + 1) % Lines = 0 THEN Screen!Min({wraps + 1, 2}) ELSE wraps
      /\ came' = came \cup {b \in vUsed \cup periodic : fire[b] = (lcd.line + 1) % Lines}
      /\ UNCHANGED <<vQueue, vUsed, frame, fire, periodic, previous, pc, vServing, hurried>>
  BY DEF Screen!NextLine, Screen!settings
<1>3. /\ lcd.line \in 0..Lines - 1 /\ wraps \in 0..2 /\ Lines \in Nat /\ Lines > 1
      /\ lag \in 0..Latency /\ Latency \in Nat /\ Latency < Lines - 1
      /\ previous \in -1..Lines - 1 /\ lcd.eq \in Screen!Line /\ lcd.on \in BOOLEAN
      /\ lcd.raised \in BOOLEAN
  BY <1>1 DEF LineTypes, Screens, Screen!Line, ScreenAssumption
<1>4. (lcd.line + 1) % Lines = IF lcd.line = Lines - 1 THEN 0 ELSE lcd.line + 1
  BY <1>3
<1>5. /\ lcd'.line = IF lcd.line = Lines - 1 THEN 0 ELSE lcd.line + 1
      /\ lcd' \in Screens
  <2>1. (lcd.line + 1) % Lines \in Screen!Line
    BY <1>3, <1>4 DEF Screen!Line
  <2>2. lcd \in Screens
    BY <1>1 DEF LineTypes
  <2>3. (lcd.raised \/ (lcd.on /\ lcd.eq = (lcd.line + 1) % Lines)) \in BOOLEAN
    BY <1>3
  <2> QED BY <1>2, <1>4, <2>1, <2>2, <2>3 DEF Screens
<1>6. wraps' \in 0..2 /\ (wraps' = IF lcd'.line # 0 THEN wraps ELSE IF wraps = 0 THEN 1 ELSE 2)
  <2>1. Screen!Min({1, 2}) = 1 /\ Screen!Min({2, 2}) = 2 /\ Screen!Min({3, 2}) = 2
    BY DEF Screen!Min
  <2>2. Screen!Min({wraps + 1, 2}) = IF wraps = 0 THEN 1 ELSE 2
    BY <1>3, <2>1
  <2> QED BY <1>2, <1>3, <1>4, <1>5, <2>2
<1>7. LineTypes'
  <2>1. lag' \in 0..Latency
    BY <1>2, <1>3
  <2>2. came' \subseteq VAlarm
    BY <1>1, <1>2 DEF LineTypes, HoldsEach, ToSet
  <2> QED BY <1>1, <1>2, <1>5, <1>6, <2>1, <2>2 DEF LineTypes
<1>8. \A b \in vUsed \cup periodic : fire[b] = lcd'.line => b \in came'
  BY <1>2, <1>4, <1>5
<1>9. LinesToCome'
  <2>1. ASSUME NEW b \in vUsed', b \notin came' \cup hurried'
        PROVE  StillToCome(frame[b], fire[b])'
    <3>1. b \in vUsed /\ b \in VAlarm /\ b \notin came \cup hurried
      BY <1>1, <1>2, <2>1 DEF HoldsEach, ToSet
    <3>2. StillToCome(frame[b], fire[b]) /\ frame[b] \in -1..1 /\ fire[b] \in Screen!Line
      BY <1>1, <3>1 DEF LinesToCome, LineTypes
    <3>3. fire[b] # lcd'.line
      BY <1>8, <2>1, <3>1
    <3>4. wraps' < frame[b] \/ (wraps' = frame[b] /\ lcd'.line < fire[b])
      BY <1>1, <3>2, <3>3, MoreToCome
    <3> QED BY <1>2, <3>4 DEF StillToCome
  <2>2. ASSUME vServing' \in periodic', vServing' \notin came'
        PROVE  vServing' \notin vUsed' /\ StillToCome(1, fire[vServing])'
    <3>1. vServing \in periodic /\ vServing \in VAlarm /\ vServing \notin came
      BY <1>1, <1>2, <2>2 DEF LineTypes
    <3>2. StillToCome(1, fire[vServing]) /\ 1 \in -1..1 /\ fire[vServing] \in Screen!Line
      BY <1>1, <3>1 DEF LinesToCome, LineTypes
    <3>3. fire[vServing] # lcd'.line
      BY <1>2, <1>8, <2>2, <3>1
    <3>4. wraps' < 1 \/ (wraps' = 1 /\ lcd'.line < fire[vServing])
      BY <1>1, <3>2, <3>3, MoreToCome
    <3> QED BY <1>1, <1>2, <3>1, <3>4 DEF StillToCome, LinesToCome
  <2>3. vServing' \in periodic' => vServing' \notin vUsed'
    BY <1>1, <1>2 DEF LinesToCome
  <2> QED BY <2>1, <2>2, <2>3 DEF LinesToCome
<1>10. ReadLately'
  BY <1>1, <1>2, <1>3, <1>5, <1>6 DEF ReadLately
<1>11. ForLater'
  BY <1>1, <1>2 DEF ForLater
<1> QED BY <1>1, <1>2, <1>7, <1>9, <1>10, <1>11 DEF ScreenInv, LineHasCome

\* What the comparison of the first alarm leaves, on a screen where the line is the
\* one that is.
LEMMA CompareKeeps ==
  ASSUME ScreenAssumption, ScreenInv, vServing = NULL, vQueue # <<>>,
         NEW screen \in Screens, screen.line = lcd.line,
         NEW n \in Nat, Screen!Compare(screen, n), Screen!Lag
  PROVE  ScreenInv' /\ LineHasCome
<1> DEFINE a == Head(vQueue)
<1> DEFINE frames == Screen!Earlier(n)
<1> DEFINE later == frames[a] > 0 \/ (frames[a] = 0 /\ lcd.line < fire[a])
<1> DEFINE more == hurried \cup ToSet(vQueue)
<1>1. HoldsEach(vQueue, vUsed) /\ LineTypes /\ LinesToCome
  BY DEF ScreenInv
<1>2. /\ a \in vUsed /\ a \in VAlarm /\ HoldsEach(Tail(vQueue), vUsed \ {a})
      /\ ToSet(vQueue) = vUsed /\ vUsed \subseteq VAlarm
  <2>1. a \in vUsed /\ a \in VAlarm /\ HoldsEach(Tail(vQueue), vUsed \ {a})
    BY <1>1, TailLeaves
  <2> QED BY <1>1, <2>1 DEF HoldsEach, ToSet
<1>3. /\ frames \in [VAlarm -> -1..1]
      /\ n <= wraps => \A b \in vUsed :
           b \in came \cup hurried \/ frames[b] = 1 \/ (frames[b] = 0 /\ lcd.line < fire[b])
  BY FramesCounted
<1>4. Screen!ToSet(vQueue) = vUsed
  BY <1>2 DEF Screen!ToSet, ToSet
<1>5. /\ previous' = lcd.line /\ wraps' = 0 /\ pc' # "idle"
      /\ lag' = lag
      /\ \/ /\ later /\ pc' = "arm" /\ lcd' = screen /\ frame' = frames
            /\ hurried' = IF n > wraps THEN hurried \cup vUsed ELSE hurried
            /\ UNCHANGED <<vQueue, vUsed, fire, periodic, vServing, came>>
         \/ /\ ~later /\ Screen!Serve(screen) /\ frame' = [frames EXCEPT ![a] = -1]
            /\ hurried' = IF n > wraps THEN hurried \cup vUsed ELSE hurried
         \/ /\ ~later /\ frame' = [frames EXCEPT ![a] = 1] /\ pc' = "loop"
            /\ Screen!Insert(screen, Tail(vQueue), frame', fire, a)
            /\ hurried' = (IF n > wraps THEN vUsed ELSE hurried) \ {a}
            /\ came' = came \ {a}
            /\ UNCHANGED <<vUsed, fire, periodic, vServing>>
  BY <1>4 DEF Screen!Compare, Screen!Noted, Screen!Lag, Screen!settings, Screen!Serve
<1>6. /\ lcd.line \in 0..Lines - 1 /\ Lines \in Nat /\ lag \in 0..Latency
      /\ wraps \in 0..2 /\ NULL \notin VAlarm /\ Latency \in Nat
  BY <1>1 DEF LineTypes, Screens, Screen!Line, ScreenAssumption
<1> HIDE DEF frames, a
<1>0. -1 \in -1..1 /\ 1 \in -1..1
  OBVIOUS
<1>7. ASSUME NEW b \in vUsed, n <= wraps, b \notin came \cup hurried
      PROVE  frames[b] = 1 \/ (frames[b] = 0 /\ lcd.line < fire[b])
  BY <1>3, <1>7
<1>8. CASE /\ later /\ pc' = "arm" /\ lcd' = screen /\ frame' = frames
           /\ hurried' = IF n > wraps THEN hurried \cup vUsed ELSE hurried
           /\ UNCHANGED <<vQueue, vUsed, fire, periodic, vServing, came>>
  <2>1. LineTypes'
    BY <1>1, <1>2, <1>3, <1>5, <1>6, <1>8 DEF LineTypes
  <2>2. LinesToCome'
    <3>1. ASSUME NEW b \in vUsed', b \notin came' \cup hurried'
          PROVE  StillToCome(frame[b], fire[b])'
      <4>1. b \in vUsed /\ n <= wraps /\ b \notin came \cup hurried
        BY <1>6, <1>8, <3>1
      <4> QED BY <1>5, <1>7, <1>8, <4>1 DEF StillToCome
    <3>2. vServing' \notin periodic'
      BY <1>1, <1>6, <1>8 DEF LineTypes
    <3> QED BY <3>1, <3>2 DEF LinesToCome
  <2>3. ReadLately'
    BY <1>5, <1>6, <1>8 DEF ReadLately
  <2>4. ForLater'
    BY <1>2, <1>3, <1>5, <1>8 DEF ForLater, a
  <2> QED BY <1>1, <1>8, <2>1, <2>2, <2>3, <2>4 DEF ScreenInv, LineHasCome
<1>9. CASE /\ ~later /\ Screen!Serve(screen) /\ frame' = [frames EXCEPT ![a] = -1]
           /\ hurried' = IF n > wraps THEN hurried \cup vUsed ELSE hurried
  <2>1. /\ vQueue' = Tail(vQueue) /\ vUsed' = vUsed \ {a} /\ vServing' = a /\ pc' = "call"
        /\ lcd' = screen /\ came' = came \ {a}
        /\ \/ a \in periodic /\ fire' = fire /\ periodic' = periodic
           \/ a \notin periodic /\ fire' = [fire EXCEPT ![a] = 0] /\ periodic' = periodic \ {a}
    BY <1>9 DEF Screen!Serve, Screen!Forget, Screen!settings, a
  <2>2. fire' \in [VAlarm -> Screen!Line] /\ \A b \in VAlarm \ {a} : fire'[b] = fire[b]
    <3>1. 0 \in Screen!Line
      BY <1>6 DEF Screen!Line
    <3> QED BY <1>1, <2>1, <3>1 DEF LineTypes
  <2>3. frame' \in [VAlarm -> -1..1] /\ \A b \in VAlarm \ {a} : frame'[b] = frames[b]
    BY <1>0, <1>3, <1>9
  <2>4. LineTypes'
    <3>1. periodic' \subseteq VAlarm /\ periodic' \subseteq vUsed' \cup {vServing'}
      BY <1>1, <1>6, <2>1 DEF LineTypes
    <3>2. hurried' \subseteq VAlarm /\ came' \subseteq VAlarm
      BY <1>1, <1>2, <1>9, <2>1 DEF LineTypes
    <3> QED BY <1>2, <1>1, <1>5, <1>6, <2>1, <2>2, <2>3, <3>1, <3>2 DEF LineTypes
  <2>5. LinesToCome'
    <3>1. ASSUME NEW b \in vUsed', b \notin came' \cup hurried'
          PROVE  StillToCome(frame[b], fire[b])'
      <4>1. b \in vUsed /\ b \in VAlarm \ {a} /\ n <= wraps /\ b \notin came \cup hurried
        BY <1>2, <1>6, <1>9, <2>1, <3>1
      <4> QED BY <1>5, <1>7, <2>1, <2>2, <2>3, <4>1 DEF StillToCome
    <3>2. vServing' \notin vUsed' /\ StillToCome(1, fire[vServing])'
      BY <1>5, <2>1 DEF StillToCome
    <3> QED BY <3>1, <3>2 DEF LinesToCome
  <2>6. ReadLately' /\ ForLater'
    BY <1>5, <1>6, <2>1 DEF ReadLately, ForLater
  <2>7. a \in came \cup hurried'
    BY <1>2, <1>3, <1>6, <1>7, <1>9
  <2> QED BY <1>2, <2>1, <2>4, <2>5, <2>6, <2>7 DEF ScreenInv, LineHasCome
<1>10. CASE /\ ~later /\ frame' = [frames EXCEPT ![a] = 1] /\ pc' = "loop"
            /\ Screen!Insert(screen, Tail(vQueue), frame', fire, a)
            /\ hurried' = (IF n > wraps THEN vUsed ELSE hurried) \ {a}
            /\ came' = came \ {a}
            /\ UNCHANGED <<vUsed, fire, periodic, vServing>>
  <2>1. frame' \in [VAlarm -> -1..1] /\ \A b \in VAlarm : frame'[b] = IF b = a THEN 1 ELSE frames[b]
    BY <1>0, <1>3, <1>10
  <2>2. fire[a] \in Screen!Line
    BY <1>1, <1>2 DEF LineTypes
  <2>3. HoldsEach(vQueue', vUsed') /\ lcd' \in Screens /\ lcd'.line = lcd.line
    <3>1. a \notin vUsed \ {a} /\ (vUsed \ {a}) \cup {a} = vUsed'
      BY <1>2, <1>10
    <3>2. /\ HoldsEach(vQueue', (vUsed \ {a}) \cup {a})
          /\ lcd' \in Screens /\ lcd'.line = screen.line
      BY <1>2, <1>10, <2>2, <3>1, LineInserted
    <3> QED BY <3>1, <3>2
  <2>4. LineTypes'
    BY <1>1, <1>2, <1>5, <1>6, <1>10, <2>1, <2>3 DEF LineTypes
  <2>5. LinesToCome'
    <3>1. ASSUME NEW b \in vUsed', b \notin came' \cup hurried'
          PROVE  StillToCome(frame[b], fire[b])'
      <4>1. CASE b = a
        BY <1>2, <1>5, <2>1, <4>1 DEF StillToCome
      <4>2. CASE b # a
        <5>1. b \in vUsed /\ b \in VAlarm /\ n <= wraps /\ b \notin came \cup hurried
          BY <1>2, <1>6, <1>10, <3>1, <4>2
        <5> QED BY <1>5, <1>7, <1>10, <2>1, <2>3, <4>2, <5>1 DEF StillToCome
      <4> QED BY <4>1, <4>2
    <3>2. vServing' \notin periodic'
      BY <1>1, <1>6, <1>10 DEF LineTypes
    <3> QED BY <3>1, <3>2 DEF LinesToCome
  <2>6. ReadLately' /\ ForLater'
    BY <1>5, <1>6, <1>10, <2>3 DEF ReadLately, ForLater
  <2> QED BY <1>10, <2>3, <2>4, <2>5, <2>6 DEF ScreenInv, LineHasCome
<1> HIDE DEF later
<1> QED BY <1>5, <1>8, <1>9, <1>10

LEMMA VAlarmHandlerKeeps ==
  ASSUME ScreenAssumption, ScreenInv, Screen!OSi_VAlarmHandler
  PROVE  ScreenInv' /\ LineHasCome
<1> DEFINE screen == [lcd EXCEPT !.on = FALSE, !.raised = FALSE]
<1>1. HoldsEach(vQueue, vUsed) /\ LineTypes /\ LinesToCome
  BY DEF ScreenInv
<1>2. /\ pc = "idle" /\ vServing = NULL /\ lcd \in Screens /\ lcd.eq \in 0..Lines - 1
      /\ Lines \in Nat /\ 0 \in 0..Latency
  BY <1>1 DEF Screen!OSi_VAlarmHandler, LineTypes, Screens, Screen!Line, ScreenAssumption
<1>3. screen \in Screens /\ screen.line = lcd.line /\ ~screen.raised
  BY <1>2 DEF Screens
<1> HIDE DEF screen
<1>4. CASE vQueue = <<>>
  <2>1. /\ lcd' = screen /\ previous' = lcd.eq - 1 /\ lag' = 0
        /\ UNCHANGED <<vQueue, vUsed, frame, fire, periodic, pc, vServing, wraps, came, hurried>>
    BY <1>2, <1>3, <1>4 DEF Screen!OSi_VAlarmHandler, Screen!Lag, Screen!settings, screen
  <2>2. LineTypes'
    BY <1>1, <1>2, <1>3, <2>1 DEF LineTypes
  <2>3. LinesToCome'
    BY <1>1, <1>3, <2>1 DEF LinesToCome, StillToCome
  <2> QED BY <1>1, <1>2, <2>1, <2>2, <2>3 DEF ScreenInv, LineHasCome, ReadLately, ForLater
<1>5. CASE vQueue # <<>>
  <2>1. Screen!Compare(screen, Screen!FramesAtEntry) /\ Screen!Lag
    BY <1>5 DEF Screen!OSi_VAlarmHandler, screen
  <2>2. Screen!FramesAtEntry \in Nat
    <3>1. \A u, v \in Nat : u + v \in Nat
      OBVIOUS
    <3> QED BY <3>1, NoneBegun DEF Screen!FramesAtEntry
  <2> QED BY <1>2, <1>3, <1>5, <2>1, <2>2, CompareKeeps
<1> QED BY <1>4, <1>5

LEMMA LoopKeeps ==
  ASSUME ScreenAssumption, ScreenInv, Screen!Loop
  PROVE  ScreenInv' /\ LineHasCome
<1>1. HoldsEach(vQueue, vUsed) /\ LineTypes /\ LinesToCome
  BY DEF ScreenInv
<1>2. pc = "loop" /\ vServing = NULL /\ lcd \in Screens /\ lag \in 0..Latency /\ 0 \in 0..Latency
  BY <1>1 DEF Screen!Loop, LineTypes, ScreenAssumption
<1>3. CASE vQueue = <<>>
  <2>1. /\ pc' = "idle" /\ lag' \in {lag, 0}
        /\ UNCHANGED <<vQueue, vUsed, frame, fire, periodic, previous, lcd, vServing, wraps,
                       came, hurried>>
    BY <1>3 DEF Screen!Loop, Screen!Lag, Screen!settings
  <2>2. LineTypes'
    BY <1>1, <1>2, <2>1 DEF LineTypes
  <2>3. LinesToCome'
    BY <1>1, <2>1 DEF LinesToCome, StillToCome
  <2> QED BY <1>1, <2>1, <2>2, <2>3 DEF ScreenInv, LineHasCome, ReadLately, ForLater
<1>4. CASE vQueue # <<>>
  <2>1. Screen!Compare(lcd, Screen!Begun(previous, lcd.line)) /\ Screen!Lag
    BY <1>4 DEF Screen!Loop
  <2> QED BY <1>2, <1>4, <2>1, NoneBegun, CompareKeeps
<1> QED BY <1>3, <1>4

LEMMA ArmKeeps ==
  ASSUME ScreenAssumption, ScreenInv, Screen!Arm
  PROVE  ScreenInv' /\ LineHasCome
<1>1. HoldsEach(vQueue, vUsed) /\ LineTypes /\ LinesToCome /\ ReadLately /\ ForLater
  BY DEF ScreenInv
<1>2. /\ pc = "arm" /\ pc' = "check" /\ lag' = lag
      /\ lcd' = [lcd EXCEPT !.eq = fire[Head(vQueue)], !.on = TRUE]
      /\ UNCHANGED <<vQueue, vUsed, frame, fire, periodic, previous, vServing, wraps, came,
                     hurried>>
  BY DEF Screen!Arm, Screen!Lag, Screen!settings, Screen!OSi_SetNextVAlarm
<1>3. vQueue # <<>> /\ Head(vQueue) \in VAlarm
  <2>1. vQueue # <<>>
    BY <1>1, <1>2 DEF ForLater
  <2> QED BY <1>1, <2>1, TailLeaves
<1>4. lcd' \in Screens /\ lcd'.line = lcd.line
  BY <1>1, <1>2, <1>3 DEF LineTypes, Screens
<1>5. LineTypes'
  BY <1>1, <1>2, <1>4 DEF LineTypes
<1>6. LinesToCome'
  BY <1>1, <1>2, <1>4 DEF LinesToCome, StillToCome
<1> QED
  BY <1>1, <1>2, <1>4, <1>5, <1>6 DEF ScreenInv, LineHasCome, ReadLately, ForLater

LEMMA CheckKeeps ==
  ASSUME ScreenAssumption, ScreenInv, Screen!Check
  PROVE  ScreenInv' /\ LineHasCome
<1> DEFINE a == Head(vQueue)
<1> DEFINE screen == [lcd EXCEPT !.on = FALSE, !.raised = FALSE]
<1> DEFINE arrived == fire[a] = lcd.line /\ frame[a] = 0
<1>1. HoldsEach(vQueue, vUsed) /\ LineTypes /\ LinesToCome /\ ReadLately /\ ForLater
  BY DEF ScreenInv
<1>2. pc = "check" /\ UNCHANGED <<previous, wraps, hurried>> /\ vQueue # <<>>
  BY <1>1 DEF Screen!Check, ForLater
<1>3. /\ a \in vUsed /\ a \in VAlarm /\ HoldsEach(Tail(vQueue), vUsed \ {a})
      /\ vUsed \subseteq VAlarm
  <2>1. a \in vUsed /\ a \in VAlarm /\ HoldsEach(Tail(vQueue), vUsed \ {a})
    BY <1>1, <1>2, TailLeaves
  <2> QED BY <1>1, <2>1 DEF HoldsEach, ToSet
<1>4. /\ lcd.line \in 0..Lines - 1 /\ Lines \in Nat /\ lag \in 0..Latency /\ 0 \in 0..Latency
      /\ Latency \in Nat /\ Latency < Lines - 1 /\ previous \in -1..Lines - 1
      /\ wraps \in 0..2 /\ NULL \notin VAlarm /\ lcd \in Screens
  BY <1>1 DEF LineTypes, Screens, Screen!Line, ScreenAssumption
<1>5. CASE ~arrived
  <2>1. /\ pc' = "idle" /\ lag' \in {lag, 0}
        /\ UNCHANGED <<vQueue, vUsed, frame, fire, periodic, lcd, vServing, came>>
    BY <1>5 DEF Screen!Check, Screen!Lag, Screen!settings, Screen!Serve
  <2>2. LineTypes'
    BY <1>1, <1>2, <1>4, <2>1 DEF LineTypes
  <2>3. LinesToCome'
    BY <1>1, <1>2, <2>1 DEF LinesToCome, StillToCome
  <2> QED BY <1>1, <1>2, <2>1, <2>2, <2>3 DEF ScreenInv, LineHasCome, ReadLately, ForLater
<1>6. CASE arrived
  <2>1. Screen!Serve(screen) /\ frame' = [frame EXCEPT ![a] = -1] /\ Screen!Lag
    BY <1>6 DEF Screen!Check
  <2>2. /\ vQueue' = Tail(vQueue) /\ vUsed' = vUsed \ {a} /\ vServing' = a /\ pc' = "call"
        /\ lcd' = screen /\ came' = came \ {a} /\ lag' = lag
        /\ \/ a \in periodic /\ fire' = fire /\ periodic' = periodic
           \/ a \notin periodic /\ fire' = [fire EXCEPT ![a] = 0] /\ periodic' = periodic \ {a}
    BY <2>1 DEF Screen!Serve, Screen!Forget, Screen!settings, Screen!Lag
  <2>3. screen \in Screens /\ screen.line = lcd.line
    BY <1>4 DEF Screens
  <2> HIDE DEF screen
  <2>4. fire' \in [VAlarm -> Screen!Line] /\ \A b \in VAlarm \ {a} : fire'[b] = fire[b]
    <3>1. 0 \in Screen!Line
      BY <1>4 DEF Screen!Line
    <3> QED BY <1>1, <2>2, <3>1 DEF LineTypes
  <2>5. frame' \in [VAlarm -> -1..1] /\ \A b \in VAlarm \ {a} : frame'[b] = frame[b]
    <3>1. -1 \in -1..1
      OBVIOUS
    <3> HIDE DEF a
    <3> QED BY <1>1, <2>1, <3>1 DEF LineTypes
  <2>6. wraps = 0
    <3>1. previous < lcd.line
      BY <1>1, <1>2, <1>6 DEF ForLater
    <3> QED BY <1>1, <1>2, <1>4, <3>1 DEF ReadLately
  <2>7. LineTypes'
    <3>1. periodic' \subseteq VAlarm /\ periodic' \subseteq vUsed' \cup {vServing'}
      BY <1>1, <1>2, <1>4, <2>2 DEF LineTypes
    <3>2. hurried' \subseteq VAlarm /\ came' \subseteq VAlarm
      BY <1>1, <1>2, <2>2 DEF LineTypes
    <3> QED BY <1>2, <1>3, <1>4, <2>2, <2>3, <2>4, <2>5, <3>1, <3>2 DEF LineTypes
  <2>8. LinesToCome'
    <3>1. ASSUME NEW b \in vUsed', b \notin came' \cup hurried'
          PROVE  StillToCome(frame[b], fire[b])'
      <4>1. b \in vUsed /\ b \in VAlarm \ {a} /\ b \notin came \cup hurried
        BY <1>2, <1>3, <2>2, <3>1
      <4>2. StillToCome(frame[b], fire[b])
        BY <1>1, <4>1 DEF LinesToCome
      <4> QED BY <1>2, <2>2, <2>3, <2>4, <2>5, <4>1, <4>2 DEF StillToCome
    <3>2. vServing' \notin vUsed' /\ StillToCome(1, fire[vServing])'
      BY <1>2, <2>2, <2>6 DEF StillToCome
    <3> QED BY <3>1, <3>2 DEF LinesToCome
  <2>9. ReadLately' /\ ForLater'
    BY <1>1, <1>2, <2>2, <2>3 DEF ReadLately, ForLater
  <2>10. a \in came \cup hurried'
    <3>1. ~StillToCome(frame[a], fire[a])
      BY <1>4, <1>6 DEF StillToCome
    <3> QED BY <1>1, <1>2, <1>3, <3>1 DEF LinesToCome
  <2> QED BY <1>3, <2>2, <2>7, <2>8, <2>9, <2>10 DEF ScreenInv, LineHasCome
<1> QED BY <1>5, <1>6

LEMMA ReturnKeeps ==
  ASSUME ScreenAssumption, ScreenInv, Screen!Return
  PROVE  ScreenInv' /\ LineHasCome
<1>1. HoldsEach(vQueue, vUsed) /\ LineTypes /\ LinesToCome /\ ReadLately
  BY DEF ScreenInv
<1>2. /\ pc = "call" /\ pc' = "loop" /\ vServing' = NULL /\ lag' = lag /\ vServing \in VAlarm
      /\ UNCHANGED <<fire, periodic, previous, wraps, came>>
  BY <1>1 DEF Screen!Return, Screen!Lag, Screen!settings, LineTypes
<1>3. vUsed \subseteq VAlarm /\ NULL \notin VAlarm
  BY <1>1 DEF HoldsEach, ToSet, ScreenAssumption
<1>4. CASE vServing \in periodic
  <2>1. /\ vUsed' = vUsed \cup {vServing} /\ frame' = [frame EXCEPT ![vServing] = 1]
        /\ Screen!Insert(lcd, vQueue, frame', fire, vServing)
        /\ hurried' = hurried \ {vServing}
    BY <1>4 DEF Screen!Return
  <2>2. vServing \notin vUsed /\ fire[vServing] \in Screen!Line /\ lcd \in Screens
    BY <1>1, <1>2, <1>4 DEF LinesToCome, LineTypes
  <2>3. HoldsEach(vQueue', vUsed') /\ lcd' \in Screens /\ lcd'.line = lcd.line
    BY <1>1, <1>2, <2>1, <2>2, LineInserted
  <2>4. /\ frame' \in [VAlarm -> -1..1]
        /\ \A b \in VAlarm : frame'[b] = IF b = vServing THEN 1 ELSE frame[b]
    BY <1>1, <1>2, <2>1 DEF LineTypes
  <2>5. LineTypes'
    BY <1>1, <1>2, <1>3, <2>1, <2>3, <2>4 DEF LineTypes
  <2>6. LinesToCome'
    <3>1. ASSUME NEW b \in vUsed', b \notin came' \cup hurried'
          PROVE  StillToCome(frame[b], fire[b])'
      <4>1. CASE b = vServing
        <5>1. StillToCome(1, fire[vServing])
          BY <1>1, <1>2, <1>4, <3>1, <4>1 DEF LinesToCome
        <5> QED BY <1>2, <2>3, <2>4, <4>1, <5>1 DEF StillToCome
      <4>2. CASE b # vServing
        <5>1. b \in vUsed /\ b \in VAlarm /\ b \notin came \cup hurried
          BY <1>2, <1>3, <2>1, <3>1, <4>2
        <5> QED BY <1>1, <1>2, <2>3, <2>4, <4>2, <5>1 DEF LinesToCome, StillToCome
      <4> QED BY <4>1, <4>2
    <3>2. vServing' \notin periodic'
      BY <1>1, <1>2, <1>3 DEF LineTypes
    <3> QED BY <3>1, <3>2 DEF LinesToCome
  <2> QED BY <1>1, <1>2, <1>3, <2>3, <2>5, <2>6 DEF ScreenInv, LineHasCome, ReadLately, ForLater
<1>5. CASE vServing \notin periodic
  <2>1. /\ hurried' = hurried \ ({vServing} \ vUsed)
        /\ UNCHANGED <<vUsed, frame, vQueue, lcd>>
    BY <1>5 DEF Screen!Return
  <2>2. LineTypes'
    BY <1>1, <1>2, <1>5, <2>1 DEF LineTypes
  <2>3. LinesToCome'
    <3>1. ASSUME NEW b \in vUsed', b \notin came' \cup hurried'
          PROVE  StillToCome(frame[b], fire[b])'
      <4>1. b \in vUsed /\ b \notin came \cup hurried
        BY <1>2, <2>1, <3>1
      <4> QED BY <1>1, <1>2, <2>1, <4>1 DEF LinesToCome, StillToCome
    <3>2. vServing' \notin periodic'
      BY <1>1, <1>2, <1>3 DEF LineTypes
    <3> QED BY <3>1, <3>2 DEF LinesToCome
  <2> QED BY <1>1, <1>2, <1>3, <2>1, <2>2, <2>3 DEF ScreenInv, LineHasCome, ReadLately, ForLater
<1> QED BY <1>4, <1>5

LEMMA InitScreenInv == ASSUME ScreenAssumption, Screen!Init PROVE ScreenInv
<1>1. 0 \in Screen!Line /\ 0 \in 0..Latency /\ 0 \in -1..Lines - 1
  BY DEF Screen!Line, ScreenAssumption
<1>2. HoldsEach(vQueue, vUsed)
  BY DEF Screen!Init, HoldsEach, EachOnce, ToSet
<1>3. LineTypes
  <2>1. lcd \in Screens
    BY <1>1 DEF Screen!Init, Screens
  <2>2. fire \in [VAlarm -> Screen!Line] /\ frame \in [VAlarm -> -1..1]
    BY <1>1 DEF Screen!Init
  <2> QED BY <1>1, <2>1, <2>2 DEF Screen!Init, LineTypes, ScreenAssumption
<1> QED
  BY <1>2, <1>3 DEF Screen!Init, ScreenInv, LinesToCome, ReadLately, ForLater

LEMMA ScreenInvariant ==
  ASSUME ScreenAssumption
  PROVE  Screen!Spec => []ScreenInv /\ [][LineHasCome]_Screen!vars
<1>1. Screen!Init => ScreenInv
  BY InitScreenInv
<1>2. ScreenInv /\ [Screen!Next]_Screen!vars => ScreenInv' /\ [LineHasCome]_Screen!vars
  <2> SUFFICES ASSUME ScreenInv, [Screen!Next]_Screen!vars
               PROVE  ScreenInv' /\ [LineHasCome]_Screen!vars
    OBVIOUS
  <2>1. CASE UNCHANGED Screen!vars
    BY <2>1 DEF Screen!vars, ScreenInv, HoldsEach, LineTypes, LinesToCome, StillToCome,
                ReadLately, ForLater
  <2>2. CASE Screen!Next
    <3>1. ScreenInv' /\ LineHasCome
      BY <2>2, SetVAlarmKeeps, CancelVAlarmKeeps, CancelVAlarmsKeeps, NextLineKeeps,
         VAlarmHandlerKeeps, LoopKeeps, ArmKeeps, CheckKeeps, ReturnKeeps
      DEF Screen!Next, Screen!HandlerStep
    <3> QED BY <3>1
  <2> QED BY <2>1, <2>2
<1> QED BY <1>1, <1>2, PTL DEF Screen!Spec

\* A behaviour of MCTimers is one of V-count alarms, which may stand still.
LEMMA PartOfLines == MCSpec => Screen!Spec
<1>1. MCInit => Screen!Init
  BY DEF MCInit
<1>2. [MCNext]_<<part, vars, pairVars, tickVars, lineVars>> => [Screen!Next]_Screen!vars
  BY DEF MCNext, lineVars, Screen!vars
<1> QED BY <1>1, <1>2, PTL DEF MCSpec, Screen!Spec

\* A V-count alarm fires only after its line has begun since it was set, fired or
\* put off, unless a frame was counted for it that had not begun: whatever calls
\* come between the lines and the steps of the handler, with any number of lines
\* and alarms and any latency that is less than a frame.
THEOREM LinesBeginFirst ==
  ASSUME Careful, ScreenAssumption
  PROVE  MCSpec => FiresAfterItsLine
<1>1. ScreenInv => Screen!TypeOK
  <2> SUFFICES ASSUME ScreenInv PROVE Screen!TypeOK
    OBVIOUS
  <2>1. Screen!IsInjective(vQueue) /\ vQueue \in Seq(VAlarm)
    BY DEF ScreenInv, HoldsEach, EachOnce, Screen!IsInjective
  <2>2. vUsed = Screen!ToSet(vQueue)
    BY DEF ScreenInv, HoldsEach, Screen!ToSet, ToSet
  <2> QED BY <2>1, <2>2 DEF ScreenInv, LineTypes, Screens, Screen!TypeOK
<1>2. QueueInv => TypeOK
  BY DEF QueueInv
<1>3. [LineHasCome]_Screen!vars =>
        [\A a \in VAlarm : vServing' = a /\ vServing # a => a \in came \cup hurried']_Screen!vars
  BY DEF LineHasCome
<1> QED
  BY <1>1, <1>2, <1>3, AlarmAssumption, QueueInvariant, PartOfAlarms, ScreenInvariant,
     PartOfLines, PTL
  DEF FiresAfterItsLine, Screen!FiresAfterItsLine
=============================================================================
