------------------------- MODULE OSThreadLinkProofs -------------------------
(* Proofs about MCThreadLinks: with any threads, priorities and queues, the   *)
(* linked lists of os_thread.c are sequences in which threads go where        *)
(* OSThread puts them.                                                        *)

EXTENDS MCThreadLinks, OSSequenceLemmas

\* The operators on sequences mean the same in the instances.
LEMMA SameOperators ==
  ASSUME NEW s, NEW i, NEW e, NEW S
  PROVE  /\ Ordered!Min(S) = Min(S) /\ Ordered!Max(S) = Max(S)
         /\ Ordered!InsertAt(s, i, e) = InsertAt(s, i, e)
         /\ Ordered!RemoveAt(s, i) = RemoveAt(s, i)
         /\ Ordered!ToSet(s) = ToSet(s)
BY DEF Ordered!Min, Min, Ordered!Max, Max, Ordered!InsertAt, InsertAt, Ordered!RemoveAt, RemoveAt,
       Ordered!ToSet, ToSet

LEMMA SameRemoveFirst ==
  ASSUME NEW s, NEW e
  PROVE  Ordered!RemoveFirst(s, e) = RemoveFirst(s, e)
<1>1. Ordered!SelectInSeq(s, LAMBDA v : v = e) = SelectInSeq(s, LAMBDA v : v = e)
  BY SameOperators DEF Ordered!SelectInSeq, SelectInSeq
<1> QED BY <1>1, SameOperators DEF Ordered!RemoveFirst, RemoveFirst

\* In a sequence that holds each of its members once there is one to remove.
LEMMA TakenOut ==
  ASSUME NEW T, NEW s \in Seq(T), EachOnce(s), NEW k \in 1..Len(s)
  PROVE  RemoveFirst(s, s[k]) = RemoveAt(s, k)
<1>1. s[k] \in ToSet(s)
  BY DEF ToSet
<1>2. PICK i \in 1..Len(s) : s[i] = s[k] /\ RemoveFirst(s, s[k]) = RemoveAt(s, i)
  BY <1>1, RemoveFirstFacts
<1> QED BY <1>2 DEF EachOnce

-----------------------------------------------------------------------------
(* The thread list.                                                           *)

ListLinks == [first : Thread \cup {NULL}, next : [Thread -> Thread \cup {NULL}]]

\* List l has the threads of s in this order, each once.
IsThreadList(l, s) ==
  s \in Seq(Thread) /\ EachOnce(s) /\ Follows(l.next, l.first, s, NULL)

LEMMA ThreadListFound ==
  ASSUME ThreadListAssumption, NEW l, NEW s, IsThreadList(l, s)
  PROVE  Path(l, l.first) = s
<1> DEFINE node == CHOOSE f : IsWalk(f, l.next, l.first, Cardinality(Thread), NULL)
<1>1. Path(l, l.first) = [n \in 1..Cardinality({i \in DOMAIN node : node[i] # NULL}) |-> node[n]]
  BY DEF Path, IsWalk
<1>2. \A f : IsWalk(f, l.next, l.first, Cardinality(Thread), NULL)
             => IsWalk(node, l.next, l.first, Cardinality(Thread), NULL)
  <2> HIDE DEF IsWalk
  <2> QED OBVIOUS
<1>3. /\ IsFiniteSet(Thread) /\ NULL \notin Thread
      /\ s \in Seq(Thread) /\ EachOnce(s) /\ Follows(l.next, l.first, s, NULL)
  BY DEF ThreadListAssumption, IsThreadList
<1> HIDE DEF node
<1> QED BY ONLY <1>1, <1>2, <1>3, WalkFinds

\* A thread goes in behind a place.
LEMMA LinkedBehind ==
  ASSUME ThreadListAssumption, NEW l \in ListLinks, NEW s, IsThreadList(l, s),
         NEW t \in Thread, t \notin ToSet(s), NEW i \in 1..Len(s) + 1
  PROVE  LET r == LinkBehind(l, Before(s, i), t)
         IN r \in ListLinks /\ IsThreadList(r, InsertAt(s, i, t))
<1> DEFINE before == Before(s, i)
           after == IF i = Len(s) + 1 THEN NULL ELSE s[i]
           r == LinkBehind(l, before, t)
<1>1. /\ NULL \notin Thread /\ s \in Seq(Thread) /\ Len(s) \in Nat /\ EachOnce(s)
      /\ Follows(l.next, l.first, s, NULL)
      /\ t \in Thread /\ t \notin ToSet(s) /\ i \in 1..Len(s) + 1
  BY DEF ThreadListAssumption, IsThreadList
<1>2. before = (IF i = 1 THEN NULL ELSE s[i - 1]) /\ after = IF i = Len(s) + 1 THEN NULL ELSE s[i]
  BY DEF Before
<1>3. IF before = NULL THEN l.first = after ELSE before \in Thread /\ l.next[before] = after
  <2>1. CASE i = 1
    <3>1. before = NULL
      BY <1>2, <2>1
    <3>2. s = <<>> <=> Len(s) = 0
      BY <1>1
    <3>3. l.first = after
      BY <1>1, <1>2, <2>1, <3>2 DEF Follows
    <3> QED BY <3>1, <3>3
  <2>2. CASE i # 1
    <3>1. i - 1 \in 1..Len(s) /\ (i - 1) + 1 = i /\ (i - 1 = Len(s) <=> i = Len(s) + 1)
      BY <1>1, <2>2
    <3>2. before = s[i - 1] /\ before \in Thread
      BY <1>1, <1>2, <2>2, <3>1
    <3>3. l.next[s[i - 1]] = after
      BY <1>1, <1>2, <3>1 DEF Follows
    <3> QED BY <1>1, <3>2, <3>3
  <2> QED BY <2>1, <2>2
<1>4. before # t
  <2>1. \A j \in 1..Len(s) : s[j] # t
    BY <1>1 DEF ToSet
  <2>2. i # 1 => i - 1 \in 1..Len(s)
    BY <1>1
  <2> QED BY <1>1, <1>2, <2>1, <2>2
<1> HIDE DEF before, after
<1>5. after \in Thread \cup {NULL}
  <2>1. i # Len(s) + 1 => i \in 1..Len(s)
    BY <1>1
  <2> QED BY <1>1, <1>2, <2>1
<1>6. /\ r \in ListLinks
      /\ r.first = IF before = NULL THEN t ELSE l.first
      /\ \A x \in Thread : r.next[x] = IF x = t THEN after ELSE IF x = before THEN t ELSE l.next[x]
  <2>1. CASE before = NULL
    <3>1. r = [[l EXCEPT !.first = t] EXCEPT !.next = [@ EXCEPT ![t] = after]]
      BY <1>3, <2>1 DEF LinkBehind
    <3>2. r.first = t /\ r.next = [l.next EXCEPT ![t] = after]
      BY <3>1 DEF ListLinks
    <3>3. r.next \in [Thread -> Thread \cup {NULL}]
      BY <1>1, <1>5, <3>2 DEF ListLinks
    <3>4. r \in ListLinks
      BY <1>1, <3>1, <3>2, <3>3 DEF ListLinks
    <3>5. \A x \in Thread : r.next[x] = IF x = t THEN after ELSE l.next[x]
      BY <3>2 DEF ListLinks
    <3> QED BY <1>1, <2>1, <3>2, <3>4, <3>5
  <2>2. CASE before # NULL
    <3>1. /\ r = [[l EXCEPT !.next = [@ EXCEPT ![t] = after]]
                       EXCEPT !.next = [@ EXCEPT ![before] = t]]
          /\ before \in Thread
      BY <1>3, <2>2 DEF LinkBehind
    <3>2. r.first = l.first /\ r.next = [[l.next EXCEPT ![t] = after] EXCEPT ![before] = t]
      BY <3>1 DEF ListLinks
    <3>3. r.next \in [Thread -> Thread \cup {NULL}]
      <4> DEFINE changed == [l.next EXCEPT ![t] = after]
      <4>1. changed \in [Thread -> Thread \cup {NULL}]
        BY <1>1, <1>5 DEF ListLinks
      <4> HIDE DEF changed
      <4>2. [changed EXCEPT ![before] = t] \in [Thread -> Thread \cup {NULL}]
        BY <1>1, <4>1
      <4> QED BY <3>2, <4>2 DEF changed
    <3>4. r \in ListLinks
      <4> DEFINE changed == [l EXCEPT !.next = [@ EXCEPT ![t] = after]]
      <4>1. changed = [first |-> l.first, next |-> changed.next]
        BY DEF ListLinks
      <4>2. r = [first |-> l.first, next |-> r.next]
        BY <3>1, <4>1
      <4>3. l.first \in Thread \cup {NULL}
        BY DEF ListLinks
      <4> HIDE DEF r
      <4> QED BY <3>3, <4>2, <4>3 DEF ListLinks
    <3>5. \A x \in Thread : r.next[x] = IF x = before THEN t ELSE IF x = t THEN after ELSE l.next[x]
      BY <3>1, <3>2 DEF ListLinks
    <3> QED BY <1>4, <2>2, <3>2, <3>4, <3>5
  <2> QED BY <2>1, <2>2
<1> HIDE DEF r
<1>7. Follows(r.next, r.first, InsertAt(s, i, t), NULL)
  <2> DEFINE next == r.next
             old == l.next
             start == l.first
  <2>1. /\ Follows(old, start, s, NULL)
        /\ \A x \in Thread : next[x] = IF x = t THEN after ELSE IF x = before THEN t ELSE old[x]
        /\ r.first = IF before = NULL THEN t ELSE start
    BY <1>1, <1>6
  <2> HIDE DEF next, old, start
  <2>2. Follows(next, IF before = NULL THEN t ELSE start, InsertAt(s, i, t), NULL)
    BY ONLY <1>1, <1>2, <2>1, FollowsInserted
  <2> QED BY <2>1, <2>2 DEF next
<1>8. InsertAt(s, i, t) \in Seq(Thread) /\ EachOnce(InsertAt(s, i, t))
  BY ONLY <1>1, InsertAtFacts, InsertAtOnce
<1> QED BY <1>6, <1>7, <1>8 DEF IsThreadList, r, before

\* A thread goes out by the link before it.
LEMMA ThreadUnlinked ==
  ASSUME ThreadListAssumption, NEW l \in ListLinks, NEW s, IsThreadList(l, s), NEW k \in 1..Len(s)
  PROVE  LET r == Unlink(l, Before(s, k), s[k])
         IN r \in ListLinks /\ IsThreadList(r, RemoveAt(s, k))
<1> DEFINE before == Before(s, k)
           after == IF k = Len(s) THEN NULL ELSE s[k + 1]
           r == Unlink(l, before, s[k])
<1>1. /\ NULL \notin Thread /\ s \in Seq(Thread) /\ Len(s) \in Nat /\ EachOnce(s)
      /\ Follows(l.next, l.first, s, NULL) /\ k \in 1..Len(s)
  BY DEF ThreadListAssumption, IsThreadList
<1>2. before = (IF k = 1 THEN NULL ELSE s[k - 1]) /\ after = IF k = Len(s) THEN NULL ELSE s[k + 1]
  BY DEF Before
<1>3. l.next[s[k]] = after
  BY <1>1, <1>2 DEF Follows
<1>4. before \in Thread \cup {NULL} /\ after \in Thread \cup {NULL}
  <2>1. (k # 1 => k - 1 \in 1..Len(s)) /\ (k # Len(s) => k + 1 \in 1..Len(s))
    BY <1>1
  <2> QED BY <1>1, <1>2, <2>1
<1> HIDE DEF before, after
<1>5. /\ r \in ListLinks
      /\ r.first = IF before = NULL THEN after ELSE l.first
      /\ \A x \in Thread \ {s[k]} : r.next[x] = IF x = before THEN after ELSE l.next[x]
  BY <1>1, <1>3, <1>4 DEF Unlink, ListLinks
<1> HIDE DEF r
<1>6. Follows(r.next, r.first, RemoveAt(s, k), NULL)
  <2> DEFINE next == r.next
             old == l.next
             start == l.first
  <2>1. /\ Follows(old, start, s, NULL)
        /\ \A x \in Thread \ {s[k]} : next[x] = IF x = before THEN after ELSE old[x]
        /\ r.first = IF before = NULL THEN after ELSE start
    BY <1>1, <1>5
  <2> HIDE DEF next, old, start
  <2>2. Follows(next, IF before = NULL THEN after ELSE start, RemoveAt(s, k), NULL)
    BY ONLY <1>1, <1>2, <2>1, FollowsRemoved
  <2> QED BY <2>1, <2>2 DEF next
<1>7. RemoveAt(s, k) \in Seq(Thread) /\ EachOnce(RemoveAt(s, k))
  BY ONLY <1>1, RemoveAtFacts, RemoveAtOnce
<1> QED BY <1>5, <1>6, <1>7 DEF IsThreadList, r, before

\* A thread goes to its place ...
LEMMA ThreadInserted ==
  ASSUME ThreadListAssumption, NEW l \in ListLinks, NEW s, IsThreadList(l, s),
         NEW t \in Thread, t \notin ToSet(s), NEW prio
  PROVE  LET r == OSi_InsertThreadToList(l, prio, t)
             u == Ordered!OSi_InsertThreadToList(s, prio, t)
         IN r \in ListLinks /\ IsThreadList(r, u) /\ ToSet(u) = ToSet(s) \cup {t}
<1> DEFINE S == {j \in 1..Len(s) : prio[s[j]] >= prio[t]}
           i == Min(S \cup {Len(s) + 1})
<1>1. s \in Seq(Thread) /\ Len(s) \in Nat /\ S \in SUBSET (1..Len(s))
  BY DEF IsThreadList
<1>2. OSi_InsertThreadToList(l, prio, t) = LinkBehind(l, Before(s, i), t)
  BY ThreadListFound DEF OSi_InsertThreadToList
<1>3. Ordered!OSi_InsertThreadToList(s, prio, t) = InsertAt(s, i, t)
  BY SameOperators DEF Ordered!OSi_InsertThreadToList
<1> HIDE DEF S
<1>4. i \in 1..Len(s) + 1
  BY <1>1, PlaceInRange
<1> HIDE DEF i
<1> QED BY <1>1, <1>2, <1>3, <1>4, LinkedBehind, InsertAtMembers

\* ... and is found and goes out.
LEMMA ThreadRemoved ==
  ASSUME ThreadListAssumption, NEW l \in ListLinks, NEW s, IsThreadList(l, s),
         NEW t \in Thread, t \in ToSet(s)
  PROVE  LET r == Unlink(l, Before(s, Place(s, t)), t)
             u == Ordered!RemoveFirst(s, t)
         IN /\ r \in ListLinks /\ IsThreadList(r, u)
            /\ Place(s, t) \in 1..Len(s) /\ s[Place(s, t)] = t
            /\ u = RemoveAt(s, Place(s, t)) /\ ToSet(u) = ToSet(s) \ {t}
<1> DEFINE k == Place(s, t)
<1>1. s \in Seq(Thread) /\ EachOnce(s)
  BY DEF IsThreadList
<1>2. k \in 1..Len(s) /\ s[k] = t
  <2>1. \E i \in 1..Len(s) : s[i] = t
    BY <1>1 DEF ToSet
  <2> QED BY <2>1 DEF Place
<1> HIDE DEF k
<1>3. Ordered!RemoveFirst(s, t) = RemoveAt(s, k)
  BY <1>1, <1>2, TakenOut, SameRemoveFirst
<1>4. LET r == Unlink(l, Before(s, k), s[k]) IN r \in ListLinks /\ IsThreadList(r, RemoveAt(s, k))
  BY <1>2, ThreadUnlinked
<1>5. ToSet(RemoveAt(s, k)) = ToSet(s) \ {t}
  BY <1>1, <1>2, RemoveAtOnce
<1> QED BY <1>2, <1>3, <1>4, <1>5 DEF k

\* One that yields goes behind the last of its priority.
LEMMA ThreadYields ==
  ASSUME ThreadListAssumption, NEW l \in ListLinks, NEW s, IsThreadList(l, s),
         NEW t \in Thread, t \in ToSet(s), NEW prio,
         NEW last, last = s[Max({i \in 1..Len(s) : prio[s[i]] = prio[t]})], last # t
  PROVE  LET r == LinkBehind(Unlink(l, Before(s, Place(s, t)), t), last, t)
             u == Ordered!OS_YieldInList(s, prio, t)
         IN r \in ListLinks /\ IsThreadList(r, u) /\ ToSet(u) = ToSet(s)
<1> DEFINE S == {i \in 1..Len(s) : prio[s[i]] = prio[t]}
           k == Place(s, t)
           m == Max(S)
           l1 == Unlink(l, Before(s, k), t)
           s1 == RemoveAt(s, k)
<1>1. /\ s \in Seq(Thread) /\ Len(s) \in Nat /\ EachOnce(s)
      /\ S \in SUBSET (1..Len(s))
  BY DEF IsThreadList
<1>2. /\ l1 \in ListLinks /\ IsThreadList(l1, s1) /\ k \in 1..Len(s) /\ s[k] = t
      /\ Ordered!RemoveFirst(s, t) = s1 /\ ToSet(s1) = ToSet(s) \ {t}
  BY ThreadRemoved
<1> HIDE DEF k
<1>3. k \in S
  BY <1>2
<1> HIDE DEF S
<1>4. m \in S /\ m >= k
  BY <1>1, <1>3, MaxIsGreatest
<1>5. Ordered!OS_YieldInList(s, prio, t) = InsertAt(s1, m, t)
  BY <1>2, SameOperators DEF Ordered!OS_YieldInList, S
<1> HIDE DEF m, l1
<1>6. last = s[m]
  BY DEF m, S
<1>7. m \in 1..Len(s) /\ m > k
  BY <1>1, <1>2, <1>4, <1>6
<1>8. /\ s1 \in Seq(Thread) /\ Len(s1) = Len(s) - 1
      /\ \A j \in 1..Len(s) - 1 : s1[j] = IF j < k THEN s[j] ELSE s[j + 1]
  BY <1>1, <1>2, RemoveAtFacts
<1> HIDE DEF s1
<1>9. m \in 1..Len(s1) + 1 /\ Before(s1, m) = last
  <2>1. m # 1 /\ m - 1 \in 1..Len(s) - 1 /\ ~(m - 1 < k) /\ (m - 1) + 1 = m
    BY <1>1, <1>2, <1>7
  <2>2. s1[m - 1] = s[m]
    BY <1>8, <2>1
  <2> QED BY <1>1, <1>6, <1>7, <1>8, <2>1, <2>2 DEF Before
<1>10. t \notin ToSet(s1) /\ ToSet(s1) \cup {t} = ToSet(s)
  BY <1>2
<1>11. LET r == LinkBehind(l1, last, t) IN r \in ListLinks /\ IsThreadList(r, InsertAt(s1, m, t))
  <2>1. LET r == LinkBehind(l1, Before(s1, m), t)
        IN r \in ListLinks /\ IsThreadList(r, InsertAt(s1, m, t))
    BY <1>2, <1>9, <1>10, LinkedBehind
  <2> QED BY <1>9, <2>1
<1>12. ToSet(InsertAt(s1, m, t)) = ToSet(s)
  <2>1. s1 \in Seq(Thread) /\ m \in 1..Len(s1) + 1 /\ t \in Thread
    BY <1>8, <1>9
  <2>2. ToSet(InsertAt(s1, m, t)) = ToSet(s1) \cup {t}
    BY ONLY <2>1, InsertAtMembers
  <2> QED BY <1>10, <2>2
<1> QED BY <1>5, <1>11, <1>12 DEF l1, k

\* The thread list, and what is known of it in every state.
Listed == Path(links, links.first)

ListOK ==
  /\ priority \in [Thread -> Priorities \cup {Max(Priorities) + 1}]
  /\ live \subseteq Thread /\ Idle \in live
  /\ links \in ListLinks
  /\ IsThreadList(links, Listed)
  /\ ToSet(Listed) = live

\* Nobody has read another head than the list has.
HeadsOK ==
  /\ head \in [Thread -> Thread \cup {NULL}]
  /\ \A c \in Thread : head[c] # NULL => head[c] = links.first

LEMMA ListedAfter ==
  ASSUME ThreadListAssumption, NEW s, IsThreadList(links', s)
  PROVE  Listed' = s /\ IsThreadList(links, Listed)'
BY ThreadListFound DEF Listed

LEMMA ListStarts ==
  ASSUME ThreadListAssumption, Init
  PROVE  ListOK /\ HeadsOK /\ Ordered!Init
<1> DEFINE s == <<Launcher, Idle>>
<1>1. /\ Launcher \in Thread /\ Idle \in Thread /\ Launcher # Idle /\ NULL \notin Thread
      /\ Max(Priorities) \div 2 \in Priorities
  BY DEF ThreadListAssumption
<1>2. s \in Seq(Thread) /\ Len(s) = 2 /\ s[1] = Launcher /\ s[2] = Idle /\ s # <<>>
  BY <1>1
<1>3. /\ links.first = Launcher /\ links.next[Launcher] = Idle /\ links.next[Idle] = NULL
      /\ links \in ListLinks
  BY <1>1 DEF Init, ListLinks
<1> HIDE DEF s
<1>4. IsThreadList(links, s)
  BY <1>1, <1>2, <1>3 DEF IsThreadList, EachOnce, Follows
<1>5. ToSet(s) = {Launcher, Idle}
  BY <1>2 DEF ToSet
<1>6. Listed = s
  BY <1>4, ThreadListFound DEF Listed
<1>7. priority \in [Thread -> Priorities \cup {Max(Priorities) + 1}] /\ live = {Launcher, Idle}
  BY <1>1 DEF Init
<1>8. HeadsOK
  BY DEF Init, HeadsOK
<1> QED BY <1>1, <1>3, <1>4, <1>5, <1>6, <1>7, <1>8 DEF ListOK, Ordered!Init, Listed, s

LEMMA CreateKeepsList ==
  ASSUME ThreadListAssumption, ListOK, NEW t \in Thread, NEW prio \in Priorities,
         OS_CreateThread(t, prio)
  PROVE  ListOK' /\ Ordered!Create(t, prio)
<1> DEFINE s == Listed
           u == Ordered!OSi_InsertThreadToList(s, priority', t)
<1>1. links \in ListLinks /\ IsThreadList(links, s) /\ ToSet(s) = live /\ t \notin ToSet(s)
  BY DEF ListOK, OS_CreateThread
<1>2. links' \in ListLinks /\ IsThreadList(links', u) /\ ToSet(u) = ToSet(s) \cup {t}
  BY <1>1, ThreadInserted DEF OS_CreateThread
<1>3. Listed' = u /\ IsThreadList(links, Listed)'
  BY <1>2, ListedAfter
<1>4. ListOK'
  BY <1>1, <1>2, <1>3 DEF ListOK, OS_CreateThread
<1>5. Ordered!Create(t, prio)
  BY <1>1, <1>3, SameOperators DEF Ordered!Create, OS_CreateThread, Listed
<1> QED BY <1>4, <1>5

LEMMA EndKeepsList ==
  ASSUME ThreadListAssumption, ListOK, NEW t \in Thread, OSi_RemoveThreadFromList(t)
  PROVE  ListOK' /\ Ordered!End(t)
<1> DEFINE s == Listed
           u == Ordered!RemoveFirst(s, t)
<1>1. /\ links \in ListLinks /\ IsThreadList(links, s) /\ ToSet(s) = live /\ t \in ToSet(s)
      /\ t # Idle
  BY DEF ListOK, OSi_RemoveThreadFromList, ThreadListAssumption
<1>2. links' \in ListLinks /\ IsThreadList(links', u) /\ ToSet(u) = ToSet(s) \ {t}
  BY <1>1, ThreadRemoved DEF OSi_RemoveThreadFromList, Listed
<1>3. Listed' = u /\ IsThreadList(links, Listed)'
  BY <1>2, ListedAfter
<1>4. ListOK'
  BY <1>1, <1>2, <1>3 DEF ListOK, OSi_RemoveThreadFromList
<1>5. Ordered!End(t)
  BY <1>1, <1>3, SameOperators DEF Ordered!End, OSi_RemoveThreadFromList, Listed
<1> QED BY <1>4, <1>5

\* With the head that the list has, a call finds the thread and moves it.
LEMMA MoveKeepsList ==
  ASSUME ThreadListAssumption, ListOK, NEW t \in Thread, NEW prio \in Priorities,
         Reprioritize(links.first, t, prio), live' = live
  PROVE  /\ ListOK'
         /\ Ordered!SetPriority(t, prio) \/ (Listed' = Listed /\ priority' = priority)
<1> DEFINE s == Listed
<1>1. /\ links \in ListLinks /\ IsThreadList(links, s) /\ ToSet(s) = live
      /\ priority \in [Thread -> Priorities \cup {Max(Priorities) + 1}]
  BY DEF ListOK
<1>2. CASE t # Idle /\ t \in ToSet(s) /\ priority[t] # prio
  <2> DEFINE l1 == Unlink(links, Before(s, Place(s, t)), t)
             s1 == Ordered!RemoveFirst(s, t)
             u == Ordered!OSi_InsertThreadToList(s1, priority', t)
  <2>1. priority' = [priority EXCEPT ![t] = prio]
           /\ links' = OSi_InsertThreadToList(l1, priority', t)
    BY <1>2 DEF Reprioritize, Listed
  <2>2. l1 \in ListLinks /\ IsThreadList(l1, s1) /\ ToSet(s1) = ToSet(s) \ {t}
    BY <1>1, <1>2, ThreadRemoved
  <2> HIDE DEF l1, s1
  <2>3. links' \in ListLinks /\ IsThreadList(links', u) /\ ToSet(u) = ToSet(s1) \cup {t}
    BY <2>1, <2>2, ThreadInserted
  <2> HIDE DEF u
  <2>4. Listed' = u /\ IsThreadList(links, Listed)' /\ ToSet(u) = live
    BY <1>1, <1>2, <2>2, <2>3, ListedAfter
  <2>5. ListOK'
    BY <2>1, <2>3, <2>4 DEF ListOK
  <2>6. Ordered!SetPriority(t, prio)
    BY <1>2, <2>1, <2>4, SameOperators DEF Ordered!SetPriority, Listed, u, s1
  <2> QED BY <2>5, <2>6
<1>3. CASE ~(t # Idle /\ t \in ToSet(s) /\ priority[t] # prio)
  <2>1. links' = links /\ priority' = priority
    BY <1>3 DEF Reprioritize, Listed
  <2>2. Listed' = Listed
    BY <2>1 DEF Listed
  <2> QED BY <2>1, <2>2 DEF ListOK, IsThreadList, ListLinks
<1> QED BY <1>2, <1>3

LEMMA YieldKeepsList ==
  ASSUME ThreadListAssumption, ListOK, NEW t \in Thread, OS_YieldThread(t)
  PROVE  ListOK' /\ Ordered!Yield(t)
<1> DEFINE s == Listed
           last == s[Max({i \in 1..Len(s) : priority[s[i]] = priority[t]})]
           u == Ordered!OS_YieldInList(s, priority, t)
<1>1. /\ links \in ListLinks /\ IsThreadList(links, s) /\ ToSet(s) = live
      /\ t \in ToSet(s) /\ t # Idle /\ last # t
      /\ links' = LinkBehind(Unlink(links, Before(s, Place(s, t)), t), last, t)
      /\ priority' = priority /\ live' = live
  BY DEF ListOK, OS_YieldThread, Listed
<1> HIDE DEF s
<1>2. links' \in ListLinks /\ IsThreadList(links', u) /\ ToSet(u) = ToSet(s)
  BY <1>1, ThreadYields
<1>3. Listed' = u /\ IsThreadList(links, Listed)'
  BY <1>2, ListedAfter
<1>4. ListOK'
  BY <1>1, <1>2, <1>3 DEF ListOK
<1>5. Ordered!Yield(t)
  BY <1>1, <1>3, SameOperators DEF Ordered!Yield, Listed, s
<1> QED BY <1>4, <1>5

LEMMA ListStep ==
  ASSUME ThreadListAssumption, Careful, ListOK, HeadsOK, Next
  PROVE  /\ ListOK' /\ HeadsOK'
         /\ Ordered!Next \/ (Listed' = Listed /\ priority' = priority)
<1>1. PICK t \in Thread :
        \/ \E prio \in Priorities :
             OS_CreateThread(t, prio) \/ \E c \in Thread : OS_SetThreadPriority(c, t, prio)
        \/ OSi_RemoveThreadFromList(t) \/ OS_YieldThread(t) \/ ReadHead(t)
  BY DEF Next
<1>2. HeadStays
  BY DEF Next
<1>3. ASSUME head' \in [Thread -> Thread \cup {NULL}],
             \A c \in Thread : head'[c] \in {NULL, head[c], links.first}
      PROVE  HeadsOK'
  <2>1. \A c \in Thread : head'[c] # NULL => head'[c] = links.first
    BY <1>3 DEF HeadsOK
  <2>2. \A c \in Thread : head'[c] # NULL => links'.first = links.first
    BY <1>2 DEF HeadStays
  <2> QED BY <1>3, <2>1, <2>2 DEF HeadsOK
<1>4. ASSUME NEW prio \in Priorities, OS_CreateThread(t, prio)
      PROVE  ListOK' /\ HeadsOK' /\ Ordered!Next
  <2>1. HeadsOK'
    BY <1>3, <1>4 DEF OS_CreateThread, HeadsOK
  <2> QED BY <1>4, <2>1, CreateKeepsList DEF Ordered!Next
<1>5. ASSUME NEW prio \in Priorities, NEW c \in Thread, OS_SetThreadPriority(c, t, prio)
      PROVE  /\ ListOK' /\ HeadsOK'
             /\ Ordered!Next \/ (Listed' = Listed /\ priority' = priority)
  <2>1. Reprioritize(links.first, t, prio)
    BY <1>5 DEF OS_SetThreadPriority, HeadsOK
  <2>2. HeadsOK'
    BY <1>3, <1>5 DEF OS_SetThreadPriority, HeadsOK
  <2>3. live' = live
    BY <1>5 DEF OS_SetThreadPriority
  <2> QED BY <2>1, <2>2, <2>3, MoveKeepsList DEF Ordered!Next
<1>6. ASSUME OSi_RemoveThreadFromList(t) PROVE ListOK' /\ HeadsOK' /\ Ordered!Next
  <2>1. HeadsOK'
    BY <1>3, <1>6 DEF OSi_RemoveThreadFromList, HeadsOK
  <2> QED BY <1>6, <2>1, EndKeepsList DEF Ordered!Next
<1>7. ASSUME OS_YieldThread(t) PROVE ListOK' /\ HeadsOK' /\ Ordered!Next
  <2>1. HeadsOK'
    BY <1>3, <1>7 DEF OS_YieldThread, HeadsOK
  <2> QED BY <1>7, <2>1, YieldKeepsList DEF Ordered!Next
<1>8. ASSUME ReadHead(t)
      PROVE  ListOK' /\ HeadsOK' /\ Listed' = Listed /\ priority' = priority
  <2>1. /\ links' = links /\ priority' = priority /\ live' = live
        /\ head' = [head EXCEPT ![t] = links.first]
    BY <1>8 DEF ReadHead
  <2>2. links.first \in Thread \cup {NULL}
    BY DEF ListOK, ListLinks
  <2>3. HeadsOK'
    BY <1>3, <2>1, <2>2 DEF HeadsOK
  <2>4. Listed' = Listed
    BY <2>1 DEF Listed
  <2> QED BY <2>1, <2>3, <2>4 DEF ListOK
<1> QED BY <1>1, <1>4, <1>5, <1>6, <1>7, <1>8

-----------------------------------------------------------------------------
(* The wait queues.                                                           *)

LEMMA SameQueueOperators ==
  ASSUME NEW s, NEW i, NEW e, NEW S
  PROVE  /\ Queues!Cardinality(S) = Cardinality(S)
         /\ Queues!Min(S) = Min(S) /\ Queues!Order!Min(S) = Min(S)
         /\ Queues!ToSet(s) = ToSet(s) /\ Queues!Order!ToSet(s) = ToSet(s)
         /\ Queues!Reverse(s) = Reverse(s)
         /\ Queues!Order!InsertAt(s, i, e) = InsertAt(s, i, e)
         /\ Queues!Order!RemoveAt(s, i) = RemoveAt(s, i)
BY DEF Queues!Cardinality, Cardinality, Queues!Min, Queues!Order!Min, Min,
       Queues!ToSet, Queues!Order!ToSet, ToSet, Queues!Reverse, Reverse, Queues!Order!InsertAt,
       InsertAt, Queues!Order!RemoveAt, RemoveAt

LEMMA SameQueueRemoveFirst ==
  ASSUME NEW s, NEW e
  PROVE  Queues!Order!RemoveFirst(s, e) = RemoveFirst(s, e)
<1>1. Queues!Order!SelectInSeq(s, LAMBDA v : v = e) = SelectInSeq(s, LAMBDA v : v = e)
  BY SameQueueOperators DEF Queues!Order!SelectInSeq, SelectInSeq
<1> QED BY <1>1, SameQueueOperators DEF Queues!Order!RemoveFirst, RemoveFirst

\* Queue q with the links of all threads, and the threads found in it.
WaitList(q) == [head |-> qHead[q], tail |-> qTail[q], next |-> qNext, prev |-> qPrev]
Waiting(q) == Queues!Chain(q)

\* The list r has the threads of s, each once.
IsWaitList(r, s) == IsListOf(r, s, Sleepers, NULL)

LEMMA WaitListFound ==
  ASSUME SleeperAssumption, NEW r, NEW s, IsWaitList(r, s)
  PROVE  Queues!Path(r.next, r.head) = s /\ Queues!Path(r.prev, r.tail) = Reverse(s)
<1>1. /\ IsFiniteSet(Sleepers) /\ NULL \notin Sleepers
      /\ s \in Seq(Sleepers) /\ EachOnce(s) /\ Follows(r.next, r.head, s, NULL)
  BY DEF SleeperAssumption, IsWaitList, IsListOf
<1>2. ASSUME NEW link, NEW t, NEW u \in Seq(Sleepers), EachOnce(u), Follows(link, t, u, NULL)
      PROVE  Queues!Path(link, t) = u
  <2> DEFINE node == CHOOSE f : IsWalk(f, link, t, Queues!Cardinality(Sleepers), NULL)
             found == {i \in DOMAIN node : node[i] # NULL}
  <2>0. /\ Queues!Cardinality(Sleepers) = Cardinality(Sleepers)
        /\ Queues!Cardinality(found) = Cardinality(found)
    BY SameQueueOperators
  <2>1. Queues!Path(link, t) = [n \in 1..Cardinality(found) |-> node[n]]
    <3>1. Queues!Path(link, t) = [n \in 1..Queues!Cardinality(found) |-> node[n]]
      BY DEF Queues!Path, IsWalk
    <3> HIDE DEF found, node
    <3> QED BY <2>0, <3>1
  <2>2. \A f : IsWalk(f, link, t, Cardinality(Sleepers), NULL)
                => IsWalk(node, link, t, Cardinality(Sleepers), NULL)
    <3>1. \A f : IsWalk(f, link, t, Queues!Cardinality(Sleepers), NULL)
                  => IsWalk(node, link, t, Queues!Cardinality(Sleepers), NULL)
      <4> HIDE DEF IsWalk
      <4> QED OBVIOUS
    <3> HIDE DEF node
    <3> QED BY <2>0, <3>1
  <2> HIDE DEF node
  <2> QED BY ONLY <1>1, <1>2, <2>1, <2>2, u \in Seq(Sleepers), WalkFinds
<1>3. Reverse(s) \in Seq(Sleepers) /\ EachOnce(Reverse(s))
  BY <1>1, ReverseFacts, ReverseOnce
<1>4. Follows(r.prev, r.tail, Reverse(s), NULL)
  BY <1>1, BackFollows DEF IsWaitList, IsListOf
<1> QED BY <1>1, <1>2, <1>3, <1>4

\* A list whose ends and links stay is the same.
LEMMA WaitListUntouched ==
  ASSUME NEW q, NEW r, NEW s, IsWaitList(q, s), r.head = q.head, r.tail = q.tail,
         \A x \in ToSet(s) : r.next[x] = q.next[x] /\ r.prev[x] = q.prev[x]
  PROVE  IsWaitList(r, s)
<1>1. \A i \in 1..Len(s) : r.next[s[i]] = q.next[s[i]] /\ r.prev[s[i]] = q.prev[s[i]]
  BY DEF ToSet
<1> QED BY <1>1 DEF IsWaitList, IsListOf, Follows

QueueTypes ==
  /\ qHead \in [Queue -> Sleepers \cup {NULL}]
  /\ qTail \in [Queue -> Sleepers \cup {NULL}]
  /\ qNext \in [Sleepers -> Sleepers \cup {NULL}]
  /\ qPrev \in [Sleepers -> Sleepers \cup {NULL}]
  /\ qOf \in [Sleepers -> Queue \cup {NULL}]
  /\ qPriority \in [Sleepers -> QueuePriorities]
  /\ qLive \subseteq Sleepers

\* A thread waits in the queue it knows, so in one; and a waiting thread lives.
QueuesOK ==
  /\ QueueTypes
  /\ \A q \in Queue : /\ IsWaitList(WaitList(q), Waiting(q))
                       /\ InOrder(Waiting(q), qPriority)
                       /\ \A t \in ToSet(Waiting(q)) : qOf[t] = q /\ t \in qLive

\* To know the queues after a step.
LEMMA WaitingAfter ==
  ASSUME SleeperAssumption, NEW q \in Queue, NEW s, IsWaitList(WaitList(q)', s)
  PROVE  Waiting(q)' = s /\ IsWaitList(WaitList(q), Waiting(q))'
<1>1. /\ WaitList(q)' = [head |-> qHead'[q], tail |-> qTail'[q], next |-> qNext', prev |-> qPrev']
      /\ Waiting(q)' = Queues!Path(qNext', qHead'[q])
  BY DEF WaitList, Waiting, Queues!Chain
<1>2. Waiting(q)' = s
  BY <1>1, WaitListFound
<1>3. IsWaitList(WaitList(q), Waiting(q))' <=> IsWaitList(WaitList(q)', Waiting(q)')
  BY DEF IsWaitList
<1> QED BY <1>2, <1>3

LEMMA BackIsForthHolds ==
  ASSUME SleeperAssumption, QueuesOK
  PROVE  Queues!TypeOK /\ Queues!BackIsForth
<1> SUFFICES ASSUME NEW q \in Queue
             PROVE  /\ qHead[q] = NULL <=> qTail[q] = NULL
                    /\ Queues!Path(qPrev, qTail[q]) = Queues!Reverse(Queues!Chain(q))
  BY DEF QueuesOK, QueueTypes, Queues!TypeOK, Queues!BackIsForth
<1>1. IsWaitList(WaitList(q), Waiting(q))
  BY DEF QueuesOK
<1>2. Queues!Path(qPrev, qTail[q]) = Reverse(Waiting(q))
  BY <1>1, WaitListFound DEF WaitList
<1>3. qHead[q] = NULL <=> qTail[q] = NULL
  <2> DEFINE s == Waiting(q)
  <2>1. /\ s \in Seq(Sleepers) /\ NULL \notin Sleepers
        /\ qHead[q] = IF s = <<>> THEN NULL ELSE s[1]
        /\ qTail[q] = IF s = <<>> THEN NULL ELSE s[Len(s)]
    BY <1>1 DEF SleeperAssumption, IsWaitList, IsListOf, Follows, WaitList
  <2> HIDE DEF s
  <2>2. s # <<>> => 1 \in 1..Len(s) /\ Len(s) \in 1..Len(s)
    BY <2>1
  <2> QED BY <2>1, <2>2
<1> QED BY <1>2, <1>3, SameQueueOperators DEF Waiting

\* The types of the links.
LinkTypes ==
  /\ qHead \in [Queue -> Sleepers \cup {NULL}]
  /\ qTail \in [Queue -> Sleepers \cup {NULL}]
  /\ qNext \in [Sleepers -> Sleepers \cup {NULL}]
  /\ qPrev \in [Sleepers -> Sleepers \cup {NULL}]

LEMMA OthersStay ==
  ASSUME SleeperAssumption, QueuesOK, NEW q \in Queue,
         qHead'[q] = qHead[q], qTail'[q] = qTail[q],
         \A x \in ToSet(Waiting(q)) : qNext'[x] = qNext[x] /\ qPrev'[x] = qPrev[x]
  PROVE  Waiting(q)' = Waiting(q) /\ IsWaitList(WaitList(q), Waiting(q))'
<1> DEFINE r == [head |-> qHead'[q], tail |-> qTail'[q], next |-> qNext', prev |-> qPrev']
<1>1. IsWaitList(WaitList(q), Waiting(q))
  BY DEF QueuesOK
<1>2. IsWaitList(r, Waiting(q))
  BY <1>1, WaitListUntouched DEF WaitList
<1>3. WaitList(q)' = r
  BY DEF WaitList
<1> QED BY <1>2, <1>3, WaitingAfter

\* A thread is linked between two neighbours.
LEMMA ThreadLinked ==
  ASSUME SleeperAssumption, QueuesOK, NEW q \in Queue, NEW t \in Sleepers,
         \A p \in Queue : t \notin ToSet(Waiting(p)),
         NEW i \in 1..Len(Waiting(q)) + 1,
         NEW before, before = IF i = 1 THEN NULL ELSE Waiting(q)[i - 1],
         NEW after, after = IF i = Len(Waiting(q)) + 1 THEN NULL ELSE Waiting(q)[i],
         Queues!Link(q, t, before, after)
  PROVE  /\ LinkTypes'
         /\ Waiting(q)' = InsertAt(Waiting(q), i, t)
         /\ \A p \in Queue : /\ IsWaitList(WaitList(p), Waiting(p))'
                             /\ p # q => Waiting(p)' = Waiting(p)
<1> DEFINE s == Waiting(q)
<1>1. /\ NULL \notin Sleepers /\ IsWaitList(WaitList(q), s) /\ t \notin ToSet(s)
      /\ s \in Seq(Sleepers) /\ Len(s) \in Nat /\ i \in 1..Len(s) + 1
  BY DEF QueuesOK, SleeperAssumption, IsWaitList, IsListOf
<1>2. /\ before = (IF i = 1 THEN NULL ELSE s[i - 1])
      /\ after = IF i = Len(s) + 1 THEN NULL ELSE s[i]
  OBVIOUS
<1>3. before \in ToSet(s) \cup {NULL} /\ after \in ToSet(s) \cup {NULL}
         /\ ToSet(s) \subseteq Sleepers
  <2>1. (i # 1 => i - 1 \in 1..Len(s)) /\ (i # Len(s) + 1 => i \in 1..Len(s))
    BY <1>1
  <2> HIDE DEF s
  <2>2. \A j \in 1..Len(s) : s[j] \in ToSet(s)
    BY DEF ToSet
  <2>3. ToSet(s) \subseteq Sleepers
    BY <1>1 DEF ToSet
  <2> QED BY <1>2, <2>1, <2>2, <2>3
<1>4. /\ before \in Sleepers \cup {NULL} /\ after \in Sleepers \cup {NULL}
      /\ before # t /\ after # t
  BY <1>1, <1>3
<1>5. /\ qHead' = (IF before = NULL THEN [qHead EXCEPT ![q] = t] ELSE qHead)
      /\ qTail' = (IF after = NULL THEN [qTail EXCEPT ![q] = t] ELSE qTail)
      /\ qHead \in [Queue -> Sleepers \cup {NULL}] /\ qTail \in [Queue -> Sleepers \cup {NULL}]
  BY DEF Queues!Link, QueuesOK, QueueTypes
<1>6. /\ qNext' \in [Sleepers -> Sleepers \cup {NULL}]
      /\ \A x \in Sleepers :
           qNext'[x] = IF x = t THEN after ELSE IF x = before THEN t ELSE qNext[x]
  <2> DEFINE changed == Queues!SetLink(qNext, before, t)
  <2>1. /\ changed \in [Sleepers -> Sleepers \cup {NULL}]
        /\ \A x \in Sleepers : changed[x] = IF x = before THEN t ELSE qNext[x]
    <3>1. CASE before = NULL
      BY <1>1, <3>1 DEF Queues!SetLink, QueuesOK, QueueTypes
    <3>2. CASE before # NULL
      BY <1>4, <3>2 DEF Queues!SetLink, QueuesOK, QueueTypes
    <3> QED BY <3>1, <3>2
  <2>2. qNext' = [changed EXCEPT ![t] = after]
    BY DEF Queues!Link
  <2> HIDE DEF changed
  <2> QED BY <1>4, <2>1, <2>2
<1>7. /\ qPrev' \in [Sleepers -> Sleepers \cup {NULL}]
      /\ \A x \in Sleepers :
           qPrev'[x] = IF x = t THEN before ELSE IF x = after THEN t ELSE qPrev[x]
  <2> DEFINE changed == Queues!SetLink(qPrev, after, t)
  <2>1. /\ changed \in [Sleepers -> Sleepers \cup {NULL}]
        /\ \A x \in Sleepers : changed[x] = IF x = after THEN t ELSE qPrev[x]
    <3>1. CASE after = NULL
      BY <1>1, <3>1 DEF Queues!SetLink, QueuesOK, QueueTypes
    <3>2. CASE after # NULL
      BY <1>4, <3>2 DEF Queues!SetLink, QueuesOK, QueueTypes
    <3> QED BY <3>1, <3>2
  <2>2. qPrev' = [changed EXCEPT ![t] = before]
    BY DEF Queues!Link
  <2> HIDE DEF changed
  <2> QED BY <1>4, <2>1, <2>2
<1>8. LinkTypes'
  BY <1>5, <1>6, <1>7 DEF LinkTypes
<1>9. Waiting(q)' = InsertAt(s, i, t) /\ IsWaitList(WaitList(q), Waiting(q))'
  <2> DEFINE old == WaitList(q)
             r == [head |-> qHead'[q], tail |-> qTail'[q], next |-> qNext', prev |-> qPrev']
  <2>1. /\ r.head = IF before = NULL THEN t ELSE old.head
        /\ r.tail = IF after = NULL THEN t ELSE old.tail
    BY <1>5 DEF WaitList
  <2>2. \A x \in Sleepers :
          /\ r.next[x] = IF x = t THEN after ELSE IF x = before THEN t ELSE old.next[x]
          /\ r.prev[x] = IF x = t THEN before ELSE IF x = after THEN t ELSE old.prev[x]
    BY <1>6, <1>7 DEF WaitList
  <2>3. WaitList(q)' = r
    BY DEF WaitList
  <2>4. IsListOf(old, s, Sleepers, NULL) /\ t \in Sleepers
    BY <1>1 DEF IsWaitList
  <2> HIDE DEF s, old, r
  <2>5. IsListOf(r, InsertAt(s, i, t), Sleepers, NULL)
    BY ONLY <1>1, <1>2, <2>1, <2>2, <2>4, ListInserted
  <2> QED BY <2>3, <2>5, WaitingAfter DEF IsWaitList
<1>10. ASSUME NEW p \in Queue, p # q
       PROVE  Waiting(p)' = Waiting(p) /\ IsWaitList(WaitList(p), Waiting(p))'
  <2>1. qHead'[p] = qHead[p] /\ qTail'[p] = qTail[p]
    BY <1>5, <1>10
  <2>2. ASSUME NEW x \in ToSet(Waiting(p)) PROVE x \in Sleepers /\ x \notin {t, before, after}
    <3>1. x \in Sleepers /\ x # t /\ x # NULL
      BY <1>1 DEF QueuesOK, IsWaitList, IsListOf, ToSet
    <3>2. qOf[x] = p /\ \A y \in ToSet(s) : qOf[y] = q
      BY DEF QueuesOK
    <3>3. x \notin ToSet(s)
      BY <1>10, <3>2
    <3> QED BY <1>3, <3>1, <3>3
  <2> QED BY <1>6, <1>7, <2>1, <2>2, OthersStay
<1> QED BY <1>8, <1>9, <1>10

\* A thread that is found in a queue goes out of it.
LEMMA WaiterUnlinked ==
  ASSUME SleeperAssumption, QueuesOK, NEW q \in Queue, NEW k \in 1..Len(Waiting(q)),
         Queues!OSi_RemoveSpecifiedLinkFromQueue(q, Waiting(q)[k])
  PROVE  /\ LinkTypes'
         /\ Waiting(q)' = RemoveAt(Waiting(q), k)
         /\ \A p \in Queue : /\ IsWaitList(WaitList(p), Waiting(p))'
                             /\ p # q => Waiting(p)' = Waiting(p)
<1> DEFINE s == Waiting(q)
           t == s[k]
           before == IF k = 1 THEN NULL ELSE s[k - 1]
           after == IF k = Len(s) THEN NULL ELSE s[k + 1]
<1>1. /\ NULL \notin Sleepers /\ IsListOf(WaitList(q), s, Sleepers, NULL)
      /\ s \in Seq(Sleepers) /\ Len(s) \in Nat /\ k \in 1..Len(s) /\ EachOnce(s)
      /\ qHead[q] = s[1] /\ qTail[q] = s[Len(s)] /\ qNext[t] = after /\ qPrev[t] = before
  <2>1. /\ NULL \notin Sleepers /\ IsWaitList(WaitList(q), s)
    BY DEF QueuesOK, SleeperAssumption
  <2> HIDE DEF s
  <2>2. s \in Seq(Sleepers) /\ k \in 1..Len(s) /\ s # <<>>
    BY <2>1 DEF IsWaitList, IsListOf, s
  <2>3. /\ EachOnce(s) /\ qHead[q] = s[1] /\ qTail[q] = s[Len(s)]
        /\ \A i \in 1..Len(s) : /\ qNext[s[i]] = IF i = Len(s) THEN NULL ELSE s[i + 1]
                                /\ qPrev[s[i]] = IF i = 1 THEN NULL ELSE s[i - 1]
    BY <2>1, <2>2 DEF IsWaitList, IsListOf, Follows, WaitList
  <2>4. qNext[t] = after /\ qPrev[t] = before
    BY <2>2, <2>3
  <2> QED BY <2>1, <2>2, <2>3, <2>4 DEF IsWaitList
<1>2. t \in ToSet(s) /\ t \in Sleepers
  <2> HIDE DEF s
  <2> QED BY <1>1 DEF ToSet
<1>3. before \in ToSet(s) \cup {NULL} /\ after \in ToSet(s) \cup {NULL}
         /\ ToSet(s) \subseteq Sleepers
  <2>1. (k # 1 => k - 1 \in 1..Len(s)) /\ (k # Len(s) => k + 1 \in 1..Len(s))
    BY <1>1
  <2> HIDE DEF s
  <2>2. \A j \in 1..Len(s) : s[j] \in ToSet(s)
    BY DEF ToSet
  <2>3. ToSet(s) \subseteq Sleepers
    BY <1>1 DEF ToSet
  <2> QED BY <2>1, <2>2, <2>3
<1>4. (qHead[q] = t <=> before = NULL) /\ (qTail[q] = t <=> after = NULL)
  <2>1. (k # 1 => k - 1 \in 1..Len(s)) /\ (k # Len(s) => k + 1 \in 1..Len(s))
    BY <1>1
  <2>2. 1 \in 1..Len(s) /\ Len(s) \in 1..Len(s)
    BY <1>1
  <2>3. (before = NULL <=> k = 1) /\ (after = NULL <=> k = Len(s))
    BY <1>1, <2>1
  <2>4. (s[1] = t <=> k = 1) /\ (s[Len(s)] = t <=> k = Len(s))
    <3> HIDE DEF s
    <3> QED BY <1>1, <2>2 DEF EachOnce
  <2> QED BY <1>1, <2>3, <2>4
<1>5. /\ before \in Sleepers \cup {NULL} /\ after \in Sleepers \cup {NULL}
  BY <1>3
<1>6. /\ qHead' = (IF before = NULL THEN [qHead EXCEPT ![q] = after] ELSE qHead)
      /\ qTail' = (IF after = NULL THEN [qTail EXCEPT ![q] = before] ELSE qTail)
      /\ qNext' = (IF before = NULL THEN qNext ELSE [qNext EXCEPT ![before] = after])
      /\ qPrev' = (IF after = NULL THEN qPrev ELSE [qPrev EXCEPT ![after] = before])
  <2>1. t \in Queues!ToSet(Queues!Chain(q))
    BY <1>2, SameQueueOperators DEF Waiting
  <2>2. /\ qHead' = (IF qHead[q] = t THEN [qHead EXCEPT ![q] = qNext[t]] ELSE qHead)
        /\ qTail' = (IF qTail[q] = t THEN [qTail EXCEPT ![q] = qPrev[t]] ELSE qTail)
        /\ qNext' = (IF qHead[q] = t THEN qNext ELSE Queues!SetLink(qNext, qPrev[t], qNext[t]))
        /\ qPrev' = (IF qTail[q] = t THEN qPrev ELSE Queues!SetLink(qPrev, qNext[t], qPrev[t]))
    BY <2>1 DEF Queues!OSi_RemoveSpecifiedLinkFromQueue
  <2> HIDE DEF t, before, after
  <2> QED BY <1>1, <1>4, <2>2 DEF Queues!SetLink
<1>7. LinkTypes
  BY DEF QueuesOK, QueueTypes, LinkTypes
<1>8. LinkTypes'
  <2> HIDE DEF before, after
  <2> QED BY <1>5, <1>6, <1>7 DEF LinkTypes
<1>9. \A x \in Sleepers : /\ qNext'[x] = IF x = before THEN after ELSE qNext[x]
                         /\ qPrev'[x] = IF x = after THEN before ELSE qPrev[x]
  <2> HIDE DEF before, after
  <2> QED BY <1>1, <1>5, <1>6, <1>7 DEF LinkTypes
<1>10. Waiting(q)' = RemoveAt(s, k) /\ IsWaitList(WaitList(q), Waiting(q))'
  <2> DEFINE old == WaitList(q)
             r == [head |-> qHead'[q], tail |-> qTail'[q], next |-> qNext', prev |-> qPrev']
  <2> HIDE DEF before, after
  <2>1. /\ r.head = IF before = NULL THEN after ELSE old.head
        /\ r.tail = IF after = NULL THEN before ELSE old.tail
    BY <1>6, <1>7 DEF WaitList, LinkTypes
  <2>2. \A x \in Sleepers \ {s[k]} :
          /\ r.next[x] = IF x = before THEN after ELSE old.next[x]
          /\ r.prev[x] = IF x = after THEN before ELSE old.prev[x]
    BY <1>9 DEF WaitList
  <2>3. WaitList(q)' = r
    BY DEF WaitList
  <2>4. /\ before = (IF k = 1 THEN NULL ELSE s[k - 1])
        /\ after = IF k = Len(s) THEN NULL ELSE s[k + 1]
    BY DEF before, after
  <2>5. IsListOf(old, s, Sleepers, NULL) /\ NULL \notin Sleepers /\ k \in 1..Len(s)
    BY <1>1
  <2> HIDE DEF s, old, r
  <2>6. IsListOf(r, RemoveAt(s, k), Sleepers, NULL)
    BY ONLY <2>1, <2>2, <2>4, <2>5, ListRemoved
  <2> QED BY <2>3, <2>6, WaitingAfter DEF IsWaitList
<1>11. ASSUME NEW p \in Queue, p # q
       PROVE  Waiting(p)' = Waiting(p) /\ IsWaitList(WaitList(p), Waiting(p))'
  <2> HIDE DEF before, after
  <2>1. qHead'[p] = qHead[p] /\ qTail'[p] = qTail[p]
    BY <1>6, <1>7, <1>11 DEF LinkTypes
  <2>2. ASSUME NEW x \in ToSet(Waiting(p)) PROVE x \in Sleepers /\ x \notin {before, after}
    <3>1. x \in Sleepers /\ x # NULL
      BY <1>1 DEF QueuesOK, IsWaitList, IsListOf, ToSet
    <3>2. qOf[x] = p /\ \A y \in ToSet(s) : qOf[y] = q
      BY DEF QueuesOK
    <3>3. x \notin ToSet(s)
      BY <1>11, <3>2
    <3> QED BY <1>3, <3>1, <3>3
  <2> QED BY <1>9, <2>1, <2>2, OthersStay
<1> QED BY <1>8, <1>10, <1>11

\* At first every queue is empty.
LEMMA QueuesStart ==
  ASSUME SleeperAssumption, Queues!Init
  PROVE  QueuesOK /\ Queues!Order!Init
<1>1. QueueTypes
  BY DEF Queues!Init, QueueTypes
<1>2. ASSUME NEW q \in Queue
      PROVE  /\ IsWaitList(WaitList(q), Waiting(q)) /\ Waiting(q) = <<>>
             /\ InOrder(Waiting(q), qPriority) /\ ToSet(Waiting(q)) = {}
  <2> DEFINE s == <<>>
  <2>1. s \in Seq(Sleepers) /\ Len(s) = 0
    OBVIOUS
  <2> HIDE DEF s
  <2>2. IsWaitList(WaitList(q), s)
    <3>1. qHead[q] = NULL /\ qTail[q] = NULL
      BY DEF Queues!Init
    <3>2. s = <<>>
      BY DEF s
    <3> QED BY <2>1, <3>1, <3>2 DEF IsWaitList, IsListOf, Follows, EachOnce, WaitList
  <2>3. Waiting(q) = s
    BY <2>2, WaitListFound DEF Waiting, Queues!Chain, WaitList
  <2>4. InOrder(s, qPriority) /\ ToSet(s) = {}
    BY <2>1 DEF InOrder, ToSet
  <2> QED BY <2>2, <2>3, <2>4 DEF s
<1>3. QueuesOK
  BY <1>1, <1>2 DEF QueuesOK
<1>4. Queues!Order!Init
  BY <1>2 DEF Queues!Order!Init, Waiting
<1> QED BY <1>3, <1>4

\* A thread goes behind those that are as urgent, unless it is there.
LEMMA SleepKeepsQueues ==
  ASSUME SleeperAssumption, QueuesOK, NEW t \in Sleepers, NEW q \in Queue,
         Queues!OS_SleepThread(t, q)
  PROVE  QueuesOK' /\ Queues!Order!Sleep(t, q)
<1> DEFINE s == Waiting(q)
           S == {i \in 1..Len(s) : qPriority[s[i]] > qPriority[t]}
           place == Min(S \cup {Len(s) + 1})
<1>1. /\ QueueTypes /\ IsWaitList(WaitList(q), s) /\ InOrder(s, qPriority)
      /\ s \in Seq(Sleepers) /\ Len(s) \in Nat /\ EachOnce(s)
  BY DEF QueuesOK, IsWaitList, IsListOf
<1>2. /\ t \in qLive /\ qOf' = [qOf EXCEPT ![t] = q]
      /\ qPriority' = qPriority /\ qLive' = qLive
      /\ Queues!Linked(t) => qOf[t] = q
      /\ Queues!OSi_InsertLinkToQueue(q, t)
  BY DEF Queues!OS_SleepThread
<1>3. \A p \in Queue : p # q => t \notin ToSet(Waiting(p))
  <2> SUFFICES ASSUME NEW p \in Queue, p # q, t \in ToSet(Waiting(p)) PROVE FALSE
    OBVIOUS
  <2>1. Queues!Linked(t)
    BY SameQueueOperators DEF Queues!Linked, Waiting
  <2> QED BY <1>2, <2>1 DEF QueuesOK
<1>4. /\ qPriority \in [Sleepers -> Int]
      /\ \A i \in 1..Len(s) : s[i] \in Sleepers /\ qPriority[s[i]] \in Nat /\ qPriority[t] \in Nat
  <2>1. qPriority \in [Sleepers -> Nat]
    BY <1>1 DEF QueueTypes, SleeperAssumption
  <2> HIDE DEF s
  <2>2. \A i \in 1..Len(s) : s[i] \in Sleepers
    BY <1>1
  <2> QED BY <2>1, <2>2
<1>5. /\ place \in 1..Len(s) + 1
      /\ \A j \in 1..Len(s) : j < place => j \notin S
      /\ place \in S \/ place = Len(s) + 1
  <2>1. S \in SUBSET (1..Len(s)) /\ Len(s) \in Nat
    BY <1>1
  <2> DEFINE n == Len(s)
  <2> HIDE DEF S, n
  <2>2. /\ Min(S \cup {n + 1}) \in 1..n + 1
        /\ \A j \in 1..n : j < Min(S \cup {n + 1}) => j \notin S
        /\ Min(S \cup {n + 1}) \in S \/ Min(S \cup {n + 1}) = n + 1
    BY <2>1, PlaceInRange, Zenon DEF n
  <2> QED BY <2>2 DEF n
<1> HIDE DEF place
<1>6. \A j \in 1..Len(s) : /\ j < place => qPriority[s[j]] <= qPriority[t]
                           /\ j >= place => qPriority[s[j]] > qPriority[t]
  <2> SUFFICES ASSUME NEW j \in 1..Len(s)
               PROVE  /\ j < place => qPriority[s[j]] <= qPriority[t]
                      /\ j >= place => qPriority[s[j]] > qPriority[t]
    OBVIOUS
  <2>1. CASE j < place
    BY <1>4, <1>5, <2>1
  <2>2. CASE j >= place
    <3>1. place \in 1..Len(s) /\ qPriority[s[place]] > qPriority[t]
      BY <1>1, <1>5, <2>2
    <3>2. qPriority[s[place]] <= qPriority[s[j]]
      <4>1. CASE place = j
        BY <1>4, <4>1
      <4>2. CASE place < j
        BY <1>1, <3>1, <4>2 DEF InOrder
      <4> QED BY <2>2, <3>1, <4>1, <4>2
    <3> QED BY <1>4, <2>2, <3>1, <3>2
  <2> QED BY <1>5, <2>1, <2>2
<1>7. t \in ToSet(SubSeq(s, 1, place - 1)) <=> \E i \in 1..(place - 1) : s[i] = t
  <2> HIDE DEF s
  <2>1. /\ SubSeq(s, 1, place - 1) \in Seq(Sleepers) /\ Len(SubSeq(s, 1, place - 1)) = place - 1
        /\ \A i \in 1..place - 1 : SubSeq(s, 1, place - 1)[i] = s[i]
    BY <1>1, <1>5, SubSeqProperties
  <2> QED BY <2>1 DEF ToSet
<1>8. /\ Queues!Chain(q) = s
      /\ Queues!Min({i \in 1..Len(s) : qPriority[s[i]] > qPriority[t]} \cup {Len(s) + 1}) = place
  BY SameQueueOperators DEF Waiting, place
<1>9. Queues!Order!OSi_InsertLinkToQueue(s, qPriority, t) =
        IF \E i \in 1..(place - 1) : s[i] = t THEN s ELSE InsertAt(s, place, t)
  BY SameQueueOperators DEF Queues!Order!OSi_InsertLinkToQueue, place
<1>10. ASSUME LinkTypes',
              \A p \in Queue : /\ IsWaitList(WaitList(p), Waiting(p))'
                               /\ p # q => Waiting(p)' = Waiting(p),
              ToSet(Waiting(q)') \subseteq ToSet(s) \cup {t}, InOrder(Waiting(q)', qPriority)
       PROVE  QueuesOK'
  <2>1. QueueTypes'
    BY <1>1, <1>2, <1>10 DEF QueueTypes, LinkTypes
  <2>2. ASSUME NEW p \in Queue
        PROVE  /\ InOrder(Waiting(p)', qPriority)
               /\ \A x \in ToSet(Waiting(p)') : qOf'[x] = p /\ x \in qLive
    <3>1. \A x \in ToSet(Waiting(p)) : x \in Sleepers /\ qOf[x] = p /\ x \in qLive
      BY DEF QueuesOK, QueueTypes
    <3>2. CASE p = q
      BY <1>1, <1>2, <1>10, <3>1, <3>2 DEF QueueTypes
    <3>3. CASE p # q
      <4>1. Waiting(p)' = Waiting(p) /\ t \notin ToSet(Waiting(p))
        BY <1>3, <1>10, <3>3
      <4>2. InOrder(Waiting(p), qPriority)
        BY DEF QueuesOK
      <4> QED BY <1>1, <1>2, <3>1, <4>1, <4>2 DEF QueueTypes
    <3> QED BY <3>2, <3>3
  <2> QED BY <1>2, <1>10, <2>1, <2>2 DEF QueuesOK
<1>11. ASSUME \A p \in Queue : p # q => Waiting(p)' = Waiting(p),
              Waiting(q)' = Queues!Order!OSi_InsertLinkToQueue(s, qPriority, t)
       PROVE  Queues!Order!Sleep(t, q)
  BY <1>2, <1>11 DEF Queues!Order!Sleep, Waiting
<1>12. CASE \E i \in 1..(place - 1) : s[i] = t
  <2>1. qHead' = qHead /\ qTail' = qTail /\ qNext' = qNext /\ qPrev' = qPrev
    BY <1>2, <1>7, <1>8, <1>12, SameQueueOperators DEF Queues!OSi_InsertLinkToQueue
  <2>2. LinkTypes'
    BY <1>1, <2>1 DEF LinkTypes, QueueTypes
  <2>3. \A p \in Queue : Waiting(p)' = Waiting(p) /\ IsWaitList(WaitList(p), Waiting(p))'
    BY <2>1, OthersStay
  <2> QED BY <1>1, <1>9, <1>10, <1>11, <1>12, <2>2, <2>3
<1>13. CASE ~\E i \in 1..(place - 1) : s[i] = t
  <2>1. \A i \in 1..Len(s) : s[i] # t
    <3> SUFFICES ASSUME NEW i \in 1..Len(s), s[i] = t PROVE FALSE
      OBVIOUS
    <3>1. i >= place => qPriority[s[i]] > qPriority[t]
      BY <1>6
    <3> QED BY <1>4, <1>5, <1>13, <3>1
  <2>2. \A p \in Queue : t \notin ToSet(Waiting(p))
    BY <1>3, <2>1 DEF ToSet
  <2> DEFINE before == IF place = 1 THEN NULL ELSE s[place - 1]
             after == IF place = Len(s) + 1 THEN NULL ELSE s[place]
  <2>3. Queues!Link(q, t, before, after)
    <3>1. IF place = Len(s) + 1
          THEN Queues!Link(q, t, qTail[q], NULL)
          ELSE Queues!Link(q, t, qPrev[s[place]], s[place])
      BY <1>2, <1>7, <1>8, <1>13, SameQueueOperators DEF Queues!OSi_InsertLinkToQueue
    <3>2. /\ qTail[q] = IF s = <<>> THEN NULL ELSE s[Len(s)]
          /\ \A i \in 1..Len(s) : qPrev[s[i]] = IF i = 1 THEN NULL ELSE s[i - 1]
      BY <1>1 DEF IsWaitList, IsListOf, WaitList
    <3>3. CASE place = Len(s) + 1
      <4>1. place = 1 <=> s = <<>>
        BY <1>1, <3>3
      <4>2. place - 1 = Len(s)
        BY <1>1, <3>3
      <4>3. before = qTail[q] /\ after = NULL
        BY <3>2, <3>3, <4>1, <4>2
      <4> QED BY <3>1, <3>3, <4>3
    <3>4. CASE place # Len(s) + 1
      <4>1. place \in 1..Len(s)
        BY <1>1, <1>5, <3>4
      <4>2. before = qPrev[s[place]] /\ after = s[place]
        BY <3>2, <3>4, <4>1
      <4> QED BY <3>1, <3>4, <4>2
    <3> QED BY <3>3, <3>4
  <2>4. /\ LinkTypes' /\ Waiting(q)' = InsertAt(s, place, t)
        /\ \A p \in Queue : /\ IsWaitList(WaitList(p), Waiting(p))'
                            /\ p # q => Waiting(p)' = Waiting(p)
    BY <1>5, <2>2, <2>3, ThreadLinked
  <2> HIDE DEF s, before, after
  <2>5. ToSet(InsertAt(s, place, t)) = ToSet(s) \cup {t}
    BY <1>1, <1>5, InsertAtMembers
  <2>6. InOrder(InsertAt(s, place, t), qPriority)
    <3>1. \A j \in 1..Len(s) : /\ j < place => qPriority[s[j]] <= qPriority[t]
                               /\ j >= place => qPriority[t] <= qPriority[s[j]]
      BY <1>4, <1>6
    <3> QED BY ONLY t \in Sleepers, <1>1, <1>4, <1>5, <3>1, InsertInOrder
  <2> QED BY <1>9, <1>10, <1>11, <1>13, <2>4, <2>5, <2>6
<1> QED BY <1>12, <1>13

\* One queue is emptied, the others do not feel it.
LEMMA WakeupKeepsQueues ==
  ASSUME SleeperAssumption, QueuesOK, NEW q \in Queue, Queues!OS_WakeupThread(q)
  PROVE  QueuesOK' /\ Queues!Order!Wakeup(q)
<1> DEFINE woken == ToSet(Waiting(q))
<1>1. /\ qHead' = [qHead EXCEPT ![q] = NULL] /\ qTail' = [qTail EXCEPT ![q] = NULL]
      /\ qNext' = [t \in Sleepers |-> IF t \in woken THEN NULL ELSE qNext[t]]
      /\ qPrev' = [t \in Sleepers |-> IF t \in woken THEN NULL ELSE qPrev[t]]
      /\ qOf' = [t \in Sleepers |-> IF t \in woken THEN NULL ELSE qOf[t]]
      /\ qPriority' = qPriority /\ qLive' = qLive
  BY SameQueueOperators DEF Queues!OS_WakeupThread, Waiting
<1> HIDE DEF woken
<1>2. QueueTypes'
  BY <1>1 DEF QueuesOK, QueueTypes
<1>3. Waiting(q)' = <<>> /\ IsWaitList(WaitList(q), Waiting(q))'
  <2> DEFINE s == <<>>
  <2>1. s \in Seq(Sleepers) /\ Len(s) = 0 /\ s = <<>>
    OBVIOUS
  <2> HIDE DEF s
  <2>2. WaitList(q)' = [head |-> qHead'[q], tail |-> qTail'[q], next |-> qNext', prev |-> qPrev']
    BY DEF WaitList
  <2>3. qHead'[q] = NULL /\ qTail'[q] = NULL
    BY <1>1 DEF QueuesOK, QueueTypes
  <2>4. IsWaitList(WaitList(q)', s)
    BY <2>1, <2>2, <2>3 DEF IsWaitList, IsListOf, Follows, EachOnce
  <2> QED BY <2>1, <2>4, WaitingAfter
<1>4. ASSUME NEW p \in Queue, p # q
      PROVE  /\ Waiting(p)' = Waiting(p) /\ IsWaitList(WaitList(p), Waiting(p))'
             /\ \A x \in ToSet(Waiting(p)) : qOf'[x] = p
  <2>1. qHead'[p] = qHead[p] /\ qTail'[p] = qTail[p]
    BY <1>1, <1>4 DEF QueuesOK, QueueTypes
  <2>2. \A x \in ToSet(Waiting(p)) : x \in Sleepers /\ qOf[x] = p /\ x \notin woken
    BY <1>4 DEF QueuesOK, QueueTypes, woken
  <2>3. \A x \in ToSet(Waiting(p)) :
          qNext'[x] = qNext[x] /\ qPrev'[x] = qPrev[x] /\ qOf'[x] = qOf[x]
    BY <1>1, <2>2
  <2> QED BY <2>1, <2>2, <2>3, OthersStay
<1>5. ASSUME NEW p \in Queue
      PROVE  /\ IsWaitList(WaitList(p), Waiting(p))' /\ InOrder(Waiting(p)', qPriority)
             /\ \A x \in ToSet(Waiting(p)') : qOf'[x] = p /\ x \in qLive
  <2>1. CASE p = q
    <3> DEFINE s == <<>>
    <3>1. Len(s) = 0
      OBVIOUS
    <3> HIDE DEF s
    <3>2. InOrder(s, qPriority) /\ ToSet(s) = {}
      BY <3>1 DEF InOrder, ToSet
    <3> QED BY <1>3, <2>1, <3>2 DEF s
  <2>2. CASE p # q
    BY <1>4, <2>2 DEF QueuesOK
  <2> QED BY <2>1, <2>2
<1>6. QueuesOK'
  BY <1>1, <1>2, <1>5 DEF QueuesOK
<1>7. Queues!Order!Wakeup(q)
  BY <1>1, <1>3, <1>4 DEF Queues!Order!Wakeup, Waiting
<1> QED BY <1>6, <1>7

\* Nothing goes out of a sequence in which it is not.
LEMMA NothingToRemove ==
  ASSUME NEW T, NEW s \in Seq(T), NEW e, e \notin ToSet(s)
  PROVE  RemoveFirst(s, e) = s
<1>1. \A i \in 1..Len(s) : s[i] # e
  BY DEF ToSet
<1> QED BY <1>1, RemoveFirstFacts

\* A thread that ends goes out of the queue it knows, the only one it can be in.
LEMMA EndKeepsQueues ==
  ASSUME SleeperAssumption, QueuesOK, NEW t \in Sleepers, Queues!OSi_ExitThread_Destroy(t)
  PROVE  QueuesOK' /\ Queues!Order!End(t)
<1>1. /\ qOf' = qOf /\ qPriority' = qPriority /\ qLive' = qLive \ {t}
      /\ IF qOf[t] # NULL
         THEN Queues!OSi_RemoveSpecifiedLinkFromQueue(qOf[t], t)
         ELSE qHead' = qHead /\ qTail' = qTail /\ qNext' = qNext /\ qPrev' = qPrev
  BY DEF Queues!OSi_ExitThread_Destroy
<1>2. \A p \in Queue : /\ Waiting(p) \in Seq(Sleepers) /\ EachOnce(Waiting(p))
                       /\ t \in ToSet(Waiting(p)) => qOf[t] = p /\ p # NULL
  BY DEF QueuesOK, IsWaitList, IsListOf, SleeperAssumption
<1>3. /\ LinkTypes'
      /\ \A p \in Queue : /\ IsWaitList(WaitList(p), Waiting(p))'
                          /\ Waiting(p)' = RemoveFirst(Waiting(p), t)
  <2>1. CASE \E q \in Queue : t \in ToSet(Waiting(q))
    <3>1. PICK q \in Queue : t \in ToSet(Waiting(q))
      BY <2>1
    <3>2. PICK k \in 1..Len(Waiting(q)) : Waiting(q)[k] = t
      BY <1>2, <3>1 DEF ToSet
    <3>3. Queues!OSi_RemoveSpecifiedLinkFromQueue(q, Waiting(q)[k])
      BY <1>1, <1>2, <3>1, <3>2
    <3>4. /\ LinkTypes'
          /\ Waiting(q)' = RemoveAt(Waiting(q), k)
          /\ \A p \in Queue : /\ IsWaitList(WaitList(p), Waiting(p))'
                              /\ p # q => Waiting(p)' = Waiting(p)
      BY <3>3, WaiterUnlinked
    <3>5. RemoveFirst(Waiting(q), t) = RemoveAt(Waiting(q), k)
      BY <1>2, <3>2, TakenOut
    <3>6. \A p \in Queue : p # q => RemoveFirst(Waiting(p), t) = Waiting(p)
      BY <1>2, <3>1, NothingToRemove
    <3> QED BY <3>4, <3>5, <3>6
  <2>2. CASE ~\E q \in Queue : t \in ToSet(Waiting(q))
    <3>1. qHead' = qHead /\ qTail' = qTail /\ qNext' = qNext /\ qPrev' = qPrev
      <4>1. CASE qOf[t] = NULL
        BY <1>1, <4>1
      <4>2. CASE qOf[t] # NULL
        <5>1. qOf[t] \in Queue
          BY <4>2 DEF QueuesOK, QueueTypes
        <5>2. t \notin Queues!ToSet(Queues!Chain(qOf[t]))
          BY <2>2, <5>1, SameQueueOperators DEF Waiting
        <5> QED BY <1>1, <4>2, <5>2 DEF Queues!OSi_RemoveSpecifiedLinkFromQueue
      <4> QED BY <4>1, <4>2
    <3>2. LinkTypes'
      BY <3>1 DEF QueuesOK, QueueTypes, LinkTypes
    <3>3. \A p \in Queue : Waiting(p)' = Waiting(p) /\ IsWaitList(WaitList(p), Waiting(p))'
      BY <3>1, OthersStay
    <3>4. \A p \in Queue : RemoveFirst(Waiting(p), t) = Waiting(p)
      BY <1>2, <2>2, NothingToRemove
    <3> QED BY <3>2, <3>3, <3>4
  <2> QED BY <2>1, <2>2
<1>4. QueueTypes'
  BY <1>1, <1>3 DEF QueuesOK, QueueTypes, LinkTypes
<1>5. ASSUME NEW p \in Queue
      PROVE  /\ InOrder(Waiting(p)', qPriority)
             /\ \A x \in ToSet(Waiting(p)') : qOf[x] = p /\ x \in qLive \ {t}
  <2> DEFINE s == Waiting(p)
  <2>1. s \in Seq(Sleepers) /\ EachOnce(s) /\ Waiting(p)' = RemoveFirst(s, t)
    BY <1>2, <1>3
  <2>2. InOrder(s, qPriority) /\ \A x \in ToSet(s) : qOf[x] = p /\ x \in qLive
    BY DEF QueuesOK
  <2>3. qPriority \in [Sleepers -> Nat]
    BY DEF QueuesOK, QueueTypes, SleeperAssumption
  <2> HIDE DEF s
  <2>4. InOrder(RemoveFirst(s, t), qPriority)
    BY ONLY <2>1, <2>2, <2>3, RemoveInOrder
  <2>5. ToSet(RemoveFirst(s, t)) = ToSet(s) \ {t}
    BY <2>1, RemoveFirstOnce
  <2> QED BY <2>1, <2>2, <2>4, <2>5
<1>6. QueuesOK'
  BY <1>1, <1>3, <1>4, <1>5 DEF QueuesOK
<1>7. Queues!Order!End(t)
  BY <1>1, <1>3, SameQueueRemoveFirst DEF Queues!Order!End, Waiting
<1> QED BY <1>6, <1>7

\* A thread that is in no queue may be made anew or get another priority.
LEMMA ChangeKeepsQueues ==
  ASSUME SleeperAssumption, QueuesOK, NEW t \in Sleepers, NEW prio \in QueuePriorities,
         Queues!OS_CreateThread(t, prio) \/ Queues!OS_SetThreadPriority(t, prio)
  PROVE  QueuesOK' /\ Queues!Order!Change(t)
<1>1. /\ qHead' = qHead /\ qTail' = qTail
      /\ qPriority' = [qPriority EXCEPT ![t] = prio] /\ qLive' = qLive \cup {t}
      /\ \A x \in Sleepers \ {t} : qNext'[x] = qNext[x] /\ qPrev'[x] = qPrev[x] /\ qOf'[x] = qOf[x]
  BY DEF Queues!OS_CreateThread, Queues!OS_SetThreadPriority, QueuesOK, QueueTypes
<1>2. QueueTypes'
  BY DEF Queues!OS_CreateThread, Queues!OS_SetThreadPriority, QueuesOK, QueueTypes
<1>3. \A p \in Queue : t \notin ToSet(Waiting(p))
  <2>1. CASE Queues!OS_CreateThread(t, prio)
    BY <2>1 DEF Queues!OS_CreateThread, QueuesOK
  <2>2. CASE Queues!OS_SetThreadPriority(t, prio)
    BY <2>2, SameQueueOperators DEF Queues!OS_SetThreadPriority, Queues!Linked, Waiting
  <2> QED BY <2>1, <2>2
<1>4. ASSUME NEW p \in Queue
      PROVE  /\ Waiting(p)' = Waiting(p) /\ IsWaitList(WaitList(p), Waiting(p))'
             /\ InOrder(Waiting(p), qPriority')
             /\ \A x \in ToSet(Waiting(p)) : qOf'[x] = p /\ x \in qLive'
  <2> DEFINE s == Waiting(p)
  <2>1. s \in Seq(Sleepers) /\ \A x \in ToSet(s) : qOf[x] = p /\ x \in qLive
    BY DEF QueuesOK, IsWaitList, IsListOf
  <2>2. InOrder(s, qPriority) /\ qPriority \in [Sleepers -> QueuePriorities]
    BY DEF QueuesOK, QueueTypes
  <2> HIDE DEF s
  <2>3. ToSet(s) \subseteq Sleepers /\ \A i \in 1..Len(s) : s[i] \in ToSet(s)
    BY <2>1 DEF ToSet
  <2>4. \A x \in ToSet(s) : x \in Sleepers \ {t} /\ qPriority'[x] = qPriority[x]
    BY <1>1, <1>3, <2>2, <2>3 DEF s
  <2>5. InOrder(s, qPriority')
    BY <2>2, <2>3, <2>4 DEF InOrder
  <2>6. /\ \A x \in ToSet(s) : qNext'[x] = qNext[x] /\ qPrev'[x] = qPrev[x]
        /\ \A x \in ToSet(s) : qOf'[x] = p /\ x \in qLive'
    BY <1>1, <2>1, <2>4
  <2>7. Waiting(p)' = s /\ IsWaitList(WaitList(p), Waiting(p))'
    BY <1>1, <2>6, OthersStay DEF s
  <2> QED BY <2>5, <2>6, <2>7 DEF s
<1>5. QueuesOK'
  BY <1>2, <1>4 DEF QueuesOK
<1>6. ~Queues!Order!Linked(t)
  BY <1>3, SameQueueOperators DEF Queues!Order!Linked, Waiting
<1>7. \A u \in Sleepers \ {t} : qPriority'[u] = qPriority[u]
  BY <1>1 DEF QueuesOK, QueueTypes
<1>8. [p \in Queue |-> Queues!Chain(p)]' = [p \in Queue |-> Queues!Chain(p)]
  BY <1>4 DEF Waiting
<1> QED BY <1>1, <1>5, <1>6, <1>7, <1>8 DEF Queues!Order!Change

\* A step of the queues is one of the sequences.
LEMMA QueuesStep ==
  ASSUME SleeperAssumption, QueuesOK, Queues!Next
  PROVE  QueuesOK' /\ Queues!Order!Next
<1>1. ASSUME NEW t \in Sleepers, NEW prio \in QueuePriorities,
             Queues!OS_CreateThread(t, prio) \/ Queues!OS_SetThreadPriority(t, prio)
      PROVE  QueuesOK' /\ Queues!Order!Next
  BY <1>1, ChangeKeepsQueues DEF Queues!Order!Next, SleeperAssumption
<1>2. ASSUME NEW t \in Sleepers, NEW q \in Queue, Queues!OS_SleepThread(t, q)
      PROVE  QueuesOK' /\ Queues!Order!Next
  BY <1>2, SleepKeepsQueues DEF Queues!Order!Next
<1>3. ASSUME NEW q \in Queue, Queues!OS_WakeupThread(q)
      PROVE  QueuesOK' /\ Queues!Order!Next
  <2>1. \E t \in Sleepers : TRUE
    <3>1. qHead[q] \in Sleepers
      BY <1>3 DEF Queues!OS_WakeupThread, QueuesOK, QueueTypes
    <3> QED BY <3>1
  <2> QED BY <1>3, <2>1, WakeupKeepsQueues DEF Queues!Order!Next
<1>4. ASSUME NEW t \in Sleepers, Queues!OSi_ExitThread_Destroy(t)
      PROVE  QueuesOK' /\ Queues!Order!Next
  BY <1>4, EndKeepsQueues DEF Queues!Order!Next, SleeperAssumption
<1> QED BY <1>1, <1>2, <1>3, <1>4 DEF Queues!Next

-----------------------------------------------------------------------------
(* Both parts.                                                                *)

LinksOK == ListOK /\ HeadsOK /\ QueuesOK

LEMMA LinksStart ==
  ASSUME ThreadListAssumption, SleeperAssumption, MCInit
  PROVE  LinksOK /\ Ordered!Init /\ Queues!Order!Init
BY ListStarts, QueuesStart DEF MCInit, LinksOK

LEMMA LinksStep ==
  ASSUME ThreadListAssumption, SleeperAssumption, Careful, LinksOK,
         [MCNext]_<<part, vars, qVars>>
  PROVE  /\ LinksOK'
         /\ [Ordered!Next]_<<Listed, priority>>
         /\ [Queues!Order!Next]_<<[q \in Queue |-> Queues!Chain(q)], qPriority, qLive>>
<1>1. ASSUME vars' = vars
      PROVE  ListOK' /\ HeadsOK' /\ Listed' = Listed /\ priority' = priority
  <2>1. links' = links /\ priority' = priority /\ live' = live /\ head' = head
    BY <1>1 DEF vars
  <2>2. Listed' = Listed
    BY <2>1 DEF Listed
  <2> QED BY <2>1, <2>2 DEF LinksOK, ListOK, HeadsOK
<1>2. ASSUME qVars' = qVars
      PROVE  QueuesOK' /\ UNCHANGED <<[q \in Queue |-> Queues!Chain(q)], qPriority, qLive>>
  <2>1. /\ qHead' = qHead /\ qTail' = qTail /\ qNext' = qNext /\ qPrev' = qPrev
        /\ qOf' = qOf /\ qPriority' = qPriority /\ qLive' = qLive
    BY <1>2 DEF qVars
  <2>2. \A q \in Queue : Waiting(q)' = Waiting(q) /\ IsWaitList(WaitList(q), Waiting(q))'
    BY <2>1, OthersStay DEF LinksOK
  <2>3. QueuesOK'
    BY <2>1, <2>2 DEF LinksOK, QueuesOK, QueueTypes
  <2> QED BY <2>1, <2>2, <2>3 DEF Waiting
<1>3. CASE part = "list" /\ Next /\ UNCHANGED <<part, qVars>>
  BY <1>2, <1>3, ListStep DEF LinksOK
<1>4. CASE part = "queues" /\ Queues!Next /\ UNCHANGED <<part, vars>>
  BY <1>1, <1>4, QueuesStep DEF LinksOK
<1>5. CASE UNCHANGED <<part, vars, qVars>>
  BY <1>1, <1>2, <1>5 DEF LinksOK
<1> QED BY <1>3, <1>4, <1>5 DEF MCNext

LEMMA LinksAlwaysOK == ASSUME Careful PROVE MCSpec => []LinksOK
<1>1. MCInit => LinksOK
  BY LinksStart, ThreadListAssumption, SleeperAssumption
<1>2. LinksOK /\ [MCNext]_<<part, vars, qVars>> => LinksOK'
  BY LinksStep, ThreadListAssumption, SleeperAssumption
<1> QED BY <1>1, <1>2, PTL DEF MCSpec

\* With any threads, priorities and queues, the links backwards of every wait
\* queue are those forwards reversed, whatever stale links there are.
THEOREM WaitersBackIsForth == ASSUME Careful PROVE MCSpec => []BackIsForth
<1>1. LinksOK => BackIsForth
  <2> SUFFICES ASSUME LinksOK PROVE BackIsForth
    OBVIOUS
  <2>1. links.first \in Thread
    <3> DEFINE s == Listed
    <3>1. s \in Seq(Thread) /\ links.first = IF s = <<>> THEN NULL ELSE s[1]
      BY DEF LinksOK, ListOK, IsThreadList, Follows
    <3>2. Idle \in ToSet(s)
      BY DEF LinksOK, ListOK
    <3> HIDE DEF s
    <3>3. s # <<>> /\ 1 \in 1..Len(s)
      BY <3>1, <3>2 DEF ToSet
    <3> QED BY <3>1, <3>3
  <2>2. TypeOK
    BY <2>1 DEF LinksOK, ListOK, HeadsOK, ListLinks, TypeOK
  <2> QED BY <2>2, BackIsForthHolds, SleeperAssumption DEF BackIsForth, LinksOK
<1> QED BY <1>1, LinksAlwaysOK, PTL

\* With any threads, priorities and queues, the linked lists do what OSThread
\* does with sequences, when callers of OS_SetThreadPriority see to it that the
\* head of the thread list stays.
THEOREM ListsKeepOrders == ASSUME Careful PROVE MCSpec => LinksKeepOrders
<1>1. MCInit => Ordered!Init /\ Queues!Order!Init
  BY LinksStart, ThreadListAssumption, SleeperAssumption
<1>2. LinksOK /\ [MCNext]_<<part, vars, qVars>>
        => /\ [Ordered!Next]_<<Path(links, links.first), priority>>
           /\ [Queues!Order!Next]_<<[q \in Queue |-> Queues!Chain(q)], qPriority, qLive>>
  BY LinksStep, ThreadListAssumption, SleeperAssumption DEF Listed
<1> QED
  BY <1>1, <1>2, LinksAlwaysOK, PTL
  DEF MCSpec, LinksKeepOrders, LinksKeepOrder, Ordered!Spec, Queues!LinksKeepOrder,
      Queues!Order!Spec
=============================================================================
