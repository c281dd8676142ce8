---------------------------- MODULE OSThreadList ----------------------------
(* The thread list of libraries/os/src/os_thread.c with its links, and the    *)
(* calls that change it.  They run with interrupts disabled, but              *)
(* OS_SetThreadPriority reads the head of the list before it disables them:   *)
(* when its caller has not done so, an interrupt may come after that, and     *)
(* other threads run before the call goes on.                                 *)

EXTENDS Naturals, SequencesExt

CONSTANTS
  Thread,
  Launcher,    \* OSi_LauncherThread
  Idle,        \* OSi_IdleThread
  Priorities,  \* OS_THREAD_PRIORITY_MIN..OS_THREAD_PRIORITY_MAX
  Lasting,     \* the threads that never end
  Careful,     \* see HeadStays
  NULL

ASSUME ThreadListAssumption ==
  /\ IsFiniteSet(Thread)
  /\ Launcher \in Thread /\ Idle \in Lasting /\ Lasting \subseteq Thread
  /\ Launcher # Idle
  /\ Priorities \subseteq Nat /\ Max(Priorities) \div 2 \in Priorities
  /\ Careful \in BOOLEAN
  /\ NULL \notin Thread

VARIABLES
  links,     \* OSi_ThreadInfo.list as first, and OSThread.next
  priority,  \* OSThread.priority
  live,      \* the threads created and not terminated
  head       \* per thread: what it has read in OS_SetThreadPriority, or NULL

vars == <<links, priority, live, head>>

TypeOK ==
  /\ links \in [first : Thread, next : [Thread -> Thread \cup {NULL}]]
  /\ priority \in [Thread -> Priorities \cup {Max(Priorities) + 1}]
  /\ live \subseteq Thread
  /\ head \in [Thread -> Thread \cup {NULL}]

\* OS_InitThread; the launcher has a priority in the middle.
Init ==
  /\ links = [first |-> Launcher, next |-> [t \in Thread |-> IF t = Launcher THEN Idle ELSE NULL]]
  /\ priority = [t \in Thread |-> IF t = Idle THEN Max(Priorities) + 1 ELSE Max(Priorities) \div 2]
  /\ live = {Launcher, Idle}
  /\ head = [t \in Thread |-> NULL]

-----------------------------------------------------------------------------
(* The loops and assignments of the code.                                     *)

\* The threads a loop finds that begins with t.
Path(l, t) ==
  LET node[n \in 1..Cardinality(Thread)] ==
        IF n = 1 THEN t
        ELSE IF node[n - 1] = NULL THEN NULL ELSE l.next[node[n - 1]]
  IN [n \in 1..Cardinality({i \in DOMAIN node : node[i] # NULL}) |-> node[n]]

\* The thread before place i of a path, or NULL.
Before(path, i) == IF i = 1 THEN NULL ELSE path[i - 1]

Place(path, t) == CHOOSE i \in 1..Len(path) : path[i] = t

\* A slip one could make here, which no action of Next uses: behind threads of the
\* same priority instead of before them.  LinksKeepOrder is checked to fail then.

InsertBehindEqual(l, prio, t) ==
  LET path == Path(l, l.first)
      i == Min({j \in 1..Len(path) : prio[path[j]] > prio[t]} \cup {Len(path) + 1})
      pre == Before(path, i)
  IN IF pre = NULL
     THEN [l EXCEPT !.first = t, !.next[t] = l.first]
     ELSE [l EXCEPT !.next[t] = l.next[pre], !.next[pre] = t]

\* Thread t goes out of the list, behind pre or at the head.
Unlink(l, pre, t) ==
  IF pre = NULL THEN [l EXCEPT !.first = l.next[t]] ELSE [l EXCEPT !.next[pre] = l.next[t]]

LinkBehind(l, pre, t) ==
  IF pre = NULL
  THEN [l EXCEPT !.first = t, !.next[t] = l.first]
  ELSE [l EXCEPT !.next[t] = l.next[pre], !.next[pre] = t]

OSi_InsertThreadToList(l, prio, t) ==
  LET path == Path(l, l.first)
      i == Min({j \in 1..Len(path) : prio[path[j]] >= prio[t]} \cup {Len(path) + 1})
  IN LinkBehind(l, Before(path, i), t)

-----------------------------------------------------------------------------
(* The calls.                                                                 *)

OS_CreateThread(t, prio) ==
  /\ t \notin live
  /\ priority' = [priority EXCEPT ![t] = prio]
  /\ links' = OSi_InsertThreadToList(links, priority', t)
  /\ live' = live \cup {t}
  /\ UNCHANGED head

\* OSi_ExitThread_Destroy and OS_DestroyThread; the program stops where the
\* thread is not found (SDK_ASSERTMSG).
OSi_RemoveThreadFromList(t) ==
  LET path == Path(links, links.first)
  IN /\ t \in live \ Lasting
     /\ t \in ToSet(path)
     /\ links' = Unlink(links, Before(path, Place(path, t)), t)
     /\ live' = live \ {t}
     /\ head' = [head EXCEPT ![t] = NULL]
     /\ UNCHANGED priority

\* What OS_SetThreadPriority does after it has read the head of the list.
Reprioritize(from, t, prio) ==
  LET path == Path(links, from)
  IN IF t # Idle /\ t \in ToSet(path) /\ priority[t] # prio
     THEN /\ priority' = [priority EXCEPT ![t] = prio]
          /\ links' = OSi_InsertThreadToList(Unlink(links, Before(path, Place(path, t)), t),
                                             priority', t)
     ELSE UNCHANGED <<links, priority>>

\* An interrupt comes between the two; by the thread's next step the others may
\* have made any calls.
ReadHead(c) ==
  /\ c \in live \ {Idle} /\ head[c] = NULL
  /\ head' = [head EXCEPT ![c] = links.first]
  /\ UNCHANGED <<links, priority, live>>

OS_SetThreadPriority(c, t, prio) ==
  /\ c \in live \ {Idle}
  /\ \/ head[c] = NULL /\ Reprioritize(links.first, t, prio)
     \/ head[c] # NULL /\ Reprioritize(head[c], t, prio)
  /\ head' = [head EXCEPT ![c] = NULL]
  /\ UNCHANGED live

\* The thread goes behind the last of its priority.
OS_YieldThread(t) ==
  LET path == Path(links, links.first)
      last == path[Max({i \in 1..Len(path) : priority[path[i]] = priority[t]})]
      pre == Before(path, Place(path, t))
  IN /\ t \in live \ {Idle} /\ head[t] = NULL
     /\ t \in ToSet(path)
     /\ last # t
     /\ links' = LinkBehind(Unlink(links, pre, t), last, t)
     /\ UNCHANGED <<priority, live, head>>

\* What the callers must see to: that nothing enters, leaves or moves at the
\* head of the list while another call has read it.
HeadStays == Careful /\ (\E c \in Thread : head'[c] # NULL) => links'.first = links.first

Next ==
  /\ \E t \in Thread :
       \/ \E prio \in Priorities :
            OS_CreateThread(t, prio) \/ \E c \in Thread : OS_SetThreadPriority(c, t, prio)
       \/ OSi_RemoveThreadFromList(t) \/ OS_YieldThread(t) \/ ReadHead(t)
  /\ HeadStays

Spec == Init /\ [][Next]_vars

-----------------------------------------------------------------------------
\* "Cannot remove thread from list.": every live thread is in the list, once,
\* and so its end finds it.
EndFindsThread ==
  LET path == Path(links, links.first)
  IN /\ live = ToSet(path)
     /\ \A i, j \in 1..Len(path) : path[i] = path[j] => i = j

Ordered == INSTANCE OSThreadOrder
  WITH list <- Path(links, links.first), First <- <<Launcher, Idle>>

\* The links do what OSThread does with a sequence: each thread goes where its
\* priority puts it, and no other changes its place.
LinksKeepOrder == Ordered!Spec
=============================================================================
