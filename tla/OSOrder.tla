------------------------------- MODULE OSOrder -------------------------------
(* Where a thread goes in the lists of libraries/os/src/os_thread.c, as far   *)
(* as the lists are sequences.                                                *)

EXTENDS Naturals, SequencesExt

\* A slip: the link is added without looking for it first.
InsertLinkUnchecked(links, prio, t) ==
  InsertAt(links, Min({i \in 1..Len(links) : prio[links[i]] > prio[t]} \cup {Len(links) + 1}), t)

\* A thread enters the thread list before those of its own priority ...
OSi_InsertThreadToList(list, prio, t) ==
  InsertAt(list, Min({i \in 1..Len(list) : prio[list[i]] >= prio[t]} \cup {Len(list) + 1}), t)

\* ... but a wait queue behind them, and not again if it is found among them.
OSi_InsertLinkToQueue(links, prio, t) ==
  LET place == Min({i \in 1..Len(links) : prio[links[i]] > prio[t]} \cup {Len(links) + 1})
  IN IF \E i \in 1..(place - 1) : links[i] = t THEN links ELSE InsertAt(links, place, t)

\* A thread that yields goes behind the last of its priority.
OS_YieldInList(list, prio, t) ==
  InsertAt(RemoveFirst(list, t), Max({i \in 1..Len(list) : prio[list[i]] = prio[t]}), t)
=============================================================================
