----------------------------- MODULE WMPortOrder -----------------------------
(* What a sequential port promises.  A packet put while children it names are *)
(* connected reaches each of them once, after the packets put before it on    *)
(* that port, and is reported only when no child is owed it any more, unless  *)
(* that child's connection has ended in the meantime.                         *)

EXTENDS Naturals, SequencesExt

CONSTANTS Child, Port, None

VARIABLES
  linked,  \* the children that are connected
  call,    \* the packet whose sender is in the call, or None
  open,    \* the packets not reported: port, and the children it is due for
  got      \* per child and port, what this connection has been given

vars == <<linked, call, open, got>>

Init ==
  /\ linked \in SUBSET Child /\ call = None /\ open = << >>
  /\ got = [c \in Child |-> [p \in Port |-> << >>]]

\* WM_SetMPData: the packet is for the children connected at this moment.
Call ==
  /\ call = None
  /\ call' \in [id : Nat, port : Port, due : SUBSET linked]
  /\ UNCHANGED <<linked, open, got>>

\* Later packets have larger numbers.
Put ==
  /\ call # None /\ \A n \in DOMAIN open : n < call.id
  /\ open' = [n \in DOMAIN open \cup {call.id} |->
               IF n = call.id THEN [port |-> call.port, due |-> call.due] ELSE open[n]]
  /\ call' = None
  /\ UNCHANGED <<linked, got>>

Refuse == call # None /\ call' = None /\ UNCHANGED <<linked, open, got>>

Newest == Max(DOMAIN open \cup {0})
Due(c, p) ==
  SelectSeq([n \in 1..Newest |-> n],
            LAMBDA n : n \in DOMAIN open /\ open[n].port = p /\ c \in open[n].due)

\* Each child is given the first of what it is due.  Reported is what is due
\* for nobody then, or only for children that have gone.
Pass ==
  /\ got' \in [Child -> [Port -> Seq(Nat)]]
  /\ \A c \in Child, p \in Port : \E k \in 0..Len(Due(c, p)) :
       got'[c][p] = got[c][p] \o SubSeq(Due(c, p), 1, k)
  /\ DOMAIN open' \subseteq DOMAIN open
  /\ \A n \in DOMAIN open :
       LET left == {c \in open[n].due : n \notin ToSet(got'[c][open[n].port])}
       IN IF n \notin DOMAIN open' THEN left \cap linked = {}
          ELSE \E gone \in SUBSET (Child \ linked) :
                 open'[n] = [open[n] EXCEPT !.due = left \ gone]
  /\ UNCHANGED <<linked, call>>

Unlink(c) == linked' = linked \ {c} /\ UNCHANGED <<call, open, got>>

\* A new connection begins anew; what was put before may be due for it or not.
Join(c) ==
  /\ linked' = linked \cup {c}
  /\ got' = [got EXCEPT ![c] = [p \in Port |-> << >>]]
  /\ \E again \in SUBSET DOMAIN open :
       open' = [n \in DOMAIN open |-> [open[n] EXCEPT !.due =
                  IF n \in again THEN @ \cup {c} ELSE @ \ {c}]]
  /\ UNCHANGED call

Next ==
  \/ Call \/ Put \/ Refuse \/ Pass
  \/ \E c \in Child : Unlink(c) \/ Join(c)

Spec == Init /\ [][Next]_vars
=============================================================================
