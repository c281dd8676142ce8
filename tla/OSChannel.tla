------------------------------ MODULE OSChannel ------------------------------
(* What a message queue promises: a channel of bounded capacity that keeps    *)
(* the order of the messages sent; a jammed message goes before the others.   *)

EXTENDS Naturals, Sequences

CONSTANTS Thread, Msg, Capacity, NULL

VARIABLES
  contents,  \* the messages in the channel, the next one to receive first
  got        \* the message each thread received or read last

Init ==
  /\ contents = <<>>
  /\ got = [t \in Thread |-> NULL]

Send(m) ==
  /\ Len(contents) < Capacity
  /\ contents' = Append(contents, m)
  /\ UNCHANGED got

Jam(m) ==
  /\ Len(contents) < Capacity
  /\ contents' = <<m>> \o contents
  /\ UNCHANGED got

Receive(t) ==
  /\ contents # <<>>
  /\ contents' = Tail(contents)
  /\ got' = [got EXCEPT ![t] = Head(contents)]

\* Received with no place to store it.
Discard ==
  /\ contents # <<>>
  /\ contents' = Tail(contents)
  /\ UNCHANGED got

Read(t) ==
  /\ contents # <<>>
  /\ got' = [got EXCEPT ![t] = Head(contents)]
  /\ UNCHANGED contents

Next ==
  \/ \E m \in Msg : Send(m) \/ Jam(m)
  \/ \E t \in Thread : Receive(t) \/ Read(t)
  \/ Discard

Spec == Init /\ [][Next]_<<contents, got>>
=============================================================================
