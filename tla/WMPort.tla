------------------------------- MODULE WMPort -------------------------------
(* What a parent sends to its children through the ports of the wireless      *)
(* driver: WMSP_SetMPData, WMSP_SendMaMP, the send queue (wmsp_port.c) and    *)
(* the indications that bear on it (wmsp_indicate.c).  Two threads of the     *)
(* ARM7 share the queue under a mutex and the bitmaps of children without it: *)
(* the request thread reads the bitmaps first and works with what it read,    *)
(* the indicate thread hears from the radio who answered, came or went.       *)
(*                                                                            *)
(* The radio is external: an exchange gives the frame to all that are polled  *)
(* and collects an answer, or none, of each.  A child that does not hear, has *)
(* not started MP or has left is the same until the parent is told.  A port   *)
(* keeps to one priority.  The counts of exchanges in a picture frame are     *)
(* left out: whether another follows in this one is left open.  So are the    *)
(* children's own packets, the ports without sequence numbers,                *)
(* WMSP_ResumeMaMP and the end of MP.                                         *)

EXTENDS Naturals, FiniteSets, SequencesExt

CONSTANTS
  Child,
  Port,         \* the ports with WM_SEQ_PORT_FLAG
  Priority,     \* the priority of a port's packets
  Dest,         \* the children a packet may be for
  Size, Room,   \* of a packet, and what a frame takes (mp_sendSize)
  QueueSize,    \* WM_SEND_QUEUE_NUM
  NumberMod,    \* 2^15: how far sequence numbers go
  Window,       \* WM_PACKED_PACKET_MAX
  FirstNumber,  \* the first sequence number of a port
  MaxPuts,      \* bound: packets put
  MaxChanges,   \* bound: children that come or go
  None

VARIABLES
  child,     \* child_bitmap
  mpReady,   \* mp_readyBitmap
  minPoll,   \* mp_current_minPollBmpMode
  request,   \* what the request thread is at, with the bitmaps it has read
  cleaning,  \* the child whose packets the indicate thread is about to clean
  kick,      \* the children to be polled again, or None
  ready,     \* readyQueue: per priority, the packets
  number,    \* portSeqNo of the parent itself
  frame,     \* what the radio has: [poll, packets], the sendQueue; or None
  received,  \* portSeqNo[0] of a child: the last number it took, or None
  got,       \* per child and port: the packets this connection was given
  puts, changes

vars == <<child, mpReady, minPoll, request, cleaning, kick, ready, number, frame,
          received, got, puts, changes>>

Level == 0..3
Idle == [op |-> "idle"]

Packet ==
  [id : 1..MaxPuts, port : Port, size : Size, dest : SUBSET Child, rest : SUBSET Child,
   sending : SUBSET Child, seq : (0..NumberMod-1) \cup {None}]

SendQueue == IF frame = None THEN << >> ELSE frame.packets
Queue == ready[0] \o ready[1] \o ready[2] \o ready[3]
Queued == ToSet(SendQueue) \cup ToSet(Queue)

TypeOK ==
  /\ child \subseteq Child /\ mpReady \subseteq Child /\ minPoll \in BOOLEAN
  /\ request.op \in {"idle", "put", "send"} /\ cleaning \in Child \cup {None}
  /\ kick \in SUBSET Child \cup {None}
  /\ Queued \subseteq Packet /\ DOMAIN ready = Level
  /\ Len(SendQueue) + Len(Queue) <= QueueSize
  /\ number \in [Port -> 0..NumberMod-1]
  /\ frame # None => frame.poll \subseteq Child
  /\ received \in [Child -> [Port -> (0..NumberMod-1) \cup {None}]]
  /\ puts \in 0..MaxPuts /\ changes \in 0..MaxChanges

Unnumbered == [p \in Port |-> None]
GivenNone == [p \in Port |-> << >>]

\* MP has started; some children are there already.
Init ==
  /\ child \in SUBSET Child /\ mpReady = {} /\ minPoll \in BOOLEAN
  /\ request = Idle /\ cleaning = None /\ kick = None
  /\ ready = [l \in Level |-> << >>] /\ frame = None
  /\ number = [p \in Port |-> FirstNumber]
  /\ received = [c \in Child |-> Unnumbered] /\ got = [c \in Child |-> GivenNone]
  /\ puts = 0 /\ changes = 0

-----------------------------------------------------------------------------
(* The request thread.                                                        *)

\* WMSP_SetMPData reads child_bitmap before anything else.
SetMPData(p, size, to) ==
  /\ request = Idle /\ puts < MaxPuts
  /\ request' = [op |-> "put", port |-> p, size |-> size, dest |-> to, child |-> child]
  /\ puts' = puts + 1
  /\ UNCHANGED <<child, mpReady, minPoll, cleaning, kick, ready, number, frame,
                 received, got, changes>>

\* A packet for nobody is reported at once, and so is a full queue.
PutSendQueue ==
  /\ request.op = "put"
  /\ request' = Idle
  /\ LET to == request.dest \cap request.child
         new == [id |-> puts, port |-> request.port, size |-> request.size,
                 dest |-> request.dest, rest |-> to, sending |-> {}, seq |-> None]
     IN ready' = IF to = {} \/ Len(SendQueue) + Len(Queue) >= QueueSize THEN ready
                 ELSE [ready EXCEPT ![Priority[request.port]] = Append(@, new)]
  /\ UNCHANGED <<child, mpReady, minPoll, cleaning, kick, number, frame,
                 received, got, puts, changes>>

\* WMSP_SendMaMP reads both bitmaps with interrupts disabled.
SendMaMP(poll) ==
  /\ request = Idle /\ frame = None
  /\ request' = [op |-> "send", poll |-> poll, child |-> child, ready |-> mpReady]
  /\ kick' = None
  /\ UNCHANGED <<child, mpReady, minPoll, cleaning, ready, number, frame,
                 received, got, puts, changes>>

\* WMSP_VAlarmSetMPData begins a picture frame, in which all are polled first.
\* Without a child it returns early.
VAlarm ==
  \/ child # {} /\ SendMaMP(Child)
  \/ child = {} /\ request = Idle /\ UNCHANGED vars

\* WMSP_KickNextMP_Parent.
KickNextMP == kick # None /\ SendMaMP(kick)

\* One packet after the other, the urgent first.  One that cannot go now holds
\* back those behind it on its port.
Take(s, d) ==
  LET now == d.rest \cap (IF minPoll THEN request.child ELSE request.ready)
      fits == /\ d.size <= s.room
              /\ minPoll \/ now \subseteq request.ready \cap request.poll
      packet == [d EXCEPT !.sending = now, !.seq = IF @ = None THEN s.number[d.port] ELSE @]
  IN CASE d.port \in s.blocked -> s
       [] d.port \notin s.blocked /\ ~fits -> [s EXCEPT !.blocked = @ \cup {d.port}]
       [] OTHER -> [s EXCEPT !.room = @ - d.size, !.taken = Append(@, packet),
            !.number = IF d.seq = None THEN [@ EXCEPT ![d.port] = (@ + 1) % NumberMod] ELSE @]

WmspMakePortPacket ==
  FoldLeft(Take, [blocked |-> {}, room |-> Room, taken |-> << >>, number |-> number], Queue)

\* WMSP_SendMaMP goes on.
MakeFrame ==
  /\ request.op = "send"
  /\ LET made == WmspMakePortPacket
         ids == {d.id : d \in ToSet(made.taken)}
         to == UNION {d.dest : d \in ToSet(made.taken)}
     IN /\ ready' = [l \in Level |-> SelectSeq(ready[l], LAMBDA d : d.id \notin ids)]
        /\ number' = made.number
        /\ frame' = [poll |-> (IF minPoll THEN to ELSE request.poll) \cap request.child,
                     packets |-> made.taken]
  /\ request' = Idle
  /\ UNCHANGED <<child, mpReady, minPoll, cleaning, kick, received, got, puts, changes>>

\* mp_pingFlag: now and then all are polled without a packet.
Ping ==
  /\ request.op = "send" /\ minPoll
  /\ frame' = [poll |-> request.child, packets |-> << >>]
  /\ request' = Idle
  /\ UNCHANGED <<child, mpReady, minPoll, cleaning, kick, ready, number,
                 received, got, puts, changes>>

-----------------------------------------------------------------------------
(* The children that hear the frame.                                          *)

\* A slip: every packet is taken, one that is sent again too.
ParseUnnumbered(c, s, d) ==
  [received |-> [s.received EXCEPT ![d.port] = d.seq],
   got |-> IF c \in d.rest THEN [s.got EXCEPT ![d.port] = Append(@, d.id)] ELSE s.got]

\* The number of a packet is looked at before its destinations are.
Parse(c, s, d) ==
  LET seen == s.received[d.port]
      again == seen # None /\ (seen + NumberMod - d.seq) % NumberMod < Window
  IN IF again THEN s
     ELSE [received |-> [s.received EXCEPT ![d.port] = d.seq],
           got |-> IF c \in d.rest THEN [s.got EXCEPT ![d.port] = Append(@, d.id)] ELSE s.got]

ParsePortPacket(c) ==
  FoldLeft(LAMBDA s, d : Parse(c, s, d), [received |-> received[c], got |-> got[c]],
           frame.packets)

-----------------------------------------------------------------------------
(* The indicate thread.                                                       *)

\* A slip: what a child that has gone was owed is sent on and on.
FlushUncleaned(errors) ==
  LET Flushed(d) == [d EXCEPT !.rest = @ \ (d.sending \ errors), !.sending = {}]
      flushed == [i \in DOMAIN frame.packets |-> Flushed(frame.packets[i])]
      Again(l) == SelectSeq(flushed, LAMBDA d : d.rest # {} /\ Priority[d.port] = l)
  IN ready' = [l \in Level |-> Again(l) \o ready[l]]

\* WMSP_FlushSendQueue: what is to be sent again goes before all else.
FlushSendQueue(errors) ==
  LET Flushed(d) == [d EXCEPT !.rest = (@ \ (d.sending \ errors)) \cap child, !.sending = {}]
      flushed == [i \in DOMAIN frame.packets |-> Flushed(frame.packets[i])]
      Again(l) == SelectSeq(flushed, LAMBDA d : d.rest # {} /\ Priority[d.port] = l)
  IN ready' = [l \in Level |-> Again(l) \o ready[l]]

\* An exchange and WmspIndicateMaMultiPollEnd, which is told of it: of those
\* polled some hear, of these some answer, with data or without.  For a packet
\* a null answer is an error, but only who did not answer is polled again.
MultiPollEnd(heard, data, null) ==
  /\ cleaning = None /\ frame # None
  /\ heard \subseteq frame.poll \cap child
  /\ data \cup null \subseteq heard /\ data \cap null = {}
  /\ received' = [c \in Child |->
       IF c \in heard THEN ParsePortPacket(c).received ELSE received[c]]
  /\ got' = [c \in Child |-> IF c \in heard THEN ParsePortPacket(c).got ELSE got[c]]
  /\ mpReady' = mpReady \cup data
  /\ FlushSendQueue(frame.poll \ data)
  /\ LET missed == frame.poll \ (data \cup null)
     IN kick' \in {None} \cup ({missed} \ {{}})
  /\ frame' = None
  /\ UNCHANGED <<child, minPoll, request, cleaning, number, puts, changes>>

\* WmspIndicateMlmeAssociate, and on the child the end of WMSP_StartConnect.
Associate(c) ==
  /\ cleaning = None /\ changes < MaxChanges
  /\ child' = child \cup {c} /\ mpReady' = mpReady \ {c}
  /\ received' = [received EXCEPT ![c] = Unnumbered]
  /\ got' = [got EXCEPT ![c] = GivenNone]
  /\ changes' = changes + 1
  /\ UNCHANGED <<minPoll, request, cleaning, kick, ready, number, frame, puts>>

\* WmspIndicateMlmeDeAuthenticate forgets the child ...
DeAuthenticate(c) ==
  /\ cleaning = None /\ changes < MaxChanges /\ c \in child
  /\ child' = child \ {c} /\ mpReady' = mpReady \ {c}
  /\ cleaning' = c /\ changes' = changes + 1
  /\ UNCHANGED <<minPoll, request, kick, ready, number, frame, received, got, puts>>

\* ... and WMSP_CleanSendQueue its packets, those under way not.
CleanSendQueue ==
  /\ cleaning # None
  /\ LET Cleaned(d) == [d EXCEPT !.rest = @ \cap (child \ {cleaning})]
     IN ready' = [l \in Level |->
          SelectSeq([i \in DOMAIN ready[l] |-> Cleaned(ready[l][i])], LAMBDA d : d.rest # {})]
  /\ cleaning' = None
  /\ UNCHANGED <<child, mpReady, minPoll, request, kick, number, frame,
                 received, got, puts, changes>>

-----------------------------------------------------------------------------
Next ==
  \/ \E p \in Port, size \in Size, to \in Dest : SetMPData(p, size, to)
  \/ PutSendQueue \/ VAlarm \/ KickNextMP \/ MakeFrame \/ Ping
  \/ \E heard, data, null \in SUBSET Child : MultiPollEnd(heard, data, null)
  \/ \E c \in Child : Associate(c) \/ DeAuthenticate(c)
  \/ CleanSendQueue

\* The children all answer with data to a frame with packets that polls them.
AllAnswer ==
  /\ SendQueue # << >> /\ (minPoll \/ child \subseteq frame.poll)
  /\ LET there == frame.poll \cap child IN MultiPollEnd(there, there, {})

\* Both threads go on, picture frames begin and are not all spent on pings, every
\* exchange ends, if only with nobody's answer (any end disables this one), and
\* not every exchange is disturbed while a child that is gone is not noticed.
Fairness ==
  /\ WF_vars(PutSendQueue) /\ WF_vars(CleanSendQueue)
  /\ SF_vars(VAlarm) /\ SF_vars(MakeFrame)
  /\ WF_vars(MultiPollEnd({}, {}, {})) /\ SF_vars(AllAnswer)

Spec == Init /\ [][Next]_vars /\ Fairness

-----------------------------------------------------------------------------
\* The ports keep the promise of WMPortOrder: a child takes each packet once and
\* in order, whatever is lost, repeated or held back.
Order == INSTANCE WMPortOrder WITH
  linked <- child,
  call <- IF request.op # "put" THEN None
          ELSE [id |-> puts, port |-> request.port, due |-> request.dest \cap request.child],
  open <- [n \in {d.id : d \in Queued} |->
             LET d == CHOOSE e \in Queued : e.id = n
             IN [port |-> d.port, due |-> {c \in d.rest : n \notin ToSet(got[c][d.port])}]]
ImplementsOrder == Order!Spec

\* Every packet is reported while a child is there, however they come and go.
AllReported == []<>(Queued = {} \/ child = {})
=============================================================================
