---------------------------- MODULE WMDataSharing ----------------------------
(* Data sharing (libraries/wm/src/wm_ds.c): a parent, station 0, collects a   *)
(* piece of data from every station into a set and gives each finished set to *)
(* all of them, in a ring of four sets.  A station gives its next piece when  *)
(* it reads a set; with double mode two sets are under way.                   *)
(*                                                                            *)
(* The parent's callbacks, which come in the order of the ARM7's indications, *)
(* interrupt the steps of its WM_StepDataSharing.  The port is one of WMPort: *)
(* a set reaches each child once and in order and is reported after.  A child *)
(* starts to share as soon as it is connected, and is told of a full send     *)
(* queue before its next step.  The sequence numbers and lengths of sets are  *)
(* left out, and so are errors, which end the sharing.                        *)
(*                                                                            *)
(* In double mode two things leave the sets and pieces in another order than  *)
(* they were meant to have: a set refused by the full send queue, after which *)
(* another may be put in its place, and a set that is finished while the      *)
(* parent looks where its own piece goes.  strayed remembers that it happened.*)
(*                                                                            *)
(* A set is a number and, for each station, the number of the set it had read *)
(* when it gave its piece, or 0.                                              *)

EXTENDS Naturals, Sequences, FiniteSetsExt

CONSTANTS
  Child,
  MaxSets,     \* bound: sets the parent reads after the first (in double mode, two)
  MaxChanges,  \* bound: children that come or go
  MaxFull,     \* bound: puts a full send queue refuses
  None

Station == Child \cup {0}

VARIABLES
  doubleMode, \* of every WMDataSharingInfo
  info,       \* the WMDataSharingInfo of each station
  last,       \* the set a station has read last, or None
  step,       \* where the parent's WM_StepDataSharing is
  connected,  \* connectedAidBitmap of the parent's ARM9
  linked,     \* child_bitmap of its ARM7
  told,       \* the callbacks on their way to the parent's ARM9
  port,       \* the parent's packets: [slot, set, rest]
  reply,      \* per child, its packets
  changes, fulls,
  strayed     \* history: in double mode a set was refused, or a piece went astray

vars == <<doubleMode, info, last, step, connected, linked, told, port, reply, changes, fulls,
          strayed>>

DATASET_NUM == 4
Slot == 0..DATASET_NUM-1
Next4(i) == (i + 1) % DATASET_NUM
Prev4(i) == (i + DATASET_NUM - 1) % DATASET_NUM

Piece == 0..MaxSets+DATASET_NUM+2
DataSet == [no : Piece, aidBitmap : SUBSET Station, data : [Station -> Piece]]
Ahead == IF doubleMode THEN 2 ELSE 1
LastSet == MaxSets + Ahead
NoStep == [at |-> "idle"]

NoData == [s \in Station |-> 0]
Fresh(no, aids) == [no |-> no, aidBitmap |-> aids, data |-> NoData]

TypeOK ==
  /\ doubleMode \in BOOLEAN
  /\ \A s \in Station :
       /\ \A i \in Slot : info[s].ds[i] \in DataSet
       /\ {info[s].writeIndex, info[s].readIndex, info[s].sendIndex} \subseteq Slot
       /\ info[s].retry \in BOOLEAN
       /\ last[s] \in DataSet \cup {None}
  /\ connected \subseteq Child /\ linked \subseteq Child
  /\ step.at \in {"idle", "read", "give", "next", "send", "put", "resend", "reput"}
  /\ \A k \in DOMAIN port : port[k].set \in DataSet /\ port[k].rest \subseteq Child
  /\ \A c \in Child : reply[c] \in Seq(Piece)
  /\ strayed \in BOOLEAN

-----------------------------------------------------------------------------
(* What the callbacks and WM_StepDataSharing do to the parent: v is its       *)
(* [info, port, told].                                                        *)

\* WM_SetMPDataToPortEx, and PutSendQueue of the ARM7: without a child of the
\* ARM7's there is nothing to send, and none that is meant is a success.
SetMPDataToPort(v, slot, dest) ==
  IF linked = {} THEN [v EXCEPT !.info.sendIndex = Next4(@)]
  ELSE IF dest \cap linked = {} THEN [v EXCEPT !.told = Append(@, [is |-> "sent"])]
  ELSE [v EXCEPT !.port =
         Append(@, [slot |-> slot, set |-> v.info.ds[slot], rest |-> dest \cap linked,
                      new |-> TRUE])]

\* WmDataSharingSendDataSet with interrupts disabled: a set that lacks no
\* station's data is finished, and another begun.
Complete(i) == i.ds[i.writeIndex].aidBitmap = {}
FinishDataSet(i, aids, delayed) ==
  LET old == i.writeIndex
      reset == IF doubleMode THEN Next4(Next4(old)) ELSE Next4(old)
      no == i.ds[old].no
  IN [i EXCEPT !.writeIndex = Next4(old),
       !.ds = [@ EXCEPT ![reset] = Fresh(no + Ahead, aids \cup {0}),
                        ![old].aidBitmap = IF delayed THEN Child ELSE Station]]

\* All of WmDataSharingSendDataSet, in a callback.
SendDataSet(v, aids) ==
  IF ~Complete(v.info) THEN v
  ELSE SetMPDataToPort([v EXCEPT !.info = FinishDataSet(@, aids, FALSE)],
                       v.info.writeIndex, aids)

\* WmDataSharingReceiveData, in a callback: without double mode a second piece is
\* too many.
Lacks(i, slot, s) == s \in i.ds[slot].aidBitmap
PutIn(i, slot, s, piece) ==
  IF Lacks(i, slot, s)
  THEN [i EXCEPT !.ds[slot].aidBitmap = @ \ {s}, !.ds[slot].data[s] = piece]
  ELSE i
ReceiveData(i, s, piece) ==
  IF doubleMode /\ ~Lacks(i, i.writeIndex, s)
  THEN PutIn(i, Next4(i.writeIndex), s, piece)
  ELSE PutIn(i, i.writeIndex, s, piece)

Parent == [info |-> info[0], port |-> port, told |-> told]
SetParent(v) ==
  /\ info' = [info EXCEPT ![0] = v.info] /\ port' = v.port /\ told' = v.told

-----------------------------------------------------------------------------
(* WM_StartDataSharing.                                                       *)

\* A child.
Started ==
  [ds |-> [i \in Slot |-> Fresh(0, {})], writeIndex |-> 0, readIndex |-> 0,
   sendIndex |-> DATASET_NUM - 1, retry |-> FALSE]

\* The parent begins with one empty set, or two, that it sends to all.
Init ==
  /\ doubleMode \in BOOLEAN
  /\ linked \in SUBSET Child /\ connected = linked
  /\ LET sets == [i \in Slot |-> Fresh(i + 1, linked \cup {0})]
     IN /\ info = [s \in Station |-> IF s # 0 THEN Started ELSE
                    [Started EXCEPT !.ds = sets, !.writeIndex = Ahead,
                                    !.sendIndex = IF linked = {} THEN Ahead ELSE 0]]
        /\ port = IF linked = {} THEN << >>
                  ELSE [i \in 1..Ahead |-> [slot |-> i - 1, set |-> sets[i - 1], rest |-> linked,
                                        new |-> TRUE]]
  /\ last = [s \in Station |-> None] /\ step = NoStep
  /\ told = << >> /\ reply = [c \in Child |-> << >>]
  /\ changes = 0 /\ fulls = 0 /\ strayed = FALSE

-----------------------------------------------------------------------------
(* WM_StepDataSharing of the parent.                                          *)

\* A slip: the set that is being collected is put instead.
StepRetryNext ==
  /\ step = NoStep /\ info[0].retry
  /\ SetParent(SetMPDataToPort([Parent EXCEPT !.info.retry = FALSE],
                               info[0].writeIndex, connected))
  /\ step' = [at |-> "read", aids |-> connected]
  /\ UNCHANGED <<last, connected, linked, reply, changes, fulls, strayed>>

\* What the queue refused is put again.
StepRetry ==
  /\ step = NoStep /\ info[0].retry
  /\ SetParent(SetMPDataToPort([Parent EXCEPT !.info.retry = FALSE],
                               Prev4(info[0].writeIndex), connected))
  /\ step' = [at |-> "read", aids |-> connected]
  /\ UNCHANGED <<last, connected, linked, reply, changes, fulls, strayed>>

ReadNo(s) == IF last[s] = None THEN 0 ELSE last[s].no

\* A set that has been reported is read.  When all children have given their
\* pieces to the next already, that one is read a step later by them.
StepRead ==
  /\ step.at = "read" \/ (step = NoStep /\ ~info[0].retry)
  /\ LET i == info[0]
         set == [i.ds[i.readIndex] EXCEPT !.aidBitmap = @ \cup {0}]
         aids == IF step = NoStep THEN connected ELSE step.aids
     IN IF i.readIndex = i.sendIndex
        THEN step' = [at |-> "send", give |-> FALSE, delayed |-> FALSE] /\ UNCHANGED <<info, last>>
        ELSE /\ ReadNo(0) < LastSet
             /\ info' = [info EXCEPT ![0].ds[i.readIndex] = set,
                                     ![0].readIndex = Next4(@)]
             /\ last' = [last EXCEPT ![0] = set]
             /\ step' = [at |-> "send", give |-> TRUE, delayed |-> ~doubleMode
                          /\ aids # {} /\ i.ds[i.writeIndex].aidBitmap = {0}]
  /\ UNCHANGED <<connected, linked, told, port, reply, changes, fulls, strayed>>

\* WmDataSharingSendDataSet up to where it restores interrupts ...
Finish(from, to, after, delayed) ==
  /\ step.at = from
  /\ IF Complete(info[0])
     THEN /\ info' = [info EXCEPT ![0] = FinishDataSet(@, connected, delayed)]
          /\ step' = [at |-> to, give |-> step.give, delayed |-> step.delayed,
                      slot |-> info[0].writeIndex, dest |-> connected]
     ELSE step' = after /\ UNCHANGED info
  /\ UNCHANGED <<last, connected, linked, told, port, reply, changes, fulls, strayed>>

\* ... and the rest of it.
Put(from, after) ==
  /\ step.at = from
  /\ SetParent(SetMPDataToPort(Parent, step.slot, step.dest))
  /\ step' = after
  /\ UNCHANGED <<last, connected, linked, reply, changes, fulls, strayed>>

Giving == IF step.give THEN [step EXCEPT !.at = "give"] ELSE NoStep
StepFinish == Finish("send", "put", Giving, FALSE)
StepPut == Put("put", Giving)

\* WmDataSharingReceiveData for the parent's own piece: callbacks may come between
\* its reads of writeIndex.  A set that lacks the piece cannot be finished before
\* it has it, nor can the next but one be begun: only in double mode, where the set
\* that is collected has the piece, does the second read tell something else.  (One
\* finished between the loads of the first read counts as finished before it.)
\* Without double mode the step looks again whether the set can be finished.
StepGive ==
  /\ step.at = "give"
  /\ IF doubleMode /\ ~Lacks(info[0], info[0].writeIndex, 0)
     THEN step' = [step EXCEPT !.at = "next"] /\ UNCHANGED info
     ELSE /\ info' = [info EXCEPT ![0] = ReceiveData(@, 0, ReadNo(0))]
          /\ step' = IF doubleMode THEN NoStep ELSE [step EXCEPT !.at = "resend"]
  /\ UNCHANGED <<last, connected, linked, told, port, reply, changes, fulls, strayed>>

\* A set finished in between, the piece goes past the one that lacks it.
StepGiveNext ==
  /\ step.at = "next"
  /\ info' = [info EXCEPT ![0] = PutIn(@, Next4(@.writeIndex), 0, ReadNo(0))]
  /\ strayed' = (strayed \/ Lacks(info[0], info[0].writeIndex, 0))
  /\ step' = NoStep
  /\ UNCHANGED <<last, connected, linked, told, port, reply, changes, fulls>>

StepFinishAgain == Finish("resend", "reput", NoStep, step.delayed)
StepPutAgain == Put("reput", NoStep)

-----------------------------------------------------------------------------
(* The parent's callbacks, each with interrupts disabled to its end.          *)

Callback(is) == told # << >> /\ Head(told).is = is
Waiting == [Parent EXCEPT !.told = Tail(told)]

\* WmDataSharingSetDataCallback.
Sent ==
  /\ Callback("sent")
  /\ SetParent([Waiting EXCEPT !.info.sendIndex = Next4(@)])
  /\ UNCHANGED <<last, step, connected, linked, reply, changes, fulls, strayed>>

Refused ==
  /\ Callback("full")
  /\ SetParent([Waiting EXCEPT !.info.retry = TRUE])
  /\ UNCHANGED <<last, step, connected, linked, reply, changes, fulls, strayed>>

\* WmDataSharingReceiveCallback_Parent.
Received ==
  /\ Callback("data")
  /\ SetParent(SendDataSet([Waiting EXCEPT !.info =
                 ReceiveData(@, Head(told).child, Head(told).piece)], connected))
  /\ UNCHANGED <<last, step, connected, linked, reply, changes, fulls, strayed>>

\* connectedAidBitmap is set before the port's callback is called; a new child
\* has no part in the set under way.
Connected ==
  /\ Callback("connected")
  /\ connected' = connected \cup {Head(told).child}
  /\ SetParent(SendDataSet(Waiting, connected'))
  /\ UNCHANGED <<last, step, linked, reply, changes, fulls, strayed>>

\* A slip: the set under way goes on waiting for who is gone.
DisconnectedOnly ==
  /\ Callback("disconnected")
  /\ connected' = connected \ {Head(told).child}
  /\ SetParent(SendDataSet(Waiting, connected'))
  /\ UNCHANGED <<last, step, linked, reply, changes, fulls, strayed>>

\* Who is gone is not waited for.
Disconnected ==
  /\ Callback("disconnected")
  /\ connected' = connected \ {Head(told).child}
  /\ LET w == info[0].writeIndex
         ds == info[0].ds
         slots == IF doubleMode THEN {w, Next4(w)} ELSE {w}
         left == [Waiting EXCEPT !.info.ds = [i \in Slot |->
                   IF i \in slots THEN [ds[i] EXCEPT !.aidBitmap = @ \ {Head(told).child}]
                   ELSE ds[i]]]
         sent == SendDataSet(left, connected')
     IN SetParent(IF doubleMode THEN SendDataSet(sent, connected') ELSE sent)
  /\ UNCHANGED <<last, step, linked, reply, changes, fulls, strayed>>

-----------------------------------------------------------------------------
(* The ARM7 of the parent and the radio (WMPort).                             *)

\* A child is given the first packet it has not had.  It keeps a set it is in:
\* WmDataSharingReceiveCallback_Child.
Deliver(c) ==
  LET due == {k \in DOMAIN port : c \in port[k].rest}
      k == Min(due)
      set == port[k].set
  IN /\ due # {}
     /\ port' = [port EXCEPT ![k].rest = @ \ {c}, ![k].new = FALSE]
     /\ info' = IF c \notin set.aidBitmap THEN info
                ELSE [info EXCEPT ![c].ds[info[c].writeIndex] = set,
                                  ![c].writeIndex = Next4(@)]
     /\ UNCHANGED <<last, step, connected, linked, told, reply, changes, fulls, strayed>>

Report ==
  /\ port # << >> /\ Head(port).rest = {}
  /\ port' = Tail(port) /\ told' = Append(told, [is |-> "sent"])
  /\ UNCHANGED <<info, last, step, connected, linked, reply, changes, fulls, strayed>>

\* The packet found the queue full.
Refuse ==
  /\ fulls < MaxFull /\ fulls' = fulls + 1 /\ strayed' = (strayed \/ doubleMode)
  /\ port # << >> /\ port[Len(port)].new
  /\ port' = SubSeq(port, 1, Len(port) - 1) /\ told' = Append(told, [is |-> "full"])
  /\ UNCHANGED <<info, last, step, connected, linked, reply, changes>>

DeliverReply(c) ==
  /\ c \in linked /\ reply[c] # << >>
  /\ told' = Append(told, [is |-> "data", child |-> c, piece |-> Head(reply[c])])
  /\ reply' = [reply EXCEPT ![c] = Tail(@)]
  /\ UNCHANGED <<info, last, step, connected, linked, port, changes, fulls, strayed>>

\* To connect again takes much longer than to tell the ARM9 that c has gone, or
\* than a put that does not know it yet.
Forgotten(c) ==
  /\ c \notin linked \cup connected
  /\ \A k \in DOMAIN told :
       told[k].is \in {"connected", "disconnected"} => told[k].child # c
  /\ step.at \in {"put", "reput"} => c \notin step.dest

Associate(c) ==
  /\ Forgotten(c) /\ changes < MaxChanges
  /\ linked' = linked \cup {c} /\ changes' = changes + 1
  /\ told' = Append(told, [is |-> "connected", child |-> c])
  /\ UNCHANGED <<info, last, step, connected, port, reply, fulls, strayed>>

DeAuthenticate(c) ==
  /\ c \in linked /\ changes < MaxChanges
  /\ linked' = linked \ {c} /\ changes' = changes + 1
  /\ told' = Append(told, [is |-> "disconnected", child |-> c])
  /\ port' = [k \in DOMAIN port |-> [port[k] EXCEPT !.rest = @ \ {c}]]
  /\ reply' = [reply EXCEPT ![c] = << >>]
  /\ info' = [info EXCEPT ![c] = Started] /\ last' = [last EXCEPT ![c] = None]
  /\ UNCHANGED <<step, connected, fulls, strayed>>

-----------------------------------------------------------------------------
(* The children.                                                              *)

\* WM_StepDataSharing of a child: a set that is delayed is read the next time, and
\* its own piece is put for each set it reads.
ChildMark(c) ==
  LET i == info[c]
  IN /\ c \in linked /\ ~i.retry /\ i.readIndex # i.writeIndex
     /\ 0 \notin i.ds[i.readIndex].aidBitmap
     /\ info' = [info EXCEPT ![c].ds[i.readIndex].aidBitmap = @ \cup {0}]
     /\ UNCHANGED <<last, step, connected, linked, told, port, reply, changes, fulls, strayed>>

\* A piece is put out of the slot of a set that has been read, and when the queue
\* is full out of the same slot again.
PutPiece(c, piece, i) ==
  LET kept == [i EXCEPT !.ds[i.sendIndex] = Fresh(0, {})]
  IN \/ /\ reply' = [reply EXCEPT ![c] = Append(@, piece)]
        /\ info' = [info EXCEPT ![c] = [kept EXCEPT !.sendIndex = Next4(@), !.retry = FALSE]]
        /\ UNCHANGED <<fulls, strayed>>
     \/ /\ fulls < MaxFull /\ fulls' = fulls + 1
        /\ info' = [info EXCEPT ![c] = [kept EXCEPT !.retry = TRUE]]
        /\ UNCHANGED <<reply, strayed>>

ChildRetry(c) ==
  /\ c \in linked /\ info[c].retry
  /\ PutPiece(c, ReadNo(c), info[c])
  /\ UNCHANGED <<last, step, connected, linked, told, port, changes>>

ChildRead(c) ==
  LET i == info[c] set == i.ds[i.readIndex]
  IN /\ c \in linked /\ ~i.retry /\ i.readIndex # i.writeIndex /\ 0 \in set.aidBitmap
     /\ last' = [last EXCEPT ![c] = set]
     /\ PutPiece(c, set.no, [i EXCEPT !.readIndex = Next4(@)])
     /\ UNCHANGED <<step, connected, linked, told, port, changes>>

-----------------------------------------------------------------------------
ParentStep ==
  \/ StepRetry \/ StepRead \/ StepFinish \/ StepPut \/ StepGive \/ StepGiveNext
  \/ StepFinishAgain \/ StepPutAgain
ParentCallback == Sent \/ Refused \/ Received \/ Connected \/ Disconnected
ChildStep(c) == ChildMark(c) \/ ChildRetry(c) \/ ChildRead(c)

Next ==
  /\ \/ ParentStep \/ ParentCallback
     \/ Report \/ Refuse
     \/ \E c \in Child :
          \/ ChildStep(c) \/ Deliver(c) \/ DeliverReply(c)
          \/ Associate(c) \/ DeAuthenticate(c)
  /\ UNCHANGED doubleMode

Spec == Init /\ [][Next]_vars

-----------------------------------------------------------------------------
\* The slots from i up to j.
Between(i, j) == {(i + k) % DATASET_NUM : k \in 0..((j + DATASET_NUM - i) % DATASET_NUM)} \ {j}

\* The sets a station is to read: of the parent, those that are finished.
Unread(s) == {info[s].ds[k] : k \in Between(info[s].readIndex, info[s].writeIndex)}
Seen(s) == Unread(s) \cup (IF last[s] = None THEN {} ELSE {last[s]})
UnderWay == {k \in DOMAIN port : port[k].rest # {}}

\* Whatever set a station holds, has read or is sent is the same everywhere.
SameSets ==
  \A a, b \in (UNION {Seen(s) : s \in Station}) \cup {port[k].set : k \in UnderWay} :
    a.no = b.no => a.data = b.data

\* A set that is under way is still in its slot, and so is a child's piece.
SlotsKept ==
  /\ \A k \in UnderWay : info[0].ds[port[k].slot].no = port[k].set.no
  /\ \A c \in linked : \A k \in 1..Len(reply[c]) :
       info[c].ds[(info[c].sendIndex + DATASET_NUM - k) % DATASET_NUM].no = 0

\* The parent reads the sets one after the other, and the assertion that the ring
\* is not run over holds.
RingHolds ==
  LET under == info[0].ds[info[0].writeIndex].no
  IN /\ under - ReadNo(0) + Ahead <= DATASET_NUM + 1
     /\ {d.no : d \in Unread(0)} = ReadNo(0)+1..under-1

\* A set has of each station what it gave when it read the set before, or the one
\* before that in double mode, as long as nobody comes or goes.
InStep ==
  \A s \in Station : changes = 0 \/ s = 0 =>
    \A d \in UNION {Seen(e) : e \in Station} :
      d.data[s] = IF d.no > Ahead /\ (s = 0 \/ s \in linked) THEN d.no - Ahead ELSE 0

\* The stations never all wait for each other: where no call of
\* WM_StepDataSharing has anything to do, no callback comes and nothing is sent,
\* all have read all sets.
NobodyWaits ==
  LET i == info[0]
      quiet == /\ step = NoStep /\ told = << >> /\ port = << >> /\ ~i.retry /\ ~Complete(i)
               /\ i.readIndex = i.sendIndex \/ ReadNo(0) = LastSet
               /\ \A c \in linked : reply[c] = << >> /\ Unread(c) = {} /\ ~info[c].retry
  IN quiet => /\ ReadNo(0) = LastSet
              /\ \A c \in linked : ReadNo(c) >= LastSet \/ (last[c] = None /\ changes > 0)
==============================================================================
