--------------------------- MODULE OSProcessorInv ---------------------------
(* What the proofs about MCProcessors say of the lock word, of the start and  *)
(* the reset, and of data shared: the inductive invariants, part by part, and *)
(* what the operations of the code do to them.                                *)

EXTENDS MCProcessors, OSSequenceLemmas

\* Who has the bus at every place, also the places BusFollowsHolder is silent
\* about: it is with the ARM7 whenever the word is free, which is what lets the
\* ARM7 take the word without allocating the bus.
BusInv ==
  /\ (\A id \in LockID : pc[id] \notin Holding) => bus = "ARM7"
  /\ \A id \in LockID :
       /\ pc[id] \in {"swapped", "freed"} => bus = "ARM7"
       /\ pc[id] \in {"allocated", "held", "unlocking", "cleared"} => bus = Processor(id)

IInv == TypeOK /\ MutualExclusion /\ FlagTellsFree /\ OwnerIsHolder /\ BusInv

-----------------------------------------------------------------------------

\* Holder is the ID that is holding, if one is.
HolderIs ==
  /\ \A id \in LockID : pc[id] \in Holding => Holder = id
  /\ (\A id \in LockID : pc[id] \notin Holding) => Holder = 0

-----------------------------------------------------------------------------
(* The start and the reset.                                                   *)

\* What the bits may be at power on, and a FIFO that has room.
ResetAssumption == StaleBits \subseteq 0..15 /\ FifoDepth \in Nat \ {0}

\* A processor is in PXI_InitFifo, or in OS_InitLock and OS_InitReset.
Opening == {"fifo", "read", "write", "wait"}
Setup == {"lock", "extension", "unlock", "relock", "callback"}

\* Where the ARM7 may be for each place of the ARM9.
PlacesOK ==
  LET a9 == at["ARM9"]
      a7 == at["ARM7"]
  IN  /\ a9 \in Opening => a7 \in {"fifo", "write", "wait", "await"}
      /\ a9 \in {"lock", "extension", "unlock", "relock"} => a7 \in {"wait", "lock", "extension"}
      /\ a9 = "callback" => a7 \in {"wait", "lock", "extension", "unlock", "callback", "run"}
      /\ a9 \in {"run", "reset"} => a7 = "run"
      /\ a9 = "sent" => a7 \in {"run", "reset", "boot", "signal"}
      /\ a9 \in {"reload", "boot"} => a7 \in {"boot", "signal"}
      /\ a9 \in {"clear", "await"} => a7 \in {"signal", "await"}
      /\ a9 # "signal" /\ a7 \notin {"read", "relock", "sent", "reload", "clear"}

\* Who waits in PXI_InitFifo has written its number.  As long as the ARM7 has not
\* written since the ARM9 entered the loop, the ARM9 has read the bits as they are,
\* or its count is at its beginning.
EchoOK ==
  LET a9 == at["ARM9"]
      a7 == at["ARM7"]
      i9 == i["ARM9"]
  IN  /\ i9 <= 5
      /\ a9 = "wait" => bits["ARM9"] = c
      /\ a7 = "wait" => bits["ARM7"] = i["ARM7"]
      /\ a7 \in {"fifo", "await", "write"} =>
           /\ a9 \in {"write", "wait"} => c = bits["ARM7"]
           /\ a9 \in {"read", "write"} => i9 <= 1
      /\ a7 = "wait" /\ joined =>
           /\ a9 \in {"write", "wait"} => c = bits["ARM7"]
           /\ a9 \in {"read", "write"} => i9 <= 1
      /\ a7 = "wait" /\ a9 = "write" => c = bits["ARM7"] \/ i9 <= 1

\* The ARM7's count goes below 7 only when the ARM9 answers, and then the ARM9's
\* count keeps up: it has reached Started when the ARM7's is at 0, so that the ARM9
\* leaves the loop when it reads this 0, and stays in it until then.
CountOK ==
  LET a9 == at["ARM9"]
      a7 == at["ARM7"]
      i9 == i["ARM9"]
      i7 == i["ARM7"]
      Ahead == i9 = 5 \/ i9 + i7 >= 6
  IN  a9 \in Opening =>
      /\ a7 = "write" /\ i7 = 6 => bits["ARM9"] = 7 /\ bits["ARM7"] = 7
      /\ a7 = "wait" /\ i7 = 6 =>
           /\ bits["ARM9"] = 7 \/ (a9 = "wait" /\ bits["ARM9"] = 6 /\ ~wrote)
           /\ a9 = "write" => c \in {6, 7}
      /\ a7 = "write" /\ i7 <= 5 =>
           /\ a9 = "wait" /\ ~wrote
           /\ bits["ARM7"] = i7 + 1 /\ c = i7 + 1 /\ i9 + i7 >= 5
      /\ a7 = "wait" /\ i7 <= 5 =>
           /\ ~joined
           /\ \/ a9 = "read" /\ c = i7 + 1 /\ bits["ARM9"] = c /\ Ahead
              \/ a9 = "write" /\ c = i7 /\ Ahead
              \/ a9 = "wait" /\ c = i7 /\ 0 < i7 /\ ~wrote /\ Ahead
              \/ a9 = "wait" /\ c = i7 + 1 /\ i9 + i7 >= 5

\* Out of the loop the bits are 0, but for the signal of OSi_DoBoot.
SilentOK ==
  LET a9 == at["ARM9"]
      a7 == at["ARM7"]
  IN  /\ a9 \notin Opening =>
           /\ i["ARM7"] = 0 /\ bits["ARM7"] = (IF a7 = "signal" THEN 1 ELSE 0)
           /\ bits["ARM9"] = (IF a9 \in {"clear", "await"} THEN 1 ELSE 0)
      /\ a7 = "await" => i["ARM7"] = 0 /\ bits["ARM7"] = 0

\* A word of a former life is only in the FIFO of who has not begun; the word that
\* asks for a reset is the last of its FIFO, its sender has not gone on, and its
\* receiver has not begun to load.
WordsOK ==
  LET a9 == at["ARM9"]
      a7 == at["ARM7"]
  IN  /\ \A p \in Reset!Processor : \A j \in 1..Len(fifo[p]) :
           /\ fifo[p][j] = "old" => at[p] = "fifo"
           /\ fifo[p][j] = "reset" => j = Len(fifo[p])
      /\ \A j \in 1..Len(fifo["ARM9"]) : fifo["ARM9"][j] = "reset" =>
           a9 = "sent" /\ a7 = "run" /\ ~occurred["ARM7"]
      /\ \A j \in 1..Len(fifo["ARM7"]) : fifo["ARM7"][j] = "reset" =>
           a9 = "sent" /\ a7 \in {"boot", "signal"} /\ ~occurred["ARM9"]
      /\ occurred["ARM7"] => a9 \notin Reset!Up \cup {"reset"}
      /\ occurred["ARM9"] =>
           /\ a7 \in {"boot", "signal", "await"}
           /\ a9 \in {"sent", "reload", "boot", "clear", "await"}
      /\ a7 = "reset" => occurred["ARM7"]
      /\ a7 \in {"fifo", "write", "wait", "lock", "extension", "unlock"} => ~occurred["ARM7"]
      /\ a9 \in Opening \cup Setup => ~occurred["ARM9"]

\* The lock word and the IDs at each place of the ARM9, and the callback of a
\* processor that runs.
LocksOK ==
  LET a9 == at["ARM9"]
      a7 == at["ARM7"]
  IN  /\ initOwner =
           IF a9 \in {"extension", "unlock"} THEN Reset!MAINP_SYSTEM - 1
           ELSE IF a9 \in {"callback", "run", "reset", "sent", "reload", "boot", "clear"}
                THEN Reset!MAINP_SYSTEM
           ELSE 0
      /\ a9 \in {"unlock", "relock", "callback", "run", "reset", "sent", "reload", "boot"} =>
           idFlags["ARM9"]
      /\ a7 \in {"unlock", "callback", "run"} => idFlags["ARM7"]
      /\ \A p \in Reset!Processor : at[p] \in {"run", "reset", "sent"} => callback[p]
      /\ checker["ARM7"] => a7 = "run" \/ a9 \in {"sent", "reload", "boot", "clear"}

ResetInv ==
  Reset!TypeOK /\ PlacesOK /\ EchoOK /\ CountOK /\ SilentOK /\ WordsOK /\ LocksOK

ResetPlaces == Reset!Loop \cup Reset!Down \cup Reset!Up \cup {"reset", "sent"}

-----------------------------------------------------------------------------
(* Data sharing: what is true of the parent.  A callback does several things  *)
(* in a row, so what it changes is a parameter: the parent's q, its port p,   *)
(* the callbacks t on their way, the children con and the set o that is       *)
(* finished and yet to be put, if there is one.                               *)

\* What is assumed: a child is not station 0, and nothing a set.
ShareAssumption == MaxSets \in Nat /\ 0 \notin Child /\ NULL \notin Sharing!DataSet

Ahead == Sharing!Ahead
Slot == Sharing!Slot

\* The slot of a set of the parent, by its number.
SlotOf(m) == (m + 3) % 4
Held(q, m) == q.ds[SlotOf(m)]

Rings ==
  [ds : [Slot -> Sharing!DataSet], writeIndex : Slot, readIndex : Slot, sendIndex : Slot,
   retry : BOOLEAN]
Packets == [slot : Slot, set : Sharing!DataSet, rest : SUBSET Child, new : BOOLEAN]
Notices ==
  [is : {"sent", "full"}] \cup [is : {"connected", "disconnected"}, child : Child]
    \cup [is : {"data"}, child : Child, piece : Sharing!Piece]
Puts == [slot : Slot, dest : SUBSET Child]
Steps ==
  {Sharing!NoStep} \cup [at : {"read"}, aids : SUBSET Child]
    \cup [at : {"send", "give", "next", "resend"}, give : BOOLEAN, delayed : BOOLEAN]
    \cup [at : {"put", "give", "next", "reput", "resend"}, give : BOOLEAN, delayed : BOOLEAN,
          slot : Slot, dest : SUBSET Child]

Sending ==
  IF step.at \in {"put", "reput"} THEN {[slot |-> step.slot, dest |-> step.dest]} ELSE {}

ParentTypes(q, p, t, con) ==
  q \in Rings /\ p \in Seq(Packets) /\ t \in Seq(Notices) /\ con \subseteq Child
StateTypes ==
  /\ doubleMode \in BOOLEAN /\ info \in [Sharing!Station -> Rings]
  /\ last \in [Sharing!Station -> Sharing!DataSet \cup {NULL}] /\ step \in Steps
  /\ linked \subseteq Child /\ reply \in [Child -> Seq(Sharing!Piece)] /\ changes \in Nat
ShareTypes == StateTypes /\ ParentTypes(info[0], port, told, connected)

\* The set that is collected, the one that was begun last, the last one the parent
\* has read, and the last one that has its piece.
Under(q) == q.ds[q.writeIndex].no
Top(q) == Under(q) + Ahead - 1
HasRead == Sharing!ReadNo(0)
Giving == step.at \in {"send", "put", "give", "next"} /\ step.give
Given == IF Giving THEN HasRead - 1 + Ahead ELSE HasRead + Ahead

\* Which sets the parent's ring has, and which of them have the parent's piece.
RingOK(q) ==
  /\ Under(q) > Ahead /\ Under(q) <= Given + 1
  /\ Under(q) > HasRead /\ HasRead <= Sharing!LastSet
  /\ q.writeIndex = SlotOf(Under(q)) /\ q.readIndex = SlotOf(HasRead + 1)
  /\ \A k \in Slot : k = SlotOf(q.ds[k].no)
  /\ \A m \in 1..Top(q) : m + 4 > Top(q) => Held(q, m).no = m
  /\ \A m \in Under(q)..Top(q) :
       /\ 0 \in Held(q, m).aidBitmap <=> m > Given
       /\ 0 \notin Held(q, m).aidBitmap => Held(q, m).data[0] = m - Ahead
  /\ \A m \in Ahead+1..Under(q)-1 : m + 4 > Top(q) => Child \subseteq Held(q, m).aidBitmap

\* Whom a set waits for: nobody who has left, and who is waited for is in the next.
LackOK(q, con) ==
  \A m \in Under(q)..Top(q) :
    /\ Held(q, m).aidBitmap \subseteq con \cup {0}
    /\ m < Top(q) => Held(q, m).aidBitmap \subseteq Held(q, m + 1).aidBitmap \cup {0}

\* Where the parent is when a set is finished: all that have its piece are.
PlaceOK(q) ==
  /\ step.at \in {"put", "reput"} => Under(q) = Given + 1
  /\ doubleMode /\ (Under(q) < Given \/ step.at \in {"give", "next"})
       => Held(q, Under(q)).aidBitmap # {}
  /\ step.at \in {"give", "next"} => step.give
  /\ step.at = "next" => doubleMode

\* At most one set is finished and not in the port.
Refusal(q, t) == q.retry \/ \E k \in DOMAIN t : t[k].is = "full"
Pending(q, t, o) == o # {} \/ Refusal(q, t)
Unput(q, t, o) == IF Pending(q, t, o) THEN 1 ELSE 0
PendingOK(q, t, o) ==
  /\ \A h \in o : /\ h.slot = SlotOf(Under(q) - 1) /\ ~Refusal(q, t)
                  /\ doubleMode => Under(q) - 1 > Ahead
  /\ Refusal(q, t) => ~doubleMode
  /\ \A k \in DOMAIN t : t[k].is = "full" =>
       ~q.retry /\ \A n \in DOMAIN t : t[n].is = "full" => n = k

\* Sets that are finished are reported one after the other.
Reports == [is : {"sent"}]
Out(q, p, t, o) == Later(t, 1, Reports) + Len(p) + Unput(q, t, o)
SentOK(q, p, t, o) ==
  /\ q.sendIndex = SlotOf(Under(q) - Out(q, p, t, o))
  /\ HasRead < Under(q) - Out(q, p, t, o)

\* The number of the set that is put next, and what was put before.
NextPut(q, t, o) == Under(q) - Unput(q, t, o)
PortOK(q, p, t, con, o) ==
  \A k \in DOMAIN p :
    /\ p[k].rest \subseteq linked \cap con
    /\ \A h \in o : p[k].rest \subseteq h.dest
    /\ doubleMode => p[k].rest \subseteq p[k].set.aidBitmap
    /\ \A n \in DOMAIN p : k < n => p[k].rest \subseteq p[n].rest
    /\ p[k].rest # {} =>
         /\ p[k].set.no = NextPut(q, t, o) + k - Len(p) - 1
         /\ p[k].slot = SlotOf(p[k].set.no)
         /\ Child \subseteq p[k].set.aidBitmap \/ p[k].set.no <= Ahead

\* Without double mode the first set has, when it is sent, whoever the second one
\* waits for.
FirstOK(q, p) ==
  ~doubleMode /\ Under(q) = 2 =>
    /\ Held(q, 2).aidBitmap \subseteq Held(q, 1).aidBitmap \cup {0}
    /\ \A k \in DOMAIN p : Held(q, 2).aidBitmap \subseteq p[k].set.aidBitmap \cup {0}

\* What a callback tells of a child, and what all of them do.
NoticeOK(t, k, con, o) ==
  /\ t[k].is = "connected" =>
       /\ t[k].child \notin con /\ \A h \in o : t[k].child \notin h.dest
       /\ \A n \in DOMAIN t : t[n].is = "connected" /\ t[n].child = t[k].child => n = k
  /\ t[k].is = "disconnected" =>
       /\ t[k].child \notin linked
       /\ \A n \in DOMAIN t : t[n].is = "disconnected" /\ t[n].child = t[k].child => n = k
       /\ \A n \in DOMAIN t :
            t[n].is \in {"connected", "data"} /\ t[n].child = t[k].child => n < k
  /\ t[k].is = "data" => t[k].child \in con
  /\ t[k].is \in {"connected", "disconnected"} => changes > 0

\* The callbacks that wait to be carried out.
ToldOK(t, con, o) ==
  /\ \A k \in DOMAIN t :
       /\ NoticeOK(t, k, con, o)
       /\ t[k].is = "connected" /\ t[k].child \notin linked =>
            \E n \in DOMAIN t : t[n].is = "disconnected" /\ t[n].child = t[k].child
  /\ \A e \in linked \ con : \E k \in DOMAIN t : t[k].is = "connected" /\ t[k].child = e
  /\ \A e \in con \ linked : \E k \in DOMAIN t : t[k].is = "disconnected" /\ t[k].child = e
  /\ changes = 0 => con = linked /\ \A h \in o : h.dest = linked

-----------------------------------------------------------------------------
(* What is true of the children, and of what they and the parent know.        *)

\* The sets a child has not read, and those on their way to it.
Unread(e) == (info[e].writeIndex + 4 - info[e].readIndex) % 4
InPort(p, e) ==
  One(1 <= Len(p) /\ e \in p[1].rest) + One(2 <= Len(p) /\ e \in p[2].rest)
Begun(p, e) == Unread(e) > 0 \/ last[e] # NULL \/ InPort(p, e) > 0

\* The piece that a child is to put again.
Retries(e) == IF info[e].retry THEN 1 ELSE 0

\* Where a child puts its pieces out of, and which they are.
KidOK(e) ==
  /\ e \notin linked => info[e] = Sharing!Started /\ last[e] = NULL /\ reply[e] = <<>>
  /\ info[e].sendIndex = (info[e].readIndex + IF info[e].retry THEN 2 ELSE 3) % 4
  /\ info[e].retry \/ reply[e] # <<>> => last[e] # NULL
  /\ \A k \in 1..Len(reply[e]) :
       /\ info[e].ds[(info[e].sendIndex + 4 - k) % 4].no = 0
       /\ reply[e][k] = last[e].no - Retries(e) - Len(reply[e]) + k

\* A child reads one set after the other.
FirstUnread(q, p, t, o, e) == NextPut(q, t, o) - InPort(p, e) - Unread(e)
ReadsOK(q, p, t, con, o, e) ==
  Begun(p, e) =>
    /\ e \in linked \cap con /\ \A h \in o : e \in h.dest
    /\ FirstUnread(q, p, t, o, e) >= 1
    /\ last[e] # NULL => last[e].no = FirstUnread(q, p, t, o, e) - 1 /\ last[e].no >= 1
    /\ ~doubleMode => \A k \in DOMAIN p : p[k].new => e \in p[k].rest
    /\ \A k \in 0..Unread(e)-1 :
         info[e].ds[(info[e].readIndex + k) % 4].no = FirstUnread(q, p, t, o, e) + k

\* The pieces of e that are on their way to the parent's ARM9.
DataOf(e) == [is : {"data"}, child : {e}, piece : Sharing!Piece]
PiecesOK(t, e) ==
  \A k \in DOMAIN t :
    t[k].is = "data" /\ t[k].child = e /\ e \in linked =>
      /\ last[e] # NULL
      /\ t[k].piece = last[e].no - Retries(e) - Len(reply[e]) + 1 - Later(t, k, DataOf(e))

\* Who is waited for has a set to answer.  An answer too many has only who came
\* while a set was refused that then is put again.
Lacks(q, e) ==
  One(e \in Held(q, Under(q)).aidBitmap)
    + One(doubleMode /\ e \in Held(q, Under(q) + 1).aidBitmap)
Owed(q, t, o, e) == One((\E h \in o : e \in h.dest) \/ Refusal(q, t))
OnTheWay(p, t, e) ==
  InPort(p, e) + Unread(e) + Retries(e) + Len(reply[e]) + Later(t, 1, DataOf(e))
Unanswered(q, p, t, o, e) == Owed(q, t, o, e) + OnTheWay(p, t, e)
Exact(p, o, e) ==
  \/ doubleMode
  \/ changes = 0
  \/ \E h \in o : e \notin h.dest
  \/ p # <<>> /\ p[Len(p)].new /\ e \notin p[Len(p)].rest
BalanceOK(q, p, t, con, o, e) ==
  e \in linked \cap con =>
    /\ Unanswered(q, p, t, o, e) - Lacks(q, e) \in 0..1
    /\ Exact(p, o, e) => Unanswered(q, p, t, o, e) = Lacks(q, e)

\* As long as nobody comes or goes, every child is given every set.
NoneLeftOut(q, p, t, o) ==
  changes = 0 => \A e \in linked : Begun(p, e) \/ Pending(q, t, o)

\* The sets that can be seen, and that they are the same.
Known(q, p) ==
  {q.ds[k] : k \in {n \in Slot : q.ds[n].no < Under(q)}}
    \cup {p[k].set : k \in {n \in DOMAIN p : p[n].rest # {}}}
    \cup {last[s] : s \in {e \in Sharing!Station : last[e] # NULL}}
    \cup UNION {{info[e].ds[k] : k \in Slot} : e \in Child}

Agree(S) == \A d, f \in S : d.no = f.no => d.data = f.data

\* What the piece of station s is in set m, as long as nobody comes or goes.
PieceOf(s, m) == IF m > Ahead /\ s \in linked \cup {0} THEN m - Ahead ELSE 0
IsRight(d) ==
  /\ d.data[0] = PieceOf(0, d.no)
  /\ d.no = 0 => d.data = Sharing!NoData
  /\ changes = 0 => \A e \in Child : d.data[e] = PieceOf(e, d.no)
KnownOK(q, p) ==
  /\ Agree(Known(q, p))
  /\ \A d \in Known(q, p) : d.no < Under(q) /\ IsRight(d)

\* What the sets have that are not finished.
CollectOK(q) ==
  changes = 0 => \A m \in Under(q)..Top(q) : \A e \in Child :
    Held(q, m).data[e] = IF e \in Held(q, m).aidBitmap THEN 0 ELSE PieceOf(e, m)

KidsOK(q, p, t, con, o) ==
  \A e \in Child :
    /\ KidOK(e) /\ ReadsOK(q, p, t, con, o, e)
    /\ PiecesOK(t, e) /\ BalanceOK(q, p, t, con, o, e)
ParentOK(q, p, t, con, o) ==
  /\ RingOK(q) /\ LackOK(q, con) /\ PendingOK(q, t, o) /\ SentOK(q, p, t, o)
  /\ PortOK(q, p, t, con, o) /\ ToldOK(t, con, o) /\ NoneLeftOut(q, p, t, o)
  /\ KnownOK(q, p) /\ CollectOK(q) /\ FirstOK(q, p)
AllOK(q, p, t, con, o) ==
  ParentTypes(q, p, t, con) /\ ParentOK(q, p, t, con, o) /\ KidsOK(q, p, t, con, o)
ShareInv ==
  StateTypes /\ PlaceOK(info[0]) /\ AllOK(info[0], port, told, connected, Sending)

-----------------------------------------------------------------------------
(* A set is finished, and put.                                                *)

\* f is what q is after WmDataSharingSendDataSet has finished the set.
FinishedInto(q, f, con) ==
  /\ f \in Rings /\ Under(f) = Under(q) + 1
  /\ f.writeIndex = SlotOf(Under(q) + 1) /\ f.readIndex = q.readIndex
  /\ f.sendIndex = q.sendIndex /\ f.retry = q.retry
  /\ Held(f, Under(q) + Ahead) = Sharing!Fresh(Under(q) + Ahead, con \cup {0})
  /\ Held(f, Under(q)).no = Under(q) /\ Held(f, Under(q)).data = Held(q, Under(q)).data
  /\ Child \subseteq Held(f, Under(q)).aidBitmap
  /\ \A m \in Nat : m # Under(q) /\ m < Under(q) + Ahead /\ m + 4 > Under(q) + Ahead
       => Held(f, m) = Held(q, m)
  /\ \A k \in Slot : k # SlotOf(Under(q)) /\ k # SlotOf(Under(q) + Ahead) => f.ds[k] = q.ds[k]
  /\ Under(q) <= Given /\ Held(q, Under(q)).aidBitmap = {}

\* What the indices of what is sent and the retry have no part in.
SameRing(q, f) ==
  f \in Rings /\ f.ds = q.ds /\ f.writeIndex = q.writeIndex /\ f.readIndex = q.readIndex

\* A finished set is put, whoever it is for.
IsParent(v) == v = [info |-> v.info, port |-> v.port, told |-> v.told]

\* Where the parent is, whether the set under collection is finished or not.
PlaceLeft(q) ==
  /\ step.at \in {"put", "reput"} => Under(q) = Given + 1
  /\ step.at \in {"give", "next"} => step.give
  /\ step.at = "next" => doubleMode

-----------------------------------------------------------------------------
(* A piece is put into the first set under collection that lacks it.          *)

ReceivedInto(q, f, s, m, piece) ==
  /\ f \in Rings /\ f.writeIndex = q.writeIndex /\ f.readIndex = q.readIndex
  /\ f.sendIndex = q.sendIndex /\ f.retry = q.retry
  /\ Held(f, m).no = Held(q, m).no /\ Held(f, m).aidBitmap = Held(q, m).aidBitmap \ {s}
  /\ Held(f, m).data[s] = piece
  /\ \A r \in Sharing!Station : r # s => Held(f, m).data[r] = Held(q, m).data[r]
  /\ \A k \in Slot : k # SlotOf(m) => f.ds[k] = q.ds[k]
  /\ m \in Under(q)..Top(q) /\ s \in Held(q, m).aidBitmap
  /\ \A n \in Under(q)..Top(q) : n < m => s \notin Held(q, n).aidBitmap

\* A child has gone: it is waited for no more.
LeftBy(q, f, s) ==
  /\ f \in Rings /\ f.writeIndex = q.writeIndex /\ f.readIndex = q.readIndex
  /\ f.sendIndex = q.sendIndex /\ f.retry = q.retry
  /\ \A k \in Slot : f.ds[k].no = q.ds[k].no /\ f.ds[k].data = q.ds[k].data
  /\ \A n \in Under(q)..Top(q) : Held(f, n).aidBitmap = Held(q, n).aidBitmap \ {s}
  /\ \A n \in Nat : n < Under(q) /\ n + 4 > Top(q) => Held(f, n) = Held(q, n)

-----------------------------------------------------------------------------
(* The steps.  What they leave alone stays true.                              *)

\* A child that does nothing.
Idle(e) == info'[e] = info[e] /\ last'[e] = last[e] /\ reply'[e] = reply[e]

-----------------------------------------------------------------------------
(* The parent's WM_StepDataSharing.                                           *)

\* A set of the ring is marked as read.
ReadInto(q, f, d) ==
  /\ f \in Rings /\ f.writeIndex = q.writeIndex /\ f.sendIndex = q.sendIndex
  /\ f.retry = q.retry /\ f.readIndex = SlotOf(HasRead + 2)
  /\ d = Held(f, HasRead + 1) /\ d \in Sharing!DataSet
  /\ d.no = HasRead + 1 /\ d.data = Held(q, HasRead + 1).data
  /\ Held(q, HasRead + 1).no = HasRead + 1
  /\ d.aidBitmap = Held(q, HasRead + 1).aidBitmap \cup {0}
  /\ \A k \in Slot : k # SlotOf(HasRead + 1) => f.ds[k] = q.ds[k]

ReadAs(q, f, d) ==
  /\ d = [q.ds[q.readIndex] EXCEPT !.aidBitmap = @ \cup {0}]
  /\ f = [q EXCEPT !.ds[q.readIndex] = d, !.readIndex = Sharing!Next4(@)]

-----------------------------------------------------------------------------
(* The ARM7 of the parent and the radio.                                      *)

\* A callback more changes nothing of what was put, and nothing of other children.
MoreTold(q, p, t, con, u, x) ==
  /\ ParentTypes(q, p, u, con)
  /\ (Refusal(q, u) <=> Refusal(q, t)) /\ (Pending(q, u, Sending) <=> Pending(q, t, Sending))
  /\ NextPut(q, u, Sending) = NextPut(q, t, Sending)
  /\ PendingOK(q, u, Sending) /\ SentOK(q, p, u, Sending) /\ PortOK(q, p, u, con, Sending)
  /\ \A e \in Child :
       /\ FirstUnread(q, p, u, Sending, e) = FirstUnread(q, p, t, Sending, e)
       /\ ReadsOK(q, p, u, con, Sending, e)
       /\ Owed(q, u, Sending, e) = Owed(q, t, Sending, e)
       /\ x \notin DataOf(e) => PiecesOK(u, e) /\ BalanceOK(q, p, u, con, Sending, e)

\* The k-th packet of port p is given to a child.
Handed(p, f, k, e) ==
  /\ f \in Seq(Packets) /\ Len(p) \in Nat /\ Len(f) = Len(p)
  /\ DOMAIN p = 1..Len(p) /\ DOMAIN f = 1..Len(p) /\ k \in 1..Len(p)
  /\ e \in p[k].rest /\ p[k] \in Packets
  /\ \A j \in 1..Len(p) : f[j].set = p[j].set /\ f[j].slot = p[j].slot
  /\ \A j \in 1..Len(p) : j # k => f[j] = p[j]
  /\ \A j \in 1..Len(p) : j < k => e \notin p[j].rest
  /\ f[k].rest = p[k].rest \ {e} /\ f[k].new = FALSE

\* A packet that a child was given.
GivenTo(b, e) == [b EXCEPT !.rest = @ \ {e}, !.new = FALSE]

\* What the parent has put is as before when a child is given a packet of it.
HandedOver(q, p, f, t, con, k, c1) ==
  /\ ParentTypes(q, f, t, con) /\ SentOK(q, f, t, Sending) /\ PortOK(q, f, t, con, Sending)
  /\ FirstOK(q, f)
  /\ \A e \in Child : e # c1 =>
       /\ InPort(f, e) = InPort(p, e)
       /\ ReadsOK(q, f, t, con, Sending, e) /\ BalanceOK(q, f, t, con, Sending, e)
  /\ InPort(p, c1) = Len(p) - k + 1 /\ InPort(f, c1) = Len(p) - k
  /\ p[k].set.no = NextPut(q, t, Sending) - InPort(p, c1)
  /\ Child \subseteq p[k].set.aidBitmap \/ p[k].set.no <= Ahead
  /\ Exact(f, Sending, c1) => Exact(p, Sending, c1)
  /\ \A n \in DOMAIN f : f[n].new => n # k /\ f[n] = p[n]
  /\ \A n \in DOMAIN f : f[n].rest \subseteq p[n].rest /\ f[n].set = p[n].set

\* A set is put into the slot a child writes next.
WithSet(b, s) == [b EXCEPT !.ds[b.writeIndex] = s, !.writeIndex = Sharing!Next4(@)]
KeptInto(b, g, s) ==
  /\ b \in Rings /\ g \in Rings /\ g.readIndex = b.readIndex /\ g.sendIndex = b.sendIndex
  /\ g.retry = b.retry
  /\ g.writeIndex = Sharing!Next4(b.writeIndex) /\ g.ds[b.writeIndex] = s
  /\ \A k \in Slot : k # b.writeIndex => g.ds[k] = b.ds[k]

\* Where a set that is known is.
KnownAt(q, p, l, r, d) ==
  \/ \E n \in Slot : q.ds[n].no < Under(q) /\ d = q.ds[n]
  \/ \E n \in DOMAIN p : p[n].rest # {} /\ d = p[n].set
  \/ \E e \in Sharing!Station : l[e] # NULL /\ d = l[e]
  \/ \E e \in Child : \E n \in Slot : d = r[e].ds[n]

\* What the counts of a child are.
KidCounts(q, p, t, o, e) ==
  /\ InPort(p, e) \in 0..2 /\ Unread(e) \in 0..3 /\ Retries(e) \in 0..1
  /\ Len(reply[e]) \in Nat /\ Owed(q, t, o, e) \in 0..1 /\ Lacks(q, e) \in 0..2
  /\ \A n \in Nat : Later(t, n, DataOf(e)) \in Nat
  /\ Later(t, 1, DataOf(e)) \in Nat
  /\ Unanswered(q, p, t, o, e) = Owed(q, t, o, e) + OnTheWay(p, t, e)
  /\ OnTheWay(p, t, e)
       = InPort(p, e) + Unread(e) + Retries(e) + Len(reply[e]) + Later(t, 1, DataOf(e))
  /\ NextPut(q, t, o) \in Int

\* What a child has read, and what its ring holds, is from its ring or nothing.
SetFrom(b, l, s) ==
  s = NULL \/ s = l \/ \E n \in Slot : s.no = b.ds[n].no /\ s.data = b.ds[n].data
RingFrom(b, g) ==
  \A n \in Slot : \/ g.ds[n].no = b.ds[n].no /\ g.ds[n].data = b.ds[n].data
                  \/ g.ds[n].no = 0 /\ g.ds[n].data = Sharing!NoData

\* What a child puts its pieces out of, after a step.
KidState(g, s, v) ==
  /\ g.sendIndex = (g.readIndex + IF g.retry THEN 2 ELSE 3) % 4
  /\ g.retry \/ v # <<>> => s # NULL
  /\ \A n \in 1..Len(v) : /\ g.ds[(g.sendIndex + 4 - n) % 4].no = 0
                          /\ v[n] = s.no - (IF g.retry THEN 1 ELSE 0) - Len(v) + n

\* A child leaves a set for the next time.
MarkedIn(b) == [b EXCEPT !.ds[b.readIndex].aidBitmap = @ \cup {0}]
MarkInto(b, g) ==
  /\ b \in Rings /\ g \in Rings /\ g.readIndex = b.readIndex /\ g.sendIndex = b.sendIndex
  /\ g.retry = b.retry /\ g.writeIndex = b.writeIndex
  /\ \A n \in Slot : g.ds[n].no = b.ds[n].no /\ g.ds[n].data = b.ds[n].data

\* A set that is marked stays what it is.
MarkedSet(d) == [d EXCEPT !.aidBitmap = @ \cup {0}]

\* A child puts a piece, out of the slot it has kept for it; it has read rd sets before,
\* and is to put the piece again when y2 is 1.
PutInto(b, g, rd, y2) ==
  /\ b \in Rings /\ g \in Rings /\ g.writeIndex = b.writeIndex
  /\ g.readIndex = (b.readIndex + rd) % 4 /\ g.sendIndex = (b.sendIndex + 1 - y2) % 4
  /\ (g.retry <=> y2 = 1)
  /\ g.ds[b.sendIndex].no = 0 /\ g.ds[b.sendIndex].data = Sharing!NoData
  /\ \A n \in Slot : n # b.sendIndex => g.ds[n] = b.ds[n]

\* The slots of a child that reads and puts: w, r and sd are its indices.
SlotsAfter(w, r, x, y2, sd, rd, r2, sd2) ==
  /\ (w + 4 - r2) % 4 = x - rd /\ sd2 = (r2 + 3 - y2) % 4 /\ sd \in Slot
  /\ \A n \in 0..2 : n <= x - rd - 1 =>
       /\ (r2 + n) % 4 # sd /\ (r2 + n) % 4 = (r + (n + rd)) % 4 /\ (r2 + n) % 4 \in Slot
  /\ \A k \in 1..3 :
       /\ y2 = 1 => (sd2 + 4 - k) % 4 = (sd + 4 - k) % 4
       /\ y2 = 0 => (sd2 + 4 - k) % 4 = (sd + 4 - (k - 1)) % 4
       /\ (sd2 + 4 - k) % 4 \in Slot
  /\ (sd + 4 - 0) % 4 = sd

\* The step in which a child puts a piece: v are its packets then, and s the set it has
\* read last.
PieceStep(e, g, rd, y2, s, v) ==
  /\ UNCHANGED <<step, connected, linked, told, port, changes, doubleMode>>
  /\ e \in linked /\ info' = [info EXCEPT ![e] = g]
  /\ rd = 1 - Retries(e) /\ PutInto(info[e], g, rd, y2) /\ Unread(e) >= rd
  /\ last' = [last EXCEPT ![e] = s] /\ reply' = [reply EXCEPT ![e] = v]
  /\ rd = 0 => s = last[e]
  /\ rd = 1 => s = info[e].ds[info[e].readIndex]
  /\ y2 = 1 => v = reply[e]
  /\ y2 = 0 => v = Append(reply[e], s.no)

\* What a child's ring is after a piece is put out of its slot, or the queue was full,
\* and after it has gone on to the next set.
PieceGone(b) == [b EXCEPT !.ds[b.sendIndex] = Sharing!Fresh(0, {}),
                          !.sendIndex = Sharing!Next4(@), !.retry = FALSE]
PieceStays(b) == [b EXCEPT !.ds[b.sendIndex] = Sharing!Fresh(0, {}), !.retry = TRUE]
PutPast(b, y2) == IF y2 = 1 THEN PieceStays(b) ELSE PieceGone(b)
GoneOn(b) == [b EXCEPT !.readIndex = Sharing!Next4(@)]
PutOut(v, k, y2) == IF y2 = 1 THEN v ELSE Append(v, k)

\* A ring after a piece is put out of it.
PutFrom(b, g, y2) ==
  /\ g \in Rings /\ g.writeIndex = b.writeIndex /\ g.readIndex = b.readIndex
  /\ g.sendIndex = (b.sendIndex + 1 - y2) % 4 /\ (g.retry <=> y2 = 1)
  /\ g.ds[b.sendIndex].no = 0 /\ g.ds[b.sendIndex].data = Sharing!NoData
  /\ \A k \in Slot : k # b.sendIndex => g.ds[k] = b.ds[k]

-----------------------------------------------------------------------------
(* Children that come and go.                                                 *)

\* A child that neither comes nor goes: p is the port without the one that goes.
SameFor(p, r, e) ==
  /\ Len(r) = Len(p) /\ DOMAIN r = DOMAIN p /\ DOMAIN p = 1..Len(p) /\ Len(p) \in Nat
  /\ \A n \in DOMAIN p : r[n].new = p[n].new /\ (e \in r[n].rest <=> e \in p[n].rest)

\* The packets p without the child who goes.
Without(p, c1) == [k \in DOMAIN p |-> [p[k] EXCEPT !.rest = @ \ {c1}]]
LeavesBehind(p, r, c1) ==
  /\ r \in Seq(Packets) /\ Len(r) = Len(p) /\ Len(p) \in Nat
  /\ DOMAIN p = 1..Len(p) /\ DOMAIN r = 1..Len(p)
  /\ \A k \in 1..Len(p) : /\ r[k].slot = p[k].slot /\ r[k].set = p[k].set /\ r[k].new = p[k].new
                          /\ r[k].rest = p[k].rest \ {c1}

-----------------------------------------------------------------------------
(* The beginning, and all steps.                                              *)

\* How data sharing begins.
BegunWith(q, p) ==
  /\ q \in Rings /\ q.writeIndex = Ahead /\ q.readIndex = 0 /\ q.retry = FALSE
  /\ \A n \in Slot : q.ds[n] = Sharing!Fresh(n + 1, linked \cup {0})
  /\ linked = {} => p = <<>> /\ q.sendIndex = Ahead
  /\ linked # {} => /\ Len(p) = Ahead /\ DOMAIN p = 1..Ahead /\ q.sendIndex = 0
                    /\ \A k \in 1..Ahead : /\ p[k].slot = k - 1 /\ p[k].rest = linked
                                           /\ p[k].set = q.ds[k - 1]
  /\ p \in Seq(Packets)

\* The ring and the packets that the parent begins with.
FirstSets == [n \in Slot |-> Sharing!Fresh(n + 1, linked \cup {0})]
FirstSend == IF linked = {} THEN Ahead ELSE 0
FirstRing ==
  [Sharing!Started EXCEPT !.ds = FirstSets, !.writeIndex = Ahead, !.sendIndex = FirstSend]
FirstPort ==
  IF linked = {} THEN <<>>
  ELSE [k \in 1..Ahead |-> [slot |-> k - 1, set |-> FirstSets[k - 1], rest |-> linked,
                            new |-> TRUE]]
=============================================================================
