---------------------------- MODULE MCProcessors -----------------------------
(* Processors and stations that meet, on a small instance: a behaviour is one *)
(* of a lock word (OSSpinLock), one of the start and the reset (OSReset), or  *)
(* one of data shared over wireless (WMDataSharing), where the children can   *)
(* be exchanged.                                                              *)
EXTENDS OSSpinLock, TLC

CONSTANTS StaleBits, FifoDepth, Child, MaxSets, MaxChanges, MaxFull, NULL

VARIABLES
  part,
  at, bits, i, c, joined, wrote, fifo, callback, checker, occurred, initOwner,
  extension, idFlags,
  doubleMode, info, last, step, connected, linked, told, port, reply, changes, fulls,
  strayed

resetVars == <<at, bits, i, c, joined, wrote, fifo, callback, checker,
               occurred, initOwner, extension, idFlags>>
shareVars == <<doubleMode, info, last, step, connected, linked, told, port, reply,
               changes, fulls, strayed>>

Reset == INSTANCE OSReset WITH ownerID <- initOwner
Sharing == INSTANCE WMDataSharing WITH None <- NULL

Exchange == Permutations(Child)

\* The parts that stand still need one beginning.
MCInit ==
  /\ Init /\ Reset!Init /\ Sharing!Init
  /\ part \in {"lock", "reset", "sharing"}
  /\ part # "reset" => \A p \in Reset!Processor : bits[p] = 0 /\ fifo[p] = <<>>
  /\ part # "sharing" => ~doubleMode /\ linked = {}
\* When the parent has read the last set all may stop.
MCNext ==
  \/ part = "lock" /\ Next /\ UNCHANGED <<part, resetVars, shareVars>>
  \/ part = "reset" /\ Reset!Next /\ UNCHANGED <<part, vars, shareVars>>
  \/ part = "sharing" /\ Sharing!Next /\ UNCHANGED <<part, vars, resetVars>>
  \/ /\ part = "sharing" /\ Sharing!ReadNo(0) = Sharing!LastSet
     /\ UNCHANGED <<part, vars, resetVars, shareVars>>
MCSpec ==
  /\ MCInit /\ [][MCNext]_<<part, vars, resetVars, shareVars>>
  /\ Fairness
  /\ part = "reset" => Reset!Fairness

-----------------------------------------------------------------------------
\* A processor that is up has the other with it, finds the locks cleared and
\* hears when it is to be reset (with the types of both parts).
StartTogether ==
  /\ TypeOK /\ Reset!TypeOK
  /\ Reset!UpTogether /\ Reset!LocksFirst /\ Reset!ResetIsHeard

\* After power on and after each reset both processors run.
BothRun == part = "reset" => Reset!BothRun

\* Without double mode what is said of the stations holds after everything that can
\* happen.  With it nothing is said once the parent's send queue has refused a set or
\* its piece has gone past one: then sets are put twice, lost or never finished.
Orderly == doubleMode => ~strayed

\* Bound: in double mode a child comes or goes, or a put is refused, and not both.
Explored == Orderly /\ (doubleMode => changes + fulls <= 1)

\* All stations read the same sets, one after the other, each with a piece of
\* every station from the same moment; no slot is used again before its set or
\* its piece is sent (with the types of data sharing).
SetsAgree ==
  Orderly =>
    /\ Sharing!TypeOK
    /\ Sharing!SameSets /\ Sharing!SlotsKept /\ Sharing!RingHolds /\ Sharing!InStep

\* The stations never all wait for each other.
NobodyWaits == Orderly => Sharing!NobodyWaits
=============================================================================
