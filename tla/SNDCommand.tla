----------------------------- MODULE SNDCommand ------------------------------
(* The sound command protocol (libraries/snd/src/snd_command.c).  Threads of  *)
(* the ARM9 take commands from a free list, push them on a reserved list and  *)
(* flush that list: its first command goes over the FIFO to the ARM7, which   *)
(* queues the lists, executes their commands and counts the lists done in a   *)
(* shared word.  The ARM9 takes the lists back in the order it sent them.     *)
(*                                                                            *)
(* A section of the code with interrupts disabled is one step.  A tag counts  *)
(* lists modulo TagRange (2^32 in the code).  A word of the FIFO is the first *)
(* command of a list, or NULL for SND_MSG_REQUEST_COMMAND_PROC, which only    *)
(* wakes the ARM7's thread early.                                             *)

EXTENDS Naturals, SequencesExt

CONSTANTS
  Command,    \* sCommandArray
  Thread,     \* the threads of the ARM9
  Depth,      \* SND_PXI_FIFO_MESSAGE_BUFSIZE
  FifoDepth,  \* the words the FIFO holds
  TagRange,   \* the number of values of a tag
  NULL

\* What is assumed of the constants.
SNDAssumption ==
  /\ Depth \in Nat \ {0} /\ FifoDepth \in Nat \ {0}
  /\ TagRange \in Nat /\ TagRange % 2 = 0 /\ TagRange \div 2 > Depth + 1
  /\ NULL \notin Command \cup Thread
  /\ IsFiniteSet(Command) /\ Cardinality(Command) >= 2

VARIABLES
  next,              \* SNDCommand.next
  freeList,          \* sFreeList
  freeListEnd,       \* sFreeListEnd
  reserveList,       \* sReserveList
  reserveListEnd,    \* sReserveListEnd
  ring,              \* sWaitingCommandListQueue; NULL where nothing waits
  ringRead,          \* sWaitingCommandListQueueRead
  ringWrite,         \* sWaitingCommandListQueueWrite
  waitingCount,      \* sWaitingCommandListCount
  currentTag,        \* sCurrentTag
  finishedTag,       \* sFinishedTag
  finishCommandTag,  \* SNDSharedWork.finishCommandTag
  fifo,              \* the words on their way to the ARM7
  mesgQueue,         \* sCommandMesgQueue
  working,           \* the ARM7 is in the loop of SND_CommandProc
  command_p,         \* the command it comes to next
  held,              \* the command a thread took and has not pushed
  call,              \* the blocking call a thread is in
  irqOff             \* the thread that waits with interrupts disabled

lists == <<freeList, freeListEnd, reserveList, reserveListEnd, next>>
waiting == <<ring, ringRead, ringWrite, waitingCount, currentTag, finishedTag>>
arm7 == <<mesgQueue, working, command_p, finishCommandTag>>
vars == <<lists, waiting, arm7, fifo, held, call, irqOff>>

Idle == [op |-> "none", at |-> "out", arg |-> 0, n |-> 0]

Ops == {"none", "alloc", "free", "wait", "flush", "immediate"}
Places == {"out", "count", "reserved", "drain", "drained", "flush", "flushReply",
           "flushSend", "flushDrain", "request", "reply", "again"}

TypeOK ==
  /\ next \in [Command -> Command \cup {NULL}]
  /\ {freeList, freeListEnd, reserveList, reserveListEnd} \subseteq Command \cup {NULL}
  /\ ring \in [0..Depth -> Command \cup {NULL}]
  /\ ringRead \in 0..Depth /\ ringWrite \in 0..Depth
  /\ waitingCount \in 0..Depth
  /\ {currentTag, finishedTag, finishCommandTag} \subseteq 0..(TagRange - 1)
  /\ fifo \in Seq(Command \cup {NULL}) /\ Len(fifo) <= FifoDepth
  /\ mesgQueue \in Seq(Command) /\ Len(mesgQueue) <= Depth
  /\ working \in BOOLEAN
  /\ command_p \in Command \cup {NULL}
  /\ held \in [Thread -> Command \cup {NULL}]
  /\ call \in [Thread -> [op : Ops, at : Places, arg : Nat, n : Nat]]
  /\ irqOff \in Thread \cup {NULL}

\* The commands of the list that begins with c.
Path(link, c) ==
  LET node[n \in 1..Cardinality(Command)] ==
        IF n = 1 THEN c
        ELSE IF node[n - 1] = NULL THEN NULL ELSE link[node[n - 1]]
  IN [n \in 1..Cardinality({i \in DOMAIN node : node[i] # NULL}) |-> node[n]]

\* The state SND_CommandInit leaves: one list is on its way.
Init ==
  /\ \E s \in SetToSeqs(Command) :
       /\ next = [c \in Command |->
                   LET i == CHOOSE i \in DOMAIN s : s[i] = c
                   IN IF i \in {1, Len(s)} THEN NULL ELSE s[i + 1]]
       /\ freeList = s[2] /\ freeListEnd = s[Len(s)]
       /\ ring = [i \in 0..Depth |-> IF i = 0 THEN s[1] ELSE NULL]
       /\ fifo = <<s[1]>>
  /\ reserveList = NULL /\ reserveListEnd = NULL
  /\ ringRead = 0 /\ ringWrite = 1 /\ waitingCount = 1
  /\ currentTag = 2 /\ finishedTag = 0 /\ finishCommandTag = 0
  /\ mesgQueue = <<>> /\ working = FALSE /\ command_p = NULL
  /\ held = [t \in Thread |-> NULL]
  /\ call = [t \in Thread |-> Idle]
  /\ irqOff = NULL

Inc(tag) == (tag + 1) % TagRange
Follow(i) == IF i + 1 > Depth THEN 0 ELSE i + 1

CountFree == Len(Path(next, freeList))
CountReserved == Len(Path(next, reserveList))

\* A slip: tags are compared as if they did not wrap.
IsFinishedUnwrapped(tag) == tag <= finishedTag

\* SND_IsFinishedCommandTag compares tags half a range apart.
IsFinished(tag) ==
  IF tag > finishedTag THEN tag - finishedTag >= TagRange \div 2
                       ELSE finishedTag - tag < TagRange \div 2

\* The tags of the lists that were sent and not taken back.
SentTags == {(finishedTag + i) % TagRange : i \in 1..waitingCount}

Replied == finishedTag # finishCommandTag
Full == Len(fifo) = FifoDepth

\* Interrupts let t run.
Runs(t) == irqOff \in {NULL, t}
IsIdle(t) == Runs(t) /\ call[t].op = "none" /\ held[t] = NULL
At(t, places) == Runs(t) /\ call[t].at \in places
Goto(t, place) == call' = [call EXCEPT ![t].at = place]
Return(t) == call' = [call EXCEPT ![t] = Idle]

-----------------------------------------------------------------------------
(* Parts of the ARM9's calls.                                                 *)

\* SND_RecvCommandReply when the ARM7 has done another list.
Recv ==
  LET list == ring[ringRead] IN
  /\ Replied
  /\ ringRead' = Follow(ringRead)
  /\ next' = IF freeListEnd = NULL THEN next ELSE [next EXCEPT ![freeListEnd] = list]
  /\ freeList' = IF freeListEnd = NULL THEN list ELSE freeList
  /\ freeListEnd' = Last(Path(next, list))
  /\ waitingCount' = waitingCount - 1
  /\ finishedTag' = Inc(finishedTag)
  /\ ring' = [ring EXCEPT ![ringRead] = NULL]
  /\ UNCHANGED <<ringWrite, currentTag, reserveList, reserveListEnd>>

\* AllocCommand when a command is free.
AllocCommand(t) ==
  /\ freeList # NULL
  /\ held' = [held EXCEPT ![t] = freeList]
  /\ freeList' = next[freeList]
  /\ freeListEnd' = IF next[freeList] = NULL THEN NULL ELSE freeListEnd
  /\ UNCHANGED <<reserveList, reserveListEnd, next>>

\* The reserved list goes to the ARM7.
Send ==
  /\ ~Full
  /\ fifo' = Append(fifo, reserveList)
  /\ ring' = [ring EXCEPT ![ringWrite] = reserveList]
  /\ ringWrite' = Follow(ringWrite)
  /\ reserveList' = NULL /\ reserveListEnd' = NULL
  /\ waitingCount' = waitingCount + 1
  /\ currentTag' = Inc(currentTag)
  /\ UNCHANGED <<ringRead, finishedTag, freeList, freeListEnd, next>>

\* SND_FlushCommand returns to its caller, which may be another call of t.
FlushReturns(t) ==
  IF call[t].op = "flush" \/ call[t].op = "immediate" THEN Return(t) ELSE Goto(t, "request")

\* It does so after it has sent the list.
FlushHasSent(t) ==
  IF call[t].op = "flush" THEN Return(t) ELSE Goto(t, "request")

-----------------------------------------------------------------------------
(* Calls begin.  One that returns at once and changes nothing is left out.    *)

SND_AllocCommand(t, block) ==
  /\ IsIdle(t)
  /\ \/ AllocCommand(t) /\ UNCHANGED call
     \/ /\ freeList = NULL /\ block
        /\ call' = [call EXCEPT ![t] = [op |-> "alloc", at |-> "count", arg |-> 1, n |-> 1]]
        /\ UNCHANGED <<lists, held>>
  /\ UNCHANGED <<waiting, arm7, fifo, irqOff>>

\* The callers of SND_AllocCommand push the command at once.
SND_PushCommand(t) ==
  LET command == held[t] IN
  /\ Runs(t) /\ command # NULL
  /\ reserveList' = IF reserveListEnd = NULL THEN command ELSE reserveList
  /\ reserveListEnd' = command
  /\ next' = [c \in Command |->
               IF c = command THEN NULL
               ELSE IF c = reserveListEnd THEN command ELSE next[c]]
  /\ held' = [held EXCEPT ![t] = NULL]
  /\ UNCHANGED <<freeList, freeListEnd, waiting, arm7, fifo, call, irqOff>>

SND_RecvCommandReply(t) ==
  /\ IsIdle(t) /\ Recv
  /\ UNCHANGED <<arm7, fifo, held, call, irqOff>>

\* SND_FlushCommand without SND_COMMAND_BLOCK.
SND_FlushCommand(t, immediate) ==
  /\ IsIdle(t) /\ reserveList # NULL /\ waitingCount < Depth
  /\ Send
  /\ call' = IF immediate
             THEN [call EXCEPT ![t] = [Idle EXCEPT !.op = "immediate", !.at = "request"]]
             ELSE call
  /\ UNCHANGED <<arm7, held, irqOff>>

SND_FlushCommandBlock(t, op) ==
  /\ IsIdle(t) /\ reserveList # NULL
  /\ call' = [call EXCEPT ![t] = [Idle EXCEPT !.op = op, !.at = "flush"]]
  /\ UNCHANGED <<lists, waiting, arm7, fifo, held, irqOff>>

SND_WaitForCommandProc(t, tag) ==
  /\ IsIdle(t) /\ ~IsFinished(tag)
  /\ call' = [call EXCEPT ![t] = [op |-> "wait", at |-> "drain", arg |-> tag, n |-> 0]]
  /\ UNCHANGED <<lists, waiting, arm7, fifo, held, irqOff>>

SND_WaitForFreeCommand(t, count) ==
  /\ IsIdle(t) /\ CountFree < count
  /\ call' = [call EXCEPT ![t] =
                [op |-> "free", at |-> "count", arg |-> count, n |-> count - CountFree]]
  /\ UNCHANGED <<lists, waiting, arm7, fifo, held, irqOff>>

-----------------------------------------------------------------------------
(* Calls go on.                                                               *)

\* SND_CountWaitingCommand counts the two lists one after the other.  The
\* commands in neither are taken for waiting: when there are n of them, less
\* those counted free, the call waits for replies and does not flush.
CountFreeCommand(t) ==
  /\ At(t, {"count"})
  /\ call' = [call EXCEPT ![t].at = "reserved", ![t].n = @ + CountFree]
  /\ UNCHANGED <<lists, waiting, arm7, fifo, held, irqOff>>

\* A slip: the call waits for replies when all commands are reserved, too.
CountWithoutFlush(t) ==
  /\ At(t, {"reserved"})
  /\ Goto(t, "drain")
  /\ UNCHANGED <<lists, waiting, arm7, fifo, held, irqOff>>

CountReservedCommand(t) ==
  /\ At(t, {"reserved"})
  /\ call' = [call EXCEPT
       ![t].at = IF Cardinality(Command) - CountReserved >= call[t].n THEN "drain" ELSE "flush",
       ![t].n = 0]
  /\ UNCHANGED <<lists, waiting, arm7, fifo, held, irqOff>>

\* while (SND_RecvCommandReply(SND_COMMAND_NOBLOCK) != NULL)
Drain(t) ==
  /\ At(t, {"drain"})
  /\ \/ Recv /\ UNCHANGED call
     \/ ~Replied /\ Goto(t, "drained") /\ UNCHANGED <<lists, waiting>>
  /\ UNCHANGED <<arm7, fifo, held, irqOff>>

\* What the call waits for is tested.
Test(t) ==
  /\ At(t, {"drained", "again"})
  /\ LET c == call[t]
         met == CASE c.op = "alloc" -> freeList # NULL
                  [] c.op = "free" -> CountFree >= c.arg
                  [] c.op = "wait" -> IsFinished(c.arg)
     IN IF met THEN Return(t) /\ IF c.op = "alloc" THEN AllocCommand(t)
                                                   ELSE UNCHANGED <<lists, held>>
        ELSE /\ Goto(t, IF c.at = "drained" THEN "request" ELSE "reply")
             /\ UNCHANGED <<lists, held>>
  /\ UNCHANGED <<waiting, arm7, fifo, irqOff>>

RequestCommandProc(t) ==
  /\ At(t, {"request"}) /\ ~Full
  /\ fifo' = Append(fifo, NULL)
  /\ CASE call[t].op = "immediate" -> Return(t)
       [] call[t].op = "wait" -> Goto(t, "again")
       [] OTHER -> Goto(t, "reply")
  /\ UNCHANGED <<lists, waiting, arm7, held, irqOff>>

\* SND_RecvCommandReply(SND_COMMAND_BLOCK): it spins until the ARM7 replies.
Reply(t) ==
  /\ At(t, {"reply"}) /\ Recv
  /\ Goto(t, "again")
  /\ UNCHANGED <<arm7, fifo, held, irqOff>>

\* The first section of SND_FlushCommand.
Flush(t) ==
  /\ At(t, {"flush"})
  /\ \/ reserveList = NULL /\ FlushReturns(t) /\ UNCHANGED <<lists, waiting, fifo, irqOff>>
     \/ /\ reserveList # NULL /\ waitingCount >= Depth
        /\ Goto(t, "flushReply") /\ irqOff' = t
        /\ UNCHANGED <<lists, waiting, fifo>>
     \/ /\ reserveList # NULL /\ waitingCount < Depth
        /\ \/ Send /\ FlushHasSent(t)
           \/ Full /\ Goto(t, "flushDrain") /\ UNCHANGED <<lists, waiting, fifo>>
        /\ UNCHANGED irqOff
  /\ UNCHANGED <<arm7, held>>

\* SND_FlushCommand waits for replies; the section it calls from masks them.
FlushReply(t) ==
  /\ At(t, {"flushReply"}) /\ Recv
  /\ IF waitingCount' >= Depth THEN UNCHANGED call ELSE Goto(t, "flushSend")
  /\ UNCHANGED <<arm7, fifo, held, irqOff>>

\* SND_FlushCommand sends, or lets interrupts in and tries again.
FlushSend(t) ==
  /\ At(t, {"flushSend"}) /\ irqOff' = NULL
  /\ \/ reserveList = NULL /\ FlushReturns(t) /\ UNCHANGED <<lists, waiting, fifo>>
     \/ reserveList # NULL /\ waitingCount < Depth /\ Send /\ FlushHasSent(t)
     \/ /\ reserveList # NULL /\ (waitingCount >= Depth \/ Full)
        /\ Goto(t, "flushDrain") /\ UNCHANGED <<lists, waiting, fifo>>
  /\ UNCHANGED <<arm7, held>>

FlushDrain(t) ==
  /\ At(t, {"flushDrain"})
  /\ IF Replied THEN Recv ELSE UNCHANGED <<lists, waiting>>
  /\ Goto(t, "flushSend")
  /\ UNCHANGED <<arm7, fifo, held, irqOff>>

-----------------------------------------------------------------------------
(* The ARM7.                                                                  *)

PxiFifoCallback ==
  /\ fifo # <<>>
  /\ fifo' = Tail(fifo)
  /\ mesgQueue' = IF Head(fifo) = NULL \/ Len(mesgQueue) >= Depth
                  THEN mesgQueue ELSE Append(mesgQueue, Head(fifo))
  /\ UNCHANGED <<lists, waiting, working, command_p, finishCommandTag, held, call, irqOff>>

CommandProc_Receive ==
  /\ ~working /\ mesgQueue # <<>>
  /\ working' = TRUE
  /\ command_p' = Head(mesgQueue)
  /\ mesgQueue' = Tail(mesgQueue)
  /\ UNCHANGED <<lists, waiting, finishCommandTag, fifo, held, call, irqOff>>

\* A slip: only the first command of a list is executed.
ExecuteOnlyFirst ==
  /\ working /\ command_p # NULL
  /\ command_p' = NULL
  /\ UNCHANGED <<lists, waiting, mesgQueue, working, finishCommandTag, fifo, held, call, irqOff>>

CommandProc_Execute ==
  /\ working /\ command_p # NULL
  /\ command_p' = next[command_p]
  /\ UNCHANGED <<lists, waiting, mesgQueue, working, finishCommandTag, fifo, held, call, irqOff>>

CommandProc_Finish ==
  /\ working /\ command_p = NULL
  /\ working' = FALSE
  /\ finishCommandTag' = Inc(finishCommandTag)
  /\ UNCHANGED <<lists, waiting, mesgQueue, command_p, fifo, held, call, irqOff>>

-----------------------------------------------------------------------------
Begin(t) ==
  \/ \E block \in BOOLEAN : SND_AllocCommand(t, block)
  \/ SND_PushCommand(t)
  \/ SND_RecvCommandReply(t)
  \/ \E immediate \in BOOLEAN : SND_FlushCommand(t, immediate)
  \/ \E op \in {"flush", "immediate"} : SND_FlushCommandBlock(t, op)
  \/ \E tag \in SentTags : SND_WaitForCommandProc(t, tag)
  \/ \E count \in 1..Cardinality(Command) : SND_WaitForFreeCommand(t, count)

GoOn(t) ==
  \/ CountFreeCommand(t) \/ CountReservedCommand(t) \/ Drain(t) \/ Test(t)
  \/ RequestCommandProc(t) \/ Reply(t)
  \/ Flush(t) \/ FlushReply(t) \/ FlushSend(t) \/ FlushDrain(t)

SND_CommandProc == CommandProc_Receive \/ CommandProc_Execute \/ CommandProc_Finish

Next == PxiFifoCallback \/ SND_CommandProc \/ \E t \in Thread : Begin(t) \/ GoOn(t)

\* The ARM7's interrupt and its sound thread, which a periodic alarm wakes,
\* and the code of a call go on while they can.
Fairness ==
  /\ WF_vars(PxiFifoCallback) /\ WF_vars(SND_CommandProc)
  /\ \A t \in Thread : WF_vars(GoOn(t)) /\ WF_vars(SND_PushCommand(t))

Spec == Init /\ [][Next]_vars

-----------------------------------------------------------------------------
\* The lists among the words from the i-th on.
ListsFrom(i) == Cardinality({n \in i..Len(fifo) : fifo[n] \in Command})
Waiting == [i \in 1..waitingCount |-> ring[(ringRead + i - 1) % (Depth + 1)]]
Held == {held[t] : t \in Thread} \ {NULL}

\* A command is at one place: on the free list, on the reserved list, on one of
\* the lists sent and not taken back, or with the one thread that took it.  The
\* ends of the lists are kept; threads take, push, send and take back lists in
\* any order, one call may do so inside another.
CommandsInOneList ==
  LET chains == <<Path(next, freeList), Path(next, reserveList)>> \o [i \in 1..waitingCount |-> Path(next, Waiting[i])]
  IN /\ \A i, j \in DOMAIN chains : \A m \in DOMAIN chains[i], n \in DOMAIN chains[j] :
          chains[i][m] = chains[j][n] => i = j /\ m = n
     /\ UNION {ToSet(chains[i]) : i \in DOMAIN chains} = Command \ Held
     /\ \A t, u \in Thread : t # u => held[t] = NULL \/ held[t] # held[u]
     /\ freeListEnd = IF freeList = NULL THEN NULL ELSE Last(Path(next, freeList))
     /\ reserveListEnd = IF reserveList = NULL THEN NULL ELSE Last(Path(next, reserveList))

\* The tags of both processors count lists: what the ARM9 waits for is what the
\* ARM7 has done and not been asked about, works on, has queued and has still to
\* get, in the order it was sent; and SND_IsFinishedCommandTag is right about the
\* tag of each, when tags wrap as well.
TagsCountLists ==
  LET done == (finishCommandTag + TagRange - finishedTag) % TagRange
      atWork == IF working THEN 1 ELSE 0
  IN /\ done + atWork + Len(mesgQueue) + ListsFrom(1) = waitingCount
     /\ \A i \in DOMAIN mesgQueue : mesgQueue[i] = Waiting[done + atWork + i]
     /\ \A i \in DOMAIN fifo : fifo[i] # NULL => fifo[i] = Waiting[waitingCount + 1 - ListsFrom(i)]
     /\ working /\ command_p # NULL => command_p \in ToSet(Path(next, Waiting[done + 1]))
     /\ currentTag = (finishedTag + waitingCount + 1) % TagRange
     /\ (ringRead + waitingCount) % (Depth + 1) = ringWrite
     /\ IsFinished(finishedTag)
     /\ \A i \in 1..(waitingCount + 1) : ~IsFinished((finishedTag + i) % TagRange)

\* The commands of the lists s one after the other; a word that is no list has none.
Joined(s) ==
  LET joined[n \in 0..Len(s)] == IF n = 0 THEN <<>> ELSE joined[n - 1] \o Path(next, s[n])
  IN joined[Len(s)]
Pending == Path(next, command_p) \o Joined(mesgQueue) \o Joined(fifo) \o Path(next, reserveList)

\* The ARM7 executes each command that is pushed once and in order, and no
\* command is taken again before that.
Order == INSTANCE SNDOrder WITH taken <- Held, pending <- Pending
ExecutedInOrder == Order!Spec

\* A call returns when no other thread makes calls: it does not wait for replies
\* to lists nobody has sent.
CallsReturn == \A t \in Thread : call[t].op # "none" ~> call[t].op = "none"
=============================================================================
