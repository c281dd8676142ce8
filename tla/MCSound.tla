------------------------------- MODULE MCSound -------------------------------
(* The sound command protocol on small instances: a behaviour is one of two   *)
(* callers, or one of a single caller of a longer queue, for its liveness.    *)
EXTENDS TLC

CONSTANTS
  Command, Caller, Depth, FifoDepth, TagRange,  \* of two callers
  Few, Lone, Long, LongTags,                    \* of the single caller
  None

VARIABLES
  callers,  \* how many call
  next, freeList, freeListEnd, reserveList, reserveListEnd, ring, ringRead, ringWrite,
  waitingCount, currentTag, finishedTag, finishCommandTag, fifo, mesgQueue, working,
  command_p, held, soundCall, irqOff,
  oNext, oFreeList, oFreeListEnd, oReserveList, oReserveListEnd, oRing,
  oRingRead, oRingWrite, oWaitingCount, oCurrentTag, oFinishedTag,
  oFinishCommandTag, oFifo, oMesgQueue, oWorking, oCommand_p, oHeld, oCall,
  oIrqOff

twoVars == <<next, freeList, freeListEnd, reserveList, reserveListEnd, ring,
             ringRead, ringWrite, waitingCount, currentTag, finishedTag,
             finishCommandTag, fifo, mesgQueue, working, command_p, held,
             soundCall, irqOff>>
oneVars == <<oNext, oFreeList, oFreeListEnd, oReserveList, oReserveListEnd,
             oRing, oRingRead, oRingWrite, oWaitingCount, oCurrentTag,
             oFinishedTag, oFinishCommandTag, oFifo, oMesgQueue, oWorking,
             oCommand_p, oHeld, oCall, oIrqOff>>

Sound == INSTANCE SNDCommand WITH Thread <- Caller, call <- soundCall, NULL <- None

Single == INSTANCE SNDCommand WITH
  Command <- Few, Thread <- Lone, Depth <- Long, TagRange <- LongTags, NULL <- None,
  next <- oNext, freeList <- oFreeList, freeListEnd <- oFreeListEnd,
  reserveList <- oReserveList, reserveListEnd <- oReserveListEnd, ring <-
  oRing, ringRead <- oRingRead, ringWrite <- oRingWrite, waitingCount <-
  oWaitingCount, currentTag <- oCurrentTag, finishedTag <- oFinishedTag,
  finishCommandTag <- oFinishCommandTag, fifo <- oFifo, mesgQueue <-
  oMesgQueue, working <- oWorking, command_p <- oCommand_p, held <- oHeld,
  call <- oCall, irqOff <- oIrqOff

\* What is assumed of the constants of each part.
ASSUME CommandAssumption == Sound!SNDAssumption /\ Single!SNDAssumption

Exchange == Permutations(Command) \cup Permutations(Caller)

\* The commands of the part that is not run are in one order.
CallersInit ==
  /\ Sound!Init /\ Single!Init /\ callers \in {"two", "one"}
  /\ callers = "two" => oFreeList = CHOOSE c \in Few : TRUE
CallersNext ==
  \/ callers = "two" /\ Sound!Next /\ UNCHANGED <<callers, oneVars>>
  \/ callers = "one" /\ Single!Next /\ UNCHANGED <<callers, twoVars>>
SoundSpec ==
  /\ CallersInit /\ [][CallersNext]_<<callers, twoVars, oneVars>>
  /\ callers = "one" => Single!Fairness

-----------------------------------------------------------------------------
\* Each sound command is at one place and the tags count the lists (with the types
\* of the protocol).
ListsAndTags == Sound!TypeOK /\ Sound!CommandsInOneList /\ Sound!TagsCountLists

\* Each sound command is executed once and in order.
ExecutedInOrder == Sound!ExecutedInOrder

\* The calls of a single caller return (and its commands are each at one place,
\* with tags that count its lists, in the longer queue).
LoneCallsReturn ==
  /\ [](callers = "one" => Single!TypeOK /\ Single!CommandsInOneList /\ Single!TagsCountLists)
  /\ Single!CallsReturn
=============================================================================
