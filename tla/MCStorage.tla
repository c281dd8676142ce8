------------------------------ MODULE MCStorage ------------------------------
(* Storage on small instances: a behaviour is one of two heaps in an arena    *)
(* (OSAlloc), one of the card's backup with two clients (CARDTask), or one of *)
(* an archive with two files (FSArchive).                                     *)
EXTENDS OSAlloc, TLC

CONSTANTS Client, TaskThread, MaxRef, MaxLen, SectorPages, MaxRetry,
          File, Suspender, Reader

VARIABLES
  part,
  lockOwner, lockRef, flag, len, kind, verify, curTh, result, asleep, lockQueue,
  busyQ, at, stage, retry, page, copy, toArm7, received, arm7, ack,
  aFlag, aList, aStat, aError, aAt, aTarget, aInSync, aAsleep, aRet, aCopy, aAsked, aLocked,
  aMisjudged

cardVars == <<lockOwner, lockRef, flag, len, kind, verify, curTh, result, asleep, lockQueue,
              busyQ, at, stage, retry, page, copy, toArm7, received, arm7, ack>>

archiveVars == <<aFlag, aList, aStat, aError, aAt, aTarget, aInSync, aAsleep, aRet, aCopy,
                 aAsked, aLocked, aMisjudged>>

Card == INSTANCE CARDTask
Archive == INSTANCE FSArchive WITH
  flag <- aFlag, list <- aList, stat <- aStat, error <- aError, at <- aAt, target <- aTarget,
  inSync <- aInSync, asleep <- aAsleep, ret <- aRet, copy <- aCopy, asked <- aAsked,
  locked <- aLocked, misjudged <- aMisjudged

MCInit == Init /\ Card!Init /\ Archive!Init /\ part \in {"heap", "card", "archive"}
MCNext ==
  \/ part = "heap" /\ Next /\ UNCHANGED <<part, cardVars, archiveVars>>
  \/ part = "card" /\ Card!Next /\ UNCHANGED <<part, vars, archiveVars>>
  \/ part = "archive" /\ Archive!Next /\ UNCHANGED <<part, vars, cardVars>>
\* Where the card or the archive stands still nothing is enabled that its fairness
\* is about.
MCSpec ==
  /\ MCInit /\ [][MCNext]_<<part, vars, cardVars, archiveVars>>
  /\ Card!Fairness /\ Archive!Fairness

-----------------------------------------------------------------------------
\* OS_CheckHeap finds nothing wrong with a heap, whatever calls were made.
HeapsSound == TypeOK /\ HeapsChecked

\* One command of the card at a time, no request without its answer, no answer
\* without a thread for it, and a stream's result tells if it is complete.
CardAnswers == Card!TypeOK /\ Card!CardAnswers

\* One command of the archive operates, the first, while nobody holds the archive
\* suspended; a file is in the list just while it is busy.  So it is until a process
\* misjudges the command of a file that was sent again (fs_command.c:55).
ArchiveTurns ==
  ~aMisjudged =>
    /\ Archive!TypeOK
    /\ Archive!OneTurn /\ Archive!OperatesFirst /\ Archive!SuspendedRests
    /\ Archive!BusyListed /\ Archive!ReleasesBusy

\* Every command of the card ends, and every command of the archive until one is
\* misjudged.
CommandsEnd == Card!CommandsEnd /\ Archive!CommandsEnd
=============================================================================
