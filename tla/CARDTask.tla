------------------------------ MODULE CARDTask -------------------------------
(* Commands to the backup memory of the card (libraries/card: card_common.c,  *)
(* card_backup.c, card_request.c, in the branches for SDK 4).  A thread that  *)
(* has locked the backup runs a command itself, or gives it to the card's     *)
(* thread; whoever runs it sends requests to the ARM7 one at a time and       *)
(* sleeps for each reply.  Any thread or interrupt handler may cancel it.     *)
(*                                                                            *)
(* A section with interrupts disabled is one step.  "p->flag |= bit" with     *)
(* interrupts enabled is a load and a store.  Where it clears CANCEL it is    *)
(* one step: only a second cancel can come in between, and is cleared too.    *)
(* Which of the runnable threads runs is open.  Left out: the lock of the     *)
(* ROM and its reads, CARD_REQ_INIT before the first request, addresses.      *)

EXTENDS Naturals, FiniteSets

CONSTANTS
  Client,       \* threads that use the card, each with a lock ID
  TaskThread,   \* CARDiCommon.thread
  MaxRef,       \* bound: how often a client locks
  MaxLen,       \* bound: the chunks or sectors of a command
  SectorPages,  \* the pages of a sector
  MaxRetry,     \* CARD_RETRY_COUNT_MAX
  NULL

Thread == Client \cup {TaskThread}

VARIABLES
  lockOwner,   \* CARDiCommon.lock_owner
  lockRef,     \* CARDiCommon.lock_ref
  flag,        \* CARDiCommon.flag, the bits that are set
  len,         \* CARDiCommon.len, in chunks or sectors
  kind,        \* which function runs: the stream's or the sectors'
  verify,      \* CARDiCommon.req_mode is CARD_REQUEST_MODE_SEND_VERIFY
  curTh,       \* CARDiCommon.cur_th
  result,      \* CARDiCommandArg.result
  asleep,      \* the threads that sleep
  lockQueue,   \* CARDiCommon.lock_queue, as a set: all are woken
  busyQ,       \* CARDiCommon.busy_q
  at,          \* where a thread is
  stage,       \* the command's request the thread that runs it is at
  retry,       \* how often that may still be sent
  page,        \* the pages left of its sector
  copy,        \* the flag as a thread loaded it
  toArm7,      \* a request is on its way
  received,    \* the ARM7 has noted it, flag & 0x10
  arm7,        \* the ARM7's thread
  ack          \* an answer is on its way

lock == <<lockOwner, lockRef, lockQueue>>
command == <<len, kind, verify, curTh>>
request == <<stage, retry, page>>
link == <<toArm7, received, arm7, ack>>
vars == <<lock, flag, command, result, asleep, busyQ, at, request, copy, link>>

Bits == {"BUSY", "TASK", "REQ", "CANCEL"}
Kinds == {"stream", "sector", "unaligned"}
Results == {"success", "failure", "timeout"}
Running == {"chunk", "page", "load", "store", "send", "reply", "judge", "end"}

TypeOK ==
  /\ lockOwner \in Client \cup {NULL}
  /\ lockRef \in 0..MaxRef
  /\ flag \subseteq Bits
  /\ len \in 0..MaxLen /\ kind \in Kinds /\ verify \in BOOLEAN
  /\ curTh \in Thread \cup {NULL}
  /\ result \in Results \cup {"canceled", "invalid"}
  /\ asleep \subseteq Thread
  /\ lockQueue \subseteq asleep \cap Client /\ busyQ \subseteq asleep \cap Client
  /\ at \in [Thread -> {"out", "lock", "begin", "setLoad", "setStore", "wait", "unlock"} \cup Running]
  /\ stage \in {"main", "verify", "erase", "program", "pageVerify"}
  /\ retry \in 0..MaxRetry /\ page \in 0..SectorPages
  /\ copy \in [Thread -> SUBSET Bits]
  /\ {toArm7, received, ack} \subseteq BOOLEAN
  /\ arm7 \in {"idle", "works", "acked"}

Init ==
  /\ lockOwner = NULL /\ lockRef = 0 /\ lockQueue = {}
  /\ flag = {} /\ busyQ = {}
  /\ len = 0 /\ kind = "stream" /\ verify = FALSE /\ curTh = NULL
  /\ result = "success"
  /\ asleep = {TaskThread}
  /\ at = [t \in Thread |-> "out"]
  /\ stage = "main" /\ retry = 0 /\ page = 0
  /\ copy = [t \in Thread |-> {}]
  /\ toArm7 = FALSE /\ received = FALSE /\ arm7 = "idle" /\ ack = FALSE

Awake(t, place) == t \notin asleep /\ at[t] = place
Goto(t, place) == at' = [at EXCEPT ![t] = place]

-----------------------------------------------------------------------------
(* The lock.                                                                  *)

\* A client that has the lock takes it again only while it has no command: the
\* call would write CARD_RESULT_SUCCESS over the result of the command.
CARD_LockBackup(t) ==
  /\ t \notin asleep /\ at[t] \in {"out", "lock"} /\ lockRef < MaxRef
  /\ lockOwner = t => "BUSY" \notin flag
  /\ \/ /\ lockOwner \in {t, NULL}
        /\ lockOwner' = t /\ lockRef' = lockRef + 1
        /\ result' = "success"
        /\ Goto(t, "out")
        /\ UNCHANGED <<lockQueue, asleep>>
     \/ /\ lockOwner \notin {t, NULL}
        /\ lockQueue' = lockQueue \cup {t} /\ asleep' = asleep \cup {t}
        /\ Goto(t, "lock")
        /\ UNCHANGED <<lockOwner, lockRef, result>>
  /\ UNCHANGED <<flag, command, busyQ, request, copy, link>>

\* CARD_UnlockBackup and CARDi_WaitAsync, which it calls, sleep for the command.
WaitAsync(t) ==
  /\ t \notin asleep /\ at[t] \in {"out", "wait"}
  /\ \/ /\ "BUSY" \in flag
        /\ busyQ' = busyQ \cup {t} /\ asleep' = asleep \cup {t}
        /\ Goto(t, "wait")
     \/ /\ "BUSY" \notin flag
        /\ Goto(t, "unlock")
        /\ UNCHANGED <<busyQ, asleep>>
  /\ UNCHANGED <<lock, flag, command, result, request, copy, link>>

\* CARDi_UnlockResource, or the return from the wait.
UnlockResource(t) ==
  /\ Awake(t, "unlock")
  /\ Goto(t, "out")
  /\ \/ /\ lockOwner = t
        /\ lockRef' = lockRef - 1 /\ result' = "success"
        /\ IF lockRef' = 0
           THEN lockOwner' = NULL /\ lockQueue' = {} /\ asleep' = asleep \ lockQueue
           ELSE UNCHANGED <<lockOwner, lockQueue, asleep>>
     \/ UNCHANGED <<lock, result, asleep>>
  /\ UNCHANGED <<flag, command, busyQ, request, copy, link>>

-----------------------------------------------------------------------------
(* A command begins.                                                          *)

\* CARDi_WaitTask, with what it gets when the card is free.
CARDi_WaitTask(t) ==
  /\ t \notin asleep /\ ((at[t] = "out" /\ lockOwner = t) \/ at[t] = "begin")
  /\ \/ /\ "BUSY" \in flag
        /\ busyQ' = busyQ \cup {t} /\ asleep' = asleep \cup {t}
        /\ Goto(t, "begin")
        /\ UNCHANGED <<flag, command, request>>
     \/ /\ "BUSY" \notin flag
        /\ flag' = flag \cup {"BUSY"}
        /\ len' \in 1..MaxLen /\ kind' \in Kinds /\ verify' \in BOOLEAN
        /\ \/ curTh' = t /\ Goto(t, "chunk")
           \/ curTh' = TaskThread /\ Goto(t, "setLoad")
        /\ UNCHANGED <<busyQ, asleep, request>>
  /\ UNCHANGED <<lock, result, copy, link>>

\* CARDi_SetTask: p->flag |= CARD_STAT_TASK, and the card's thread is woken.
SetTask_Load(t) ==
  /\ Awake(t, "setLoad")
  /\ copy' = [copy EXCEPT ![t] = flag]
  /\ Goto(t, "setStore")
  /\ UNCHANGED <<lock, flag, command, result, asleep, busyQ, request, link>>

\* A slip: the card's thread is not woken.
SetTask_StoreOnly(t) ==
  /\ Awake(t, "setStore")
  /\ flag' = copy[t] \cup {"TASK"}
  /\ copy' = [copy EXCEPT ![t] = {}]
  /\ Goto(t, "out")
  /\ UNCHANGED <<lock, command, result, asleep, busyQ, request, link>>
SetTask_Store(t) ==
  /\ Awake(t, "setStore")
  /\ flag' = copy[t] \cup {"TASK"}
  /\ asleep' = asleep \ {TaskThread}
  /\ copy' = [copy EXCEPT ![t] = {}]
  /\ Goto(t, "out")
  /\ UNCHANGED <<lock, command, result, busyQ, request, link>>

CARDi_TaskThread ==
  /\ Awake(TaskThread, "out")
  /\ IF "TASK" \in flag THEN Goto(TaskThread, "chunk") /\ UNCHANGED asleep
                        ELSE asleep' = asleep \cup {TaskThread} /\ UNCHANGED at
  /\ UNCHANGED <<lock, flag, command, result, busyQ, request, copy, link>>

CARD_CancelBackupAsync ==
  /\ flag' = flag \cup {"CANCEL"}
  /\ UNCHANGED <<lock, command, result, asleep, busyQ, at, request, copy, link>>

-----------------------------------------------------------------------------
(* A command runs in thread t.                                                *)

Send(t, which, times) ==
  /\ stage' = which /\ retry' = times
  /\ Goto(t, "load")

\* p->flag &= ~CARD_STAT_CANCEL and the result that says so.
Canceled == flag' = flag \ {"CANCEL"} /\ result' = "canceled"

\* One chunk or sector less, whether it was written or not.
NextChunk(t) ==
  /\ len' = len - 1
  /\ Goto(t, IF len' = 0 THEN "end" ELSE "chunk")

Chunk(t) ==
  /\ Awake(t, "chunk")
  /\ \/ /\ kind = "unaligned"
        /\ flag' = flag \ {"CANCEL"} /\ result' = "invalid"
        /\ Goto(t, "end") /\ UNCHANGED <<stage, retry>>
     \/ /\ kind # "unaligned" /\ "CANCEL" \in flag
        /\ Canceled
        /\ Goto(t, "end") /\ UNCHANGED <<stage, retry>>
     \/ /\ kind # "unaligned" /\ "CANCEL" \notin flag
        /\ IF kind = "stream" THEN \E n \in {1, MaxRetry} : Send(t, "main", n)
                              ELSE Send(t, "erase", 1)
        /\ UNCHANGED <<flag, result>>
  /\ UNCHANGED <<lock, command, asleep, busyQ, page, copy, link>>

\* A cancel leaves the loop over the pages of a sector, not the one over sectors.
Page(t) ==
  /\ Awake(t, "page")
  /\ \/ "CANCEL" \in flag /\ Canceled /\ NextChunk(t) /\ UNCHANGED <<stage, retry>>
     \/ "CANCEL" \notin flag /\ Send(t, "program", MaxRetry) /\ UNCHANGED <<flag, result, len>>
  /\ UNCHANGED <<lock, kind, verify, curTh, asleep, busyQ, page, copy, link>>

Request_Load(t) ==
  /\ Awake(t, "load")
  /\ copy' = [copy EXCEPT ![t] = flag]
  /\ Goto(t, "store")
  /\ UNCHANGED <<lock, flag, command, result, asleep, busyQ, request, link>>

Request_Store(t) ==
  /\ Awake(t, "store")
  /\ flag' = copy[t] \cup {"REQ"}
  /\ copy' = [copy EXCEPT ![t] = {}]
  /\ Goto(t, "send")
  /\ UNCHANGED <<lock, command, result, asleep, busyQ, request, link>>

CARDi_SendPxi(t) ==
  /\ Awake(t, "send")
  /\ toArm7' = TRUE
  /\ Goto(t, "reply")
  /\ UNCHANGED <<lock, flag, command, result, asleep, busyQ, request, copy, received, arm7, ack>>

Request_Wait(t) ==
  /\ Awake(t, "reply")
  /\ IF "REQ" \in flag THEN asleep' = asleep \cup {t} /\ UNCHANGED at
                       ELSE Goto(t, "judge") /\ UNCHANGED asleep
  /\ UNCHANGED <<lock, flag, command, result, busyQ, request, copy, link>>

\* The request is sent again on a timeout; else the command goes on as its
\* function has it.
Judge(t) ==
  /\ Awake(t, "judge")
  /\ \/ /\ result = "timeout" /\ retry > 1
        /\ Send(t, stage, retry - 1)
        /\ UNCHANGED <<len, page>>
     \/ /\ ~(result = "timeout" /\ retry > 1)
        /\ \/ /\ result = "success" /\ verify /\ stage \in {"main", "program"}
              /\ Send(t, IF stage = "main" THEN "verify" ELSE "pageVerify", 1)
              /\ UNCHANGED <<len, page>>
           \/ /\ result = "success" /\ (stage = "verify" \/ (stage = "main" /\ ~verify))
              /\ NextChunk(t) /\ UNCHANGED <<stage, retry, page>>
           \/ /\ result = "success" /\ stage = "erase"
              /\ page' = SectorPages
              /\ Goto(t, "page") /\ UNCHANGED <<len, stage, retry>>
           \/ /\ result = "success" /\ (stage = "pageVerify" \/ (stage = "program" /\ ~verify))
              /\ page' = page - 1
              /\ IF page = 1 THEN NextChunk(t) ELSE Goto(t, "page") /\ UNCHANGED len
              /\ UNCHANGED <<stage, retry>>
           \/ /\ result # "success" /\ stage \in {"main", "verify", "erase"}
              /\ Goto(t, "end") /\ UNCHANGED <<len, stage, retry, page>>
           \/ /\ result # "success" /\ stage \in {"program", "pageVerify"}
              /\ NextChunk(t) /\ UNCHANGED <<stage, retry, page>>
  /\ UNCHANGED <<lock, flag, kind, verify, curTh, result, asleep, busyQ, copy, link>>

CARDi_EndTask(t) ==
  /\ Awake(t, "end")
  /\ flag' = flag \ {"BUSY", "TASK", "CANCEL"}
  /\ busyQ' = {} /\ asleep' = asleep \ busyQ
  /\ Goto(t, "out")
  /\ stage' = "main" /\ retry' = 0 /\ page' = 0
  /\ UNCHANGED <<lock, command, result, copy, link>>

CARDi_OnFifoRecv ==
  /\ ack
  /\ ack' = FALSE
  /\ flag' = flag \ {"REQ"}
  /\ asleep' = asleep \ {curTh}
  /\ UNCHANGED <<lock, command, result, busyQ, at, request, copy, toArm7, received, arm7>>

-----------------------------------------------------------------------------
(* The ARM7 (card_request_arm7.c): its callback notes the request, its thread *)
(* serves it, answers and becomes free.                                       *)

Arm7_OnFifoRecv ==
  /\ toArm7
  /\ toArm7' = FALSE /\ received' = TRUE
  /\ UNCHANGED <<lock, flag, command, result, asleep, busyQ, at, request, copy, arm7, ack>>

Arm7_Take ==
  /\ received /\ arm7 = "idle"
  /\ received' = FALSE /\ arm7' = "works"
  /\ UNCHANGED <<lock, flag, command, result, asleep, busyQ, at, request, copy, toArm7, ack>>

Arm7_Answer ==
  /\ arm7 = "works"
  /\ result' \in Results
  /\ arm7' = "acked" /\ ack' = TRUE
  /\ UNCHANGED <<lock, flag, command, asleep, busyQ, at, request, copy, toArm7, received>>

\* A slip: a request that has come since is forgotten.
Arm7_EndForgetting ==
  /\ arm7 = "acked"
  /\ arm7' = "idle" /\ received' = FALSE
  /\ UNCHANGED <<lock, flag, command, result, asleep, busyQ, at, request, copy, toArm7, ack>>

\* The flag & ~0x4c keeps what has come since.
Arm7_End ==
  /\ arm7 = "acked"
  /\ arm7' = "idle"
  /\ UNCHANGED <<lock, flag, command, result, asleep, busyQ, at, request, copy, toArm7, received, ack>>

-----------------------------------------------------------------------------

\* A step of thread t within a call.
Step(t) ==
  \/ at[t] # "out" /\ (CARDi_WaitTask(t) \/ WaitAsync(t))
  \/ SetTask_Load(t) \/ SetTask_Store(t)
  \/ Chunk(t) \/ Page(t)
  \/ Request_Load(t) \/ Request_Store(t) \/ CARDi_SendPxi(t) \/ Request_Wait(t) \/ Judge(t)
  \/ CARDi_EndTask(t)
  \/ t = TaskThread /\ CARDi_TaskThread

Call(t) ==
  \/ CARD_LockBackup(t) \/ UnlockResource(t)
  \/ at[t] = "out" /\ (CARDi_WaitTask(t) \/ WaitAsync(t))

Arm7 == Arm7_OnFifoRecv \/ Arm7_Take \/ Arm7_Answer \/ Arm7_End

Next ==
  \/ \E t \in Client : Call(t)
  \/ \E t \in Thread : Step(t)
  \/ CARD_CancelBackupAsync
  \/ CARDi_OnFifoRecv
  \/ Arm7

\* A thread that can run is run in the end, the ARM7 serves, FIFOs deliver.
Fairness ==
  /\ \A t \in Thread : WF_vars(Step(t))
  /\ WF_vars(CARDi_OnFifoRecv)
  /\ WF_vars(Arm7)

Spec == Init /\ [][Next]_vars /\ Fairness

-----------------------------------------------------------------------------
(* Properties.                                                                *)

\* The card is busy for one command: whoever runs it is the thread the answers
\* wake, and has no other beside it.
OneCommand ==
  /\ \A t \in Thread : at[t] \in Running => curTh = t
  /\ "BUSY" \in flag <=>
       "TASK" \in flag \/ \E t \in Thread : at[t] \in Running \cup {"setLoad", "setStore"}

\* Who waits for an answer has one coming: the request, the ARM7's work or the
\* answer is on its way, never two of them, and nobody sleeps without.
AnswerComes ==
  LET coming == {i \in 1..4 : <<toArm7, received, arm7 = "works", ack>>[i]} IN
  /\ Cardinality(coming) <= 1
  /\ coming # {} <=> curTh # NULL /\ at[curTh] = "reply" /\ "REQ" \in flag
  /\ \A t \in Thread : at[t] = "reply" /\ t \in asleep => coming # {}

\* A stream's command that ends with success has done all its chunks, and one
\* that ends otherwise has not.
StreamResult ==
  \A t \in Thread : at[t] = "end" /\ kind = "stream" => (result = "success" <=> len = 0)

\* The safety of the card's commands: the three above.
CardAnswers == OneCommand /\ AnswerComes /\ StreamResult

\* Every command ends, whoever cancels it when, and frees who waits for it.
CommandsEnd == []<>("BUSY" \notin flag)
=============================================================================
