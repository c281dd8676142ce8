---------------------------- MODULE StorageProofs ----------------------------
(* Proofs about two parts of MCStorage: the card runs one command at a time   *)
(* and answers each request, for any number of clients, chunks, pages and     *)
(* retries; the commands of an archive take turns, for any number of files.   *)

EXTENDS MCStorage, OSSequenceLemmas, FiniteSetTheorems

-----------------------------------------------------------------------------
(* The card.                                                                  *)

\* What the theorems assume of the constants.  CARD_RETRY_COUNT_MAX is 10.
CardAssumption ==
  /\ TaskThread \notin Client /\ NULL \notin Card!Thread
  /\ MaxRef \in Nat /\ MaxLen \in Nat
  /\ SectorPages \in Nat \ {0} /\ MaxRetry \in Nat \ {0}

-----------------------------------------------------------------------------
(* The inductive invariant.  The properties say what is seen from outside; it *)
(* adds what each place of a thread knows.                                    *)

\* A command is its client's who holds the lock, from before it begins until it
\* has ended: nobody else can begin one, or overwrite its result.
LocksOK ==
  /\ lockOwner = NULL <=> lockRef = 0
  /\ \A t \in lockQueue : at[t] = "lock"
  /\ \A t \in busyQ : at[t] \in {"wait", "begin"}
  /\ \A t \in Client :
       at[t] \in {"begin", "setLoad", "setStore"} \cup Card!Running => lockOwner = t
  /\ "BUSY" \in flag => lockOwner # NULL /\ at[lockOwner] # "unlock"

\* A thread that stores the flag it has loaded loses a cancel at most: the bits
\* that say who does what are those of the moment.
CardCopyOK ==
  \A t \in Card!Thread : at[t] \in {"setStore", "store"} =>
    \A bit \in {"BUSY", "TASK", "REQ"} : bit \in copy[t] <=> bit \in flag

\* The command runs in one thread, or is on its way to the card's.
CommandOK ==
  /\ at[TaskThread] \in {"out"} \cup Card!Running
  /\ at[TaskThread] \in Card!Running => "TASK" \in flag
  /\ \A t \in Card!Thread : at[t] \in Card!Running => curTh = t /\ "BUSY" \in flag
  /\ \A t \in Client : at[t] \in {"setLoad", "setStore"} =>
       curTh = TaskThread /\ "BUSY" \in flag /\ "TASK" \notin flag
  /\ "TASK" \in flag => curTh = TaskThread /\ "BUSY" \in flag
  /\ "BUSY" \in flag =>
       "TASK" \in flag \/ \E t \in Client : at[t] \in {"setLoad", "setStore"} \cup Card!Running
  /\ CardCopyOK

Coming == toArm7 \/ received \/ arm7 = "works" \/ ack

\* A request or its answer is in one place, from the moment it is sent until the
\* answer is noted; the thread sleeps in between only.
RequestOK ==
  /\ ~(toArm7 /\ (received \/ arm7 = "works" \/ ack))
  /\ ~(received /\ (arm7 = "works" \/ ack))
  /\ ~(arm7 = "works" /\ ack)
  /\ Coming <=> curTh # NULL /\ at[curTh] = "reply" /\ "REQ" \in flag
  /\ "REQ" \in flag => curTh # NULL /\ at[curTh] \in {"send", "reply"}
  /\ \A t \in Card!Thread : at[t] = "send" => "REQ" \in flag
  /\ \A t \in asleep : at[t] = "reply" => "REQ" \in flag

\* There is something left to do until the command is at its end; sectors only
\* are erased and have pages.
DataOK ==
  /\ "BUSY" \in flag => len >= 1 \/ \E t \in Card!Thread : at[t] = "end"
  /\ \A t \in Card!Thread :
       /\ at[t] \in {"load", "store", "send", "reply", "judge"} =>
            /\ stage \in {"erase", "program", "pageVerify"} => kind = "sector"
            /\ stage \in {"program", "pageVerify"} => page >= 1
       /\ at[t] = "page" => kind = "sector" /\ page >= 1
  /\ Card!StreamResult

CardInv == Card!TypeOK /\ LocksOK /\ CommandOK /\ RequestOK /\ DataOK

\* The types in parts, for the provers: what is said of threads, of values, of
\* numbers and of Booleans.
Threads ==
  /\ lockOwner \in Client \cup {NULL} /\ lockRef \in 0..MaxRef
  /\ asleep \subseteq Card!Thread
  /\ lockQueue \subseteq asleep \cap Client /\ busyQ \subseteq asleep \cap Client
  /\ at \in [Card!Thread -> {"out", "lock", "begin", "setLoad", "setStore", "wait", "unlock"}
                               \cup Card!Running]
Values ==
  /\ curTh \in Card!Thread \cup {NULL}
  /\ flag \subseteq Card!Bits /\ copy \in [Card!Thread -> SUBSET Card!Bits]
  /\ kind \in Card!Kinds
  /\ result \in Card!Results \cup {"canceled", "invalid"}
  /\ stage \in {"main", "verify", "erase", "program", "pageVerify"}
  /\ arm7 \in {"idle", "works", "acked"}
Numbers == len \in 0..MaxLen /\ retry \in 0..MaxRetry /\ page \in 0..SectorPages
Booleans == verify \in BOOLEAN /\ {toArm7, received, ack} \subseteq BOOLEAN

\* The invariant holds at first ...
LEMMA InitCardInv == ASSUME CardAssumption, Card!Init PROVE CardInv
<1> USE DEF CardAssumption, Card!Thread, Card!Running, Card!Init
<1>1. Card!TypeOK
  <2>1. Threads /\ Values
    BY DEF Threads, Values, Card!Bits, Card!Kinds, Card!Results
  <2>2. Numbers
    BY DEF Numbers
  <2>3. Booleans
    BY DEF Booleans
  <2> QED
    BY <2>1, <2>2, <2>3 DEF Card!TypeOK, Threads, Values, Numbers, Booleans
<1>2. LocksOK /\ CommandOK
  BY DEF LocksOK, CommandOK, CardCopyOK
<1>3. RequestOK
  BY DEF RequestOK, Coming
<1>4. DataOK
  BY DEF DataOK, Card!StreamResult
<1> QED
  BY <1>1, <1>2, <1>3, <1>4 DEF CardInv

-----------------------------------------------------------------------------
(* The steps.                                                                 *)

\* ... and each action keeps it ...
LEMMA CARD_LockBackupKeeps ==
  ASSUME CardAssumption, CardInv, NEW t \in Client, Card!CARD_LockBackup(t)
  PROVE  CardInv'
<1> USE DEF CardAssumption, Card!Thread, Card!Running, CardInv, Card!lock, Card!command,
            Card!request, Card!link,
            Card!CARD_LockBackup, Card!Goto
<1>1. Card!TypeOK'
  BY DEF Card!TypeOK, Card!Bits, Card!Kinds, Card!Results
<1>2. LocksOK'
  BY DEF Card!TypeOK, LocksOK, CommandOK, Card!Bits
<1>3. CommandOK'
  BY DEF Card!TypeOK, LocksOK, CommandOK, CardCopyOK, RequestOK, Card!Bits
<1>4. RequestOK'
  BY DEF Card!TypeOK, CommandOK, CardCopyOK, RequestOK, Coming, Card!Bits
<1>5. DataOK'
  BY DEF Card!TypeOK, LocksOK, CommandOK, RequestOK, Coming, DataOK, Card!StreamResult, Card!Bits
<1> QED
  BY <1>1, <1>2, <1>3, <1>4, <1>5

LEMMA WaitAsyncKeeps ==
  ASSUME CardAssumption, CardInv, NEW t \in Client, Card!WaitAsync(t)
  PROVE  CardInv'
<1> USE DEF CardAssumption, Card!Thread, Card!Running, CardInv, Card!lock, Card!command,
            Card!request, Card!link,
            Card!WaitAsync, Card!Goto
<1>1. Card!TypeOK'
  <2>1. Threads'
    BY DEF Threads, Card!TypeOK, LocksOK, CommandOK, RequestOK, Coming
  <2>2. Values'
    BY DEF Values, Card!TypeOK, Card!Bits, Card!Kinds, Card!Results
  <2>3. Numbers'
    BY DEF Numbers, Card!TypeOK, CommandOK, DataOK
  <2>4. Booleans'
    BY DEF Booleans, Card!TypeOK
  <2> QED
    BY <2>1, <2>2, <2>3, <2>4 DEF Card!TypeOK, Threads, Values, Numbers, Booleans
<1>2. LocksOK'
  BY DEF Card!TypeOK, LocksOK, CommandOK, Card!Bits
<1>3. CommandOK'
  BY DEF Card!TypeOK, LocksOK, CommandOK, CardCopyOK, RequestOK, Card!Bits
<1>4. RequestOK'
  BY DEF Card!TypeOK, CommandOK, CardCopyOK, RequestOK, Coming, Card!Bits
<1>5. DataOK'
  BY DEF Card!TypeOK, CommandOK, RequestOK, Coming, DataOK, Card!StreamResult, Card!Bits
<1> QED
  BY <1>1, <1>2, <1>3, <1>4, <1>5

LEMMA UnlockResourceKeeps ==
  ASSUME CardAssumption, CardInv, NEW t \in Client, Card!UnlockResource(t)
  PROVE  CardInv'
<1> USE DEF CardAssumption, Card!Thread, Card!Running, CardInv, Card!lock, Card!command,
            Card!request, Card!link,
            Card!UnlockResource, Card!Goto, Card!Awake
<1>1. Card!TypeOK'
  <2>1. Threads'
    BY DEF Threads, Card!TypeOK, LocksOK, CommandOK, RequestOK, Coming
  <2>2. Values'
    BY DEF Values, Card!TypeOK, Card!Bits, Card!Kinds, Card!Results
  <2>3. Numbers'
    BY DEF Numbers, Card!TypeOK, CommandOK, DataOK
  <2>4. Booleans'
    BY DEF Booleans, Card!TypeOK
  <2> QED
    BY <2>1, <2>2, <2>3, <2>4 DEF Card!TypeOK, Threads, Values, Numbers, Booleans
<1>2. LocksOK'
  BY DEF Card!TypeOK, LocksOK, CommandOK, Card!Bits
<1>3. CommandOK'
  BY DEF Card!TypeOK, LocksOK, CommandOK, CardCopyOK, RequestOK, Card!Bits
<1>4. RequestOK'
  BY DEF Card!TypeOK, CommandOK, CardCopyOK, RequestOK, Coming, Card!Bits
<1>5. DataOK'
  BY DEF Card!TypeOK, LocksOK, CommandOK, RequestOK, Coming, DataOK, Card!StreamResult, Card!Bits
<1> QED
  BY <1>1, <1>2, <1>3, <1>4, <1>5

LEMMA CARDi_WaitTaskKeeps ==
  ASSUME CardAssumption, CardInv, NEW t \in Client, Card!CARDi_WaitTask(t)
  PROVE  CardInv'
<1> USE DEF CardAssumption, Card!Thread, Card!Running, CardInv, Card!lock, Card!command,
            Card!request, Card!link,
            Card!CARDi_WaitTask, Card!Goto
<1>1. Card!TypeOK'
  <2>1. Threads'
    BY DEF Threads, Card!TypeOK, LocksOK, CommandOK, RequestOK, Coming
  <2>2. Values'
    BY DEF Values, Card!TypeOK, Card!Bits, Card!Kinds, Card!Results
  <2>3. Numbers'
    BY DEF Numbers, Card!TypeOK, CommandOK, DataOK
  <2>4. Booleans'
    BY DEF Booleans, Card!TypeOK
  <2> QED
    BY <2>1, <2>2, <2>3, <2>4 DEF Card!TypeOK, Threads, Values, Numbers, Booleans
<1>2. LocksOK'
  BY DEF Card!TypeOK, LocksOK, CommandOK, Card!Bits
<1>3. CommandOK'
  BY DEF Card!TypeOK, LocksOK, CommandOK, CardCopyOK, RequestOK, Card!Bits
<1>4. RequestOK'
  BY DEF Card!TypeOK, CommandOK, CardCopyOK, RequestOK, Coming, Card!Bits
<1>5. DataOK'
  BY DEF Card!TypeOK, CommandOK, RequestOK, Coming, DataOK, Card!StreamResult, Card!Bits
<1> QED
  BY <1>1, <1>2, <1>3, <1>4, <1>5

LEMMA SetTask_LoadKeeps ==
  ASSUME CardAssumption, CardInv, NEW t \in Card!Thread, Card!SetTask_Load(t)
  PROVE  CardInv'
<1> USE DEF CardAssumption, Card!Thread, Card!Running, CardInv, Card!lock, Card!command,
            Card!request, Card!link,
            Card!SetTask_Load, Card!Goto, Card!Awake
<1>1. Card!TypeOK'
  BY DEF Card!TypeOK, Card!Bits, Card!Kinds, Card!Results
<1>2. LocksOK'
  BY DEF Card!TypeOK, LocksOK, CommandOK, Card!Bits
<1>3. CommandOK'
  BY DEF Card!TypeOK, LocksOK, CommandOK, CardCopyOK, RequestOK, Card!Bits
<1>4. RequestOK'
  BY DEF Card!TypeOK, CommandOK, CardCopyOK, RequestOK, Coming, Card!Bits
<1>5. DataOK'
  BY DEF Card!TypeOK, CommandOK, RequestOK, Coming, DataOK, Card!StreamResult, Card!Bits
<1> QED
  BY <1>1, <1>2, <1>3, <1>4, <1>5

LEMMA SetTask_StoreKeeps ==
  ASSUME CardAssumption, CardInv, NEW t \in Card!Thread, Card!SetTask_Store(t)
  PROVE  CardInv'
<1> USE DEF CardAssumption, Card!Thread, Card!Running, CardInv, Card!lock, Card!command,
            Card!request, Card!link,
            Card!SetTask_Store, Card!Goto, Card!Awake
<1>1. Card!TypeOK'
  BY DEF Card!TypeOK, Card!Bits, Card!Kinds, Card!Results
<1>2. LocksOK'
  BY DEF Card!TypeOK, LocksOK, CommandOK, Card!Bits
<1>3. CommandOK'
  BY DEF Card!TypeOK, LocksOK, CommandOK, CardCopyOK, RequestOK, Card!Bits
<1>4. RequestOK'
  BY DEF Card!TypeOK, CommandOK, CardCopyOK, RequestOK, Coming, Card!Bits
<1>5. DataOK'
  BY DEF Card!TypeOK, CommandOK, RequestOK, Coming, DataOK, Card!StreamResult, Card!Bits
<1> QED
  BY <1>1, <1>2, <1>3, <1>4, <1>5

LEMMA CARDi_TaskThreadKeeps ==
  ASSUME CardAssumption, CardInv, Card!CARDi_TaskThread
  PROVE  CardInv'
<1> USE DEF CardAssumption, Card!Thread, Card!Running, CardInv, Card!lock, Card!command,
            Card!request, Card!link,
            Card!CARDi_TaskThread, Card!Goto, Card!Awake
<1>1. Card!TypeOK'
  BY DEF Card!TypeOK, Card!Bits, Card!Kinds, Card!Results
<1>2. LocksOK'
  BY DEF Card!TypeOK, LocksOK, CommandOK, Card!Bits
<1>3. CommandOK'
  BY DEF Card!TypeOK, LocksOK, CommandOK, CardCopyOK, RequestOK, Card!Bits
<1>4. RequestOK'
  BY DEF Card!TypeOK, CommandOK, CardCopyOK, RequestOK, Coming, Card!Bits
<1>5. DataOK'
  BY DEF Card!TypeOK, CommandOK, RequestOK, Coming, DataOK, Card!StreamResult, Card!Bits
<1> QED
  BY <1>1, <1>2, <1>3, <1>4, <1>5

LEMMA CARD_CancelBackupAsyncKeeps ==
  ASSUME CardAssumption, CardInv, Card!CARD_CancelBackupAsync
  PROVE  CardInv'
<1> USE DEF CardAssumption, Card!Thread, Card!Running, CardInv, Card!lock, Card!command,
            Card!request, Card!link,
            Card!CARD_CancelBackupAsync
<1>1. Card!TypeOK'
  BY DEF Card!TypeOK, Card!Bits, Card!Kinds, Card!Results
<1>2. LocksOK'
  BY DEF Card!TypeOK, LocksOK, CommandOK, Card!Bits
<1>3. CommandOK'
  BY DEF Card!TypeOK, LocksOK, CommandOK, CardCopyOK, RequestOK, Card!Bits
<1>4. RequestOK'
  BY DEF Card!TypeOK, CommandOK, CardCopyOK, RequestOK, Coming, Card!Bits
<1>5. DataOK'
  BY DEF Card!TypeOK, CommandOK, RequestOK, Coming, DataOK, Card!StreamResult, Card!Bits
<1> QED
  BY <1>1, <1>2, <1>3, <1>4, <1>5

LEMMA ChunkKeeps ==
  ASSUME CardAssumption, CardInv, NEW t \in Card!Thread, Card!Chunk(t)
  PROVE  CardInv'
<1> USE DEF CardAssumption, Card!Thread, Card!Running, CardInv, Card!lock, Card!command,
            Card!request, Card!link,
            Card!Chunk, Card!Goto, Card!Awake, Card!Canceled, Card!Send
<1>1. Card!TypeOK'
  <2>1. Threads'
    BY DEF Threads, Card!TypeOK, LocksOK, CommandOK, RequestOK, Coming
  <2>2. Values'
    BY DEF Values, Card!TypeOK, Card!Bits, Card!Kinds, Card!Results
  <2>3. Numbers'
    BY DEF Numbers, Card!TypeOK, CommandOK, DataOK
  <2>4. Booleans'
    BY DEF Booleans, Card!TypeOK
  <2> QED
    BY <2>1, <2>2, <2>3, <2>4 DEF Card!TypeOK, Threads, Values, Numbers, Booleans
<1>2. LocksOK'
  BY DEF Card!TypeOK, LocksOK, CommandOK, Card!Bits
<1>3. CommandOK'
  BY DEF Card!TypeOK, LocksOK, CommandOK, CardCopyOK, RequestOK, Card!Bits
<1>4. RequestOK'
  BY DEF Card!TypeOK, CommandOK, CardCopyOK, RequestOK, Coming, Card!Bits
<1>5. DataOK'
  <2>1. len >= 1 /\ len' = len /\ kind' = kind
    BY DEF Card!TypeOK, CommandOK, DataOK, Card!command
  <2>2. Card!StreamResult'
    BY <2>1 DEF Card!TypeOK, CommandOK, Card!StreamResult
  <2> QED
    BY <2>1, <2>2 DEF Card!TypeOK, Card!Kinds, CommandOK, DataOK
<1> QED
  BY <1>1, <1>2, <1>3, <1>4, <1>5

LEMMA PageKeeps ==
  ASSUME CardAssumption, CardInv, NEW t \in Card!Thread, Card!Page(t)
  PROVE  CardInv'
<1> USE DEF CardAssumption, Card!Thread, Card!Running, CardInv, Card!lock, Card!command,
            Card!request, Card!link,
            Card!Page, Card!Goto, Card!Awake, Card!Canceled, Card!Send, Card!NextChunk
<1>1. Card!TypeOK'
  <2>1. Threads'
    BY DEF Threads, Card!TypeOK, LocksOK, CommandOK, RequestOK, Coming
  <2>2. Values'
    BY DEF Values, Card!TypeOK, Card!Bits, Card!Kinds, Card!Results
  <2>3. Numbers'
    BY DEF Numbers, Card!TypeOK, CommandOK, DataOK
  <2>4. Booleans'
    BY DEF Booleans, Card!TypeOK
  <2> QED
    BY <2>1, <2>2, <2>3, <2>4 DEF Card!TypeOK, Threads, Values, Numbers, Booleans
<1>2. LocksOK'
  BY DEF Card!TypeOK, LocksOK, CommandOK, Card!Bits
<1>3. CommandOK'
  BY DEF Card!TypeOK, LocksOK, CommandOK, CardCopyOK, RequestOK, Card!Bits
<1>4. RequestOK'
  BY DEF Card!TypeOK, CommandOK, CardCopyOK, RequestOK, Coming, Card!Bits
<1>5. DataOK'
  BY DEF Card!TypeOK, CommandOK, RequestOK, Coming, DataOK, Card!StreamResult, Card!Bits
<1> QED
  BY <1>1, <1>2, <1>3, <1>4, <1>5

LEMMA Request_LoadKeeps ==
  ASSUME CardAssumption, CardInv, NEW t \in Card!Thread, Card!Request_Load(t)
  PROVE  CardInv'
<1> USE DEF CardAssumption, Card!Thread, Card!Running, CardInv, Card!lock, Card!command,
            Card!request, Card!link,
            Card!Request_Load, Card!Goto, Card!Awake
<1>1. Card!TypeOK'
  BY DEF Card!TypeOK, Card!Bits, Card!Kinds, Card!Results
<1>2. LocksOK'
  BY DEF Card!TypeOK, LocksOK, CommandOK, Card!Bits
<1>3. CommandOK'
  BY DEF Card!TypeOK, LocksOK, CommandOK, CardCopyOK, RequestOK, Card!Bits
<1>4. RequestOK'
  BY DEF Card!TypeOK, CommandOK, CardCopyOK, RequestOK, Coming, Card!Bits
<1>5. DataOK'
  BY DEF Card!TypeOK, CommandOK, RequestOK, Coming, DataOK, Card!StreamResult, Card!Bits
<1> QED
  BY <1>1, <1>2, <1>3, <1>4, <1>5

LEMMA Request_StoreKeeps ==
  ASSUME CardAssumption, CardInv, NEW t \in Card!Thread, Card!Request_Store(t)
  PROVE  CardInv'
<1> USE DEF CardAssumption, Card!Thread, Card!Running, CardInv, Card!lock, Card!command,
            Card!request, Card!link,
            Card!Request_Store, Card!Goto, Card!Awake
<1>1. Card!TypeOK'
  BY DEF Card!TypeOK, Card!Bits, Card!Kinds, Card!Results
<1>2. LocksOK'
  BY DEF Card!TypeOK, LocksOK, CommandOK, Card!Bits
<1>3. CommandOK'
  BY DEF Card!TypeOK, LocksOK, CommandOK, CardCopyOK, RequestOK, Card!Bits
<1>4. RequestOK'
  BY DEF Card!TypeOK, CommandOK, CardCopyOK, RequestOK, Coming, Card!Bits
<1>5. DataOK'
  BY DEF Card!TypeOK, CommandOK, RequestOK, Coming, DataOK, Card!StreamResult, Card!Bits
<1> QED
  BY <1>1, <1>2, <1>3, <1>4, <1>5

LEMMA CARDi_SendPxiKeeps ==
  ASSUME CardAssumption, CardInv, NEW t \in Card!Thread, Card!CARDi_SendPxi(t)
  PROVE  CardInv'
<1> USE DEF CardAssumption, Card!Thread, Card!Running, CardInv, Card!lock, Card!command,
            Card!request, Card!link,
            Card!CARDi_SendPxi, Card!Goto, Card!Awake
<1>1. Card!TypeOK'
  BY DEF Card!TypeOK, Card!Bits, Card!Kinds, Card!Results
<1>2. LocksOK'
  BY DEF Card!TypeOK, LocksOK, CommandOK, Card!Bits
<1>3. CommandOK'
  BY DEF Card!TypeOK, LocksOK, CommandOK, CardCopyOK, RequestOK, Card!Bits
<1>4. RequestOK'
  BY DEF Card!TypeOK, CommandOK, CardCopyOK, RequestOK, Coming, Card!Bits
<1>5. DataOK'
  BY DEF Card!TypeOK, CommandOK, RequestOK, Coming, DataOK, Card!StreamResult, Card!Bits
<1> QED
  BY <1>1, <1>2, <1>3, <1>4, <1>5

LEMMA Request_WaitKeeps ==
  ASSUME CardAssumption, CardInv, NEW t \in Card!Thread, Card!Request_Wait(t)
  PROVE  CardInv'
<1> USE DEF CardAssumption, Card!Thread, Card!Running, CardInv, Card!lock, Card!command,
            Card!request, Card!link,
            Card!Request_Wait, Card!Goto, Card!Awake
<1>1. Card!TypeOK'
  BY DEF Card!TypeOK, Card!Bits, Card!Kinds, Card!Results
<1>2. LocksOK'
  BY DEF Card!TypeOK, LocksOK, CommandOK, Card!Bits
<1>3. CommandOK'
  BY DEF Card!TypeOK, LocksOK, CommandOK, CardCopyOK, RequestOK, Card!Bits
<1>4. RequestOK'
  BY DEF Card!TypeOK, CommandOK, CardCopyOK, RequestOK, Coming, Card!Bits
<1>5. DataOK'
  BY DEF Card!TypeOK, CommandOK, RequestOK, Coming, DataOK, Card!StreamResult, Card!Bits
<1> QED
  BY <1>1, <1>2, <1>3, <1>4, <1>5

LEMMA CARDi_JudgeKeeps ==
  ASSUME CardAssumption, CardInv, NEW t \in Card!Thread, Card!Judge(t)
  PROVE  CardInv'
<1> USE DEF CardAssumption, Card!Thread, Card!Running, CardInv, Card!lock, Card!command,
            Card!request, Card!link,
            Card!Judge, Card!Goto, Card!Awake, Card!Send, Card!NextChunk
<1>1. Card!TypeOK'
  <2>1. Threads'
    BY DEF Threads, Card!TypeOK, LocksOK, CommandOK, RequestOK, Coming
  <2>2. Values'
    BY DEF Values, Card!TypeOK, Card!Bits, Card!Kinds, Card!Results
  <2>3. Numbers'
    BY DEF Numbers, Card!TypeOK, CommandOK, DataOK
  <2>4. Booleans'
    BY DEF Booleans, Card!TypeOK
  <2> QED
    BY <2>1, <2>2, <2>3, <2>4 DEF Card!TypeOK, Threads, Values, Numbers, Booleans
<1>2. LocksOK'
  BY DEF Card!TypeOK, LocksOK, CommandOK, Card!Bits
<1>3. CommandOK'
  BY DEF Card!TypeOK, LocksOK, CommandOK, CardCopyOK, RequestOK, Card!Bits
<1>4. RequestOK'
  BY DEF Card!TypeOK, CommandOK, CardCopyOK, RequestOK, Coming, Card!Bits
<1>5. DataOK'
  BY DEF Card!TypeOK, CommandOK, RequestOK, Coming, DataOK, Card!StreamResult, Card!Bits
<1> QED
  BY <1>1, <1>2, <1>3, <1>4, <1>5

LEMMA CARDi_EndTaskKeeps ==
  ASSUME CardAssumption, CardInv, NEW t \in Card!Thread, Card!CARDi_EndTask(t)
  PROVE  CardInv'
<1> USE DEF CardAssumption, Card!Thread, Card!Running, CardInv, Card!lock, Card!command,
            Card!request, Card!link,
            Card!CARDi_EndTask, Card!Goto, Card!Awake
<1>1. Card!TypeOK'
  <2>1. Threads'
    BY DEF Threads, Card!TypeOK, LocksOK, CommandOK, RequestOK, Coming
  <2>2. Values'
    BY DEF Values, Card!TypeOK, Card!Bits, Card!Kinds, Card!Results
  <2>3. Numbers'
    BY DEF Numbers, Card!TypeOK, CommandOK, DataOK
  <2>4. Booleans'
    BY DEF Booleans, Card!TypeOK
  <2> QED
    BY <2>1, <2>2, <2>3, <2>4 DEF Card!TypeOK, Threads, Values, Numbers, Booleans
<1>2. LocksOK'
  BY DEF Card!TypeOK, LocksOK, CommandOK, Card!Bits
<1>3. CommandOK'
  BY DEF Card!TypeOK, LocksOK, CommandOK, CardCopyOK, RequestOK, Card!Bits
<1>4. RequestOK'
  BY DEF Card!TypeOK, CommandOK, CardCopyOK, RequestOK, Coming, Card!Bits
<1>5. DataOK'
  BY DEF Card!TypeOK, CommandOK, RequestOK, Coming, DataOK, Card!StreamResult, Card!Bits
<1> QED
  BY <1>1, <1>2, <1>3, <1>4, <1>5

LEMMA CARDi_OnFifoRecvKeeps ==
  ASSUME CardAssumption, CardInv, Card!CARDi_OnFifoRecv
  PROVE  CardInv'
<1> USE DEF CardAssumption, Card!Thread, Card!Running, CardInv, Card!lock, Card!command,
            Card!request, Card!link,
            Card!CARDi_OnFifoRecv
<1>1. Card!TypeOK'
  <2>1. Threads'
    BY DEF Threads, Card!TypeOK, LocksOK, CommandOK, RequestOK, Coming
  <2>2. Values'
    BY DEF Values, Card!TypeOK, Card!Bits, Card!Kinds, Card!Results
  <2>3. Numbers'
    BY DEF Numbers, Card!TypeOK, CommandOK, DataOK
  <2>4. Booleans'
    BY DEF Booleans, Card!TypeOK
  <2> QED
    BY <2>1, <2>2, <2>3, <2>4 DEF Card!TypeOK, Threads, Values, Numbers, Booleans
<1>2. LocksOK'
  BY DEF Card!TypeOK, LocksOK, CommandOK, Card!Bits
<1>3. CommandOK'
  BY DEF Card!TypeOK, LocksOK, CommandOK, CardCopyOK, RequestOK, Card!Bits
<1>4. RequestOK'
  BY DEF Card!TypeOK, CommandOK, CardCopyOK, RequestOK, Coming, Card!Bits
<1>5. DataOK'
  BY DEF Card!TypeOK, CommandOK, RequestOK, Coming, DataOK, Card!StreamResult, Card!Bits
<1> QED
  BY <1>1, <1>2, <1>3, <1>4, <1>5

LEMMA Arm7_OnFifoRecvKeeps ==
  ASSUME CardAssumption, CardInv, Card!Arm7_OnFifoRecv
  PROVE  CardInv'
<1> USE DEF CardAssumption, Card!Thread, Card!Running, CardInv, Card!lock, Card!command,
            Card!request, Card!link,
            Card!Arm7_OnFifoRecv
<1>1. Card!TypeOK'
  <2>1. Threads'
    BY DEF Threads, Card!TypeOK, LocksOK, CommandOK, RequestOK, Coming
  <2>2. Values'
    BY DEF Values, Card!TypeOK, Card!Bits, Card!Kinds, Card!Results
  <2>3. Numbers'
    BY DEF Numbers, Card!TypeOK, CommandOK, DataOK
  <2>4. Booleans'
    BY DEF Booleans, Card!TypeOK
  <2> QED
    BY <2>1, <2>2, <2>3, <2>4 DEF Card!TypeOK, Threads, Values, Numbers, Booleans
<1>2. LocksOK'
  BY DEF Card!TypeOK, LocksOK, CommandOK, Card!Bits
<1>3. CommandOK'
  BY DEF Card!TypeOK, LocksOK, CommandOK, CardCopyOK, RequestOK, Card!Bits
<1>4. RequestOK'
  BY DEF Card!TypeOK, CommandOK, CardCopyOK, RequestOK, Coming, Card!Bits
<1>5. DataOK'
  BY DEF Card!TypeOK, CommandOK, RequestOK, Coming, DataOK, Card!StreamResult, Card!Bits
<1> QED
  BY <1>1, <1>2, <1>3, <1>4, <1>5

LEMMA Arm7_TakeKeeps ==
  ASSUME CardAssumption, CardInv, Card!Arm7_Take
  PROVE  CardInv'
<1> USE DEF CardAssumption, Card!Thread, Card!Running, CardInv, Card!lock, Card!command,
            Card!request, Card!link,
            Card!Arm7_Take
<1>1. Card!TypeOK'
  BY DEF Card!TypeOK, Card!Bits, Card!Kinds, Card!Results
<1>2. LocksOK'
  BY DEF Card!TypeOK, LocksOK, CommandOK, Card!Bits
<1>3. CommandOK'
  BY DEF Card!TypeOK, LocksOK, CommandOK, CardCopyOK, RequestOK, Card!Bits
<1>4. RequestOK'
  BY DEF Card!TypeOK, CommandOK, CardCopyOK, RequestOK, Coming, Card!Bits
<1>5. DataOK'
  BY DEF Card!TypeOK, CommandOK, RequestOK, Coming, DataOK, Card!StreamResult, Card!Bits
<1> QED
  BY <1>1, <1>2, <1>3, <1>4, <1>5

LEMMA Arm7_AnswerKeeps ==
  ASSUME CardAssumption, CardInv, Card!Arm7_Answer
  PROVE  CardInv'
<1> USE DEF CardAssumption, Card!Thread, Card!Running, CardInv, Card!lock, Card!command,
            Card!request, Card!link,
            Card!Arm7_Answer
<1>1. Card!TypeOK'
  BY DEF Card!TypeOK, Card!Bits, Card!Kinds, Card!Results
<1>2. LocksOK'
  BY DEF Card!TypeOK, LocksOK, CommandOK, Card!Bits
<1>3. CommandOK'
  BY DEF Card!TypeOK, LocksOK, CommandOK, CardCopyOK, RequestOK, Card!Bits
<1>4. RequestOK'
  BY DEF Card!TypeOK, CommandOK, CardCopyOK, RequestOK, Coming, Card!Bits
<1>5. DataOK'
  BY DEF Card!TypeOK, CommandOK, RequestOK, Coming, DataOK, Card!StreamResult, Card!Bits
<1> QED
  BY <1>1, <1>2, <1>3, <1>4, <1>5

LEMMA Arm7_EndKeeps ==
  ASSUME CardAssumption, CardInv, Card!Arm7_End
  PROVE  CardInv'
<1> USE DEF CardAssumption, Card!Thread, Card!Running, CardInv, Card!lock, Card!command,
            Card!request, Card!link,
            Card!Arm7_End
<1>1. Card!TypeOK'
  BY DEF Card!TypeOK, Card!Bits, Card!Kinds, Card!Results
<1>2. LocksOK'
  BY DEF Card!TypeOK, LocksOK, CommandOK, Card!Bits
<1>3. CommandOK'
  BY DEF Card!TypeOK, LocksOK, CommandOK, CardCopyOK, RequestOK, Card!Bits
<1>4. RequestOK'
  BY DEF Card!TypeOK, CommandOK, CardCopyOK, RequestOK, Coming, Card!Bits
<1>5. DataOK'
  BY DEF Card!TypeOK, CommandOK, RequestOK, Coming, DataOK, Card!StreamResult, Card!Bits
<1> QED
  BY <1>1, <1>2, <1>3, <1>4, <1>5

\* ... so every step does.
LEMMA CardNextKeeps == ASSUME CardAssumption, CardInv, [Card!Next]_Card!vars PROVE CardInv'
<1>1. ASSUME NEW t \in Client, Card!Call(t) PROVE CardInv'
  BY <1>1, CARD_LockBackupKeeps, UnlockResourceKeeps, CARDi_WaitTaskKeeps, WaitAsyncKeeps
     DEF Card!Call
<1>2. ASSUME NEW t \in Card!Thread, Card!Step(t) PROVE CardInv'
  <2>1. CASE at[t] # "out" /\ (Card!CARDi_WaitTask(t) \/ Card!WaitAsync(t))
    <3>1. at[t] \in {"begin", "wait"}
      BY <2>1 DEF Card!CARDi_WaitTask, Card!WaitAsync
    <3>2. t \in Client
      BY <3>1 DEF CardInv, CommandOK, Card!Running, Card!Thread
    <3> QED
      BY <2>1, <3>2, CARDi_WaitTaskKeeps, WaitAsyncKeeps
  <2> QED
    BY <1>2, <2>1, SetTask_LoadKeeps, SetTask_StoreKeeps, ChunkKeeps, PageKeeps,
       Request_LoadKeeps, Request_StoreKeeps, CARDi_SendPxiKeeps, Request_WaitKeeps,
       CARDi_JudgeKeeps, CARDi_EndTaskKeeps, CARDi_TaskThreadKeeps
       DEF Card!Step
<1>3. CASE Card!Arm7
  BY <1>3, Arm7_OnFifoRecvKeeps, Arm7_TakeKeeps, Arm7_AnswerKeeps, Arm7_EndKeeps DEF Card!Arm7
<1>4. CASE UNCHANGED Card!vars
  BY <1>4 DEF Card!vars, Card!lock, Card!command, Card!request, Card!link, CardInv, Card!TypeOK,
              LocksOK, CommandOK, CardCopyOK, RequestOK, Coming, DataOK, Card!StreamResult
<1> QED
  BY <1>1, <1>2, <1>3, <1>4, CARD_CancelBackupAsyncKeeps, CARDi_OnFifoRecvKeeps DEF Card!Next

\* It holds in every state.
LEMMA CardInvariant == ASSUME CardAssumption PROVE Card!Spec => []CardInv
BY InitCardInv, CardNextKeeps, PTL DEF Card!Spec

-----------------------------------------------------------------------------
(* What follows from the invariant.                                           *)

\* What it says of the commands that are carried out,
LEMMA OneCommandHolds == ASSUME CardAssumption, CardInv PROVE Card!OneCommand
<1>1. \A t \in Card!Thread : at[t] \in Card!Running => curTh = t /\ "BUSY" \in flag
  BY DEF CardInv, CommandOK
<1>2. ASSUME "TASK" \in flag
              \/ \E t \in Card!Thread : at[t] \in Card!Running \cup {"setLoad", "setStore"}
      PROVE  "BUSY" \in flag
  BY <1>1, <1>2 DEF CardInv, CommandOK, Card!Thread, Card!Running
<1>3. ASSUME "BUSY" \in flag
      PROVE  "TASK" \in flag
              \/ \E t \in Card!Thread : at[t] \in Card!Running \cup {"setLoad", "setStore"}
  BY <1>3 DEF CardInv, CommandOK, Card!Thread
<1> QED
  BY <1>1, <1>2, <1>3 DEF Card!OneCommand

\* and of the answers that are waited for.
LEMMA AnswersCome == ASSUME CardAssumption, CardInv PROVE Card!AnswerComes
<1> DEFINE coming == {i \in 1..4 : <<toArm7, received, arm7 = "works", ack>>[i]}
<1>1. /\ 1 \in coming <=> toArm7
      /\ 2 \in coming <=> received
      /\ 3 \in coming <=> arm7 = "works"
      /\ 4 \in coming <=> ack
  <2> DEFINE s == <<toArm7, received, arm7 = "works", ack>>
  <2>1. s[1] = toArm7 /\ s[2] = received /\ s[3] = (arm7 = "works") /\ s[4] = ack
    OBVIOUS
  <2>2. \A i : i \in coming <=> i \in 1..4 /\ s[i]
    OBVIOUS
  <2>3. 1 \in 1..4 /\ 2 \in 1..4 /\ 3 \in 1..4 /\ 4 \in 1..4
    OBVIOUS
  <2> HIDE DEF coming, s
  <2> QED
    BY <2>1, <2>2, <2>3, Zenon
<1>2. \A i \in coming : i \in {1, 2, 3, 4}
  OBVIOUS
<1> HIDE DEF coming
<1>3. coming # {} <=> Coming
  BY <1>1, <1>2 DEF Coming
<1>4. Cardinality(coming) <= 1
  <2>1. \A i, j \in coming : i = j
    BY <1>1, <1>2 DEF CardInv, RequestOK
  <2>2. CASE coming = {}
    BY <2>2, FS_EmptySet
  <2>3. CASE coming # {}
    <3>1. PICK i \in coming : coming = {i}
      BY <2>1, <2>3
    <3> QED
      BY <3>1, FS_Singleton
  <2> QED
    BY <2>2, <2>3
<1>5. \A t \in Card!Thread : at[t] = "reply" /\ t \in asleep => Coming
  BY DEF CardInv, RequestOK, CommandOK, Card!Running, Card!Thread, CardAssumption
<1>6. Coming <=> curTh # NULL /\ at[curTh] = "reply" /\ "REQ" \in flag
  BY DEF CardInv, RequestOK
<1>7. Card!Cardinality(coming) = Cardinality(coming)
  BY DEF Card!Cardinality, Cardinality
<1> QED
  BY <1>3, <1>4, <1>5, <1>6, <1>7 DEF Card!AnswerComes, coming

\* A behaviour of MCStorage is one of the card, which may stand still.
LEMMA CardIsPart == MCSpec => Card!Spec
<1>1. MCInit => Card!Init
  BY DEF MCInit
<1>2. [MCNext]_<<part, vars, cardVars, archiveVars>> => [Card!Next]_Card!vars
  BY DEF MCNext, cardVars, Card!vars, Card!lock, Card!command, Card!request, Card!link
<1> QED
  BY <1>1, <1>2, PTL DEF MCSpec, Card!Spec

\* The card runs one command at a time, has an answer on its way for whoever
\* waits for one, and a stream that ends in success is complete: with any number
\* of clients that lock, give commands away, wait and cancel.
THEOREM CardAnswersAlways == ASSUME CardAssumption PROVE MCSpec => []CardAnswers
<1>1. CardInv => CardAnswers
  BY OneCommandHolds, AnswersCome DEF CardAnswers, Card!CardAnswers, CardInv, DataOK
<1> QED
  BY <1>1, CardInvariant, CardIsPart, PTL

-----------------------------------------------------------------------------
(* The archive.                                                               *)

\* What the theorems assume of the constants: the processes are apart.
ArchiveAssumption ==
  /\ Suspender \notin File /\ Reader \notin File /\ Suspender # Reader
  /\ NULL \notin Archive!Process

-----------------------------------------------------------------------------
(* The inductive invariant.  The turn is handed over by flags only, each in a  *)
(* step of its own; it says what each place of a process knows of the flags,  *)
(* of the first file and of its target.                                       *)


\* A process carries a command out: from when it translates the command until it
\* has released it, unless it leaves it to the card.
Carries(p) ==
  \/ aAt[p] \in {"load", "store", "proc", "clear", "release", "syncWait"}
  \/ aAt[p] = "judge" /\ (aRet[p] # "ASYNC" \/ p \in aInSync)

\* A client was woken to carry its command out itself.
Chosen(c) == aAt[c] = "wait" /\ "OPERATING" \in aStat[c]

\* A process has the turn, or the card has it.
HasTurn(p) == aAt[p] \in {"activate", "operate", "next"} \/ Carries(p) \/ Chosen(p)
CardHas == aAsked /\ "IS_ASYNC" \in aFlag

First(f) == aList # <<>> /\ Head(aList) = f

\* A process has left the command to the card and not yet looked away; a client
\* waits for the card's answer to its own.
Left(p) == aAt[p] = "judge" /\ aRet[p] = "ASYNC" /\ p \notin aInSync
Awaits(p) == p \in aInSync /\ (aAt[p] = "syncWait" \/ (aAt[p] = "judge" /\ aRet[p] = "ASYNC"))

\* Clients wait, and the suspender suspends.
PlacesOK ==
  /\ \A p \in Archive!Process : aAt[p] \in {"suspend", "holds"} => p = Suspender
  /\ \A p \in Archive!Process : aAt[p] \in {"wait", "waitBusy"} => p \in File

\* One has the turn while the archive runs, and nobody else.
TurnOK ==
  /\ \A p, q \in Archive!Process : HasTurn(p) /\ HasTurn(q) => p = q
  /\ \A p \in Archive!Process : HasTurn(p) => ~CardHas
  /\ "RUNNING" \in aFlag <=> CardHas \/ \E p \in Archive!Process : HasTurn(p)

\* The archive is suspended between two turns only, and whoever suspends it sleeps
\* until it is.  It rests when the list is empty.
SuspendOK ==
  /\ "SUSPEND" \in aFlag => "RUNNING" \notin aFlag /\ aAt[Suspender] \in {"suspend", "holds"}
  /\ "SUSPENDING" \in aFlag => "RUNNING" \in aFlag /\ aAt[Suspender] = "suspend"
  /\ aAt[Suspender] = "holds" => "SUSPEND" \in aFlag
  /\ aAt[Suspender] = "suspend" /\ Suspender \notin aAsleep => "SUSPEND" \in aFlag
  /\ "RUNNING" \notin aFlag /\ "SUSPEND" \notin aFlag => aList = <<>>

\* What operates is the first command, and in the hands of whoever has the turn.
OperatingOK ==
  \A f \in File : "OPERATING" \in aStat[f] =>
    /\ First(f) /\ aLocked
    /\ CardHas \/ Chosen(f) \/ \E p \in Archive!Process : Carries(p) /\ aTarget[p] = f

\* A command is SYNC while its client waits for its turn or carries it out.
SyncOK ==
  \A f \in File :
    /\ "SYNC" \in aStat[f] =>
         aAt[f] = "wait" \/ (aTarget[f] = f
                            /\ (aAt[f] \in {"activate", "operate"} \/ f \in aInSync))
    /\ aAt[f] = "wait" /\ "BUSY" \in aStat[f] => "SYNC" \in aStat[f]

FilesOK == Archive!BusyListed /\ OperatingOK /\ SyncOK

\* Whoever begins or carries out a command does the first; a client in
\* FSi_ExecuteSyncCommand does its own, which is SYNC, and nobody else's is.
CarriersOK ==
  /\ \A p \in Archive!Process : aAt[p] \in {"activate", "operate"} => First(aTarget[p])
  /\ \A p \in Archive!Process : Carries(p) =>
       /\ First(aTarget[p]) /\ "OPERATING" \in aStat[aTarget[p]]
       /\ Archive!IsSync(aTarget[p]) <=> p \in aInSync
  /\ \A p \in aInSync : Carries(p) /\ aTarget[p] = p

\* Whoever has left a command to the card still holds its file, which may have been
\* released since, and sent again.
LeftOK == \A p \in Archive!Process : Left(p) => aTarget[p] \in File

\* The archive has the ROM while it runs only, and the card reads for the first
\* command, which is not SYNC.
CardsOK ==
  /\ aLocked => "RUNNING" \in aFlag
  /\ \A p \in Archive!Process : aAt[p] \in {"operate", "next"} => aLocked
  /\ CardHas => aList # <<>> /\ "OPERATING" \in aStat[Head(aList)] /\ ~Archive!IsSync(Head(aList))

TargetsOK == CarriersOK /\ LeftOK /\ CardsOK

\* IS_SYNC and IS_ASYNC are set while a command is carried out or awaited, and say
\* which: the card's answer is for the command that asked.
MarksOK ==
  /\ \A p \in Archive!Process : aAt[p] = "syncWait" => Awaits(p)
  /\ \A p \in Archive!Process : HasTurn(p) /\ ~Awaits(p) =>
       /\ ~aAsked
       /\ "IS_SYNC" \in aFlag <=>
            aAt[p] \in {"proc", "judge", "clear"} /\ Archive!IsSync(aTarget[p])
       /\ "IS_ASYNC" \in aFlag <=>
            aAt[p] \in {"proc", "judge", "clear"} /\ ~Archive!IsSync(aTarget[p])
  /\ \A p \in Archive!Process : Awaits(p) =>
       /\ "IS_ASYNC" \notin aFlag
       /\ "IS_SYNC" \in aFlag <=> aAsked
       /\ ~aAsked => aError[aTarget[p]] = "SUCCESS"
  /\ CardHas => "IS_SYNC" \notin aFlag
  /\ "RUNNING" \notin aFlag => ~aAsked /\ "IS_SYNC" \notin aFlag /\ "IS_ASYNC" \notin aFlag
  /\ \A p \in Archive!Process : aAt[p] \in {"clear", "release"} => aRet[p] = "SUCCESS"
  /\ \A p \in Archive!Process : aAt[p] = "judge" => aRet[p] \in {"SUCCESS", "ASYNC"}

\* A flag that was loaded differs from the flag, when it is stored, by its own
\* mark and by requests to cancel or to suspend, which the store loses.
CopyOK ==
  \A p \in Archive!Process :
    /\ aAt[p] = "store" =>
         /\ \A bit \in aCopy[p] : bit \in aFlag \/ bit = Archive!Mark(aTarget[p])
         /\ Archive!Mark(aTarget[p]) \in aCopy[p]
         /\ \A bit \in aFlag : bit \in aCopy[p] \/ bit \in {"CANCELING", "SUSPENDING"}
    /\ aAt[p] = "clear" =>
         /\ \A bit \in aCopy[p] : bit \in aFlag /\ bit # Archive!Mark(aTarget[p])
         /\ \A bit \in aFlag : bit \in aCopy[p]
               \/ bit \in {"CANCELING", "SUSPENDING", Archive!Mark(aTarget[p])}

IInv ==
  Archive!TypeOK /\ PlacesOK /\ TurnOK /\ SuspendOK /\ FilesOK /\ TargetsOK /\ MarksOK /\ CopyOK

\* TypeOK, in parts for the provers.
ListOK == aList \in Seq(File) /\ Archive!IsInjective(aList)
PlaceOK ==
  aAt \in [Archive!Process -> {"out", "activate", "operate", "load", "store", "proc", "judge",
                      "clear", "release", "next", "syncWait", "wait", "waitBusy",
                      "suspend", "holds"}]
FieldsOK ==
  /\ aStat \in [File -> SUBSET Archive!FileBits]
  /\ aError \in [File -> Archive!Results \ {"ASYNC"}]
  /\ aTarget \in [Archive!Process -> File \cup {NULL}]
  /\ aRet \in [Archive!Process -> Archive!Results]
BitsOK ==
  /\ aFlag \subseteq Archive!ArchiveBits
  /\ aInSync \subseteq File /\ aAsleep \subseteq Archive!Process
  /\ aCopy \in [Archive!Process -> SUBSET Archive!ArchiveBits]
CardOK == aAsked \in BOOLEAN /\ aLocked \in BOOLEAN /\ aMisjudged \in BOOLEAN

\* The types taken apart, before a step and after it.
LEMMA TypeIsParts == Archive!TypeOK <=> ListOK /\ PlaceOK /\ FieldsOK /\ BitsOK /\ CardOK
BY DEF Archive!TypeOK, ListOK, PlaceOK, FieldsOK, BitsOK, CardOK

LEMMA TypeIsPartsNext == Archive!TypeOK' <=> ListOK' /\ PlaceOK' /\ FieldsOK' /\ BitsOK' /\ CardOK'
BY DEF Archive!TypeOK, ListOK, PlaceOK, FieldsOK, BitsOK, CardOK

\* What is first in the list is a file.
LEMMA HeadIsFile == ASSUME ListOK, aList # <<>> PROVE Head(aList) \in File
BY DEF ListOK

\* The first file of the list is busy.
LEMMA FirstIsBusy ==
  ASSUME IInv, NEW f, First(f)
  PROVE  f \in File /\ "BUSY" \in aStat[f]
<1>1. aList \in Seq(File) /\ f = aList[1] /\ 1 \in DOMAIN aList
  BY TypeIsParts DEF IInv, First, ListOK
<1> QED
  BY <1>1 DEF IInv, FilesOK, Archive!BusyListed, Archive!ToSet

\* Nobody else has the turn when one has it.
LEMMA TurnIsOne ==
  ASSUME ArchiveAssumption, IInv, NEW t \in Archive!Process, HasTurn(t)
  PROVE  /\ ~CardHas /\ "RUNNING" \in aFlag /\ "SUSPEND" \notin aFlag
         /\ \A p \in Archive!Process \ {t} : /\ ~HasTurn(p) /\ ~Carries(p) /\ p \notin aInSync
                                             /\ aAt[p] \notin {"activate", "operate", "next"}
         /\ \A f \in File \ {t} : ~Chosen(f)
BY DEF IInv, TurnOK, SuspendOK, TargetsOK, CarriersOK, HasTurn, Archive!Process

-----------------------------------------------------------------------------
(* The list.                                                                  *)

\* FSArchive has its own names for the operators of the libraries.
LEMMA SameOperators ==
  /\ \A s : Archive!ToSet(s) = ToSet(s) /\ (Archive!IsInjective(s) <=> IsInjective(s))
  /\ \A s : Archive!Cardinality(s) = Cardinality(s)
BY DEF Archive!ToSet, ToSet, Archive!IsInjective, IsInjective, Archive!Cardinality, Cardinality

\* In a finite set of numbers each has its rank, how many are not greater, and
\* each rank up to their number is that of one of them.
LEMMA RanksOfNumbers ==
  ASSUME NEW n \in Nat, NEW K \in SUBSET (1..n)
  PROVE  /\ Cardinality(K) \in Nat
         /\ \A i \in K : Cardinality({j \in K : j <= i}) \in 1..Cardinality(K)
         /\ \A i, k \in K : Cardinality({j \in K : j <= i}) = Cardinality({j \in K : j <= k})
               => i = k
         /\ \A r \in 1..Cardinality(K) : \E i \in K : Cardinality({j \in K : j <= i}) = r
<1> DEFINE UpTo(i) == {j \in K : j <= i}
<1>0. \A j : j \in K => j \in 1..n /\ j \in Nat /\ 1 <= j /\ j <= n
  OBVIOUS
<1>1. IsFiniteSet(K) /\ Cardinality(K) \in Nat
  <2>1. IsFiniteSet(1..n)
    BY FS_Interval
  <2>2. IsFiniteSet(K)
    BY <2>1, FS_Subset
  <2> QED
    BY <2>2, FS_CardinalityType
<1>2. ASSUME NEW i \in Nat
      PROVE  IsFiniteSet(UpTo(i)) /\ Cardinality(UpTo(i)) \in 0..Cardinality(K)
  <2>1. UpTo(i) \subseteq K
    OBVIOUS
  <2> HIDE DEF UpTo
  <2>2. IsFiniteSet(UpTo(i)) /\ Cardinality(UpTo(i)) <= Cardinality(K)
    BY <1>1, <2>1, FS_Subset
  <2> QED
    BY <1>1, <2>2, FS_CardinalityType
<1>3. ASSUME NEW i \in Nat, NEW k \in K, i < k
      PROVE  Cardinality(UpTo(i)) < Cardinality(UpTo(k))
  <2>1. k \in Nat
    OBVIOUS
  <2>2. UpTo(i) \subseteq UpTo(k) /\ UpTo(i) # UpTo(k)
    <3>1. ASSUME NEW j \in UpTo(i) PROVE j \in UpTo(k)
      BY <1>0, <1>3, <2>1, <3>1
    <3>2. k \in UpTo(k) /\ k \notin UpTo(i)
      BY <1>3, <2>1
    <3> HIDE DEF UpTo
    <3> QED
      BY <3>1, <3>2
  <2>3. IsFiniteSet(UpTo(k)) /\ IsFiniteSet(UpTo(i))
    BY <1>2, <2>1
  <2> HIDE DEF UpTo
  <2>4. Cardinality(UpTo(i)) <= Cardinality(UpTo(k)) /\ Cardinality(UpTo(i)) # Cardinality(UpTo(k))
    BY <2>2, <2>3, FS_Subset
  <2> QED
    BY <1>2, <2>1, <2>4
<1>4. \A i \in K : Cardinality(UpTo(i)) \in 1..Cardinality(K)
  <2> TAKE i \in K
  <2>1. i \in Nat /\ 0 < i
    OBVIOUS
  <2>2. Cardinality(UpTo(0)) < Cardinality(UpTo(i))
    BY <1>3, <2>1
  <2> HIDE DEF UpTo
  <2> QED
    BY <1>1, <1>2, <2>1, <2>2
<1>5. \A i, k \in K : Cardinality(UpTo(i)) = Cardinality(UpTo(k)) => i = k
  <2> TAKE i, k \in K
  <2>1. i \in Nat /\ k \in Nat
    OBVIOUS
  <2>2. i < k => Cardinality(UpTo(i)) < Cardinality(UpTo(k))
    BY <1>3, <2>1
  <2>3. k < i => Cardinality(UpTo(k)) < Cardinality(UpTo(i))
    BY <1>3, <2>1
  <2>4. Cardinality(UpTo(i)) \in Nat /\ Cardinality(UpTo(k)) \in Nat
    BY <1>2, <2>1
  <2> HIDE DEF UpTo
  <2> QED
    BY <2>1, <2>2, <2>3, <2>4
<1>6. \A r \in 1..Cardinality(K) : \E i \in K : Cardinality(UpTo(i)) = r
  <2> SUFFICES ASSUME NEW r \in 1..Cardinality(K)
               PROVE  \E i \in K : Cardinality(UpTo(i)) = r
    OBVIOUS
  <2> DEFINE reach == {i \in Nat : r <= Cardinality(UpTo(i))}
             least == Min(reach)
  <2>1. UpTo(n) = K
    BY <1>0
  <2>2. n \in reach
    BY <1>1, <2>1
  <2>3. least \in reach /\ \A m \in reach : least <= m
    <3>1. reach \in SUBSET Nat /\ reach # {}
      BY <2>2
    <3> HIDE DEF reach
    <3> QED
      BY <3>1, MinIsLeast
  <2> HIDE DEF least
  <2>4. least \in Nat /\ r <= Cardinality(UpTo(least))
    BY <2>3
  <2>5. least # 0
    <3>1. UpTo(0) = {}
      <4>1. \A j \in K : ~(j <= 0)
        BY <1>0
      <4> QED
        BY <4>1
    <3>2. Cardinality(UpTo(0)) = 0
      BY <3>1, FS_EmptySet
    <3> HIDE DEF UpTo
    <3> QED
      BY <2>4, <3>2, <1>1
  <2>6. least - 1 \in Nat /\ Cardinality(UpTo(least - 1)) < r
    <3>1. least - 1 \in Nat /\ ~(least <= least - 1)
      BY <2>4, <2>5
    <3>2. least - 1 \notin reach
      BY <2>3, <3>1
    <3>3. Cardinality(UpTo(least - 1)) \in Nat
      BY <3>1, <1>2
    <3>4. ~(r <= Cardinality(UpTo(least - 1)))
      BY <3>1, <3>2
    <3> HIDE DEF UpTo
    <3> QED
      BY <3>1, <3>3, <3>4, <1>1
  <2>7. CASE least \in K
    <3>1. UpTo(least) = UpTo(least - 1) \cup {least}
      <4>1. \A j \in K : j <= least <=> j <= least - 1 \/ j = least
        BY <1>0, <2>4
      <4> QED
        BY <4>1, <2>7, Zenon
    <3>2. IsFiniteSet(UpTo(least - 1))
      BY <1>2, <2>6
    <3> HIDE DEF UpTo
    <3>3. Cardinality(UpTo(least)) <= Cardinality(UpTo(least - 1)) + 1
      <4>1. \/ Cardinality(UpTo(least)) = Cardinality(UpTo(least - 1))
            \/ Cardinality(UpTo(least)) = Cardinality(UpTo(least - 1)) + 1
        BY <3>1, <3>2, FS_AddElement
      <4> QED
        BY <4>1, <2>6, <1>1, <1>2
    <3>4. Cardinality(UpTo(least)) = r
      BY <3>3, <2>4, <2>6, <1>1, <1>2
    <3> QED
      BY <3>4, <2>7
  <2>8. CASE least \notin K
    <3>1. UpTo(least) = UpTo(least - 1)
      <4>1. \A j \in K : j <= least <=> j <= least - 1
        BY <1>0, <2>4, <2>8
      <4> QED
        BY <4>1, Zenon
    <3> HIDE DEF UpTo
    <3> QED
      BY <3>1, <2>4, <2>6, <1>1, <1>2
  <2> QED
    BY <2>7, <2>8
<1> QED
  BY <1>1, <1>4, <1>5, <1>6

\* The list without some files holds the others, each once.
LEMMA WithoutFacts ==
  ASSUME Archive!TypeOK, NEW s
  PROVE  /\ Archive!Without(s) \in Seq(File) /\ Archive!IsInjective(Archive!Without(s))
         /\ \A f : f \in Archive!ToSet(Archive!Without(s)) 
              <=> f \in Archive!ToSet(aList) /\ f \notin s
<1> DEFINE kept == {i \in DOMAIN aList : aList[i] \notin s}
           place(n) == CHOOSE i \in kept : Cardinality({j \in kept : j <= i}) = n
           rank(i) == Cardinality({j \in kept : j <= i})
<1>1. aList \in Seq(File) /\ Len(aList) \in Nat /\ DOMAIN aList = 1..Len(aList)
  BY DEF Archive!TypeOK
<1>2. \A i, k \in DOMAIN aList : aList[i] = aList[k] => i = k
  BY DEF Archive!TypeOK, Archive!IsInjective
<1>3. kept \in SUBSET (1..Len(aList))
  BY <1>1
<1>4. /\ Cardinality(kept) \in Nat
      /\ \A i \in kept : rank(i) \in 1..Cardinality(kept)
      /\ \A i, k \in kept : rank(i) = rank(k) => i = k
      /\ \A n \in 1..Cardinality(kept) : \E i \in kept : rank(i) = n
  <2> HIDE DEF kept
  <2> QED
    BY <1>1, <1>3, RanksOfNumbers
<1>5. \A n \in 1..Cardinality(kept) : place(n) \in kept /\ rank(place(n)) = n
  <2> HIDE DEF kept
  <2> QED
    BY <1>4
<1>6. Archive!Without(s) = [n \in 1..Cardinality(kept) |-> aList[place(n)]]
  BY DEF Archive!Without, Archive!Cardinality, Cardinality
<1>7. \A i : i \in kept <=> i \in DOMAIN aList /\ aList[i] \notin s
  OBVIOUS
<1> HIDE DEF kept, place, rank
<1>8. \A n \in 1..Cardinality(kept) : aList[place(n)] \in File
  <2>1. \A i \in 1..Len(aList) : aList[i] \in File
    BY <1>1
  <2> QED
    BY <1>1, <1>5, <1>7, <2>1
<1>9. Archive!Without(s) \in Seq(File) /\ DOMAIN Archive!Without(s) = 1..Cardinality(kept)
  BY <1>4, <1>6, <1>8
<1>10. Archive!IsInjective(Archive!Without(s))
  <2>1. ASSUME NEW m \in 1..Cardinality(kept), NEW n \in 1..Cardinality(kept),
               Archive!Without(s)[m] = Archive!Without(s)[n]
        PROVE  m = n
    <3>1. aList[place(m)] = aList[place(n)]
      BY <1>6, <2>1
    <3>2. place(m) = place(n)
      BY <1>2, <1>5, <1>7, <3>1
    <3> QED
      BY <1>5, <3>2
  <2> QED
    BY <1>9, <2>1 DEF Archive!IsInjective
<1>11. \A f : f \in Archive!ToSet(Archive!Without(s)) <=> f \in Archive!ToSet(aList) /\ f \notin s
  <2> TAKE f
  <2>1. f \in Archive!ToSet(Archive!Without(s))
           <=> \E n \in 1..Cardinality(kept) : Archive!Without(s)[n] = f
    BY <1>9 DEF Archive!ToSet
  <2>2. f \in Archive!ToSet(aList) <=> \E i \in DOMAIN aList : aList[i] = f
    BY DEF Archive!ToSet
  <2>3. ASSUME f \in Archive!ToSet(Archive!Without(s))
        PROVE  f \in Archive!ToSet(aList) /\ f \notin s
    BY <1>5, <1>6, <1>7, <2>1, <2>2, <2>3
  <2>4. ASSUME f \in Archive!ToSet(aList), f \notin s PROVE f \in Archive!ToSet(Archive!Without(s))
    <3>1. PICK i \in DOMAIN aList : aList[i] = f
      BY <2>2, <2>4
    <3>2. i \in kept
      BY <1>7, <2>4, <3>1
    <3>3. place(rank(i)) = i
      BY <1>4, <1>5, <3>2
    <3>4. Archive!Without(s)[rank(i)] = f
      BY <1>4, <1>6, <3>1, <3>2, <3>3
    <3> QED
      BY <1>4, <2>1, <3>2, <3>4
  <2> QED
    BY <2>3, <2>4
<1> QED
  BY <1>9, <1>10, <1>11

\* A command appended to the list leaves the first where it is.
LEMMA AppendFacts ==
  ASSUME ListOK, NEW c \in File, c \notin Archive!ToSet(aList)
  PROVE  LET new == Append(aList, c)
         IN  /\ new \in Seq(File) /\ Archive!IsInjective(new) /\ new # <<>>
             /\ aList # <<>> => Head(new) = Head(aList)
             /\ aList = <<>> => Head(new) = c
             /\ \A f : f \in Archive!ToSet(new) <=> f \in Archive!ToSet(aList) \/ f = c
<1>1. aList \in Seq(File) /\ IsInjective(aList) /\ c \notin ToSet(aList)
  BY SameOperators DEF ListOK
<1> DEFINE new == Append(aList, c)
<1>2. /\ new \in Seq(File) /\ IsInjective(new) /\ new # <<>>
      /\ \A f : f \in ToSet(new) <=> f \in ToSet(aList) \/ f = c
  <2>1. new \in Seq(File) /\ new # <<>> /\ ToSet(new) = ToSet(aList) \cup {c}
    BY <1>1, AppendOnce
  <2>2. EachOnce(new)
    <3>1. EachOnce(aList)
      BY <1>1 DEF EachOnce, IsInjective
    <3> QED
      BY <1>1, <3>1, AppendOnce
  <2> HIDE DEF new
  <2> QED
    BY <2>1, <2>2 DEF EachOnce, IsInjective
<1>3. /\ aList # <<>> => Head(new) = Head(aList)
      /\ aList = <<>> => Head(new) = c
  BY <1>1
<1> HIDE DEF new
<1> QED
  BY <1>2, <1>3, SameOperators DEF new

-----------------------------------------------------------------------------
(* Each action keeps the invariant.                                           *)

LEMMA OperateKeeps ==
  ASSUME ArchiveAssumption, IInv, NEW t \in Archive!Process, Archive!Operate(t)
  PROVE  IInv'
<1> DEFINE f == aTarget[t]
<1> USE DEF ArchiveAssumption, Archive!Process
<1>0. ListOK /\ PlaceOK /\ FieldsOK /\ BitsOK /\ CardOK
  BY TypeIsParts DEF IInv
<1>1. /\ f \in File /\ First(f)
      /\ aAt[t] \in {"activate", "operate"}
      /\ HasTurn(t)
  BY <1>0, HeadIsFile
     DEF IInv, TargetsOK, CarriersOK, LeftOK, CardsOK, First, HasTurn, Archive!Operate
<1>2. /\ ~CardHas /\ "RUNNING" \in aFlag /\ "SUSPEND" \notin aFlag
      /\ \A p \in Archive!Process \ {t} : /\ ~HasTurn(p) /\ ~Carries(p) /\ p \notin aInSync
                                          /\ aAt[p] \notin {"activate", "operate", "next"}
      /\ \A g \in File \ {t} : ~Chosen(g)
  BY <1>1, TurnIsOne
<1>3. t \notin aInSync /\ ~Carries(t) /\ ~Chosen(t) /\ ~Awaits(t) /\ ~Left(t)
  BY <1>1 DEF IInv, TargetsOK, CarriersOK, LeftOK, CardsOK, Carries, Chosen, Awaits, Left
<1>4. \A g \in File : "OPERATING" \notin aStat[g]
  BY <1>2, <1>3 DEF IInv, FilesOK, OperatingOK
<1>5. Archive!IsSync(f) /\ f # t => aAt[f] = "wait"
  BY <1>1, <1>2, <1>3 DEF IInv, FilesOK, SyncOK, Archive!IsSync
<1>6. aStat' = [aStat EXCEPT ![f] = @ \cup {"OPERATING"}]
         \/ aStat' = [aStat EXCEPT ![f] = @ \cup {"OPERATING", "ASYNC"}]
  BY DEF Archive!Operate
<1>7. Archive!TypeOK'
  <2>1. ListOK' /\ PlaceOK'
    BY <1>0
       DEF ListOK, PlaceOK, Archive!Operate, Archive!Goto, Archive!Begin,
         Archive!Leave
  <2>2. FieldsOK'
    BY <1>0, <1>1, <1>6
       DEF FieldsOK, Archive!FileBits, Archive!Operate, Archive!Begin, Archive!Leave
  <2>3. BitsOK'
    BY <1>0, <1>1 DEF BitsOK, Archive!Operate
  <2>4. CardOK'
    BY <1>0 DEF CardOK, Archive!Operate
  <2> QED
    BY <2>1, <2>2, <2>3, <2>4, TypeIsPartsNext
<1>8. CASE Archive!IsSync(f) /\ f # t
  <2>1. /\ aAt' = [aAt EXCEPT ![t] = "out"] /\ aTarget' = [aTarget EXCEPT ![t] = NULL]
        /\ aStat' = [aStat EXCEPT ![f] = @ \cup {"OPERATING"}]
        /\ aInSync' = aInSync /\ aLocked'
        /\ UNCHANGED <<aFlag, aList, aError, aRet, aCopy, aAsked>>
    BY <1>0, <1>1, <1>8
       DEF Archive!Operate, Archive!Goto, Archive!Begin, Archive!Leave, IInv,
         TargetsOK, CarriersOK, LeftOK, CardsOK, CardOK
  <2>2. PlacesOK'
    BY <1>0, <1>8, <2>1 DEF IInv, PlacesOK, PlaceOK
  <2>3. TurnOK'
    BY <1>0, <1>1, <1>2, <1>3, <1>4, <1>5, <1>8, <2>1
       DEF IInv, TurnOK, HasTurn, Carries, Chosen, CardHas, PlaceOK, FieldsOK
  <2>4. SuspendOK'
    BY <1>0, <1>1, <1>2, <2>1 DEF IInv, SuspendOK, PlaceOK, PlacesOK, Archive!Operate
  <2>5. FilesOK'
    <3>1. Archive!BusyListed'
      BY <1>0, <1>1, <2>1
         DEF IInv, FilesOK, Archive!BusyListed, First, FieldsOK, Archive!FileBits,
           ListOK, Archive!ToSet
    <3>2. OperatingOK'
      BY <1>0, <1>1, <1>2, <1>3, <1>4, <1>5, <1>8, <2>1
         DEF IInv, OperatingOK, First, Carries, Chosen, CardHas, PlaceOK, FieldsOK
    <3>3. SyncOK'
      BY <1>0, <1>1, <1>2, <1>3, <1>5, <1>8, <2>1
         DEF IInv, FilesOK, SyncOK, Archive!IsSync, PlaceOK, FieldsOK
    <3> QED
      BY <3>1, <3>2, <3>3 DEF FilesOK
  <2>6. TargetsOK'
    BY <1>0, <1>1, <1>2, <1>3, <1>4, <1>5, <1>8, <2>1
       DEF IInv, TargetsOK, CarriersOK, LeftOK, CardsOK, First, Carries, Left,
         CardHas, Archive!IsSync, PlaceOK, FieldsOK
  <2>7. MarksOK'
    BY <1>0, <1>1, <1>2, <1>3, <1>4, <1>5, <1>8, <2>1
       DEF IInv, MarksOK, HasTurn, Carries, Chosen, CardHas, Awaits, Archive!IsSync,
         PlaceOK, FieldsOK
  <2>8. CopyOK'
    BY <1>0, <1>1, <1>2, <1>3, <2>1
       DEF IInv, CopyOK, Archive!Mark, Archive!IsSync, PlaceOK, FieldsOK
  <2> QED
    BY <1>7, <2>2, <2>3, <2>4, <2>5, <2>6, <2>7, <2>8 DEF IInv
<1>9. CASE Archive!IsSync(f) /\ f = t
  <2>1. /\ aAt' = [aAt EXCEPT ![t] = "load"] /\ aInSync' = aInSync \cup {t}
        /\ aStat' = [aStat EXCEPT ![f] = @ \cup {"OPERATING"}] /\ aLocked'
        /\ UNCHANGED <<aFlag, aList, aError, aRet, aCopy, aAsked, aTarget>>
    BY <1>0, <1>1, <1>9
       DEF Archive!Operate, Archive!Goto, Archive!Begin, Archive!Leave, IInv,
         TargetsOK, CarriersOK, LeftOK, CardsOK, CardOK
  <2>2. PlacesOK'
    BY <1>0, <1>9, <2>1 DEF IInv, PlacesOK, PlaceOK
  <2>3. TurnOK'
    BY <1>0, <1>1, <1>2, <1>3, <1>4, <1>5, <1>9, <2>1
       DEF IInv, TurnOK, HasTurn, Carries, Chosen, CardHas, PlaceOK, FieldsOK
  <2>4. SuspendOK'
    BY <1>0, <1>1, <1>2, <2>1 DEF IInv, SuspendOK, PlaceOK, PlacesOK, Archive!Operate
  <2>5. FilesOK'
    <3>1. Archive!BusyListed'
      BY <1>0, <1>1, <2>1
         DEF IInv, FilesOK, Archive!BusyListed, First, FieldsOK, Archive!FileBits,
           ListOK, Archive!ToSet
    <3>2. OperatingOK'
      BY <1>0, <1>1, <1>2, <1>3, <1>4, <1>5, <1>9, <2>1
         DEF IInv, OperatingOK, First, Carries, Chosen, CardHas, PlaceOK, FieldsOK
    <3>3. SyncOK'
      BY <1>0, <1>1, <1>2, <1>3, <1>5, <1>9, <2>1
         DEF IInv, FilesOK, SyncOK, Archive!IsSync, PlaceOK, FieldsOK
    <3> QED
      BY <3>1, <3>2, <3>3 DEF FilesOK
  <2>6. TargetsOK'
    BY <1>0, <1>1, <1>2, <1>3, <1>4, <1>5, <1>9, <2>1
       DEF IInv, TargetsOK, CarriersOK, LeftOK, CardsOK, First, Carries, Left,
         CardHas, Archive!IsSync, PlaceOK, FieldsOK
  <2>7. MarksOK'
    BY <1>0, <1>1, <1>2, <1>3, <1>4, <1>5, <1>9, <2>1
       DEF IInv, MarksOK, HasTurn, Carries, Chosen, CardHas, Awaits, Archive!IsSync,
         PlaceOK, FieldsOK
  <2>8. CopyOK'
    BY <1>0, <1>1, <1>2, <1>3, <2>1
       DEF IInv, CopyOK, Archive!Mark, Archive!IsSync, PlaceOK, FieldsOK
  <2> QED
    BY <1>7, <2>2, <2>3, <2>4, <2>5, <2>6, <2>7, <2>8 DEF IInv
<1>10. CASE ~Archive!IsSync(f)
  <2>1. /\ aAt' = [aAt EXCEPT ![t] = "load"]
        /\ aStat' = [aStat EXCEPT ![f] = @ \cup {"OPERATING", "ASYNC"}] /\ aLocked'
        /\ UNCHANGED <<aFlag, aList, aError, aRet, aCopy, aAsked, aTarget, aInSync>>
    BY <1>0, <1>1, <1>10
       DEF Archive!Operate, Archive!Goto, Archive!Begin, Archive!Leave, IInv,
         TargetsOK, CarriersOK, LeftOK, CardsOK, CardOK
  <2>9. aAt[f] # "wait"
    BY <1>1, <1>10, FirstIsBusy DEF IInv, FilesOK, SyncOK, Archive!IsSync
  <2>2. PlacesOK'
    BY <1>0, <1>10, <2>1 DEF IInv, PlacesOK, PlaceOK
  <2>3. TurnOK'
    BY <1>0, <1>1, <1>2, <1>3, <1>4, <1>10, <2>1, <2>9
       DEF IInv, TurnOK, HasTurn, Carries, Chosen, CardHas, PlaceOK, FieldsOK
  <2>4. SuspendOK'
    BY <1>0, <1>1, <1>2, <2>1 DEF IInv, SuspendOK, PlaceOK, PlacesOK, Archive!Operate
  <2>5. FilesOK'
    <3>1. Archive!BusyListed'
      BY <1>0, <1>1, <2>1
         DEF IInv, FilesOK, Archive!BusyListed, First, FieldsOK, Archive!FileBits,
           ListOK, Archive!ToSet
    <3>2. OperatingOK'
      BY <1>0, <1>1, <1>2, <1>3, <1>4, <1>5, <1>10, <2>1
         DEF IInv, OperatingOK, First, Carries, Chosen, CardHas, PlaceOK, FieldsOK
    <3>3. SyncOK'
      BY <1>0, <1>1, <1>2, <1>3, <1>5, <1>10, <2>1
         DEF IInv, FilesOK, SyncOK, Archive!IsSync, PlaceOK, FieldsOK
    <3> QED
      BY <3>1, <3>2, <3>3 DEF FilesOK
  <2>6. TargetsOK'
    BY <1>0, <1>1, <1>2, <1>3, <1>4, <1>5, <1>10, <2>1
       DEF IInv, TargetsOK, CarriersOK, LeftOK, CardsOK, First, Carries, Left,
         CardHas, Archive!IsSync, PlaceOK, FieldsOK
  <2>7. MarksOK'
    BY <1>0, <1>1, <1>2, <1>3, <1>4, <1>5, <1>10, <2>1
       DEF IInv, MarksOK, HasTurn, Carries, Chosen, CardHas, Awaits, Archive!IsSync,
         PlaceOK, FieldsOK
  <2>8. CopyOK'
    BY <1>0, <1>1, <1>2, <1>3, <2>1
       DEF IInv, CopyOK, Archive!Mark, Archive!IsSync, PlaceOK, FieldsOK
  <2> QED
    BY <1>7, <2>2, <2>3, <2>4, <2>5, <2>6, <2>7, <2>8 DEF IInv
<1> QED
  BY <1>8, <1>9, <1>10 DEF Archive!Operate

LEMMA LoadKeeps ==
  ASSUME ArchiveAssumption, IInv, NEW t \in Archive!Process, Archive!Load(t)
  PROVE  IInv'
<1> USE DEF ArchiveAssumption, Archive!Process, Archive!Load, Archive!Goto,
  Archive!Begin, Archive!Leave, Archive!IsSync, Archive!Mark
<1>0. ListOK /\ PlaceOK /\ FieldsOK /\ BitsOK /\ CardOK
  BY TypeIsParts DEF IInv
<1>1. Archive!TypeOK'
  <2>1. ListOK'
    BY <1>0 DEF ListOK
  <2>2. PlaceOK'
    BY <1>0 DEF PlaceOK
  <2>3. FieldsOK'
    BY <1>0
       DEF IInv, TargetsOK, CarriersOK, First, FieldsOK, Archive!FileBits,
         Archive!Results
  <2>4. BitsOK'
    BY <1>0 DEF BitsOK, Archive!ArchiveBits
  <2>5. CardOK'
    BY <1>0 DEF CardOK
  <2> QED
    BY <2>1, <2>2, <2>3, <2>4, <2>5, TypeIsPartsNext
<1>2. PlacesOK'
  BY <1>0 DEF IInv, PlacesOK, PlaceOK
<1>3. TurnOK'
  BY <1>0
     DEF IInv, PlaceOK, FieldsOK, BitsOK, PlacesOK, TurnOK, OperatingOK, SyncOK,
       Archive!BusyListed, FilesOK, TargetsOK, CarriersOK, LeftOK, CardsOK, MarksOK,
       CopyOK, HasTurn, Carries, Chosen, CardHas, Awaits, Left, First
<1>4. SuspendOK'
  BY <1>0
     DEF IInv, PlaceOK, BitsOK, PlacesOK, SuspendOK, CopyOK, TurnOK, HasTurn, Carries,
       CardHas
<1>5. Archive!BusyListed'
  BY <1>0 DEF IInv, FieldsOK, Archive!FileBits, FilesOK, Archive!BusyListed
<1>6. OperatingOK'
  BY <1>0
     DEF IInv, PlaceOK, FieldsOK, PlacesOK, TurnOK, OperatingOK, SyncOK, FilesOK,
       TargetsOK, CarriersOK, LeftOK, CardsOK, MarksOK, HasTurn, Carries, Chosen,
       CardHas, Awaits, Left, First
<1>7. SyncOK'
  BY <1>0
     DEF IInv, PlaceOK, FieldsOK, PlacesOK, TurnOK, OperatingOK, SyncOK, FilesOK,
       TargetsOK, CarriersOK, HasTurn, Carries
<1>8. CarriersOK'
  BY <1>0
     DEF IInv, PlaceOK, FieldsOK, BitsOK, PlacesOK, TurnOK, OperatingOK, SyncOK,
       FilesOK, TargetsOK, CarriersOK, MarksOK, HasTurn, Carries, Chosen, First,
       Awaits
<1>9. LeftOK'
  BY <1>0
     DEF IInv, PlaceOK, FieldsOK, BitsOK, PlacesOK, FilesOK, Archive!BusyListed,
       SyncOK, TargetsOK, CarriersOK, LeftOK, MarksOK, Left, Carries
<1>10. CardsOK'
  BY <1>0
     DEF IInv, PlaceOK, FieldsOK, BitsOK, CardOK, TurnOK, SuspendOK, OperatingOK,
       FilesOK, SyncOK, TargetsOK, CarriersOK, CardsOK, CopyOK, MarksOK, HasTurn,
       Carries, Chosen, CardHas, Awaits, Left, First
<1>11. MarksOK'
  BY <1>0
     DEF IInv, PlaceOK, FieldsOK, PlacesOK, TurnOK, OperatingOK, SyncOK, FilesOK,
       TargetsOK, CarriersOK, LeftOK, CardsOK, MarksOK, CopyOK, HasTurn, Carries,
       Chosen, CardHas, Awaits, Left, First
<1>12. CopyOK'
  BY <1>0
     DEF IInv, PlaceOK, FieldsOK, BitsOK, TurnOK, OperatingOK, FilesOK, TargetsOK,
       CarriersOK, LeftOK, MarksOK, CopyOK, Archive!ArchiveBits, HasTurn, Carries,
       Chosen, CardHas, Awaits, Left, First
<1> QED
  BY <1>1, <1>2, <1>3, <1>4, <1>5, <1>6, <1>7, <1>8, <1>9, <1>10, <1>11, <1>12
     DEF IInv, FilesOK, TargetsOK

LEMMA StoreKeeps ==
  ASSUME ArchiveAssumption, IInv, NEW t \in Archive!Process, Archive!Store(t)
  PROVE  IInv'
<1> USE DEF ArchiveAssumption, Archive!Process, Archive!Store, Archive!Goto,
  Archive!Begin, Archive!Leave, Archive!IsSync, Archive!Mark
<1>0. ListOK /\ PlaceOK /\ FieldsOK /\ BitsOK /\ CardOK
  BY TypeIsParts DEF IInv
<1>1. Archive!TypeOK'
  <2>1. ListOK'
    BY <1>0 DEF ListOK
  <2>2. PlaceOK'
    BY <1>0 DEF PlaceOK
  <2>3. FieldsOK'
    BY <1>0
       DEF IInv, TargetsOK, CarriersOK, First, FieldsOK, Archive!FileBits,
         Archive!Results
  <2>4. BitsOK'
    BY <1>0 DEF BitsOK, Archive!ArchiveBits
  <2>5. CardOK'
    BY <1>0 DEF CardOK
  <2> QED
    BY <2>1, <2>2, <2>3, <2>4, <2>5, TypeIsPartsNext
<1>2. PlacesOK'
  BY <1>0 DEF IInv, PlacesOK, PlaceOK
<1>3. TurnOK'
  BY <1>0
     DEF IInv, PlaceOK, FieldsOK, BitsOK, PlacesOK, TurnOK, OperatingOK, SyncOK,
       Archive!BusyListed, FilesOK, TargetsOK, CarriersOK, LeftOK, CardsOK, MarksOK,
       CopyOK, HasTurn, Carries, Chosen, CardHas, Awaits, Left, First
<1>4. SuspendOK'
  BY <1>0
     DEF IInv, PlaceOK, BitsOK, PlacesOK, SuspendOK, CopyOK, TurnOK, HasTurn, Carries,
       CardHas
<1>5. Archive!BusyListed'
  BY <1>0 DEF IInv, FieldsOK, Archive!FileBits, FilesOK, Archive!BusyListed
<1>6. OperatingOK'
  BY <1>0
     DEF IInv, PlaceOK, FieldsOK, PlacesOK, TurnOK, OperatingOK, SyncOK, FilesOK,
       TargetsOK, CarriersOK, LeftOK, CardsOK, MarksOK, HasTurn, Carries, Chosen,
       CardHas, Awaits, Left, First
<1>7. SyncOK'
  BY <1>0
     DEF IInv, PlaceOK, FieldsOK, PlacesOK, TurnOK, OperatingOK, SyncOK, FilesOK,
       TargetsOK, CarriersOK, HasTurn, Carries
<1>8. CarriersOK'
  BY <1>0
     DEF IInv, PlaceOK, FieldsOK, BitsOK, PlacesOK, TurnOK, OperatingOK, SyncOK,
       FilesOK, TargetsOK, CarriersOK, MarksOK, HasTurn, Carries, Chosen, First,
       Awaits
<1>9. LeftOK'
  BY <1>0
     DEF IInv, PlaceOK, FieldsOK, BitsOK, PlacesOK, FilesOK, Archive!BusyListed,
       SyncOK, TargetsOK, CarriersOK, LeftOK, MarksOK, Left, Carries
<1>10. CardsOK'
  BY <1>0
     DEF IInv, PlaceOK, FieldsOK, BitsOK, CardOK, TurnOK, SuspendOK, OperatingOK,
       FilesOK, SyncOK, TargetsOK, CarriersOK, CardsOK, CopyOK, MarksOK, HasTurn,
       Carries, Chosen, CardHas, Awaits, Left, First
<1>11. MarksOK'
  BY <1>0
     DEF IInv, PlaceOK, FieldsOK, PlacesOK, TurnOK, OperatingOK, SyncOK, FilesOK,
       TargetsOK, CarriersOK, LeftOK, CardsOK, MarksOK, CopyOK, HasTurn, Carries,
       Chosen, CardHas, Awaits, Left, First
<1>12. CopyOK'
  BY <1>0
     DEF IInv, PlaceOK, FieldsOK, BitsOK, TurnOK, OperatingOK, FilesOK, TargetsOK,
       CarriersOK, LeftOK, MarksOK, CopyOK, Archive!ArchiveBits, HasTurn, Carries,
       Chosen, CardHas, Awaits, Left, First
<1> QED
  BY <1>1, <1>2, <1>3, <1>4, <1>5, <1>6, <1>7, <1>8, <1>9, <1>10, <1>11, <1>12
     DEF IInv, FilesOK, TargetsOK

LEMMA ProcKeeps ==
  ASSUME ArchiveAssumption, IInv, NEW t \in Archive!Process, Archive!Proc(t)
  PROVE  IInv'
<1> USE DEF ArchiveAssumption, Archive!Process, Archive!Proc, Archive!Goto,
  Archive!Begin, Archive!Leave, Archive!IsSync, Archive!Mark
<1>0. ListOK /\ PlaceOK /\ FieldsOK /\ BitsOK /\ CardOK
  BY TypeIsParts DEF IInv
<1>1. /\ aTarget[t] \in File /\ "OPERATING" \in aStat[aTarget[t]]
      /\ Archive!IsSync(aTarget[t]) <=> t \in aInSync
  BY <1>0, HeadIsFile DEF IInv, TargetsOK, CarriersOK, Carries, First
<1>2. Archive!TypeOK'
  <2>1. ListOK'
    BY <1>0 DEF ListOK
  <2>2. PlaceOK'
    BY <1>0 DEF PlaceOK
  <2>3. FieldsOK'
    BY <1>0
       DEF IInv, TargetsOK, CarriersOK, First, FieldsOK, Archive!FileBits,
         Archive!Results
  <2>4. BitsOK'
    BY <1>0 DEF BitsOK, Archive!ArchiveBits
  <2>5. CardOK'
    BY <1>0 DEF CardOK
  <2> QED
    BY <2>1, <2>2, <2>3, <2>4, <2>5, TypeIsPartsNext
<1>3. PlacesOK'
  BY <1>0 DEF IInv, PlacesOK, PlaceOK
<1>4. TurnOK'
  BY <1>0
     DEF IInv, PlaceOK, FieldsOK, BitsOK, PlacesOK, TurnOK, OperatingOK, SyncOK,
       Archive!BusyListed, FilesOK, TargetsOK, CarriersOK, LeftOK, CardsOK, MarksOK,
       CopyOK, HasTurn, Carries, Chosen, CardHas, Awaits, Left, First
<1>5. SuspendOK'
  BY <1>0
     DEF IInv, PlaceOK, BitsOK, PlacesOK, SuspendOK, CopyOK, TurnOK, HasTurn, Carries,
       CardHas
<1>6. Archive!BusyListed'
  BY <1>0 DEF IInv, FieldsOK, Archive!FileBits, FilesOK, Archive!BusyListed
<1>7. OperatingOK'
  BY <1>0
     DEF IInv, PlaceOK, FieldsOK, PlacesOK, TurnOK, OperatingOK, SyncOK, FilesOK,
       TargetsOK, CarriersOK, LeftOK, CardsOK, MarksOK, HasTurn, Carries, Chosen,
       CardHas, Awaits, Left, First
<1>8. SyncOK'
  BY <1>0
     DEF IInv, PlaceOK, FieldsOK, PlacesOK, TurnOK, OperatingOK, SyncOK, FilesOK,
       TargetsOK, CarriersOK, HasTurn, Carries
<1>9. CarriersOK'
  BY <1>0
     DEF IInv, PlaceOK, FieldsOK, BitsOK, PlacesOK, TurnOK, OperatingOK, SyncOK,
       FilesOK, TargetsOK, CarriersOK, MarksOK, HasTurn, Carries, Chosen, First,
       Awaits
<1>10. LeftOK'
  BY <1>0, <1>1 DEF IInv, PlaceOK, FieldsOK, TargetsOK, LeftOK, Left
<1>11. CardsOK'
  BY <1>0
     DEF IInv, PlaceOK, FieldsOK, BitsOK, CardOK, TurnOK, SuspendOK, OperatingOK,
       FilesOK, SyncOK, TargetsOK, CarriersOK, CardsOK, CopyOK, MarksOK, HasTurn,
       Carries, Chosen, CardHas, Awaits, Left, First
<1>12. MarksOK'
  BY <1>0
     DEF IInv, PlaceOK, FieldsOK, PlacesOK, TurnOK, OperatingOK, SyncOK, FilesOK,
       TargetsOK, CarriersOK, LeftOK, CardsOK, MarksOK, CopyOK, HasTurn, Carries,
       Chosen, CardHas, Awaits, Left, First
<1>13. CopyOK'
  BY <1>0
     DEF IInv, PlaceOK, FieldsOK, BitsOK, TurnOK, OperatingOK, FilesOK, TargetsOK,
       CarriersOK, LeftOK, MarksOK, CopyOK, Archive!ArchiveBits, HasTurn, Carries,
       Chosen, CardHas, Awaits, Left, First
<1> QED
  BY <1>2, <1>3, <1>4, <1>5, <1>6, <1>7, <1>8, <1>9, <1>10, <1>11, <1>12, <1>13
     DEF IInv, FilesOK, TargetsOK

LEMMA JudgeKeeps ==
  ASSUME ArchiveAssumption, IInv, NEW t \in Archive!Process, Archive!Judge(t), ~aMisjudged'
  PROVE  IInv'
<1> USE DEF ArchiveAssumption, Archive!Process, Archive!Judge, Archive!Goto,
  Archive!Begin, Archive!Leave, Archive!IsSync, Archive!Mark
<1>0. ListOK /\ PlaceOK /\ FieldsOK /\ BitsOK /\ CardOK
  BY TypeIsParts DEF IInv
<1>1. \/ /\ aRet[t] = "ASYNC" /\ t \in aInSync /\ Archive!IsSync(aTarget[t])
         /\ aAt' = [aAt EXCEPT ![t] = "syncWait"] /\ UNCHANGED <<aTarget, aCopy>>
      \/ /\ aRet[t] = "ASYNC" /\ t \notin aInSync /\ ~Archive!IsSync(aTarget[t]) /\ Left(t)
         /\ aAt' = [aAt EXCEPT ![t] = "out"] /\ aTarget' = [aTarget EXCEPT ![t] = NULL]
         /\ UNCHANGED aCopy
      \/ /\ aRet[t] # "ASYNC" /\ Carries(t)
         /\ aAt' = [aAt EXCEPT ![t] = "clear"] /\ UNCHANGED aTarget
  BY <1>0 DEF IInv, TargetsOK, CarriersOK, LeftOK, Carries, Left
<1>2. Archive!TypeOK'
  <2>1. ListOK'
    BY <1>0 DEF ListOK
  <2>2. PlaceOK'
    BY <1>0 DEF PlaceOK
  <2>3. FieldsOK'
    BY <1>0
       DEF IInv, TargetsOK, CarriersOK, First, FieldsOK, Archive!FileBits,
         Archive!Results
  <2>4. BitsOK'
    BY <1>0 DEF BitsOK, Archive!Judge
  <2>5. CardOK'
    BY <1>0 DEF CardOK
  <2> QED
    BY <2>1, <2>2, <2>3, <2>4, <2>5, TypeIsPartsNext
<1>3. PlacesOK'
  BY <1>0 DEF IInv, PlacesOK, PlaceOK
<1>14. UNCHANGED <<aFlag, aList, aStat, aError, aInSync, aRet, aAsked>>
  OBVIOUS
<1>15. \A p \in Archive!Process :
         /\ HasTurn(p)' <=> HasTurn(p)
         /\ p # t => aAt'[p] = aAt[p] /\ aTarget'[p] = aTarget[p]
  BY <1>0, <1>1, <1>14
     DEF IInv, PlaceOK, FieldsOK, TargetsOK, CarriersOK, HasTurn, Carries, Chosen, Left
<1>4. TurnOK'
  BY <1>14, <1>15 DEF IInv, TurnOK, CardHas
<1>5. SuspendOK'
  BY <1>0
     DEF IInv, PlaceOK, BitsOK, PlacesOK, SuspendOK, CopyOK, TurnOK, HasTurn, Carries,
       CardHas
<1>6. Archive!BusyListed'
  BY <1>0 DEF IInv, FieldsOK, Archive!FileBits, FilesOK, Archive!BusyListed
<1>7. OperatingOK'
  BY <1>0
     DEF IInv, PlaceOK, FieldsOK, PlacesOK, TurnOK, OperatingOK, SyncOK, FilesOK,
       TargetsOK, CarriersOK, LeftOK, CardsOK, MarksOK, HasTurn, Carries, Chosen,
       CardHas, Awaits, Left, First
<1>8. SyncOK'
  BY <1>0
     DEF IInv, PlaceOK, FieldsOK, PlacesOK, TurnOK, OperatingOK, SyncOK, FilesOK,
       TargetsOK, CarriersOK, HasTurn, Carries
<1>9. CarriersOK'
  <2>1. \A p \in Archive!Process : Carries(p)' => Carries(p) /\ aTarget'[p] = aTarget[p]
    BY <1>0, <1>1 DEF PlaceOK, FieldsOK, Carries, Left
  <2>2. \A p \in aInSync : Carries(p)'
    BY <1>0, <1>1 DEF IInv, PlaceOK, BitsOK, TargetsOK, CarriersOK, Carries, Left
  <2>3. \A p \in Archive!Process : aAt'[p] \in {"activate", "operate"}
                                      => aAt[p] = aAt'[p] /\ aTarget'[p] = aTarget[p]
    BY <1>0, <1>1 DEF PlaceOK, FieldsOK
  <2> QED
    BY <1>0, <2>1, <2>2, <2>3 DEF IInv, BitsOK, TargetsOK, CarriersOK, First
<1>10. LeftOK'
  BY <1>0
     DEF IInv, PlaceOK, FieldsOK, BitsOK, PlacesOK, FilesOK, Archive!BusyListed,
       SyncOK, TargetsOK, CarriersOK, LeftOK, MarksOK, Left, Carries
<1>11. CardsOK'
  BY <1>0
     DEF IInv, PlaceOK, FieldsOK, BitsOK, CardOK, TurnOK, SuspendOK, OperatingOK,
       FilesOK, SyncOK, TargetsOK, CarriersOK, CardsOK, CopyOK, MarksOK, HasTurn,
       Carries, Chosen, CardHas, Awaits, Left, First
<1>16. \A p \in Archive!Process : Awaits(p)' <=> Awaits(p)
  BY <1>0, <1>1, <1>14 DEF PlaceOK, Awaits
<1>17. \A p \in Archive!Process : aAt'[p] = "syncWait" => Awaits(p)'
  BY <1>0, <1>1, <1>14, <1>16 DEF IInv, PlaceOK, MarksOK, Awaits
<1>18. \A p \in Archive!Process : HasTurn(p)' /\ ~Awaits(p)' =>
         /\ ~aAsked'
         /\ "IS_SYNC" \in aFlag' <=>
              aAt'[p] \in {"proc", "judge", "clear"} /\ Archive!IsSync(aTarget[p])'
         /\ "IS_ASYNC" \in aFlag' <=>
              aAt'[p] \in {"proc", "judge", "clear"} /\ ~Archive!IsSync(aTarget[p])'
  <2> TAKE p \in Archive!Process
  <2> HAVE HasTurn(p)' /\ ~Awaits(p)'
  <2>1. HasTurn(p) /\ ~Awaits(p)
    BY <1>15, <1>16
  <2>2. /\ aTarget'[p] = aTarget[p]
        /\ aAt'[p] \in {"proc", "judge", "clear"} <=> aAt[p] \in {"proc", "judge", "clear"}
    <3>1. CASE p # t
      BY <1>15, <3>1
    <3>2. CASE p = t
      <4>1. aAt[t] = "judge"
        OBVIOUS
      <4>2. aAt'[t] = "clear" /\ aTarget'[t] = aTarget[t]
        BY <1>0, <1>1, <2>1, <3>2, <4>1 DEF PlaceOK, Awaits, HasTurn, Carries, Chosen, Left
      <4> QED
        BY <3>2, <4>1, <4>2
    <3> QED
      BY <3>1, <3>2
  <2> QED
    BY <1>14, <2>1, <2>2 DEF IInv, MarksOK
<1>19. \A p \in Archive!Process : Awaits(p)' =>
         /\ "IS_ASYNC" \notin aFlag'
         /\ "IS_SYNC" \in aFlag' <=> aAsked'
         /\ ~aAsked' => aError[aTarget[p]]' = "SUCCESS"
  BY <1>0, <1>1, <1>14, <1>15, <1>16 DEF IInv, MarksOK, Awaits, Left, Carries
<1>20. /\ \A p \in Archive!Process : aAt'[p] \in {"clear", "release"} => aRet'[p] = "SUCCESS"
       /\ \A p \in Archive!Process : aAt'[p] = "judge" => aRet'[p] \in {"SUCCESS", "ASYNC"}
  BY <1>0, <1>1, <1>14 DEF IInv, PlaceOK, MarksOK
<1>12. MarksOK'
  BY <1>14, <1>17, <1>18, <1>19, <1>20 DEF IInv, MarksOK, CardHas
<1>13. CopyOK'
  BY <1>0
     DEF IInv, PlaceOK, FieldsOK, BitsOK, TurnOK, OperatingOK, FilesOK, TargetsOK,
       CarriersOK, LeftOK, MarksOK, CopyOK, Archive!ArchiveBits, HasTurn, Carries,
       Chosen, CardHas, Awaits, Left, First
<1> QED
  BY <1>2, <1>3, <1>4, <1>5, <1>6, <1>7, <1>8, <1>9, <1>10, <1>11, <1>12, <1>13
     DEF IInv, FilesOK, TargetsOK

LEMMA ClearKeeps ==
  ASSUME ArchiveAssumption, IInv, NEW t \in Archive!Process, Archive!Clear(t)
  PROVE  IInv'
<1> USE DEF ArchiveAssumption, Archive!Process, Archive!Clear, Archive!Goto,
  Archive!Begin, Archive!Leave, Archive!IsSync, Archive!Mark
<1>0. ListOK /\ PlaceOK /\ FieldsOK /\ BitsOK /\ CardOK
  BY TypeIsParts DEF IInv
<1>1. Archive!TypeOK'
  <2>1. ListOK'
    BY <1>0 DEF ListOK
  <2>2. PlaceOK'
    BY <1>0 DEF PlaceOK
  <2>3. FieldsOK'
    BY <1>0
       DEF IInv, TargetsOK, CarriersOK, First, FieldsOK, Archive!FileBits,
         Archive!Results
  <2>4. BitsOK'
    BY <1>0 DEF BitsOK, Archive!ArchiveBits
  <2>5. CardOK'
    BY <1>0 DEF CardOK
  <2> QED
    BY <2>1, <2>2, <2>3, <2>4, <2>5, TypeIsPartsNext
<1>2. PlacesOK'
  BY <1>0 DEF IInv, PlacesOK, PlaceOK
<1>3. TurnOK'
  BY <1>0
     DEF IInv, PlaceOK, FieldsOK, BitsOK, PlacesOK, TurnOK, OperatingOK, SyncOK,
       Archive!BusyListed, FilesOK, TargetsOK, CarriersOK, LeftOK, CardsOK, MarksOK,
       CopyOK, HasTurn, Carries, Chosen, CardHas, Awaits, Left, First
<1>4. SuspendOK'
  BY <1>0
     DEF IInv, PlaceOK, BitsOK, PlacesOK, SuspendOK, CopyOK, TurnOK, HasTurn, Carries,
       CardHas
<1>5. Archive!BusyListed'
  BY <1>0 DEF IInv, FieldsOK, Archive!FileBits, FilesOK, Archive!BusyListed
<1>6. OperatingOK'
  BY <1>0
     DEF IInv, PlaceOK, FieldsOK, PlacesOK, TurnOK, OperatingOK, SyncOK, FilesOK,
       TargetsOK, CarriersOK, LeftOK, CardsOK, MarksOK, HasTurn, Carries, Chosen,
       CardHas, Awaits, Left, First
<1>7. SyncOK'
  BY <1>0
     DEF IInv, PlaceOK, FieldsOK, PlacesOK, TurnOK, OperatingOK, SyncOK, FilesOK,
       TargetsOK, CarriersOK, HasTurn, Carries
<1>8. CarriersOK'
  BY <1>0
     DEF IInv, PlaceOK, FieldsOK, BitsOK, PlacesOK, TurnOK, OperatingOK, SyncOK,
       FilesOK, TargetsOK, CarriersOK, MarksOK, HasTurn, Carries, Chosen, First,
       Awaits
<1>9. LeftOK'
  BY <1>0
     DEF IInv, PlaceOK, FieldsOK, BitsOK, PlacesOK, FilesOK, Archive!BusyListed,
       SyncOK, TargetsOK, CarriersOK, LeftOK, MarksOK, Left, Carries
<1>10. CardsOK'
  BY <1>0
     DEF IInv, PlaceOK, FieldsOK, BitsOK, CardOK, TurnOK, SuspendOK, OperatingOK,
       FilesOK, SyncOK, TargetsOK, CarriersOK, CardsOK, CopyOK, MarksOK, HasTurn,
       Carries, Chosen, CardHas, Awaits, Left, First
<1>11. MarksOK'
  BY <1>0
     DEF IInv, PlaceOK, FieldsOK, PlacesOK, TurnOK, OperatingOK, SyncOK, FilesOK,
       TargetsOK, CarriersOK, LeftOK, CardsOK, MarksOK, CopyOK, HasTurn, Carries,
       Chosen, CardHas, Awaits, Left, First
<1>12. CopyOK'
  BY <1>0
     DEF IInv, PlaceOK, FieldsOK, BitsOK, TurnOK, OperatingOK, FilesOK, TargetsOK,
       CarriersOK, LeftOK, MarksOK, CopyOK, Archive!ArchiveBits, HasTurn, Carries,
       Chosen, CardHas, Awaits, Left, First
<1> QED
  BY <1>1, <1>2, <1>3, <1>4, <1>5, <1>6, <1>7, <1>8, <1>9, <1>10, <1>11, <1>12
     DEF IInv, FilesOK, TargetsOK

LEMMA SyncWaitKeeps ==
  ASSUME ArchiveAssumption, IInv, NEW t \in Archive!Process, Archive!SyncWait(t)
  PROVE  IInv'
<1> USE DEF ArchiveAssumption, Archive!Process, Archive!SyncWait, Archive!Goto,
  Archive!Begin, Archive!Leave, Archive!IsSync, Archive!Mark
<1>0. ListOK /\ PlaceOK /\ FieldsOK /\ BitsOK /\ CardOK
  BY TypeIsParts DEF IInv
<1>1. aTarget[t] \in File
  BY <1>0, HeadIsFile DEF IInv, TargetsOK, CarriersOK, Carries, First
<1>2. Archive!TypeOK'
  <2>1. ListOK'
    BY <1>0 DEF ListOK
  <2>2. PlaceOK'
    BY <1>0 DEF PlaceOK
  <2>3. FieldsOK'
    BY <1>0, <1>1 DEF FieldsOK, Archive!Results
  <2>4. BitsOK'
    BY <1>0 DEF BitsOK, Archive!ArchiveBits
  <2>5. CardOK'
    BY <1>0 DEF CardOK
  <2> QED
    BY <2>1, <2>2, <2>3, <2>4, <2>5, TypeIsPartsNext
<1>3. PlacesOK'
  BY <1>0 DEF IInv, PlacesOK, PlaceOK
<1>4. TurnOK'
  BY <1>0
     DEF IInv, PlaceOK, FieldsOK, BitsOK, PlacesOK, TurnOK, OperatingOK, SyncOK,
       Archive!BusyListed, FilesOK, TargetsOK, CarriersOK, LeftOK, CardsOK, MarksOK,
       CopyOK, HasTurn, Carries, Chosen, CardHas, Awaits, Left, First
<1>5. SuspendOK'
  BY <1>0
     DEF IInv, PlaceOK, BitsOK, PlacesOK, SuspendOK, CopyOK, TurnOK, HasTurn, Carries,
       CardHas
<1>6. Archive!BusyListed'
  BY <1>0 DEF IInv, FieldsOK, Archive!FileBits, FilesOK, Archive!BusyListed
<1>7. OperatingOK'
  BY <1>0
     DEF IInv, PlaceOK, FieldsOK, PlacesOK, TurnOK, OperatingOK, SyncOK, FilesOK,
       TargetsOK, CarriersOK, LeftOK, CardsOK, MarksOK, HasTurn, Carries, Chosen,
       CardHas, Awaits, Left, First
<1>8. SyncOK'
  BY <1>0
     DEF IInv, PlaceOK, FieldsOK, PlacesOK, TurnOK, OperatingOK, SyncOK, FilesOK,
       TargetsOK, CarriersOK, HasTurn, Carries
<1>9. CarriersOK'
  BY <1>0
     DEF IInv, PlaceOK, FieldsOK, BitsOK, PlacesOK, TurnOK, OperatingOK, SyncOK,
       FilesOK, TargetsOK, CarriersOK, MarksOK, HasTurn, Carries, Chosen, First,
       Awaits
<1>10. LeftOK'
  BY <1>0
     DEF IInv, PlaceOK, FieldsOK, BitsOK, PlacesOK, FilesOK, Archive!BusyListed,
       SyncOK, TargetsOK, CarriersOK, LeftOK, MarksOK, Left, Carries
<1>11. CardsOK'
  BY <1>0
     DEF IInv, PlaceOK, FieldsOK, BitsOK, CardOK, TurnOK, SuspendOK, OperatingOK,
       FilesOK, SyncOK, TargetsOK, CarriersOK, CardsOK, CopyOK, MarksOK, HasTurn,
       Carries, Chosen, CardHas, Awaits, Left, First
<1>12. MarksOK'
  BY <1>0
     DEF IInv, PlaceOK, FieldsOK, PlacesOK, TurnOK, OperatingOK, SyncOK, FilesOK,
       TargetsOK, CarriersOK, LeftOK, CardsOK, MarksOK, CopyOK, HasTurn, Carries,
       Chosen, CardHas, Awaits, Left, First
<1>13. CopyOK'
  BY <1>0
     DEF IInv, PlaceOK, FieldsOK, BitsOK, TurnOK, OperatingOK, FilesOK, TargetsOK,
       CarriersOK, LeftOK, MarksOK, CopyOK, Archive!ArchiveBits, HasTurn, Carries,
       Chosen, CardHas, Awaits, Left, First
<1> QED
  BY <1>2, <1>3, <1>4, <1>5, <1>6, <1>7, <1>8, <1>9, <1>10, <1>11, <1>12, <1>13
     DEF IInv, FilesOK, TargetsOK

LEMMA FS_NotifyArchiveAsyncEndKeeps ==
  ASSUME ArchiveAssumption, IInv, Archive!FS_NotifyArchiveAsyncEnd
  PROVE  IInv'
<1> USE DEF ArchiveAssumption, Archive!Process, Archive!FS_NotifyArchiveAsyncEnd,
  Archive!Goto, Archive!Begin, Archive!Leave, Archive!IsSync, Archive!Mark
<1>0. ListOK /\ PlaceOK /\ FieldsOK /\ BitsOK /\ CardOK
  BY TypeIsParts DEF IInv
<1>1. aAsked /\ "IS_ASYNC" \in aFlag =>
        Head(aList) \in File /\ First(Head(aList)) /\ "OPERATING" \in aStat[Head(aList)]
           /\ ~Archive!IsSync(Head(aList))
  BY <1>0, HeadIsFile DEF IInv, TargetsOK, CardsOK, CardHas, First
<1>2. aAt[Reader] = "out" /\ Reader \notin aInSync
  BY <1>0 DEF BitsOK
<1>3. \A p \in Archive!Process : aAt[p] \notin {"store", "clear"}
  BY DEF IInv, MarksOK, HasTurn, Carries, Awaits
<1>4. Archive!TypeOK'
  <2>1. ListOK'
    BY <1>0 DEF ListOK
  <2>2. PlaceOK'
    BY <1>0 DEF PlaceOK
  <2>3. FieldsOK'
    BY <1>0, <1>1 DEF FieldsOK, Archive!Results
  <2>4. BitsOK'
    BY <1>0 DEF BitsOK
  <2>5. CardOK'
    BY <1>0 DEF CardOK
  <2> QED
    BY <2>1, <2>2, <2>3, <2>4, <2>5, TypeIsPartsNext
<1>5. PlacesOK'
  BY <1>0 DEF IInv, PlacesOK, PlaceOK
<1>6. TurnOK'
  BY <1>0
     DEF IInv, PlaceOK, FieldsOK, BitsOK, PlacesOK, TurnOK, OperatingOK, SyncOK,
       Archive!BusyListed, FilesOK, TargetsOK, CarriersOK, LeftOK, CardsOK, MarksOK,
       CopyOK, HasTurn, Carries, Chosen, CardHas, Awaits, Left, First
<1>7. SuspendOK'
  BY <1>0
     DEF IInv, PlaceOK, BitsOK, PlacesOK, SuspendOK, CopyOK, TurnOK, HasTurn, Carries,
       CardHas
<1>8. Archive!BusyListed'
  BY <1>0 DEF IInv, FieldsOK, Archive!FileBits, FilesOK, Archive!BusyListed
<1>9. OperatingOK'
  BY <1>0
     DEF IInv, PlaceOK, FieldsOK, PlacesOK, TurnOK, OperatingOK, SyncOK, FilesOK,
       TargetsOK, CarriersOK, LeftOK, CardsOK, MarksOK, HasTurn, Carries, Chosen,
       CardHas, Awaits, Left, First
<1>10. SyncOK'
  BY <1>0
     DEF IInv, PlaceOK, FieldsOK, PlacesOK, TurnOK, OperatingOK, SyncOK, FilesOK,
       TargetsOK, CarriersOK, HasTurn, Carries
<1>11. CarriersOK'
  <2>1. \A p \in Archive!Process :
          \/ aAt'[p] = aAt[p] /\ aTarget'[p] = aTarget[p] /\ aRet'[p] = aRet[p]
          \/ /\ p = Reader /\ aAt'[p] = "clear" /\ First(aTarget'[p])
             /\ "OPERATING" \in aStat[aTarget'[p]] /\ ~Archive!IsSync(aTarget'[p])
    BY <1>0, <1>1, <1>2 DEF PlaceOK, FieldsOK
  <2>2. \A p \in aInSync : p # Reader /\ p \in Archive!Process
    BY <1>0 DEF BitsOK
  <2> QED
    BY <1>2, <2>1, <2>2 DEF IInv, TargetsOK, CarriersOK, Carries, First
<1>12. LeftOK'
  BY <1>0
     DEF IInv, PlaceOK, FieldsOK, BitsOK, PlacesOK, FilesOK, Archive!BusyListed,
       SyncOK, TargetsOK, CarriersOK, LeftOK, MarksOK, Left, Carries
<1>13. CardsOK'
  BY <1>0
     DEF IInv, PlaceOK, FieldsOK, BitsOK, CardOK, TurnOK, SuspendOK, OperatingOK,
       FilesOK, SyncOK, TargetsOK, CarriersOK, CardsOK, CopyOK, MarksOK, HasTurn,
       Carries, Chosen, CardHas, Awaits, Left, First
<1>14. MarksOK'
  BY <1>0
     DEF IInv, PlaceOK, FieldsOK, PlacesOK, TurnOK, OperatingOK, SyncOK, FilesOK,
       TargetsOK, CarriersOK, LeftOK, CardsOK, MarksOK, CopyOK, HasTurn, Carries,
       Chosen, CardHas, Awaits, Left, First
<1>15. CopyOK'
  BY <1>0, <1>1, <1>3 DEF IInv, PlaceOK, FieldsOK, BitsOK, CopyOK
<1> QED
  BY <1>4, <1>5, <1>6, <1>7, <1>8, <1>9, <1>10, <1>11, <1>12, <1>13, <1>14, <1>15
     DEF IInv, FilesOK, TargetsOK

LEMMA FSi_SendCommandKeeps ==
  ASSUME ArchiveAssumption, IInv, NEW t \in File, Archive!FSi_SendCommand(t)
  PROVE  IInv'
<1> USE DEF ArchiveAssumption, Archive!Process, Archive!FSi_SendCommand, Archive!Goto,
  Archive!Begin, Archive!Leave, Archive!IsSync, Archive!Mark, Archive!MayBegin
<1>0. ListOK /\ PlaceOK /\ FieldsOK /\ BitsOK /\ CardOK
  BY TypeIsParts DEF IInv
<1>1. t \notin Archive!ToSet(aList)
  BY DEF IInv, FilesOK, Archive!BusyListed
<1>2. /\ ListOK' /\ aList' # <<>> /\ (aList # <<>> => Head(aList') = Head(aList))
            /\ (aList = <<>> => Head(aList') = t)
      /\ \A f : f \in Archive!ToSet(aList') <=> f \in Archive!ToSet(aList) \/ f = t
  BY <1>0, <1>1, AppendFacts DEF ListOK
<1>3. \A f \in File : f # t => aStat'[f] = aStat[f] /\ aError'[f] = aError[f]
  BY <1>0 DEF FieldsOK
<1>4. "BUSY" \in aStat'[t] /\ aError'[t] = "BUSY" /\ "OPERATING" \notin aStat'[t]
  BY <1>0 DEF FieldsOK
<1>5. \A f \in File : "OPERATING" \in aStat[f] => f # t
  BY <1>1 DEF IInv, FilesOK, OperatingOK, Archive!BusyListed
<1>6. \A p \in Archive!Process : Carries(p) =>
        First(aTarget[p]) /\ aTarget[p] \in File /\ "OPERATING" \in aStat[aTarget[p]]
  BY <1>0, HeadIsFile DEF IInv, TargetsOK, CarriersOK, First
<1>7. \A p \in Archive!Process : aAt'[p] # aAt[p] \/ aTarget'[p] # aTarget[p]
         => /\ p = t /\ aAt[p] = "out" /\ aAt'[p] \in {"out", "wait", "activate"}
            /\ aAt'[p] = "activate" => aTarget'[p] = t /\ "RUNNING" \notin aFlag
  BY <1>0 DEF PlaceOK, FieldsOK
<1>8. Archive!TypeOK'
  <2>1. ListOK'
    BY <1>2
  <2>2. PlaceOK'
    BY <1>0 DEF PlaceOK
  <2>3. FieldsOK'
    BY <1>0
       DEF IInv, TargetsOK, CarriersOK, First, FieldsOK, Archive!FileBits,
         Archive!Results
  <2>4. BitsOK'
    BY <1>0 DEF BitsOK, Archive!ArchiveBits
  <2>5. CardOK'
    BY <1>0 DEF CardOK
  <2> QED
    BY <2>1, <2>2, <2>3, <2>4, <2>5, TypeIsPartsNext
<1>9. PlacesOK'
  BY <1>0 DEF IInv, PlacesOK, PlaceOK
<1>10. TurnOK'
  BY <1>0
     DEF IInv, PlaceOK, FieldsOK, BitsOK, PlacesOK, TurnOK, OperatingOK, SyncOK,
       Archive!BusyListed, FilesOK, TargetsOK, CarriersOK, LeftOK, CardsOK, MarksOK,
       CopyOK, HasTurn, Carries, Chosen, CardHas, Awaits, Left, First
<1>11. SuspendOK'
  BY <1>0
     DEF IInv, PlaceOK, BitsOK, PlacesOK, SuspendOK, CopyOK, TurnOK, HasTurn, Carries,
       CardHas
<1>12. Archive!BusyListed'
  BY <1>0, <1>2, <1>3, <1>4 DEF IInv, FilesOK, Archive!BusyListed
<1>13. OperatingOK'
  BY <1>0
     DEF IInv, PlaceOK, FieldsOK, PlacesOK, TurnOK, OperatingOK, SyncOK, FilesOK,
       TargetsOK, CarriersOK, LeftOK, CardsOK, MarksOK, HasTurn, Carries, Chosen,
       CardHas, Awaits, Left, First
<1>14. SyncOK'
  BY <1>0
     DEF IInv, PlaceOK, FieldsOK, PlacesOK, TurnOK, OperatingOK, SyncOK, FilesOK,
       TargetsOK, CarriersOK, HasTurn, Carries
<1>15. CarriersOK'
  <2>1. \A p \in Archive!Process : Carries(p)' => Carries(p) /\ aTarget'[p] = aTarget[p]
    BY <1>0, <1>7 DEF PlaceOK, FieldsOK, Carries
  <2>2. \A p \in aInSync : Carries(p)'
    BY <1>0, <1>7 DEF IInv, PlaceOK, BitsOK, TargetsOK, CarriersOK, Carries
  <2>3. \A p \in Archive!Process : Carries(p)
           => aList' # <<>> /\ Head(aList') = aTarget[p] /\ aStat'[aTarget[p]] = aStat[aTarget[p]]
    BY <1>2, <1>3, <1>5, <1>6 DEF First
  <2>4. ASSUME NEW p \in Archive!Process, aAt'[p] \in {"activate", "operate"}
        PROVE  First(aTarget[p])'
    <3>1. CASE aAt'[p] = aAt[p] /\ aTarget'[p] = aTarget[p]
      BY <1>2, <2>4, <3>1 DEF IInv, TargetsOK, CarriersOK, First
    <3>2. CASE aAt'[p] # aAt[p] \/ aTarget'[p] # aTarget[p]
      <4>1. p = t /\ aTarget'[p] = t /\ aList = <<>>
        BY <1>0, <1>7, <2>4, <3>2 DEF IInv, SuspendOK, PlaceOK
      <4> QED
        BY <1>2, <4>1 DEF First
    <3> QED
      BY <3>1, <3>2
  <2>5. aInSync' = aInSync
    OBVIOUS
  <2> HIDE DEF Archive!FSi_SendCommand
  <2> QED
    BY <1>0, <2>1, <2>2, <2>3, <2>4, <2>5 DEF IInv, BitsOK, TargetsOK, CarriersOK, First
<1>16. LeftOK'
  BY <1>0, <1>3
     DEF IInv, PlaceOK, FieldsOK, BitsOK, PlacesOK, FilesOK, Archive!BusyListed,
       SyncOK, TargetsOK, CarriersOK, LeftOK, MarksOK, Left, Carries
<1>17. CardsOK'
  BY <1>0, <1>2, <1>3, <1>5
     DEF IInv, PlaceOK, FieldsOK, BitsOK, CardOK, TurnOK, SuspendOK, OperatingOK,
       FilesOK, SyncOK, TargetsOK, CarriersOK, CardsOK, CopyOK, MarksOK, HasTurn,
       Carries, Chosen, CardHas, Awaits, Left, First
<1>18. MarksOK'
  BY <1>0, <1>2, <1>3, <1>5
     DEF IInv, PlaceOK, FieldsOK, PlacesOK, TurnOK, OperatingOK, SyncOK, FilesOK,
       TargetsOK, CarriersOK, LeftOK, CardsOK, MarksOK, CopyOK, HasTurn, Carries,
       Chosen, CardHas, Awaits, Left, First
<1>19. CopyOK'
  <2>1. \A p \in Archive!Process : aAt'[p] \in {"store", "clear"} =>
         aAt'[p] = aAt[p] /\ aTarget'[p] = aTarget[p]
            /\ aStat'[aTarget[p]] = aStat[aTarget[p]] /\ aFlag' = aFlag
    BY <1>0, <1>3, <1>5, <1>6, <1>7 DEF IInv, TurnOK, HasTurn, Carries, PlaceOK
  <2>2. aCopy' = aCopy
    OBVIOUS
  <2> HIDE DEF Archive!FSi_SendCommand
  <2> QED
    BY <2>1, <2>2 DEF IInv, CopyOK
<1> QED
  BY <1>8, <1>9, <1>10, <1>11, <1>12, <1>13, <1>14, <1>15, <1>16, <1>17, <1>18, <1>19
     DEF IInv, FilesOK, TargetsOK

LEMMA WaitKeeps ==
  ASSUME ArchiveAssumption, IInv, NEW t \in File, Archive!Wait(t)
  PROVE  IInv'
<1> USE DEF ArchiveAssumption, Archive!Process, Archive!Wait, Archive!Goto,
  Archive!Begin, Archive!Leave, Archive!IsSync, Archive!Mark
<1>0. ListOK /\ PlaceOK /\ FieldsOK /\ BitsOK /\ CardOK
  BY TypeIsParts DEF IInv
<1>1. "OPERATING" \in aStat[t] => First(t) /\ Archive!IsSync(t)
  BY FirstIsBusy DEF IInv, FilesOK, OperatingOK, SyncOK
<1>2. Archive!TypeOK'
  <2>1. ListOK'
    BY <1>0 DEF ListOK
  <2>2. PlaceOK'
    BY <1>0 DEF PlaceOK
  <2>3. FieldsOK'
    BY <1>0
       DEF IInv, TargetsOK, CarriersOK, First, FieldsOK, Archive!FileBits,
         Archive!Results
  <2>4. BitsOK'
    BY <1>0 DEF BitsOK, Archive!ArchiveBits
  <2>5. CardOK'
    BY <1>0 DEF CardOK
  <2> QED
    BY <2>1, <2>2, <2>3, <2>4, <2>5, TypeIsPartsNext
<1>3. PlacesOK'
  BY <1>0 DEF IInv, PlacesOK, PlaceOK
<1>4. TurnOK'
  BY <1>0
     DEF IInv, PlaceOK, FieldsOK, BitsOK, PlacesOK, TurnOK, OperatingOK, SyncOK,
       Archive!BusyListed, FilesOK, TargetsOK, CarriersOK, LeftOK, CardsOK, MarksOK,
       CopyOK, HasTurn, Carries, Chosen, CardHas, Awaits, Left, First
<1>5. SuspendOK'
  BY <1>0
     DEF IInv, PlaceOK, BitsOK, PlacesOK, SuspendOK, CopyOK, TurnOK, HasTurn, Carries,
       CardHas
<1>6. Archive!BusyListed'
  BY <1>0 DEF IInv, FieldsOK, Archive!FileBits, FilesOK, Archive!BusyListed
<1>7. OperatingOK'
  BY <1>0
     DEF IInv, PlaceOK, FieldsOK, PlacesOK, TurnOK, OperatingOK, SyncOK, FilesOK,
       TargetsOK, CarriersOK, LeftOK, CardsOK, MarksOK, HasTurn, Carries, Chosen,
       CardHas, Awaits, Left, First
<1>8. SyncOK'
  BY <1>0
     DEF IInv, PlaceOK, FieldsOK, PlacesOK, TurnOK, OperatingOK, SyncOK, FilesOK,
       TargetsOK, CarriersOK, HasTurn, Carries
<1>9. CarriersOK'
  BY <1>0, <1>1
     DEF IInv, PlaceOK, FieldsOK, BitsOK, TurnOK, TargetsOK, CarriersOK, Carries,
       HasTurn, Chosen, First
<1>10. LeftOK'
  BY <1>0
     DEF IInv, PlaceOK, FieldsOK, BitsOK, PlacesOK, FilesOK, Archive!BusyListed,
       SyncOK, TargetsOK, CarriersOK, LeftOK, MarksOK, Left, Carries
<1>11. CardsOK'
  BY <1>0
     DEF IInv, PlaceOK, FieldsOK, BitsOK, CardOK, TurnOK, SuspendOK, OperatingOK,
       FilesOK, SyncOK, TargetsOK, CarriersOK, CardsOK, CopyOK, MarksOK, HasTurn,
       Carries, Chosen, CardHas, Awaits, Left, First
<1>12. MarksOK'
  BY <1>0
     DEF IInv, PlaceOK, FieldsOK, PlacesOK, TurnOK, OperatingOK, SyncOK, FilesOK,
       TargetsOK, CarriersOK, LeftOK, CardsOK, MarksOK, CopyOK, HasTurn, Carries,
       Chosen, CardHas, Awaits, Left, First
<1>13. CopyOK'
  BY <1>0
     DEF IInv, PlaceOK, FieldsOK, BitsOK, TurnOK, OperatingOK, FilesOK, TargetsOK,
       CarriersOK, LeftOK, MarksOK, CopyOK, Archive!ArchiveBits, HasTurn, Carries,
       Chosen, CardHas, Awaits, Left, First
<1> QED
  BY <1>2, <1>3, <1>4, <1>5, <1>6, <1>7, <1>8, <1>9, <1>10, <1>11, <1>12, <1>13
     DEF IInv, FilesOK, TargetsOK

LEMMA FS_WaitAsyncKeeps ==
  ASSUME ArchiveAssumption, IInv, NEW t \in File, Archive!FS_WaitAsync(t)
  PROVE  IInv'
<1> USE DEF ArchiveAssumption, Archive!Process, Archive!FS_WaitAsync, Archive!Goto,
  Archive!Begin, Archive!Leave, Archive!IsSync, Archive!Mark
<1>0. ListOK /\ PlaceOK /\ FieldsOK /\ BitsOK /\ CardOK
  BY TypeIsParts DEF IInv
<1>1. \A f \in File : "OPERATING" \in aStat[f] => aStat'[f] = aStat[f]
  BY <1>0 DEF FieldsOK
<1>2. \A p \in Archive!Process : Carries(p) =>
        First(aTarget[p]) /\ aTarget[p] \in File /\ "OPERATING" \in aStat[aTarget[p]]
  BY <1>0, HeadIsFile DEF IInv, TargetsOK, CarriersOK, First
<1>3. CardHas => First(Head(aList)) /\ Head(aList) \in File /\ "OPERATING" \in aStat[Head(aList)]
  BY <1>0, HeadIsFile DEF IInv, TargetsOK, CardsOK, First
<1>4. \A p \in Archive!Process : aAt'[p] # aAt[p]
         => p = t /\ aAt[p] = "out" /\ aAt'[p] \in {"wait", "waitBusy"}
  BY <1>0 DEF PlaceOK
<1>5. Archive!TypeOK'
  <2>1. ListOK'
    BY <1>0 DEF ListOK
  <2>2. PlaceOK'
    BY <1>0 DEF PlaceOK
  <2>3. FieldsOK'
    BY <1>0
       DEF IInv, TargetsOK, CarriersOK, First, FieldsOK, Archive!FileBits,
         Archive!Results
  <2>4. BitsOK'
    BY <1>0 DEF BitsOK, Archive!ArchiveBits
  <2>5. CardOK'
    BY <1>0 DEF CardOK
  <2> QED
    BY <2>1, <2>2, <2>3, <2>4, <2>5, TypeIsPartsNext
<1>6. PlacesOK'
  BY <1>0 DEF IInv, PlacesOK, PlaceOK
<1>7. TurnOK'
  BY <1>0
     DEF IInv, PlaceOK, FieldsOK, BitsOK, PlacesOK, TurnOK, OperatingOK, SyncOK,
       Archive!BusyListed, FilesOK, TargetsOK, CarriersOK, LeftOK, CardsOK, MarksOK,
       CopyOK, HasTurn, Carries, Chosen, CardHas, Awaits, Left, First
<1>8. SuspendOK'
  BY <1>0
     DEF IInv, PlaceOK, BitsOK, PlacesOK, SuspendOK, CopyOK, TurnOK, HasTurn, Carries,
       CardHas
<1>9. Archive!BusyListed'
  BY <1>0 DEF IInv, FieldsOK, Archive!FileBits, FilesOK, Archive!BusyListed
<1>10. OperatingOK'
  BY <1>0
     DEF IInv, PlaceOK, FieldsOK, PlacesOK, TurnOK, OperatingOK, SyncOK, FilesOK,
       TargetsOK, CarriersOK, LeftOK, CardsOK, MarksOK, HasTurn, Carries, Chosen,
       CardHas, Awaits, Left, First
<1>11. SyncOK'
  BY <1>0
     DEF IInv, PlaceOK, FieldsOK, PlacesOK, TurnOK, OperatingOK, SyncOK, FilesOK,
       TargetsOK, CarriersOK, HasTurn, Carries
<1>12. CarriersOK'
  BY <1>0, <1>1, <1>2, <1>3, <1>4 DEF IInv, BitsOK, TargetsOK, CarriersOK, Carries, First
<1>13. LeftOK'
  BY <1>0
     DEF IInv, PlaceOK, FieldsOK, BitsOK, PlacesOK, FilesOK, Archive!BusyListed,
       SyncOK, TargetsOK, CarriersOK, LeftOK, MarksOK, Left, Carries
<1>14. CardsOK'
  BY <1>0, <1>1, <1>2, <1>3, <1>4 DEF IInv, BitsOK, TargetsOK, CardsOK, CardHas
<1>15. MarksOK'
  <2>1. \A p \in Archive!Process : HasTurn(p)' => HasTurn(p) /\ aAt'[p] = aAt[p]
    BY <1>0, <1>1, <1>4 DEF PlaceOK, PlacesOK, IInv, FieldsOK, HasTurn, Carries, Chosen
  <2>2. \A p \in Archive!Process : Awaits(p)' <=> Awaits(p)
    BY <1>0, <1>4 DEF Awaits
  <2>3. \A p \in Archive!Process : Carries(p)
           => Archive!IsSync(aTarget[p])' = Archive!IsSync(aTarget[p])
    BY <1>1, <1>2
  <2>4. UNCHANGED <<aFlag, aAsked, aError, aTarget, aInSync, aRet>>
    OBVIOUS
  <2>5. \A p \in Archive!Process : aAt'[p] \notin {"wait", "waitBusy"} => aAt'[p] = aAt[p]
    BY <1>4
  <2> HIDE DEF Archive!FS_WaitAsync, Archive!IsSync
  <2>6. ASSUME NEW p \in Archive!Process, HasTurn(p)', ~Awaits(p)'
        PROVE  /\ ~aAsked
               /\ "IS_SYNC" \in aFlag <=>
                    aAt'[p] \in {"proc", "judge", "clear"} /\ Archive!IsSync(aTarget[p])'
               /\ "IS_ASYNC" \in aFlag <=>
                    aAt'[p] \in {"proc", "judge", "clear"} /\ ~Archive!IsSync(aTarget[p])'
    <3>1. HasTurn(p) /\ ~Awaits(p) /\ aAt'[p] = aAt[p]
      BY <2>1, <2>2, <2>6
    <3>2. aAt[p] \in {"proc", "judge", "clear"} => Carries(p)
      BY <3>1 DEF HasTurn, Carries, Chosen
    <3> QED
      BY <2>3, <3>1, <3>2 DEF IInv, MarksOK
  <2> QED
    BY <2>2, <2>4, <2>5, <2>6 DEF IInv, MarksOK, CardHas
<1>16. CopyOK'
  BY <1>0, <1>1, <1>2, <1>3, <1>4 DEF IInv, BitsOK, TargetsOK, CopyOK, Carries
<1> QED
  BY <1>5, <1>6, <1>7, <1>8, <1>9, <1>10, <1>11, <1>12, <1>13, <1>14, <1>15, <1>16
     DEF IInv, FilesOK, TargetsOK

LEMMA WaitBusyKeeps ==
  ASSUME ArchiveAssumption, IInv, NEW t \in File, Archive!WaitBusy(t)
  PROVE  IInv'
<1> USE DEF ArchiveAssumption, Archive!Process, Archive!WaitBusy, Archive!Goto,
  Archive!Begin, Archive!Leave, Archive!IsSync, Archive!Mark
<1>0. ListOK /\ PlaceOK /\ FieldsOK /\ BitsOK /\ CardOK
  BY TypeIsParts DEF IInv
<1>1. Archive!TypeOK'
  <2>1. ListOK'
    BY <1>0 DEF ListOK
  <2>2. PlaceOK'
    BY <1>0 DEF PlaceOK
  <2>3. FieldsOK'
    BY <1>0
       DEF IInv, TargetsOK, CarriersOK, First, FieldsOK, Archive!FileBits,
         Archive!Results
  <2>4. BitsOK'
    BY <1>0 DEF BitsOK, Archive!ArchiveBits
  <2>5. CardOK'
    BY <1>0 DEF CardOK
  <2> QED
    BY <2>1, <2>2, <2>3, <2>4, <2>5, TypeIsPartsNext
<1>2. PlacesOK'
  BY <1>0 DEF IInv, PlacesOK, PlaceOK
<1>3. TurnOK'
  BY <1>0
     DEF IInv, PlaceOK, FieldsOK, BitsOK, PlacesOK, TurnOK, OperatingOK, SyncOK,
       Archive!BusyListed, FilesOK, TargetsOK, CarriersOK, LeftOK, CardsOK, MarksOK,
       CopyOK, HasTurn, Carries, Chosen, CardHas, Awaits, Left, First
<1>4. SuspendOK'
  BY <1>0
     DEF IInv, PlaceOK, BitsOK, PlacesOK, SuspendOK, CopyOK, TurnOK, HasTurn, Carries,
       CardHas
<1>5. Archive!BusyListed'
  BY <1>0 DEF IInv, FieldsOK, Archive!FileBits, FilesOK, Archive!BusyListed
<1>6. OperatingOK'
  BY <1>0
     DEF IInv, PlaceOK, FieldsOK, PlacesOK, TurnOK, OperatingOK, SyncOK, FilesOK,
       TargetsOK, CarriersOK, LeftOK, CardsOK, MarksOK, HasTurn, Carries, Chosen,
       CardHas, Awaits, Left, First
<1>7. SyncOK'
  BY <1>0
     DEF IInv, PlaceOK, FieldsOK, PlacesOK, TurnOK, OperatingOK, SyncOK, FilesOK,
       TargetsOK, CarriersOK, HasTurn, Carries
<1>8. CarriersOK'
  BY <1>0
     DEF IInv, PlaceOK, FieldsOK, BitsOK, PlacesOK, TurnOK, OperatingOK, SyncOK,
       FilesOK, TargetsOK, CarriersOK, MarksOK, HasTurn, Carries, Chosen, First,
       Awaits
<1>9. LeftOK'
  BY <1>0
     DEF IInv, PlaceOK, FieldsOK, BitsOK, PlacesOK, FilesOK, Archive!BusyListed,
       SyncOK, TargetsOK, CarriersOK, LeftOK, MarksOK, Left, Carries
<1>10. CardsOK'
  BY <1>0
     DEF IInv, PlaceOK, FieldsOK, BitsOK, CardOK, TurnOK, SuspendOK, OperatingOK,
       FilesOK, SyncOK, TargetsOK, CarriersOK, CardsOK, CopyOK, MarksOK, HasTurn,
       Carries, Chosen, CardHas, Awaits, Left, First
<1>11. MarksOK'
  BY <1>0
     DEF IInv, PlaceOK, FieldsOK, PlacesOK, TurnOK, OperatingOK, SyncOK, FilesOK,
       TargetsOK, CarriersOK, LeftOK, CardsOK, MarksOK, CopyOK, HasTurn, Carries,
       Chosen, CardHas, Awaits, Left, First
<1>12. CopyOK'
  BY <1>0
     DEF IInv, PlaceOK, FieldsOK, BitsOK, TurnOK, OperatingOK, FilesOK, TargetsOK,
       CarriersOK, LeftOK, MarksOK, CopyOK, Archive!ArchiveBits, HasTurn, Carries,
       Chosen, CardHas, Awaits, Left, First
<1> QED
  BY <1>1, <1>2, <1>3, <1>4, <1>5, <1>6, <1>7, <1>8, <1>9, <1>10, <1>11, <1>12
     DEF IInv, FilesOK, TargetsOK

LEMMA FS_CancelFileKeeps ==
  ASSUME ArchiveAssumption, IInv, NEW t \in File, Archive!FS_CancelFile(t)
  PROVE  IInv'
<1> USE DEF ArchiveAssumption, Archive!Process, Archive!FS_CancelFile, Archive!Goto,
  Archive!Begin, Archive!Leave, Archive!IsSync, Archive!Mark
<1>0. ListOK /\ PlaceOK /\ FieldsOK /\ BitsOK /\ CardOK
  BY TypeIsParts DEF IInv
<1>1. Archive!TypeOK'
  <2>1. ListOK'
    BY <1>0 DEF ListOK
  <2>2. PlaceOK'
    BY <1>0 DEF PlaceOK
  <2>3. FieldsOK'
    BY <1>0
       DEF IInv, TargetsOK, CarriersOK, First, FieldsOK, Archive!FileBits,
         Archive!Results
  <2>4. BitsOK'
    BY <1>0 DEF BitsOK, Archive!ArchiveBits
  <2>5. CardOK'
    BY <1>0 DEF CardOK
  <2> QED
    BY <2>1, <2>2, <2>3, <2>4, <2>5, TypeIsPartsNext
<1>2. PlacesOK'
  BY <1>0 DEF IInv, PlacesOK, PlaceOK
<1>3. TurnOK'
  BY <1>0
     DEF IInv, PlaceOK, FieldsOK, BitsOK, PlacesOK, TurnOK, OperatingOK, SyncOK,
       Archive!BusyListed, FilesOK, TargetsOK, CarriersOK, LeftOK, CardsOK, MarksOK,
       CopyOK, HasTurn, Carries, Chosen, CardHas, Awaits, Left, First
<1>4. SuspendOK'
  BY <1>0
     DEF IInv, PlaceOK, BitsOK, PlacesOK, SuspendOK, CopyOK, TurnOK, HasTurn, Carries,
       CardHas
<1>5. Archive!BusyListed'
  BY <1>0 DEF IInv, FieldsOK, Archive!FileBits, FilesOK, Archive!BusyListed
<1>6. OperatingOK'
  BY <1>0
     DEF IInv, PlaceOK, FieldsOK, PlacesOK, TurnOK, OperatingOK, SyncOK, FilesOK,
       TargetsOK, CarriersOK, LeftOK, CardsOK, MarksOK, HasTurn, Carries, Chosen,
       CardHas, Awaits, Left, First
<1>7. SyncOK'
  BY <1>0
     DEF IInv, PlaceOK, FieldsOK, PlacesOK, TurnOK, OperatingOK, SyncOK, FilesOK,
       TargetsOK, CarriersOK, HasTurn, Carries
<1>8. CarriersOK'
  BY <1>0
     DEF IInv, PlaceOK, FieldsOK, BitsOK, PlacesOK, TurnOK, OperatingOK, SyncOK,
       FilesOK, TargetsOK, CarriersOK, MarksOK, HasTurn, Carries, Chosen, First,
       Awaits
<1>9. LeftOK'
  BY <1>0
     DEF IInv, PlaceOK, FieldsOK, BitsOK, PlacesOK, FilesOK, Archive!BusyListed,
       SyncOK, TargetsOK, CarriersOK, LeftOK, MarksOK, Left, Carries
<1>10. CardsOK'
  BY <1>0
     DEF IInv, PlaceOK, FieldsOK, BitsOK, CardOK, TurnOK, SuspendOK, OperatingOK,
       FilesOK, SyncOK, TargetsOK, CarriersOK, CardsOK, CopyOK, MarksOK, HasTurn,
       Carries, Chosen, CardHas, Awaits, Left, First
<1>11. MarksOK'
  BY <1>0
     DEF IInv, PlaceOK, FieldsOK, PlacesOK, TurnOK, OperatingOK, SyncOK, FilesOK,
       TargetsOK, CarriersOK, LeftOK, CardsOK, MarksOK, CopyOK, HasTurn, Carries,
       Chosen, CardHas, Awaits, Left, First
<1>12. CopyOK'
  BY <1>0
     DEF IInv, PlaceOK, FieldsOK, BitsOK, TurnOK, OperatingOK, FilesOK, TargetsOK,
       CarriersOK, LeftOK, MarksOK, CopyOK, Archive!ArchiveBits, HasTurn, Carries,
       Chosen, CardHas, Awaits, Left, First
<1> QED
  BY <1>1, <1>2, <1>3, <1>4, <1>5, <1>6, <1>7, <1>8, <1>9, <1>10, <1>11, <1>12
     DEF IInv, FilesOK, TargetsOK

LEMMA FS_SuspendArchiveKeeps ==
  ASSUME ArchiveAssumption, IInv, Archive!FS_SuspendArchive
  PROVE  IInv'
<1> USE DEF ArchiveAssumption, Archive!Process, Archive!FS_SuspendArchive,
  Archive!Goto, Archive!Begin, Archive!Leave, Archive!IsSync, Archive!Mark
<1>0. ListOK /\ PlaceOK /\ FieldsOK /\ BitsOK /\ CardOK
  BY TypeIsParts DEF IInv
<1>1. \A p \in Archive!Process : aAt[p] \in {"store", "clear"} => "RUNNING" \in aFlag
  BY DEF IInv, TurnOK, HasTurn, Carries
<1>2. Archive!TypeOK'
  <2>1. ListOK'
    BY <1>0 DEF ListOK
  <2>2. PlaceOK'
    BY <1>0 DEF PlaceOK
  <2>3. FieldsOK'
    BY <1>0
       DEF IInv, TargetsOK, CarriersOK, First, FieldsOK, Archive!FileBits,
         Archive!Results
  <2>4. BitsOK'
    BY <1>0 DEF BitsOK, Archive!ArchiveBits
  <2>5. CardOK'
    BY <1>0 DEF CardOK
  <2> QED
    BY <2>1, <2>2, <2>3, <2>4, <2>5, TypeIsPartsNext
<1>3. PlacesOK'
  BY <1>0 DEF IInv, PlacesOK, PlaceOK
<1>4. TurnOK'
  BY <1>0
     DEF IInv, PlaceOK, FieldsOK, BitsOK, PlacesOK, TurnOK, OperatingOK, SyncOK,
       Archive!BusyListed, FilesOK, TargetsOK, CarriersOK, LeftOK, CardsOK, MarksOK,
       CopyOK, HasTurn, Carries, Chosen, CardHas, Awaits, Left, First
<1>5. SuspendOK'
  BY <1>0
     DEF IInv, PlaceOK, BitsOK, PlacesOK, SuspendOK, CopyOK, TurnOK, HasTurn, Carries,
       CardHas
<1>6. Archive!BusyListed'
  BY <1>0 DEF IInv, FieldsOK, Archive!FileBits, FilesOK, Archive!BusyListed
<1>7. OperatingOK'
  BY <1>0
     DEF IInv, PlaceOK, FieldsOK, PlacesOK, TurnOK, OperatingOK, SyncOK, FilesOK,
       TargetsOK, CarriersOK, LeftOK, CardsOK, MarksOK, HasTurn, Carries, Chosen,
       CardHas, Awaits, Left, First
<1>8. SyncOK'
  BY <1>0
     DEF IInv, PlaceOK, FieldsOK, PlacesOK, TurnOK, OperatingOK, SyncOK, FilesOK,
       TargetsOK, CarriersOK, HasTurn, Carries
<1>9. CarriersOK'
  BY <1>0
     DEF IInv, PlaceOK, FieldsOK, BitsOK, PlacesOK, TurnOK, OperatingOK, SyncOK,
       FilesOK, TargetsOK, CarriersOK, MarksOK, HasTurn, Carries, Chosen, First,
       Awaits
<1>10. LeftOK'
  BY <1>0
     DEF IInv, PlaceOK, FieldsOK, BitsOK, PlacesOK, FilesOK, Archive!BusyListed,
       SyncOK, TargetsOK, CarriersOK, LeftOK, MarksOK, Left, Carries
<1>11. CardsOK'
  BY <1>0
     DEF IInv, PlaceOK, FieldsOK, BitsOK, CardOK, TurnOK, SuspendOK, OperatingOK,
       FilesOK, SyncOK, TargetsOK, CarriersOK, CardsOK, CopyOK, MarksOK, HasTurn,
       Carries, Chosen, CardHas, Awaits, Left, First
<1>12. MarksOK'
  BY <1>0
     DEF IInv, PlaceOK, FieldsOK, PlacesOK, TurnOK, OperatingOK, SyncOK, FilesOK,
       TargetsOK, CarriersOK, LeftOK, CardsOK, MarksOK, CopyOK, HasTurn, Carries,
       Chosen, CardHas, Awaits, Left, First
<1>13. CopyOK'
  BY <1>0, <1>1 DEF IInv, PlaceOK, FieldsOK, BitsOK, CopyOK
<1> QED
  BY <1>2, <1>3, <1>4, <1>5, <1>6, <1>7, <1>8, <1>9, <1>10, <1>11, <1>12, <1>13
     DEF IInv, FilesOK, TargetsOK

LEMMA SuspendedKeeps ==
  ASSUME ArchiveAssumption, IInv, Archive!Suspended
  PROVE  IInv'
<1> USE DEF ArchiveAssumption, Archive!Process, Archive!Suspended, Archive!Goto,
  Archive!Begin, Archive!Leave, Archive!IsSync, Archive!Mark
<1>0. ListOK /\ PlaceOK /\ FieldsOK /\ BitsOK /\ CardOK
  BY TypeIsParts DEF IInv
<1>1. Archive!TypeOK'
  <2>1. ListOK'
    BY <1>0 DEF ListOK
  <2>2. PlaceOK'
    BY <1>0 DEF PlaceOK
  <2>3. FieldsOK'
    BY <1>0
       DEF IInv, TargetsOK, CarriersOK, First, FieldsOK, Archive!FileBits,
         Archive!Results
  <2>4. BitsOK'
    BY <1>0 DEF BitsOK, Archive!ArchiveBits
  <2>5. CardOK'
    BY <1>0 DEF CardOK
  <2> QED
    BY <2>1, <2>2, <2>3, <2>4, <2>5, TypeIsPartsNext
<1>2. PlacesOK'
  BY <1>0 DEF IInv, PlacesOK, PlaceOK
<1>3. TurnOK'
  BY <1>0
     DEF IInv, PlaceOK, FieldsOK, BitsOK, PlacesOK, TurnOK, OperatingOK, SyncOK,
       Archive!BusyListed, FilesOK, TargetsOK, CarriersOK, LeftOK, CardsOK, MarksOK,
       CopyOK, HasTurn, Carries, Chosen, CardHas, Awaits, Left, First
<1>4. SuspendOK'
  BY <1>0
     DEF IInv, PlaceOK, BitsOK, PlacesOK, SuspendOK, CopyOK, TurnOK, HasTurn, Carries,
       CardHas
<1>5. Archive!BusyListed'
  BY <1>0 DEF IInv, FieldsOK, Archive!FileBits, FilesOK, Archive!BusyListed
<1>6. OperatingOK'
  BY <1>0
     DEF IInv, PlaceOK, FieldsOK, PlacesOK, TurnOK, OperatingOK, SyncOK, FilesOK,
       TargetsOK, CarriersOK, LeftOK, CardsOK, MarksOK, HasTurn, Carries, Chosen,
       CardHas, Awaits, Left, First
<1>7. SyncOK'
  BY <1>0
     DEF IInv, PlaceOK, FieldsOK, PlacesOK, TurnOK, OperatingOK, SyncOK, FilesOK,
       TargetsOK, CarriersOK, HasTurn, Carries
<1>8. CarriersOK'
  BY <1>0
     DEF IInv, PlaceOK, FieldsOK, BitsOK, PlacesOK, TurnOK, OperatingOK, SyncOK,
       FilesOK, TargetsOK, CarriersOK, MarksOK, HasTurn, Carries, Chosen, First,
       Awaits
<1>9. LeftOK'
  BY <1>0
     DEF IInv, PlaceOK, FieldsOK, BitsOK, PlacesOK, FilesOK, Archive!BusyListed,
       SyncOK, TargetsOK, CarriersOK, LeftOK, MarksOK, Left, Carries
<1>10. CardsOK'
  BY <1>0
     DEF IInv, PlaceOK, FieldsOK, BitsOK, CardOK, TurnOK, SuspendOK, OperatingOK,
       FilesOK, SyncOK, TargetsOK, CarriersOK, CardsOK, CopyOK, MarksOK, HasTurn,
       Carries, Chosen, CardHas, Awaits, Left, First
<1>11. MarksOK'
  BY <1>0
     DEF IInv, PlaceOK, FieldsOK, PlacesOK, TurnOK, OperatingOK, SyncOK, FilesOK,
       TargetsOK, CarriersOK, LeftOK, CardsOK, MarksOK, CopyOK, HasTurn, Carries,
       Chosen, CardHas, Awaits, Left, First
<1>12. CopyOK'
  BY <1>0
     DEF IInv, PlaceOK, FieldsOK, BitsOK, TurnOK, OperatingOK, FilesOK, TargetsOK,
       CarriersOK, LeftOK, MarksOK, CopyOK, Archive!ArchiveBits, HasTurn, Carries,
       Chosen, CardHas, Awaits, Left, First
<1> QED
  BY <1>1, <1>2, <1>3, <1>4, <1>5, <1>6, <1>7, <1>8, <1>9, <1>10, <1>11, <1>12
     DEF IInv, FilesOK, TargetsOK

LEMMA FSi_ReleaseCommandKeeps ==
  ASSUME ArchiveAssumption, IInv, NEW t \in Archive!Process, Archive!FSi_ReleaseCommand(t)
  PROVE  IInv'
<1> DEFINE f == aTarget[t]
<1> USE DEF ArchiveAssumption, Archive!Process
<1>0. ListOK /\ PlaceOK /\ FieldsOK /\ BitsOK /\ CardOK
  BY TypeIsParts DEF IInv
<1>1. /\ aAt[t] = "release" /\ aAt' = [aAt EXCEPT ![t] = "next"]
      /\ aList' = Archive!Without({f})
      /\ aStat' = [g \in File |-> IF g \in {f} THEN {} ELSE aStat[g]]
      /\ aError' = [aError EXCEPT ![f] = IF aRet[t] = "ASYNC" THEN "BUSY" ELSE aRet[t]]
      /\ aAsleep' = aAsleep \ {f} /\ aInSync' = aInSync \ {t}
      /\ UNCHANGED <<aFlag, aTarget, aRet, aCopy, aAsked, aLocked, aMisjudged>>
  BY DEF Archive!FSi_ReleaseCommand, Archive!Released, Archive!Goto
<1>2. /\ Carries(t) /\ HasTurn(t) /\ f \in File /\ First(f) /\ aLocked
      /\ aRet[t] = "SUCCESS" /\ (t \in aInSync => f = t)
  BY <1>0, <1>1, HeadIsFile
     DEF IInv, FilesOK, OperatingOK, TargetsOK, CarriersOK, MarksOK, Carries, HasTurn, First
<1>3. /\ ~CardHas /\ "RUNNING" \in aFlag /\ "SUSPEND" \notin aFlag
      /\ \A p \in Archive!Process \ {t} : /\ ~HasTurn(p) /\ ~Carries(p) /\ p \notin aInSync
                                          /\ aAt[p] \notin {"activate", "operate", "next"}
      /\ \A g \in File \ {t} : ~Chosen(g)
  BY <1>2, TurnIsOne
<1>4. /\ aList' \in Seq(File) /\ Archive!IsInjective(aList')
      /\ \A g : g \in Archive!ToSet(aList') <=> g \in Archive!ToSet(aList) /\ g # f
  BY <1>1, WithoutFacts DEF IInv
<1>5. \A g \in File : "OPERATING" \notin aStat'[g]
  BY <1>0, <1>1, <1>2 DEF IInv, FilesOK, OperatingOK, First
<1>8. PlacesOK'
  BY <1>0, <1>1 DEF IInv, PlacesOK, PlaceOK
<1>6. /\ aInSync' = {} /\ \A p \in Archive!Process : ~Carries(p)' /\ (HasTurn(p)' <=> p = t)
      /\ \A p \in Archive!Process : aAt'[p] \notin {"activate", "operate"}
  <2>1. aInSync' = {}
    BY <1>0, <1>1, <1>3 DEF BitsOK
  <2>2. aAt'[t] = "next" /\ \A p \in Archive!Process \ {t} : aAt'[p] = aAt[p] /\ aRet'[p] = aRet[p]
    BY <1>0, <1>1 DEF PlaceOK
  <2>3. ~Carries(t)' /\ HasTurn(t)'
    BY <2>2 DEF HasTurn, Carries
  <2>4. ASSUME NEW p \in Archive!Process \ {t}
        PROVE  ~Carries(p)' /\ ~HasTurn(p)' /\ aAt'[p] \notin {"activate", "operate"}
    <3>1. ~Chosen(p)'
      BY <1>0, <1>5, <1>8, <2>2 DEF Chosen, PlacesOK
    <3> QED
      BY <1>3, <2>1, <2>2, <3>1 DEF HasTurn, Carries
  <2> QED
    BY <2>1, <2>2, <2>3, <2>4
<1>7. Archive!TypeOK'
  <2>1. ListOK'
    BY <1>4 DEF ListOK
  <2>2. PlaceOK' /\ BitsOK' /\ CardOK'
    BY <1>0, <1>1 DEF PlaceOK, BitsOK, CardOK
  <2>3. FieldsOK'
    BY <1>0, <1>1, <1>2 DEF FieldsOK, Archive!Results
  <2> QED
    BY <2>1, <2>2, <2>3, TypeIsPartsNext
<1>9. TurnOK'
  BY <1>1, <1>3, <1>6 DEF TurnOK, CardHas
<1>10. SuspendOK'
  BY <1>0, <1>1, <1>2, <1>3 DEF IInv, SuspendOK, PlaceOK
<1>11. Archive!BusyListed'
  BY <1>0, <1>1, <1>2, <1>4 DEF IInv, FilesOK, Archive!BusyListed, FieldsOK
<1>12. SyncOK'
  BY <1>0, <1>1, <1>2, <1>3 DEF IInv, FilesOK, SyncOK, PlaceOK, FieldsOK
<1>13. LeftOK'
  BY <1>0, <1>1, <1>3
     DEF IInv, TargetsOK, LeftOK, Left, Carries, PlaceOK, FieldsOK, Archive!IsSync
<1>14. OperatingOK' /\ CarriersOK'
  BY <1>5, <1>6 DEF OperatingOK, CarriersOK
<1>15. CardsOK'
  BY <1>0, <1>1, <1>2, <1>3 DEF IInv, TargetsOK, CardsOK, CardHas, PlaceOK
<1>16. MarksOK'
  BY <1>0, <1>1, <1>2, <1>3, <1>6
     DEF IInv, MarksOK, Awaits, CardHas, PlaceOK, HasTurn, Carries, Chosen
<1>17. CopyOK'
  BY <1>6 DEF CopyOK, Carries
<1> QED
  BY <1>7, <1>8, <1>9, <1>10, <1>11, <1>12, <1>13, <1>14, <1>15, <1>16, <1>17
     DEF IInv, FilesOK, TargetsOK

\* Who goes on with the next command has the turn, or the archive rests and is
\* his: no command operates then, and no flag is stored by anybody else.
LEMMA ProceedKeeps ==
  ASSUME ArchiveAssumption, IInv, NEW t \in Archive!Process, NEW bits \in SUBSET aFlag,
         Archive!Proceed(t, bits), UNCHANGED <<aInSync, aRet, aCopy, aAsked, aMisjudged>>,
         aAt[t] \in {"next", "holds"}, "SUSPEND" \notin bits,
         "RUNNING" \in bits <=> aAt[t] = "next", "RUNNING" \in aFlag <=> "RUNNING" \in bits,
         ~aAsked, "IS_SYNC" \notin aFlag, "IS_ASYNC" \notin aFlag,
         \A p \in Archive!Process \ {t} : ~HasTurn(p)
  PROVE  IInv'
<1> DEFINE canceled == {f \in Archive!ToSet(aList) : "CANCELING" \in bits /\ "CANCEL" \in aStat[f]}
           left == Archive!Without(canceled)
           others == bits \ {"CANCELING"}
           Goes == others \cap {"SUSPENDING", "SUSPEND"} = {} /\ left # <<>>
<1> USE DEF ArchiveAssumption, Archive!Process
<1>0. ListOK /\ PlaceOK /\ FieldsOK /\ BitsOK /\ CardOK
  BY TypeIsParts DEF IInv
<1>1. /\ aList' = left /\ aStat' = [f \in File |-> IF f \in canceled THEN {} ELSE aStat[f]]
      /\ aError' = [f \in File |-> IF f \in canceled THEN "CANCELED" ELSE aError[f]]
  BY DEF Archive!Proceed, Archive!Released
<1>2. \A f : f \in canceled => f \in Archive!ToSet(aList) /\ f \in File
  BY <1>0 DEF ListOK, Archive!ToSet
<1>3. /\ ListOK' /\ left \in Seq(File)
      /\ \A f : f \in Archive!ToSet(left) <=> f \in Archive!ToSet(aList) /\ f \notin canceled
  BY <1>1, WithoutFacts DEF IInv, ListOK
<1>4. /\ Goes => /\ aFlag' = others \cup {"RUNNING"}
                 /\ aAt' = [aAt EXCEPT ![t] =
                                      IF "RUNNING" \in others THEN "operate" ELSE "activate"]
                 /\ aTarget' = [aTarget EXCEPT ![t] = Head(left)]
                 /\ aAsleep' = aAsleep \ canceled /\ aLocked' = aLocked
      /\ ~Goes => /\ aLocked' = (aLocked /\ "RUNNING" \notin others)
                  /\ aAt' = [aAt EXCEPT ![t] = "out"] /\ aTarget' = [aTarget EXCEPT ![t] = NULL]
                  /\ "SUSPENDING" \in others =>
                       /\ aFlag' = (others \ {"RUNNING", "SUSPENDING"}) \cup {"SUSPEND"}
                       /\ aAsleep' = aAsleep \ (canceled \cup {Suspender})
                  /\ "SUSPENDING" \notin others =>
                       aFlag' = others \ {"RUNNING"} /\ aAsleep' = aAsleep \ canceled
  BY DEF Archive!Proceed, Archive!Begin, Archive!Leave, Archive!Goto
<1>5. /\ others \subseteq aFlag /\ "SUSPEND" \notin others
      /\ "RUNNING" \in others <=> "RUNNING" \in aFlag
      /\ "SUSPENDING" \in others <=> "SUSPENDING" \in bits
  OBVIOUS
<1>6. Goes => left # <<>> /\ "SUSPENDING" \notin others
  OBVIOUS
<1>7. ~Goes /\ "SUSPENDING" \notin others => left = <<>>
  BY <1>5
<1> HIDE DEF canceled, left, others, Goes
<1>8. aAt'[t] \in {"operate", "activate", "out"}
         /\ \A p \in Archive!Process \ {t} : aAt'[p] = aAt[p] /\ aTarget'[p] = aTarget[p]
  BY <1>0, <1>4 DEF PlaceOK, FieldsOK
<1>9. ~CardHas /\ ~CardHas' /\ aInSync = {} /\ ~Carries(t)
         /\ \A p \in Archive!Process : ~Carries(p) /\ ~Chosen(p)
  BY <1>0 DEF IInv, TargetsOK, CarriersOK, CardHas, HasTurn, Carries, Chosen, BitsOK
<1>10. \A f \in File : "OPERATING" \notin aStat[f] /\ "OPERATING" \notin aStat'[f]
  BY <1>0, <1>1, <1>9 DEF IInv, FilesOK, OperatingOK
<1>11. PlacesOK'
  BY <1>0, <1>8 DEF IInv, PlacesOK
<1>12. /\ \A p \in Archive!Process : ~Carries(p)' /\ ~Chosen(p)' /\ (HasTurn(p)' <=> p = t /\ Goes)
       /\ aAt'[t] # "out" <=> Goes
  <2>1. aAt'[t] # "out" <=> Goes
    BY <1>0, <1>4 DEF PlaceOK
  <2>2. \A p \in Archive!Process : ~Carries(p)'
    BY <1>0, <1>8, <1>9 DEF Carries
  <2>3. \A p \in Archive!Process : ~Chosen(p)'
    BY <1>10, <1>11 DEF Chosen, PlacesOK
  <2>4. HasTurn(t)' <=> Goes
    BY <1>8, <2>1, <2>2, <2>3 DEF HasTurn
  <2>5. \A p \in Archive!Process \ {t} : ~HasTurn(p)'
    BY <1>8, <2>2, <2>3 DEF HasTurn
  <2> QED
    BY <2>1, <2>2, <2>3, <2>4, <2>5
<1>13. Goes => Head(left) \in File
  BY <1>3, <1>6
<1>14. Archive!TypeOK'
  <2>1. PlaceOK'
    BY <1>0, <1>4 DEF PlaceOK
  <2>2. FieldsOK'
    BY <1>0, <1>1, <1>4, <1>13 DEF FieldsOK, Archive!Results
  <2>3. BitsOK'
    BY <1>0, <1>4, <1>5 DEF BitsOK, Archive!ArchiveBits
  <2>4. CardOK'
    BY <1>0, <1>4 DEF CardOK
  <2> QED
    BY <1>3, <2>1, <2>2, <2>3, <2>4, TypeIsPartsNext
<1>15. "RUNNING" \in aFlag' <=> Goes
  BY <1>4
<1>16. TurnOK'
  BY <1>9, <1>12, <1>15 DEF TurnOK
<1>17. SuspendOK'
  <2>1. aAt[t] = "holds" => t = Suspender
    BY DEF IInv, PlacesOK
  <2>2. Suspender \in aAsleep' => Suspender \in aAsleep
    BY <1>4
  <2>3. CASE Goes
    BY <1>0, <1>1, <1>2, <1>4, <1>5, <1>6, <1>8, <2>1, <2>3 DEF IInv, SuspendOK
  <2>4. CASE ~Goes /\ "SUSPENDING" \in others
    BY <1>0, <1>1, <1>4, <1>5, <1>8, <2>1, <2>4 DEF IInv, SuspendOK
  <2>5. CASE ~Goes /\ "SUSPENDING" \notin others
    BY <1>0, <1>1, <1>2, <1>4, <1>5, <1>7, <1>8, <2>1, <2>5 DEF IInv, SuspendOK
  <2> QED
    BY <2>3, <2>4, <2>5
<1>18. Archive!BusyListed'
  BY <1>0, <1>1, <1>2, <1>3 DEF IInv, FilesOK, Archive!BusyListed
<1>19. OperatingOK'
  BY <1>10 DEF OperatingOK
<1>20. SyncOK'
  BY <1>0, <1>1, <1>8, <1>9 DEF IInv, FilesOK, SyncOK, HasTurn
<1>21. CarriersOK'
  <2>1. \A p \in Archive!Process : aAt'[p] \in {"activate", "operate"} => p = t /\ Goes
    BY <1>12 DEF HasTurn
  <2>2. Goes => First(aTarget[t])'
    BY <1>0, <1>1, <1>4, <1>6 DEF First, FieldsOK
  <2> QED
    BY <1>9, <1>12, <2>1, <2>2 DEF CarriersOK
<1>22. LeftOK'
  BY <1>0, <1>1, <1>8, <1>10 DEF IInv, TargetsOK, LeftOK, Left, Archive!IsSync
<1>23. CardsOK'
  <2>1. aLocked' => "RUNNING" \in aFlag'
    BY <1>4, <1>5, <1>15 DEF IInv, TargetsOK, CardsOK
  <2>2. \A p \in Archive!Process : aAt'[p] \in {"operate", "next"} => aLocked'
    <3>1. \A p \in Archive!Process : aAt'[p] \in {"operate", "next"}
             => p = t /\ Goes /\ aAt'[t] = "operate"
      BY <1>8, <1>12 DEF HasTurn
    <3>2. Goes /\ aAt'[t] = "operate" => aAt[t] = "next" /\ aLocked' = aLocked
      BY <1>0, <1>4, <1>5 DEF PlaceOK
    <3> QED
      BY <3>1, <3>2 DEF IInv, TargetsOK, CardsOK
  <2> QED
    BY <1>9, <2>1, <2>2 DEF CardsOK
<1>24. MarksOK'
  BY <1>4, <1>5, <1>8, <1>9, <1>12 DEF IInv, MarksOK, Awaits, HasTurn, Carries
<1>25. CopyOK'
  BY <1>12 DEF CopyOK, Carries
<1> QED
  BY <1>11, <1>14, <1>16, <1>17, <1>18, <1>19, <1>20, <1>21, <1>22, <1>23, <1>24, <1>25
     DEF IInv, FilesOK, TargetsOK

LEMMA FSi_NextCommandKeeps ==
  ASSUME ArchiveAssumption, IInv, NEW t \in Archive!Process, Archive!FSi_NextCommand(t)
  PROVE  IInv'
<1>1. aAt[t] = "next" /\ HasTurn(t) /\ ~Awaits(t) /\ Archive!Proceed(t, aFlag)
         /\ UNCHANGED <<aInSync, aRet, aCopy, aAsked, aMisjudged>>
  BY DEF Archive!FSi_NextCommand, HasTurn, Awaits
<1>2. "RUNNING" \in aFlag /\ "SUSPEND" \notin aFlag /\ \A p \in Archive!Process \ {t} : ~HasTurn(p)
  BY <1>1, TurnIsOne
<1>3. ~aAsked /\ "IS_SYNC" \notin aFlag /\ "IS_ASYNC" \notin aFlag
  BY <1>1 DEF IInv, MarksOK
<1> QED
  BY <1>1, <1>2, <1>3, ProceedKeeps

LEMMA FS_ResumeArchiveKeeps ==
  ASSUME ArchiveAssumption, IInv, Archive!FS_ResumeArchive
  PROVE  IInv'
<1>1. /\ Suspender \in Archive!Process /\ aAt[Suspender] = "holds"
      /\ Archive!Proceed(Suspender, aFlag \ {"SUSPEND"})
            /\ UNCHANGED <<aInSync, aRet, aCopy, aAsked, aMisjudged>>
  BY DEF Archive!FS_ResumeArchive, Archive!Process
<1>2. "RUNNING" \notin aFlag /\ \A p \in Archive!Process : ~HasTurn(p)
  BY <1>1 DEF IInv, SuspendOK, TurnOK
<1>3. ~aAsked /\ "IS_SYNC" \notin aFlag /\ "IS_ASYNC" \notin aFlag
  BY <1>2 DEF IInv, MarksOK
<1> QED
  BY <1>1, <1>2, <1>3, ProceedKeeps

-----------------------------------------------------------------------------

\* The invariant holds at first, after every step, and so always.
LEMMA InitHolds == ASSUME ArchiveAssumption PROVE Archive!Init => IInv
<1> SUFFICES ASSUME Archive!Init PROVE IInv
  OBVIOUS
<1> USE DEF ArchiveAssumption, Archive!Init
<1>1. Archive!TypeOK
  <2>1. aList \in Seq(File) /\ Archive!IsInjective(aList)
    BY DEF Archive!IsInjective
  <2> QED
    BY <2>1 DEF Archive!TypeOK, Archive!Results, Archive!Process
<1>2. \A p \in Archive!Process : ~HasTurn(p) /\ ~Carries(p) /\ ~Left(p) /\ ~Awaits(p)
         /\ aAt[p] = "out"
  BY DEF HasTurn, Carries, Chosen, Left, Awaits
<1>3. ~CardHas /\ Suspender \in Archive!Process
  BY DEF CardHas, Archive!Process
<1>4. PlacesOK /\ TurnOK /\ SuspendOK
  BY <1>2, <1>3 DEF PlacesOK, TurnOK, SuspendOK
<1>5. FilesOK
  <2>1. \A f : f \notin Archive!ToSet(aList)
    BY DEF Archive!ToSet
  <2> QED
    BY <2>1 DEF FilesOK, Archive!BusyListed, OperatingOK, SyncOK, Archive!Process
<1>6. TargetsOK /\ MarksOK /\ CopyOK
  BY <1>2, <1>3 DEF TargetsOK, CarriersOK, LeftOK, CardsOK, MarksOK, CopyOK
<1> QED
  BY <1>1, <1>4, <1>5, <1>6 DEF IInv

\* A step keeps the invariant if it misjudges no command.
LEMMA StepKeeps ==
  ASSUME ArchiveAssumption, IInv, [Archive!Next]_Archive!vars, ~aMisjudged'
  PROVE  IInv'
<1>1. CASE UNCHANGED Archive!vars
  BY <1>1
     DEF Archive!vars, IInv, Archive!TypeOK, PlacesOK, TurnOK, SuspendOK, FilesOK,
       Archive!BusyListed, OperatingOK,
     SyncOK, TargetsOK, CarriersOK, LeftOK, CardsOK, MarksOK, CopyOK, HasTurn, Carries, Chosen,
     CardHas, Left, Awaits, First, Archive!IsSync, Archive!Mark
<1>2. ASSUME NEW p \in Archive!Process, Archive!Carry(p) PROVE IInv'
  BY <1>2, FSi_NextCommandKeeps, OperateKeeps, LoadKeeps, StoreKeeps, ProcKeeps,
     JudgeKeeps,
     ClearKeeps, SyncWaitKeeps, FSi_ReleaseCommandKeeps DEF Archive!Carry
<1>3. ASSUME NEW p \in Archive!Process, Archive!Step(p) PROVE IInv'
  BY <1>2, <1>3, WaitKeeps, WaitBusyKeeps, SuspendedKeeps, FS_ResumeArchiveKeeps,
     FS_NotifyArchiveAsyncEndKeeps DEF Archive!Step
<1>4. ASSUME Archive!Call PROVE IInv'
  BY <1>4, FSi_SendCommandKeeps, FS_WaitAsyncKeeps, FS_CancelFileKeeps,
     FS_SuspendArchiveKeeps DEF Archive!Call
<1> QED
  BY <1>1, <1>3, <1>4 DEF Archive!Next

\* Once a command was misjudged nothing changes.
LEMMA MisjudgedStays ==
  ASSUME aMisjudged, [Archive!Next]_Archive!vars PROVE aMisjudged'
BY DEF Archive!Next, Archive!Step, Archive!Call, Archive!vars

\* The invariant holds until a command is misjudged.
LEMMA ArchiveInvariant ==
  ASSUME ArchiveAssumption PROVE Archive!Spec => [](~aMisjudged => IInv)
<1>1. (~aMisjudged => IInv) /\ [Archive!Next]_Archive!vars => (~aMisjudged => IInv)'
  BY StepKeeps, MisjudgedStays
<1> QED
  BY <1>1, InitHolds, PTL DEF Archive!Spec

-----------------------------------------------------------------------------
\* Those who have the turn are one while the archive runs, and none else.
LEMMA TurnsAreOne == ASSUME ArchiveAssumption, IInv PROVE Archive!OneTurn
<1>1. \A x : x \in Archive!Turns <=> (x \in Archive!Process /\ HasTurn(x)) \/ (x = NULL /\ CardHas)
  BY DEF Archive!Turns, HasTurn, Carries, Chosen, CardHas
<1> HIDE DEF Archive!Turns
<1>2. CASE "RUNNING" \in aFlag
  <2>1. PICK x : Archive!Turns = {x}
    <3>1. CASE CardHas
      <4>1. Archive!Turns = {NULL}
        BY <1>1, <3>1 DEF IInv, TurnOK
      <4> QED
        BY <4>1
    <3>2. CASE \E p \in Archive!Process : HasTurn(p)
      <4>1. PICK p \in Archive!Process : HasTurn(p)
        BY <3>2
      <4>2. Archive!Turns = {p}
        BY <1>1, <4>1 DEF IInv, TurnOK
      <4> QED
        BY <4>2
    <3> QED
      BY <1>2, <3>1, <3>2 DEF IInv, TurnOK
  <2> QED
    BY <1>2, <2>1, FS_Singleton, SameOperators DEF Archive!OneTurn
<1>3. CASE "RUNNING" \notin aFlag
  <2>1. Archive!Turns = {}
    BY <1>1, <1>3 DEF IInv, TurnOK
  <2> QED
    BY <1>3, <2>1, FS_EmptySet, SameOperators DEF Archive!OneTurn
<1> QED
  BY <1>2, <1>3

\* A behaviour of MCStorage is one of the archive, which may stand still.
LEMMA ArchiveIsPart == MCSpec => Archive!Spec
<1>1. MCInit => Archive!Init
  BY DEF MCInit
<1>2. [MCNext]_<<part, vars, cardVars, archiveVars>> => [Archive!Next]_Archive!vars
  BY DEF MCNext, archiveVars, Archive!vars
<1> QED
  BY <1>1, <1>2, PTL DEF MCSpec, Archive!Spec

\* The commands of an archive take turns, until a process misjudges the command of a
\* file that was sent again while it looked at it (fs_command.c:55): one process or the
\* card carries one out while the archive runs, the first of the list, whose file is
\* busy, and none does while the archive rests or is suspended.
THEOREM ArchiveTakesTurns ==
  ASSUME ArchiveAssumption
  PROVE  MCSpec => []ArchiveTurns
<1>1. ASSUME IInv PROVE Archive!OperatesFirst
  BY <1>1 DEF IInv, FilesOK, OperatingOK, Archive!OperatesFirst, First
<1>2. ASSUME IInv PROVE Archive!SuspendedRests
  <2>1. ASSUME aAt[Suspender] = "holds" PROVE "RUNNING" \notin aFlag /\ ~aAsked /\ ~aLocked
    BY <1>2, <2>1 DEF IInv, SuspendOK, MarksOK, TargetsOK, CardsOK
  <2>2. ASSUME aAt[Suspender] = "holds" PROVE Archive!Turns = {}
    <3>1. \A x : x \in Archive!Turns
             <=> (x \in Archive!Process /\ HasTurn(x)) \/ (x = NULL /\ CardHas)
      BY DEF Archive!Turns, HasTurn, Carries, Chosen, CardHas
    <3> HIDE DEF Archive!Turns
    <3> QED
      BY <1>2, <2>1, <2>2, <3>1 DEF IInv, TurnOK
  <2> QED
    BY <2>1, <2>2 DEF Archive!SuspendedRests
<1>3. ASSUME IInv PROVE Archive!ReleasesBusy
  BY <1>3, FirstIsBusy DEF IInv, TargetsOK, CarriersOK, Carries, Archive!ReleasesBusy
<1>4. (~aMisjudged => IInv) => ArchiveTurns
  BY <1>1, <1>2, <1>3, TurnsAreOne DEF IInv, FilesOK, ArchiveTurns
<1> QED
  BY <1>4, ArchiveInvariant, ArchiveIsPart, PTL
=============================================================================
