------------------------------- MODULE OSReset -------------------------------
(* The two processors start together and are reset together: PXI_InitFifo     *)
(* (libraries/pxi/src/pxi_fifo.c), OS_InitLock (os_spinLock.c), OS_InitReset, *)
(* OS_ResetSystem and OSi_DoBoot (os_reset.c), in the order OS_Init has them. *)
(*                                                                            *)
(* Each processor writes four bits the other reads.  PXI_InitFifo relies on   *)
(* time, in two guards.  The ARM7's OS_SpinWait(1000) is longer than the ARM9 *)
(* in its loop needs to answer, unless it has entered the loop just then; and *)
(* the 1000 polls of the ARM9 are longer than a turn of the ARM7's loop.      *)
(*                                                                            *)
(* Memory is cleared at power on, as OSi_DoBoot leaves it.  Of the lock word  *)
(* the owner and the extension are kept: only the ARM9 locks it.              *)

EXTENDS Naturals, Sequences, Functions

CONSTANTS
  StaleBits,  \* what the bits may be at power on
  FifoDepth   \* bound: the words a FIFO takes

Processor == {"ARM9", "ARM7"}
Other(p) == IF p = "ARM9" THEN "ARM7" ELSE "ARM9"

VARIABLES
  at,         \* where a processor is
  bits,       \* reg_PXI_INTF: what a processor writes for the other
  i,          \* the counter of PXI_InitFifo
  c,          \* the ARM9's c
  joined,     \* the ARM9 has entered the loop since the ARM7 wrote last
  wrote,      \* the ARM7 has written since the ARM9 began to wait
  fifo,       \* the words of a processor in its send FIFO
  callback,   \* FifoRecvCallbackTable has OSi_CommonCallback
  checker,    \* pxiHandleChecker has its bit
  occurred,   \* OSi_IsResetOccurred
  ownerID,    \* of the word at HW_INIT_LOCK_BUF
  extension,  \* of the same word
  idFlags     \* the bitmap of a processor's lock IDs is that of OS_InitLock

handshake == <<bits, i, c, joined, wrote>>
words == <<fifo, callback, occurred>>
memory == <<checker, ownerID, extension, idFlags>>
vars == <<at, handshake, words, memory>>

Started == 5   \* the ARM9 asks only if i > 4
MAINP_SYSTEM == 127
SUBP_SYSTEM == 191

Loop == {"read", "write", "wait"}
Down == {"fifo", "reload", "boot", "signal", "clear", "await"}
Up == {"lock", "extension", "unlock", "relock", "callback", "run"}
Word == {"old", "other", "reset"}

\* What a FIFO may hold.
FifoWords == UNION {[1..n -> Word] : n \in 0..FifoDepth}

TypeOK ==
  /\ at \in [Processor -> Loop \cup Down \cup Up \cup {"reset", "sent"}]
  /\ bits \in [Processor -> 0..15]
  /\ i \in [Processor -> 0..8] /\ c \in 0..15
  /\ {joined, wrote} \subseteq BOOLEAN
  /\ fifo \in [Processor -> FifoWords]
  /\ {callback, checker, occurred, idFlags} \subseteq [Processor -> BOOLEAN]
  /\ ownerID \in {0, MAINP_SYSTEM - 1, MAINP_SYSTEM} /\ extension \in {0, SUBP_SYSTEM}

No == [p \in Processor |-> FALSE]

Init ==
  /\ at = [p \in Processor |-> "fifo"]
  /\ bits \in [Processor -> StaleBits]
  /\ i = [p \in Processor |-> 0] /\ c = 0 /\ joined = FALSE /\ wrote = FALSE
  /\ fifo \in [Processor -> {<<>>, <<"old">>}]
  /\ callback = No /\ checker = No /\ occurred = No /\ idFlags = No
  /\ ownerID = 0 /\ extension = 0

Goto(p, from, to) == at[p] = from /\ at' = [at EXCEPT ![p] = to]
Show(p, n) == bits' = [bits EXCEPT ![p] = n]

-----------------------------------------------------------------------------
(* PXI_InitFifo, with interrupts disabled.                                    *)

InitFifo(p) ==
  /\ Goto(p, "fifo", IF p = "ARM9" THEN "read" ELSE "write")
  /\ checker' = [checker EXCEPT ![p] = FALSE]
  /\ callback' = [callback EXCEPT ![p] = FALSE]
  /\ fifo' = [fifo EXCEPT ![p] = <<>>]
  /\ i' = [i EXCEPT ![p] = IF p = "ARM9" THEN 0 ELSE 8]
  /\ joined' = IF p = "ARM9" THEN TRUE ELSE joined
  /\ UNCHANGED <<bits, c, wrote, occurred, ownerID, extension, idFlags>>

Arm7_Write ==
  /\ Goto("ARM7", "write", "wait")
  /\ Show("ARM7", i["ARM7"])
  /\ joined' = FALSE /\ wrote' = TRUE
  /\ UNCHANGED <<i, c, words, memory>>

Answered == at["ARM9"] = "wait" /\ c = bits["ARM7"]

Arm7_Check ==
  /\ at["ARM9"] \in Loop => joined \/ Answered
  /\ \/ /\ bits["ARM9"] = i["ARM7"]
        /\ Goto("ARM7", "wait", IF i["ARM7"] = 0 THEN "lock" ELSE "write")
        /\ i' = [i EXCEPT !["ARM7"] = IF @ = 0 THEN 0 ELSE @ - 1]
     \/ /\ bits["ARM9"] # i["ARM7"]
        /\ Goto("ARM7", "wait", "write")
        /\ i' = [i EXCEPT !["ARM7"] = 7]
  /\ UNCHANGED <<bits, c, joined, wrote, words, memory>>

Arm9_Read ==
  /\ Goto("ARM9", "read", "write")
  /\ c' = bits["ARM7"]
  /\ UNCHANGED <<bits, i, joined, wrote, words, memory>>

Arm9_Write ==
  /\ Goto("ARM9", "write", IF c = 0 /\ i["ARM9"] >= Started THEN "lock" ELSE "wait")
  /\ Show("ARM9", c)
  /\ wrote' = FALSE
  /\ UNCHANGED <<i, c, joined, words, memory>>

\* A slip: a change starts the count again.
Arm9_ChangeAnew ==
  /\ bits["ARM7"] # c
  /\ Goto("ARM9", "wait", "read")
  /\ i' = [i EXCEPT !["ARM9"] = 1]
  /\ UNCHANGED <<bits, c, joined, wrote, words, memory>>

Arm9_Change ==
  /\ bits["ARM7"] # c
  /\ Goto("ARM9", "wait", "read")
  /\ i' = [i EXCEPT !["ARM9"] = IF @ = Started THEN @ ELSE @ + 1]
  /\ UNCHANGED <<bits, c, joined, wrote, words, memory>>

Arm9_Timeout ==
  /\ bits["ARM7"] = c /\ (at["ARM7"] \in Loop => wrote)
  /\ Goto("ARM9", "wait", "read")
  /\ i' = [i EXCEPT !["ARM9"] = 1]
  /\ UNCHANGED <<bits, c, joined, wrote, words, memory>>

-----------------------------------------------------------------------------
(* OS_InitLock and OS_InitReset.                                              *)

Arm9_Lock ==
  /\ Goto("ARM9", "lock", "extension")
  /\ ownerID' = MAINP_SYSTEM - 1
  /\ UNCHANGED <<handshake, words, checker, extension, idFlags>>

\* The shared locks are cleared here, too.
Arm9_InitIDs ==
  /\ extension = 0
  /\ Goto("ARM9", "extension", "unlock")
  /\ idFlags' = [idFlags EXCEPT !["ARM9"] = TRUE]
  /\ UNCHANGED <<handshake, words, checker, ownerID, extension>>

Arm9_Unlock ==
  /\ Goto("ARM9", "unlock", "relock")
  /\ ownerID' = 0
  /\ UNCHANGED <<handshake, words, checker, extension, idFlags>>

Arm9_LockSystem ==
  /\ Goto("ARM9", "relock", "callback")
  /\ ownerID' = MAINP_SYSTEM
  /\ UNCHANGED <<handshake, words, checker, extension, idFlags>>

Arm7_ClearExtension ==
  /\ Goto("ARM7", "lock", "extension")
  /\ extension' = 0
  /\ UNCHANGED <<handshake, words, checker, ownerID, idFlags>>

Arm7_InitIDs ==
  /\ ownerID = MAINP_SYSTEM
  /\ Goto("ARM7", "extension", "unlock")
  /\ idFlags' = [idFlags EXCEPT !["ARM7"] = TRUE]
  /\ UNCHANGED <<handshake, words, checker, ownerID, extension>>

Arm7_SetExtension ==
  /\ Goto("ARM7", "unlock", "callback")
  /\ extension' = SUBP_SYSTEM
  /\ UNCHANGED <<handshake, words, checker, ownerID, idFlags>>

OS_InitReset(p) ==
  /\ p = "ARM9" => checker["ARM7"]
  /\ Goto(p, "callback", "run")
  /\ callback' = [callback EXCEPT ![p] = TRUE]
  /\ checker' = [checker EXCEPT ![p] = TRUE]
  /\ UNCHANGED <<handshake, fifo, occurred, ownerID, extension, idFlags>>

-----------------------------------------------------------------------------
(* Words between the processors, and the reset.                               *)

Send(p, word) ==
  /\ Len(fifo[p]) < FifoDepth
  /\ fifo' = [fifo EXCEPT ![p] = Append(@, word)]

SendOther(p) ==
  /\ at[p] = "run"
  /\ Send(p, "other")
  /\ UNCHANGED <<at, handshake, callback, occurred, memory>>

\* OSi_CommonCallback, if the word is for it.
Receive(p) ==
  /\ at[p] \in Up \cup {"reset", "sent"}
  /\ fifo[Other(p)] # <<>>
  /\ fifo' = [fifo EXCEPT ![Other(p)] = Tail(@)]
  /\ occurred' = [occurred EXCEPT ![p] = @ \/ (Head(fifo[Other(p)]) = "reset" /\ callback[p])]
  /\ UNCHANGED <<at, handshake, callback, memory>>

\* The ARM7 is reset when it has been asked to.
OS_ResetSystem(p) ==
  /\ p = "ARM7" => occurred[p]
  /\ Goto(p, "run", "reset")
  /\ UNCHANGED <<handshake, words, memory>>

SendReset(p) ==
  /\ Goto(p, "reset", IF p = "ARM9" THEN "sent" ELSE "boot")
  /\ Send(p, "reset")
  /\ UNCHANGED <<handshake, callback, occurred, memory>>

\* OSi_DoResetSystem: interrupts are disabled and the program is read again.
Reload ==
  /\ occurred["ARM9"]
  /\ Goto("ARM9", "sent", "reload")
  /\ UNCHANGED <<handshake, words, memory>>

Reloaded ==
  /\ Goto("ARM9", "reload", "boot")
  /\ UNCHANGED <<handshake, words, memory>>

\* OSi_DoBoot of the ARM9.
Arm9_Signal ==
  /\ bits["ARM7"] = 1
  /\ Goto("ARM9", "boot", "clear")
  /\ Show("ARM9", 1)
  /\ UNCHANGED <<i, c, joined, wrote, words, memory>>

\* A slip: the range that is cleared ends before the lock word.
ClearHandlersOnly ==
  /\ Goto("ARM9", "clear", "await")
  /\ checker' = No /\ idFlags' = No
  /\ UNCHANGED <<handshake, words, ownerID, extension>>

Arm9_Clear ==
  /\ Goto("ARM9", "clear", "await")
  /\ checker' = No /\ idFlags' = No /\ ownerID' = 0 /\ extension' = 0
  /\ UNCHANGED <<handshake, words>>

\* The program begins again, with its variables as they are loaded.
Restart(p) ==
  /\ Goto(p, "await", "fifo")
  /\ callback' = [callback EXCEPT ![p] = FALSE]
  /\ occurred' = [occurred EXCEPT ![p] = FALSE]
  /\ i' = [i EXCEPT ![p] = 0]

Arm9_Restart ==
  /\ bits["ARM7"] # 1
  /\ Restart("ARM9") /\ Show("ARM9", 0)
  /\ c' = 0
  /\ UNCHANGED <<joined, wrote, fifo, memory>>

\* OSi_DoBoot of the ARM7.
Arm7_Signal ==
  /\ Goto("ARM7", "boot", "signal")
  /\ Show("ARM7", 1)
  /\ UNCHANGED <<i, c, joined, wrote, words, memory>>

Arm7_Await ==
  /\ bits["ARM9"] = 1
  /\ Goto("ARM7", "signal", "await")
  /\ Show("ARM7", 0)
  /\ UNCHANGED <<i, c, joined, wrote, words, memory>>

Arm7_Restart ==
  /\ bits["ARM9"] # 1
  /\ Restart("ARM7")
  /\ UNCHANGED <<bits, c, joined, wrote, fifo, memory>>

-----------------------------------------------------------------------------
Arm9 ==
  \/ InitFifo("ARM9") \/ Arm9_Read \/ Arm9_Write \/ Arm9_Change \/ Arm9_Timeout
  \/ Arm9_Lock \/ Arm9_InitIDs \/ Arm9_Unlock \/ Arm9_LockSystem \/ OS_InitReset("ARM9")
  \/ SendReset("ARM9") \/ Reload \/ Reloaded \/ Arm9_Signal \/ Arm9_Clear \/ Arm9_Restart

Arm7 ==
  \/ InitFifo("ARM7") \/ Arm7_Write \/ Arm7_Check
  \/ Arm7_ClearExtension \/ Arm7_InitIDs \/ Arm7_SetExtension \/ OS_InitReset("ARM7")
  \/ OS_ResetSystem("ARM7") \/ SendReset("ARM7") \/ Arm7_Signal \/ Arm7_Await \/ Arm7_Restart

Next ==
  \/ Arm9 \/ Arm7
  \/ OS_ResetSystem("ARM9")
  \/ \E p \in Processor : SendOther(p) \/ Receive(p)

\* Each processor executes instructions for ever, and takes its interrupts.
Fairness ==
  /\ WF_vars(Arm9) /\ WF_vars(Arm7)
  /\ \A p \in Processor : WF_vars(Receive(p))

Spec == Init /\ [][Next]_vars /\ Fairness

-----------------------------------------------------------------------------
\* A processor that is up has the other with it: that one has set up its FIFO in
\* this life and does not load a program, and no word of a former life is left.
UpTogether ==
  \A p \in Processor : at[p] \in Up =>
    at[Other(p)] \notin Down /\ "old" \notin Range(fifo[Other(p)])

\* The ARM7 goes on only after the ARM9 has cleared the locks they share, both
\* with the IDs of this life.
LocksFirst ==
  \A p \in Processor : at[p] \in {"callback", "run"} =>
    idFlags["ARM9"] /\ idFlags[p] /\ ownerID = MAINP_SYSTEM

\* A processor asked to reset hears it: its callback is there.
ResetIsHeard ==
  \A p \in Processor : "reset" \in Range(fifo[p]) =>
    callback[Other(p)] /\ at[Other(p)] \notin Down

\* After power on and after each reset both run.
BothRun == []<>(\A p \in Processor : at[p] = "run")
=============================================================================
