------------------------------ MODULE FSArchive ------------------------------
(* The commands of an archive (libraries/fs: fs_archive.c, fs_command.c,      *)
(* fs_file.c, in the branches for SDK 4).  A file has one command at a time,  *)
(* in the list of its archive, which carries them out one by one.  Nobody has *)
(* that as his task: whoever ends a command goes on with the next, a client   *)
(* with its own and those behind it, the card's thread in the callback of a   *)
(* read, or who resumes the archive.                                          *)
(*                                                                            *)
(* A section with interrupts disabled is one step; "flag |= bit" with         *)
(* interrupts enabled is a load and a store.  A file is named after the       *)
(* thread that uses it.  What a procedure does for a command is: it answers   *)
(* at once, or asks the card.  Left out: the unloading of an archive, its     *)
(* tables, positions and paths, and that Activate waits for the card's lock.  *)

EXTENDS Sequences, FiniteSets, SequencesExt

CONSTANTS
  File,       \* the files, and the threads that use them
  Suspender,  \* the thread that suspends the archive and resumes it
  Reader,     \* who calls FS_NotifyArchiveAsyncEnd: the card's thread or handler
  NULL

Process == File \cup {Suspender, Reader}

VARIABLES
  flag,    \* FSArchive.flag
  list,    \* FSArchive.list
  stat,    \* FSFile.stat
  error,   \* FSFile.error
  at,      \* where a process is
  target,  \* the file whose command it carries out
  inSync,  \* the clients in FSi_ExecuteSyncCommand
  asleep,  \* the threads that sleep
  ret,     \* what the procedure returned
  copy,    \* the flag of the archive as it was loaded, with its change
  asked,   \* the card reads for the archive
  locked,  \* the archive has the card's ROM
  misjudged  \* history: a process took another command for its own: see Judge

vars == <<flag, list, stat, error, at, target, inSync, asleep, ret, copy, asked, locked,
          misjudged>>

ArchiveBits == {"RUNNING", "SUSPEND", "SUSPENDING", "CANCELING", "IS_SYNC", "IS_ASYNC"}
FileBits == {"BUSY", "CANCEL", "SYNC", "ASYNC", "OPERATING"}
Results == {"ASYNC", "BUSY", "SUCCESS", "CANCELED"}

TypeOK ==
  /\ flag \subseteq ArchiveBits
  /\ list \in Seq(File) /\ IsInjective(list)
  /\ stat \in [File -> SUBSET FileBits]
  /\ error \in [File -> Results \ {"ASYNC"}]
  /\ at \in [Process -> {"out", "activate", "operate", "load", "store", "proc", "judge",
                         "clear", "release", "next", "syncWait", "wait", "waitBusy",
                         "suspend", "holds"}]
  /\ target \in [Process -> File \cup {NULL}]
  /\ inSync \subseteq File /\ asleep \subseteq Process
  /\ ret \in [Process -> Results]
  /\ copy \in [Process -> SUBSET ArchiveBits]
  /\ {asked, locked, misjudged} \subseteq BOOLEAN

Init ==
  /\ flag = {} /\ list = <<>>
  /\ stat = [f \in File |-> {}] /\ error = [f \in File |-> "SUCCESS"]
  /\ at = [p \in Process |-> "out"] /\ target = [p \in Process |-> NULL]
  /\ inSync = {} /\ asleep = {}
  /\ ret = [p \in Process |-> "SUCCESS"] /\ copy = [p \in Process |-> {}]
  /\ asked = FALSE /\ locked = FALSE /\ misjudged = FALSE

Goto(p, place) == at' = [at EXCEPT ![p] = place]
Begin(p, f, place) == Goto(p, place) /\ target' = [target EXCEPT ![p] = f]
Leave(p) == Begin(p, NULL, "out")
IsSync(f) == "SYNC" \in stat[f]

-----------------------------------------------------------------------------
\* The list without the files s: its n-th file is that with n files before it that
\* stay, itself among them.
Without(s) ==
  LET kept == {i \in DOMAIN list : list[i] \notin s}
      place(n) == CHOOSE i \in kept : Cardinality({j \in kept : j <= i}) = n
  IN [n \in 1..Cardinality(kept) |-> list[place(n)]]

\* FSi_ReleaseCommand of a set of files.
Released(s) ==
  /\ list' = Without(s)
  /\ stat' = [f \in File |-> IF f \in s THEN {} ELSE stat[f]]

\* What FSi_NextCommand does in its first section with the archive's flag: it ends
\* what is cancelled and takes the first command, or lets the archive rest.
Proceed(p, bits) ==
  LET canceled == {f \in ToSet(list) : "CANCELING" \in bits /\ "CANCEL" \in stat[f]}
      left == Without(canceled)
      others == bits \ {"CANCELING"}
  IN  /\ Released(canceled)
      /\ error' = [f \in File |-> IF f \in canceled THEN "CANCELED" ELSE error[f]]
      /\ IF others \cap {"SUSPENDING", "SUSPEND"} = {} /\ left # <<>>
         THEN /\ flag' = others \cup {"RUNNING"}
              /\ Begin(p, Head(left), IF "RUNNING" \in others THEN "operate" ELSE "activate")
              /\ asleep' = asleep \ canceled
              /\ UNCHANGED locked
         ELSE /\ locked' = (locked /\ "RUNNING" \notin others)
              /\ Leave(p)
              /\ IF "SUSPENDING" \in others
                 THEN /\ flag' = (others \ {"RUNNING", "SUSPENDING"}) \cup {"SUSPEND"}
                      /\ asleep' = asleep \ (canceled \cup {Suspender})
                 ELSE /\ flag' = others \ {"RUNNING"}
                      /\ asleep' = asleep \ canceled

\* FSi_NextCommand, called after a command has ended.
FSi_NextCommand(p) ==
  /\ at[p] = "next"
  /\ Proceed(p, flag)
  /\ UNCHANGED <<inSync, ret, copy, asked, misjudged>>

\* The procedure's ACTIVATE, if the archive starts, and the section after it: a
\* thread that waits for its command is woken to do it, or it is done here.
Operate(p) ==
  LET f == target[p]
  IN  /\ at[p] \in {"activate", "operate"}
      /\ locked' = (locked \/ at[p] = "activate")
      /\ \/ /\ IsSync(f) /\ f # p
            /\ stat' = [stat EXCEPT ![f] = @ \cup {"OPERATING"}]
            /\ asleep' = asleep \ {f}
            /\ Leave(p)
            /\ UNCHANGED inSync
         \/ /\ IsSync(f) /\ f = p
            /\ stat' = [stat EXCEPT ![f] = @ \cup {"OPERATING"}]
            /\ inSync' = inSync \cup {p}
            /\ Goto(p, "load")
            /\ UNCHANGED <<target, asleep>>
         \/ /\ ~IsSync(f)
            /\ stat' = [stat EXCEPT ![f] = @ \cup {"OPERATING", "ASYNC"}]
            /\ Goto(p, "load")
            /\ UNCHANGED <<target, inSync, asleep>>
      /\ UNCHANGED <<flag, list, error, ret, copy, asked, misjudged>>

-----------------------------------------------------------------------------
\* FSi_TranslateCommand: the archive's flag is changed, by a load and a store.
Mark(f) == IF IsSync(f) THEN "IS_SYNC" ELSE "IS_ASYNC"

Load(p) ==
  /\ at[p] = "load"
  /\ copy' = [copy EXCEPT ![p] = flag \cup {Mark(target[p])}]
  /\ Goto(p, "store")
  /\ UNCHANGED <<flag, list, stat, error, target, inSync, asleep, ret, asked, locked,
                 misjudged>>

Store(p) ==
  /\ at[p] = "store"
  /\ flag' = copy[p]
  /\ copy' = [copy EXCEPT ![p] = {}]
  /\ Goto(p, "proc")
  /\ UNCHANGED <<list, stat, error, target, inSync, asleep, ret, asked, locked,
                 misjudged>>

\* The procedure, or the default command, answers or asks the card.
Proc(p) ==
  /\ at[p] = "proc"
  /\ \/ ret' = [ret EXCEPT ![p] = "SUCCESS"] /\ UNCHANGED asked
     \/ ~asked /\ asked' = TRUE /\ ret' = [ret EXCEPT ![p] = "ASYNC"]
  /\ Goto(p, "judge")
  /\ UNCHANGED <<flag, list, stat, error, target, inSync, asleep, copy, locked,
                 misjudged>>

\* It has returned: the command is over, or it is awaited, or left to the card.  The
\* card's thread may have ended the command that was left to it, and the file may
\* have been sent again: who sees the SYNC bit of that other command misjudges, and
\* awaits an answer that is not for it.
Judge(p) ==
  LET f == target[p]
  IN  /\ at[p] = "judge"
      /\ misjudged' = (misjudged \/ (ret[p] = "ASYNC" /\ IsSync(f) /\ p \notin inSync))
      /\ \/ /\ ret[p] = "ASYNC" /\ IsSync(f)
            /\ Goto(p, "syncWait")
            /\ UNCHANGED <<target, copy>>
         \/ /\ ret[p] = "ASYNC" /\ ~IsSync(f)
            /\ IF p \in inSync THEN Goto(p, "release") /\ UNCHANGED target ELSE Leave(p)
            /\ UNCHANGED copy
         \/ /\ ret[p] # "ASYNC"
            /\ copy' = [copy EXCEPT ![p] = flag \ {Mark(f)}]
            /\ Goto(p, "clear")
            /\ UNCHANGED target
      /\ UNCHANGED <<flag, list, stat, error, inSync, asleep, ret, asked, locked>>

Clear(p) ==
  /\ at[p] = "clear"
  /\ flag' = copy[p]
  /\ copy' = [copy EXCEPT ![p] = {}]
  /\ Goto(p, "release")
  /\ UNCHANGED <<list, stat, error, target, inSync, asleep, ret, asked, locked,
                 misjudged>>

\* A pass of the loop that waits for the card's answer to a command of a thread.
SyncWait(p) ==
  /\ at[p] = "syncWait" /\ p \notin asleep
  /\ \/ /\ "IS_SYNC" \in flag
        /\ asleep' = asleep \cup {p}
        /\ UNCHANGED <<at, ret>>
     \/ /\ "IS_SYNC" \notin flag
        /\ ret' = [ret EXCEPT ![p] = error[target[p]]]
        /\ Goto(p, IF p \in inSync THEN "release" ELSE "next")
        /\ UNCHANGED asleep
  /\ UNCHANGED <<flag, list, stat, error, target, inSync, copy, asked, locked, misjudged>>

FSi_ReleaseCommand(p) ==
  LET f == target[p]
  IN  /\ at[p] = "release"
      /\ Released({f})
      /\ error' = [error EXCEPT ![f] = IF ret[p] = "ASYNC" THEN "BUSY" ELSE ret[p]]
      /\ asleep' = asleep \ {f}
      /\ inSync' = inSync \ {p}
      /\ Goto(p, "next")
      /\ UNCHANGED <<flag, target, ret, copy, asked, locked, misjudged>>

\* FS_NotifyArchiveAsyncEnd, up to its store of the flag.
FS_NotifyArchiveAsyncEnd ==
  /\ asked /\ at[Reader] = "out"
  /\ asked' = FALSE
  /\ \/ /\ "IS_ASYNC" \in flag
        /\ ret' = [ret EXCEPT ![Reader] = "SUCCESS"]
        /\ copy' = [copy EXCEPT ![Reader] = flag \ {"IS_ASYNC"}]
        /\ Begin(Reader, Head(list), "clear")
        /\ UNCHANGED <<flag, error, asleep>>
     \/ /\ "IS_ASYNC" \notin flag
        /\ error' = [error EXCEPT ![Head(list)] = "SUCCESS"]
        /\ flag' = flag \ {"IS_SYNC"}
        /\ asleep' = {p \in asleep : at[p] # "syncWait"}
        /\ UNCHANGED <<ret, copy, at, target>>
  /\ UNCHANGED <<list, stat, inSync, locked, misjudged>>

-----------------------------------------------------------------------------
\* A slip: a suspended archive begins too.
MayBeginSuspended == "RUNNING" \notin flag

\* The sender of a command begins with it.
MayBegin == flag \cap {"SUSPEND", "RUNNING"} = {}

\* FSi_SendCommand of a command for which the client waits, or of one that goes on
\* without it.  The error and the BUSY bit are stored just before interrupts are
\* disabled; one step, for until the file is in the list they are its thread's alone:
\* who might still look at it (see Judge) reads its SYNC bit only.
FSi_SendCommand(c) ==
  /\ at[c] = "out" /\ "BUSY" \notin stat[c]
  /\ error' = [error EXCEPT ![c] = "BUSY"]
  /\ list' = Append(list, c)
  /\ \E sync \in BOOLEAN :
       /\ stat' = [stat EXCEPT ![c] = {"BUSY"} \cup (IF sync THEN {"SYNC"} ELSE {})]
       /\ \/ /\ MayBegin
             /\ flag' = flag \cup {"RUNNING"}
             /\ Begin(c, c, "activate")
             /\ UNCHANGED asleep
          \/ /\ ~MayBegin /\ sync
             /\ Goto(c, "wait") /\ asleep' = asleep \cup {c}
             /\ UNCHANGED <<flag, target>>
          \/ /\ ~MayBegin /\ ~sync
             /\ UNCHANGED <<flag, at, target, asleep>>
  /\ UNCHANGED <<inSync, ret, copy, asked, locked, misjudged>>

\* A pass of the loop that waits for the command's turn.
Wait(c) ==
  /\ at[c] = "wait" /\ c \notin asleep
  /\ IF "OPERATING" \in stat[c]
     THEN Begin(c, c, "load") /\ inSync' = inSync \cup {c} /\ UNCHANGED asleep
     ELSE asleep' = asleep \cup {c} /\ UNCHANGED <<at, target, inSync>>
  /\ UNCHANGED <<flag, list, stat, error, ret, copy, asked, locked, misjudged>>

\* FS_WaitAsync of a command that was sent: the client does it itself when its turn
\* comes, or waits for its end.
FS_WaitAsync(c) ==
  /\ at[c] = "out" /\ "BUSY" \in stat[c]
  /\ asleep' = asleep \cup {c}
  /\ IF stat[c] \cap {"SYNC", "OPERATING"} = {}
     THEN stat' = [stat EXCEPT ![c] = @ \cup {"SYNC"}] /\ Goto(c, "wait")
     ELSE Goto(c, "waitBusy") /\ UNCHANGED stat
  /\ UNCHANGED <<flag, list, error, target, inSync, ret, copy, asked, locked, misjudged>>

WaitBusy(c) ==
  /\ at[c] = "waitBusy" /\ c \notin asleep
  /\ IF "BUSY" \in stat[c] THEN asleep' = asleep \cup {c} /\ UNCHANGED at
                           ELSE Goto(c, "out") /\ UNCHANGED asleep
  /\ UNCHANGED <<flag, list, stat, error, target, inSync, ret, copy, asked, locked,
                 misjudged>>

\* FS_CancelFile, by any thread or handler.
FS_CancelFile(f) ==
  /\ "BUSY" \in stat[f]
  /\ stat' = [stat EXCEPT ![f] = @ \cup {"CANCEL"}]
  /\ flag' = flag \cup {"CANCELING"}
  /\ UNCHANGED <<list, error, at, target, inSync, asleep, ret, copy, asked, locked,
                 misjudged>>

\* FS_SuspendArchive, and a pass of its loop.
FS_SuspendArchive ==
  /\ at[Suspender] = "out"
  /\ IF "RUNNING" \in flag
     THEN /\ flag' = flag \cup {"SUSPENDING"}
          /\ Goto(Suspender, "suspend") /\ asleep' = asleep \cup {Suspender}
     ELSE flag' = flag \cup {"SUSPEND"} /\ Goto(Suspender, "holds") /\ UNCHANGED asleep
  /\ UNCHANGED <<list, stat, error, target, inSync, ret, copy, asked, locked, misjudged>>

Suspended ==
  /\ at[Suspender] = "suspend" /\ Suspender \notin asleep
  /\ IF "SUSPENDING" \in flag
     THEN asleep' = asleep \cup {Suspender} /\ UNCHANGED at
     ELSE Goto(Suspender, "holds") /\ UNCHANGED asleep
  /\ UNCHANGED <<flag, list, stat, error, target, inSync, ret, copy, asked, locked,
                 misjudged>>

FS_ResumeArchive ==
  /\ at[Suspender] = "holds"
  /\ Proceed(Suspender, flag \ {"SUSPEND"})
  /\ UNCHANGED <<inSync, ret, copy, asked, misjudged>>

-----------------------------------------------------------------------------
Carry(p) ==
  \/ FSi_NextCommand(p) \/ Operate(p) \/ Load(p) \/ Store(p) \/ Proc(p) \/ Judge(p)
  \/ Clear(p) \/ SyncWait(p) \/ FSi_ReleaseCommand(p)

\* What a process does that has something to do.  A behaviour ends when a command is
\* misjudged: of what comes then nothing is said here.  (The file may be released twice,
\* and the list be empty where the code takes its first.)
Step(p) ==
  /\ ~misjudged
  /\ \/ Carry(p)
     \/ p \in File /\ (Wait(p) \/ WaitBusy(p))
     \/ p = Suspender /\ (Suspended \/ FS_ResumeArchive)
     \/ p = Reader /\ FS_NotifyArchiveAsyncEnd

\* What a client, or the suspender, begins.
Call ==
  /\ ~misjudged
  /\ \/ \E c \in File : FSi_SendCommand(c) \/ FS_WaitAsync(c) \/ FS_CancelFile(c)
     \/ FS_SuspendArchive

Next == (\E p \in Process : Step(p)) \/ Call

\* Who has something to do does it, the card answers, and who has suspended the
\* archive resumes it.
Fairness == \A p \in Process : WF_vars(Step(p))

Spec == Init /\ [][Next]_vars
FairSpec == Spec /\ Fairness

-----------------------------------------------------------------------------
\* Who has the archive's turn: a process that starts, carries out or ends a command,
\* a client that was told it may, or the card.
Turns ==
  {p \in Process :
     \/ at[p] \in {"activate", "operate", "load", "store", "proc", "clear", "release",
                   "next", "syncWait"}
     \/ at[p] = "judge" /\ (ret[p] # "ASYNC" \/ p \in inSync)
     \/ at[p] = "wait" /\ "OPERATING" \in stat[p]}
  \cup (IF asked /\ "IS_ASYNC" \in flag THEN {NULL} ELSE {})

\* The archive is RUNNING when exactly one has its turn, and rests when nobody has.
\* Nothing hands the turn over but the flags of the archive and the file.
OneTurn == Cardinality(Turns) = IF "RUNNING" \in flag THEN 1 ELSE 0

\* A command that operates is the first of the list, and the archive has the ROM.
OperatesFirst ==
  \A f \in File : "OPERATING" \in stat[f] => list # <<>> /\ Head(list) = f /\ locked

\* A file is busy while it is in the list, and its error says so until it has its
\* result.
BusyListed ==
  \A f \in File : /\ f \in ToSet(list) <=> "BUSY" \in stat[f]
                  /\ "BUSY" \notin stat[f] => stat[f] = {} /\ error[f] # "BUSY"

\* While the archive is suspended nothing operates, the ROM is free and the card has
\* nothing to do for it.
SuspendedRests ==
  at[Suspender] = "holds" => "RUNNING" \notin flag /\ Turns = {} /\ ~asked /\ ~locked

\* Only a busy file is released, as FSi_ReleaseCommand asserts.
ReleasesBusy == \A p \in Process : at[p] = "release" => "BUSY" \in stat[target[p]]

\* Every command ends, and who waits for its turn or its end goes on, unless the
\* command was cancelled before its turn; who suspends the archive holds it, unless
\* his request was overwritten; all of it unless a command was misjudged.  (A call may
\* not return all the same: it goes on with the commands of others as long as there
\* are any.)
CommandsEnd ==
  /\ \A f \in File :
       /\ []<>(f \in ToSet(list) => misjudged)
       /\ []<>(at[f] \in {"wait", "waitBusy"} =>
                \/ at[f] = "wait" /\ error[f] = "CANCELED"
                \/ misjudged)
  /\ []<>(at[Suspender] = "suspend" => "SUSPENDING" \notin flag \/ misjudged)
=============================================================================
