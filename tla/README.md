# A verification project for libntr

libntr is a C library for the Nintendo DS (and DSi): the operating system layer, the drivers
and the middleware of a game, in one build for the ARM9 (the main processor) and one for the
ARM7 (sound, wireless, card backup, touch panel, clock). It also builds for a desktop
simulator; the models are of the hardware builds. Everything above the hardware rests on
`libraries/os`: preemptive threads, their wait queues, message queues, mutexes, events, alarms,
the tick, and lock words both processors share. This project models that layer, the protocols
between the two processors and the parts above it whose threads, handlers and processors meet in
shared state: sound commands, the card, the file system's commands, and what wireless sends. It
checks them with TLC, and proves with TLAPS the core of the operating system layer, the start of
the two processors, and the protocols of the card and of the file system's archives.

 1. The system
 2. Modules, and how they correspond to the code
 3. Runs: what is checked, within which bounds
 4. Fairness
 5. Proofs
 6. Where the code disagrees with itself
 7. What is not modelled
 8. Plan

## 1. The system

### Components

The directories are below `libraries/`. *State* is what a component keeps between calls.

| component | files | state | operations | modelled |
|---|---|---|---|---|
| spin locks | os/src/os_spinLock.c | `OSLockWord` (flag, owner) in shared memory, the bus allocation, bitmaps of free lock IDs | lock, try, unlock a word; get and release IDs; `OS_InitLock` handshake | yes, but for the bitmaps of IDs |
| threads, scheduler | os/src/os_thread.c, os_irqHandler.c, os_terminate_proc.c | thread list, current thread, reschedule request, scheduler lock, state, priority and queue of each thread | create, exit, destroy, kill, join, sleep, wake, yield, set priority, disable and enable the scheduler, interrupt exit | yes, but for `OS_Sleep` and the check flags of `OS_WaitIrq` |
| thread list, wait queues | os/src/os_thread.c | `next` of the list; `head`, `tail`, `link` of queues | insert, remove, move | yes |
| message queues | os/src/os_message.c | ring buffer, first index, used count, two wait queues | send, jam, receive, read, blocking or not | yes |
| mutexes | os/src/os_mutex.c | type, count, owner, wait queue; each thread's queue of mutexes | lock, try, unlock; read and write locks and conversions; what the end of a thread unlocks | yes |
| events | os/src/os_event.c | bits, wait queue | wait, poll, signal, clear | yes |
| alarms | os/src/os_alarm.c | queue by time, the timer, per alarm its time, period and handler | set, set periodic, cancel (one, by tag, all), the interrupt | yes, but for `OS_EndAlarm` |
| tick | os/src/os_tick.c | 16-bit timer, overflow counter, reset request | get, set, overflow interrupt | yes |
| V-count alarms | os/src/os_valarm.c | list by line and frame, the count of frames and the line read last | set, set periodic, cancel (one, by tag, all), the interrupt | yes, but for `OS_EndVAlarm` |
| heap, arenas | os/src/os_alloc.c, os_arena.c | free and allocated lists per heap | allocate, allocate a fixed range, free with coalescing, create, add to, clear and destroy heaps | heaps yes, arenas and size queries no |
| reset, init | os/src/os_reset.c, os_init.c, os_interrupt.c | reset flags of both processors, bits they show each other | the order of `OS_Init`, the reset message, `OSi_DoBoot` | where the processors meet |
| other of os | os/src | VRAM exclusive, resources, emulator, cache, context, exceptions, printf, profiles | | no, see 7 |
| sound commands | snd/src/snd_command.c | free, reserved and waiting lists of commands, tags; the ARM7's queue of lists | allocate, push, flush, take replies, wait; the ARM7's command thread | yes |
| sound driver | snd/src | channels, sequences, capture | register writes and tables | no |
| PXI FIFO | pxi/src | hardware FIFOs, callbacks, ready bits | send, receive interrupt, handshake | the handshake; the FIFOs as far as their users need them |
| card | card/src | the card's lock, flags, the command and who runs it, the request under way | lock; backup commands, synchronous or by the card's thread; cancel, wait; ROM reads, pull-out | backup commands |
| file system | fs/src | archives with command lists and flags, files with theirs | send a command, carry out, end, cancel, wait, suspend, resume | the commands (SDK 4 branches) |
| wireless manager | wm/src | request buffers, port callbacks, data sharing | requests and indications; `WM_StartDataSharing`, `WM_StepDataSharing` and their callbacks | data sharing |
| wireless driver | wm_arm7/src | send queue, bitmaps of children, sequence numbers | put, send, poll, retry, flush and clean; connect, disconnect | a parent's ports |
| multiboot, exchange, browser | mb/src, wxc, prc, wbt | blocks, tasks, phases | protocols above wireless | no |
| devices | spi, rtc, ctrdg, camera, dsp, mi | one request at a time, registers | requests to the ARM7, register writes | no |
| graphics, arithmetic, text | gx, fx, math, std | register shadows, none | | no |
| simulator, tools, binaries | sim, sim7, standalone, components | | | no |

`PROJECT.json` lists them with their files.

### How the parts interact

* Within a processor there is one core. A call of the OS layer disables interrupts, changes its
  lists, and ends with `OS_RescheduleThread`, which switches threads at once, notes the wish
  for the end of the interrupt when it is called in a handler, or does nothing while
  `OSi_RescheduleCount` is positive. Threads are interleaved between calls, and inside a
  blocking call where it sleeps; interrupts come wherever they are enabled.
* Message queues, mutexes and events are loops around `OS_SleepThread(&queue)` and
  `OS_WakeupThread(&queue)`: a wakeup makes *all* sleepers runnable, and each looks again
  when it gets to run. `OS_WakeupThreadDirect`, `OS_KillThread` and `OS_DestroyThread` reach
  into such a loop from outside.
* The end of a thread calls back into the mutexes (`OSi_UnlockAllMutex`), wakes those that join
  it, takes it out of the queue it is linked in, and out of the thread list.
* Alarms, V-count alarms, PXI callbacks and DMA handlers run in interrupts and call the
  non-blocking half of all of the above.
* The processors share memory and two FIFOs. Lock words are taken with one swap instruction;
  everything else crosses as a word in a FIFO, whose receiver runs in an interrupt and usually
  sends a message to a thread. A full FIFO refuses the word, and the sender retries.
* Above that, work is handed over by flags in memory. Whoever ends a command of an archive goes on
  with the next, be it a client or the card's thread in a callback; who runs a command of the card
  sleeps for each answer of the ARM7; lists of sound commands are counted by a tag the ARM7 writes
  and the ARM9 polls.
* Wireless has two threads on the ARM7, one for requests and one for indications, which share the
  send queue under a mutex and the bitmaps of children without it. Data sharing runs on the ARM9,
  half in the application's thread and half in the callbacks of the port below it.

### What is hard here

* *Interleaving without locks in sight.* Nothing says which data a call protects; it is right
  because interrupts are off. Where they are not, it is easily missed:
  `OS_SetThreadPriority` reads the head of the list before it disables them.
* *Wakeups from elsewhere.* A thread woken directly, killed or destroyed inside a blocking call
  leaves a link behind, or must not.
* *Put-off work.* A reschedule wanted in an interrupt or with the scheduler disabled is noted,
  or dropped.
* *Two processors.* The attempt to take a lock word overwrites it even when it fails.
* *Handlers that call back.* An alarm's handler may set, cancel and make periodic any alarm,
  its own too, while the queue is half updated.
* *A timer that goes on while it is read*, whose overflow may be waiting in the interrupt flag.
* *Ends in the middle.* A thread ends or is killed while it owns recursive mutexes, waits for
  one, or was just woken for one.

* *Flags set by a load and a store.* The card's and the archive's flags are changed with interrupts
  enabled by threads and handlers at once; an update may be lost.
* *Requests whose answer is a timeout*, and are sent again while the ARM7 may not be free.
* *Radio.* Frames and answers are lost, packets are sent again to those that missed them, and
  children leave and come back while packets for them are under way.
* *Two processors that start.* Each begins with whatever bits the other left in a register, and
  counts polls against the other's delays.

`PROJECT.json` lists each of these under `hazards`, at its line.

### What makes each part correct

* spin lock: one holder on both processors; the bus is with the holder's processor; a free word
  is never left taken.
* threads: the most urgent runnable thread runs; a noted request is served before a thread runs
  again; every live thread is in the list once and in at most one wait queue.
* links: lists behave as sequences ordered by priority, and can be read from both ends.
* message queues: a bounded channel; nobody sleeps for what is there.
* mutexes: one owner, who keeps the lock until the matching unlock or its end; the end frees
  just what the thread owns; writers exclude; nobody sleeps for what is free.
* events: nobody sleeps for bits that are set, though of those a signal wakes one may clear them.
* alarms: the timer serves the first alarm in time; alarms fire in order, and do fire. V-count alarms
  fire after their line has begun, and do fire.
* tick: a reading lies between the start and the end of its call.
* start and reset: a processor goes on only with the other beside it and the locks cleared, hears
  a reset, and both come up again.
* heaps: a block is memory no other block has and stays until it is freed; the lists add up.
* sound commands: each command is at one place, executed once and in order; tags count lists.
* card: one command at a time; no request without an answer to come; every command ends.
* archive: one process has the turn; nothing operates while the archive is suspended; every
  command ends.
* ports: a child gets each packet once and in order, and each is reported when all have it.
* data sharing: all stations see the same sets, with data from the same moment, and never all wait.

## 2. Modules, and how they correspond to the code

| module | models | proofs |
|---|---|---|
| `OSLock` | what a lock promises: acquire, release | |
| `OSSpinLock` | one lock word with the card bus, on two processors | `OSProcessorProofs` |
| `OSOrder` | where threads go in lists and queues, as sequences | `OSSequenceLemmas` |
| `OSThread` | threads, scheduler, interrupt exit | `OSThreadProofs` |
| `OSThreadOrder`, `OSThreadList` | the thread list: as a sequence, and with its links | `OSThreadLinkProofs` |
| `OSWaitOrder`, `OSThreadQueue` | the wait queues: as sequences, and with their links | `OSThreadLinkProofs` |
| `OSChannel`, `OSMessage` | a bounded channel; the message queue | `OSMessageProofs` |
| `OSMutex` | recursive mutexes and the end of their owners | `OSMutexProofs` |
| `OSMutexRW` | read and write locks, conversions, the owner's links | `OSMutexProofs` |
| `OSEvent` | one event | `OSMessageProofs` |
| `OSAlarm` | the alarms and their timer | `OSTimerProofs` |
| `OSVAlarm` | the V-count alarms, the count of frames and the screen's interrupt | `OSTimerProofs` |
| `OSTick` | the tick | `OSTimerProofs` |
| `OSReset` | start and reset of both processors, the handshakes of PXI and `OS_InitLock` | `OSProcessorProofs` |
| `OSBlocks`, `OSAlloc` | what heaps promise; the heaps with their lists | |
| `SNDOrder`, `SNDCommand` | commands executed in order; the sound command protocol | `OSMessageProofs` |
| `CARDTask` | commands to the card's backup, on both processors | `StorageProofs` |
| `FSArchive` | the commands of an archive | `StorageProofs` |
| `WMPortOrder`, `WMPort` | what a sequential port promises; a parent's send queue, frames and retries | |
| `WMDataSharing` | data sharing of a parent and its children, over ports | `OSProcessorProofs` |

`OSThread` is the composition at the bottom: thread list, wait queues, scheduler and interrupts
in one state. It uses sequences where the code has links. `OSThreadList` and `OSThreadQueue`
have the links, and implement `OSThreadOrder` and `OSWaitOrder`, whose steps are the operators
of `OSOrder` that `OSThread` uses as well. `MCThread`, `MCThreadLinks`, `MCMutexes`, `MCWaits`,
`MCTimers`, `MCProcessors`, `MCSound` and `MCStorage` have the instances TLC checks, `MCThreadList`,
`MCMutexRW` and `MCAlarm` those of the counterexamples.

The abstract specifications are `OSLock`, `OSThreadOrder`, `OSWaitOrder`, `OSChannel`, `OSBlocks`,
`SNDOrder` and `WMPortOrder`; each detailed module has an INSTANCE of its own with the mapping.

Conventions that hold in every module:

* *A call is one action* where the code has interrupts disabled from its first read to its last
  write. A blocking call is one action per pass of its loop, from where the thread runs to where
  it returns or sleeps. Where the code reads before it disables interrupts there are more:
  `OSThreadList.ReadHead`, `OSTick.OS_GetTick` and `OS_GetTick_Return`, each store of
  `OSSpinLock`, and `p->flag |= bit` of the card and the archives, a load and a store.
* *Who calls what is open.* Preconditions are those the code asserts or its callers keep, and
  are named where they restrict (below).
* The message queues, mutexes and events keep of the scheduler only that a sleeping thread does
  not run until it is woken. That who is woken is runnable, and the most urgent runs, is
  `OSThread`'s part. Any runnable thread may go on, which includes every choice of the
  scheduler.
* "Slips" are operators no action uses: the changed definitions the `mutants` of `PROJECT.json`
  put into the model, to see that each property notices.

State by module, beside the code's own names given with the VARIABLES:

* `OSSpinLock`: a thread is its lock ID. `irqOff` is the thread that disabled its processor's
  interrupts; only it runs there. `pc` is the place in the call, one per store. Identifiers
  carry the processor, as `OS_MAINP_LOCK_ID_START` and `OS_SUBP_LOCK_ID_START` make them.
* `OSThread`: `threadList` and `waiters[q]` are the lists; `waiters[t]` is the join queue of
  thread t. `exiting` holds the threads `OS_KillThread` redirected to `OSi_ExitThread`. `inIrq`
  is IRQ mode, `halted` is `OS_Terminate`, `skipped` remembers that a disabled scheduler made a
  call skip its switch. `Calls(t)` says that t is the running thread.
* `OSMessage`, `OSEvent`: `call[t]` is the request the thread is in, `asleep` the threads
  stopped in `OS_SleepThread`, the queues the linked ones: a thread woken directly is linked and
  not asleep.
* `OSMutex`: `want[t]` is the mutex whose `OS_LockMutex` t is in; `killed` threads run
  `OSi_ExitThread` next; `ended` ones may be created again.
* `OSMutexRW`: `reads` and `writes` are what threads hold by the calls that returned; the code
  has type, count and first owner only.
* `OSAlarm`: times count from now, -1 is all that is past: the code only compares. `serving` is
  the alarm whose handler runs, between `OSi_ArrangeTimer` and `OSi_ArrangeTimer_Return`.
* `OSVAlarm`: frames count from `OSi_VFrameCount`, -1 is every earlier one. The handler is a step to
  its first alarm, one for each further, and one each for arming the alarm that is for later and for
  looking whether its line has come, for a line may begin between them (`pc`). `lcd` is the screen: it
  raises the interrupt as the line begins that is armed, not when the register is written with the
  line that is. `wraps`, `came` and `hurried` are history: the frames that began since a line was
  read, the alarms whose line began while they wait, those for which a frame too many was counted.
* `OSTick`: `time` is the true number of ticks, `low` what an `OS_GetTick` in progress has read.
* `OSReset`: `at[p]` is the place of a processor between `PXI_InitFifo` and `OSi_DoBoot`, in the
  order `OS_Init` calls them; `bits` is the nibble each shows the other; a word of the FIFO is the
  reset message, another's, or one of the life before. `joined` and `wrote` carry the two
  assumptions about time (see 4).
* `OSAlloc`: an address counts units of 32 bytes; `cell` has the headers of the cells on the lists
  and nothing else, so reading any other word as a header is an error TLC reports.
* `SNDCommand`: `ring`, its indices and the tags are those of the code, with a smaller range of
  tags; `call[t]` is the place of a thread in a blocking call, whose loops enable interrupts
  between their passes; `irqOff` the thread that waits for room in the FIFO without enabling them.
* `CARDTask`: `at[t]` is where a thread is, `stage` the request of the command it runs; `received` is
  the ARM7's `flag & 0x10`, which lies in between the arrival of a request and its thread's work.
* `FSArchive`: a file is named after the thread that uses it; `target[p]` is the file whose command
  p carries out, `ret[p]` what the archive's procedure returned to it, `copy[p]` a flag loaded and
  not yet stored. The procedure itself is: it answers at once, or it asks the card. `misjudged` is
  history: a process has taken a client's next command for the one it carried out (see below).
* `WMPort`: `ready` and `frame` are the queues by priority and the packets in the frame; `request` is
  the call of the request thread with the bitmaps it has read; `got` is what a connection of a child
  was given, in order.
* `WMDataSharing`: `info` has the `WMDataSharingInfo` of every station. A set is its number and, for
  each station, the number of the set it had read when it gave its piece: what a station calculates
  from a set is its next piece. `step` is the place of the parent's `WM_StepDataSharing`, `told` the
  indications that will interrupt it, `port` the packets of the port below. `strayed` is history: in
  double mode a set was refused, or the parent's piece went past one (see below).

Preconditions of callers that the models assume:

* A thread that was woken directly while linked sleeps again only in that queue, as the blocking
  calls do, and a linked thread keeps its priority (`OSThread`, `OSThreadQueue`). In the code
  nothing enforces it: a queue is not put in order again, and a thread behind a less urgent one
  could be linked twice. It is listed as a hazard.
* `Careful` of `OSThreadList`: while a call has read the head, the head stays. Without it the run
  `thread_list_unmasked` loses a thread.
* `Careful` of `OSAlarm`: a handler does not make its own alarm periodic, and does not cancel its
  own periodic alarm after other calls. Without it `alarm_end` loses an alarm.
* `OSVAlarm`: the handler of a periodic alarm does not make its own alarm periodic; the handler of the
  interrupt would put it into the list a second time (os_valarm.c:370). An alarm is always set with
  the same delay. `Latency`: fewer than all but one of a frame's lines pass until an interrupt is
  handled. No line is skipped by `GX_SetVCount`.
* `OSMutexRW`: a mutex is used by the read and write calls only, threads unlock what they hold,
  and a reader converts a lock it took first.
* `OSTick`: interrupts are off, and an `OS_GetTick` lasts, for less than half of the timer's
  range, which is what the test `countL & 0x8000` relies on.
* `FSArchive`: one thread suspends an archive, and each file is used by one thread.
* `OSAlloc`: blocks are freed to the heap they came from; heaps are made of, and given, memory no
  other cell has (`Apart`), which the code's assertions are meant to say (see `alloc_fixed` in 6).
* `WMPort`: a port keeps to one priority; the packets a child misses in a row, because they are not
  for it, are fewer than the range of sequence numbers less the window, 2^15 - 128.
* `WMDataSharing`: a child shares from the moment it is connected, and comes again only after the
  parent's ARM9 has been told it left and has finished the put under way then (`Forgotten`: a
  radio handshake against an interrupt).

In two places the code does what its own protocol does not allow for, with no fault of a caller. They
are modelled as they are, a history variable remembers that it has happened, and the properties
of that part speak of behaviours up to then. TLC finds them violated without that condition.

* `misjudged` of `FSArchive`: `FSi_TranslateCommand` reads the file's SYNC bit (fs_command.c:55) after
  the procedure has asked the card, whose thread may have ended the command by then and its client
  have sent another. If that one is synchronous, the old executor waits for its answer, releases it
  and gives away its turn (`ReleasesBusy` fails). The model ends there (`~misjudged` in `Step` and `Call`).
* `strayed` of `WMDataSharing`, in double mode only. `WmDataSharingReceiveData` reads `writeIndex` once more
  with interrupts enabled (wm_ds.c:463, 467); when a set is finished in between, the parent's piece goes
  past the set that lacks it (`StepGiveNext`). And after a full send queue `WM_StepDataSharing` puts the
  last set that was finished (wm_ds.c:196), which may be another than the refused one (`StepRetry`).
  Without double mode the refused set is always the last, and the second read is not made. A *child's*
  full queue does no harm in either mode.

## 3. Runs: what is checked, within which bounds

Most runs check two or three components at a time: a variable `part` says at the start which one
a behaviour is about, and the others keep their initial state. That is a disjoint sum, not a
composition; it explores each component exactly as a run of its own would. TypeOK is checked in
each, alone or as a conjunct of another invariant, and not mentioned again.

| run | instance | distinct states |
|---|---|---|
| `spinlock` | two threads on each processor; start and reset from all 16 values of each processor's bits, FIFOs of three words; a parent and two children that share data, the parent reading three sets, or four in double mode, one child coming or going, one put refused (in double mode one of the two) | 207 394 |
| `thread` | launcher, idle and two more threads, two priorities, the IRQ queue, scheduler disabled once | 443 922 |
| `thread_links` | list of four threads, three priorities; two wait queues, four threads, two priorities | 93 352 |
| `mutexes` | three threads, two mutexes, counts to 2; three threads, one mutex, 4 read and write locks; a port with two packets and two children, two of which come or go, queue of two, numbers modulo 8 | 176 710 |
| `waits` | two threads, two messages, two places; two threads, two bits | 109 908 |
| `timers` | three alarms with delays to 2; two alarms with delays to 3; a timer of 8, 40 ticks; two V-count alarms, one with the delay of a frame and one with none, frames of 3 lines, interrupts a line late | 104 061 |
| `sound` | two callers, two commands, one list waiting at most; one caller, two commands, two lists | 388 119 |
| `storage` | two heaps in an arena of 7 units; two clients of the card, commands of two chunks or sectors; two clients of an archive, one that suspends it | 313 468 |
| `thread_list_unmasked`, `mutex_rw_end`, `alarm_end`, `alloc_fixed` | counterexamples, see 6 | |

**spinlock.** `ImplementsLock`: the word is a lock with one holder, although every failed attempt
swaps its own ID into the word. `BusFollowsHolder`: whoever may use the bus has it on its
processor; the ARM7 never allocates it and relies on the ARM9 giving it back before the word
becomes free. `SomeoneGetsIt` (liveness): when from some time on at most one thread of each processor
uses the word (`OneEach`), the word does not stay taken, and one of those that try gets it; with two of
one processor it need not be, see 4. Two threads on a
processor are needed for the case that one interrupts the other between two stores, two on the
other for a contest on both sides; more add nothing the word could distinguish.
`StartTogether`: a processor that is up has the other with it in the same life, with no word of a
former one left; the ARM7 goes on after the ARM9 has cleared the locks, both with this life's IDs;
and a reset finds its callback registered. `BothRun` (liveness): after power on and after every
reset both processors run, from any bits the register may hold and with other words in the FIFOs.
All 256 pairs of bits are initial states; three words make a FIFO neither full nor empty in between.
Data sharing: `SetsAgree`: any two stations that hold, have read or are sent a set of the same number
have the same set; a set under way is still in its slot of the ring, and so is a child's piece; the
parent reads all sets in turn and the assertion at wm_ds.c:520 holds; and as long as nobody comes
or goes a set has of *every* station what it gave at the same moment, one set before, or two in
double mode. `NobodyWaits`: where no step has anything to do, nothing is sent and no callback comes,
everybody has read everything: the stations, of which each waits for all others, never all wait.
Both are claimed of every behaviour without double mode, and with it as long as the parent's queue has
refused no set and its piece has gone past none (`Orderly`; children's queues may be full). No property
says anything of what comes after, so it is not explored (`CONSTRAINT Explored`, which also bounds double
mode to a change or a refusal); the two other parts have no state the constraint is about.
The parent reads as many sets as it takes to begin every slot of the ring anew in either mode while a
child leaves that has given its piece, has not, or is in a set that is put and not sent. SYMMETRY
exchanges the children; the liveness properties are about the other parts.

**thread.** `HighestRuns`: outside of an interrupt, the running thread is the first runnable one
of the list, unless a call skipped its switch since the scheduler was disabled. `NothingOwed`: a
noted switch is made before a thread runs. `ThreadsAreListed`: each live thread is in the list
once, by priority, and linked at most once, where its queue field says, so no wakeup revives an
ended thread. `DisabledOnlyIrqQueueSwitches`: with the scheduler disabled, threads change only
when the interrupt's end serves the IRQ queue. Two priorities give less, equal and more urgent;
two threads beside launcher and idle give a killer and a killed, a sleeper and a waker, with
interrupts in between. Threads a and b are exchangeable (SYMMETRY; no liveness in this run).

**thread_links.** `LinksKeepOrders`: the list and the queues are what `OSOrder` says they are
after every operation, with a call of `OS_SetThreadPriority` interrupted after it read the head,
as long as the head stays. `BackIsForth`: a queue read by `prev` from its tail is the queue; links
of threads that left, ended or were created again reach nobody. Four threads cover head, tail, a
middle, and one more to move.

**mutexes.** `QueueIsOwned`: a thread's queue of mutexes is what it owns, each once, and empty
after its end. `NobodyForgotten` and `NoLockForgotten`: nobody sleeps for a free mutex.
`KeptUntilUnlocked`: an owner loses a mutex only by unlocking it as often as it locked it, or by
its end. `LocksAgree`: a writer is alone, and type, count and writer are what the threads hold, so
no unlock is turned away. `ConvertingSleepsForever`: who has to wait to convert a lock is never
woken, because its own lock keeps the mutex from becoming free. Three threads: an owner, one that
waits, and one that ends either; two mutexes for the order of the owner's queue.
The ports: `ImplementsOrder`: whatever frames and answers are lost, a child is given each packet put
while it was connected once and in order, although the packets it missed are sent again before later
ones, and to those that have them too; a packet is reported only when nobody is owed it.
`AllReported` (liveness): every packet is reported, though children leave while packets for them are
put, queued or in the frame. It excepts a parent without children: a packet whose bitmaps were read
before the last child left, and which is put after the queue was cleaned, stays unreported until
somebody connects. Two packets, with numbers from 6 modulo 8, wrap; two children differ in what they
missed; two changes let one leave and come back.

**waits.** `ImplementsChannel`: sends, jams, receives and reads, by threads and handlers, are those
of a bounded sequence. `NobodyForgotten`: no sender sleeps while there is room and no receiver
while there is a message, also after direct wakeups and ends. `NobodySleepsOnSetBits`: no thread sleeps
in a wait for an event whose bits are set, for all or any of them, clearing them or not: those a signal
woke in vain, or that were woken directly, are found by the next one. `EachIsServed`
(liveness): who is in a call gets its message, room or bits unless others take them. Two places
make the ring wrap in both directions and be neither full nor empty in between.

**timers.** `TimerServesFirst`: while alarms wait, the timer is on and due no later than the first
of them, or its interrupt is pending. `QueueIsUsed`: the queue holds the alarms in use, once, in
order, linked both ways. `FiresInOrder`: an alarm is overtaken only by one that is due earlier.
`AlarmsFire` (liveness): an alarm that is set fires or is cancelled. `TickIsCurrent`: what `OS_GetTick`
returns was the tick at some moment of the call. The timer's range is 2 for three
alarms, so that delays below, at and above it occur; the pair has delays up to 3. SYMMETRY
exchanges the three alarms; the liveness property is about the others, which are not exchanged.
The tick's timer of 8 overflows five times in 40 ticks, with the interrupt handled early and late
on either side of half its range.
V-count alarms: `FiresAfterItsLine`: an alarm fires only after its line has begun since it was set,
fired or was put off, although nobody tells the code when a frame begins. It excepts alarms for
which a frame was counted that had not begun, which happens: the handler counts with the line before
the interrupt's (os_valarm.c:338), and when an alarm was set, or cancelled and another set, between
the interrupt and its handler, a later line has been read already. A periodic alarm may then fire
twice in a frame, and an alarm further down, with a small delay, is taken for late and put off.
`AlarmsFire` says that an alarm with a delay of a frame fires or is cancelled, unless for ever alarms
are set while the interrupt waits: these may arm another line, and when the same line is read in
each frame none is counted. Two alarms and three lines have every order of lines in a frame and
over its end, and a line that begins between any two steps of the handler.

**sound.** `ListsAndTags`: a command is on the free list, the reserved list, one of the lists sent, or
with the thread that took it; what the ARM9 waits for is what the ARM7 has done, works on, has
queued or will get, in this order; the ARM7's queue is never full when a list comes; and
`SND_IsFinishedCommandTag` is right about each list, when tags wrap as well. `ExecutedInOrder`: the
protocol implements `SNDOrder`. Two commands with one list waiting make every kind of wait happen (for
a command, for the queue, for the FIFO, which has room for one word); the tags run through all
their six values. `LoneCallsReturn` (liveness): the calls of a single caller return. Two callers need
not: each may hold, unpushed, the command the other waits for, so it is about a part with one. Two
lists may wait there, so that a reply may leave one; the tags run through all their eight values, and
the property says of that part what `ListsAndTags` says of the other. SYMMETRY exchanges the two
callers and their commands; the liveness property is about the other part.

**storage.** `HeapsSound`: what `OS_CheckHeap` looks for never happens: links both ways, sizes that add
up, free cells in order and apart. `KeepsBlocks`: heaps implement `OSBlocks`: blocks never share
memory, and stay until they are freed. An arena of 7 units has room for two heaps or for three
blocks, whose freeing in any order joins cells on no side, either and both. `CardAnswers`: one command
runs at a time, and who sleeps for an answer has exactly one request, piece of work or answer on
its way, timeouts and repetitions included; a stream's success means all its chunks are done.
`ArchiveTurns`: exactly one process has the turn of a running archive, though only flags hand it
on; what operates is the first command; while an archive is suspended nothing operates and
the card is free; a file is in the list while it is busy: all until a process misjudges a command
(see 2). `CommandsEnd` (liveness): the card's command
ends and its next can begin; each command of an archive ends, who waits for a turn or an end goes on,
and who suspends gets the archive. It excepts three things the code does: a synchronous command
cancelled before its turn leaves its client asleep for ever (fs_archive.c:574 wakes it without
OPERATING), a SUSPENDING bit may be overwritten by a store of an older flag, and the misjudged command.

`CHECK_DEADLOCK FALSE` is set for the threads (the system halts when a thread ends with the
scheduler disabled), for the mutexes (threads may wait for each other, and for themselves in
`OS_LockMutexFromRToW`; an application's lock order is not the library's; and the bound on packets
ends the ports), for sound (two callers may wait for each other's commands) and for storage (a
cancelled client sleeps for ever). Where that could hide a deadlock the code should not have, a
property speaks of it: `NobodyForgotten`, `NoLockForgotten`, `AllReported`, `LoneCallsReturn`, `CommandsEnd`.

## 4. Fairness

Only liveness uses it, and only what the hardware or the loop itself gives.

* `OSSpinLock`: weak fairness of each *processor*: as long as any of its threads is in a call, one of
  them goes on (`Execute(p)`), whichever the scheduler chooses; and threads that have the word free it. Fairness of each
  thread is not assumed, for a thread that spins never sleeps: with strict priorities it can keep the
  holder, on its own processor, from running for ever. So `SomeoneGetsIt` concludes nothing where two
  threads of one processor go on using the word; that starvation is listed as a hazard.
* `OSMessage`, `OSEvent`: weak fairness of the next step of each runnable thread in a call: no more
  urgent thread keeps the processor for ever. Strong fairness is not assumed, so `EachIsServed`
  ends where others take what there was.
* `OSAlarm`: time passes, the timer's pending interrupt is taken, handlers return. `OSVAlarm` likewise:
  lines begin, the interrupt is taken, the handler goes on. In `MCTimers` each holds for its part.
* `OSReset`: each processor goes on, and takes the interrupt of a word in its FIFO. The handshake of
  `PXI_InitFifo` depends on time, and the model assumes what its constants give: the ARM7's
  `OS_SpinWait(1000)`, some 30 microseconds, lasts longer than a turn of the ARM9's loop, unless the
  ARM9 has entered the loop just then; and the 1000 polls of the ARM9, at least 150
  microseconds, last longer than a turn of the ARM7's.
* `SNDCommand`: the ARM7's interrupt and command thread go on; a thread in a call goes on, and pushes
  what it took.
* `CARDTask`: each runnable thread that is in a call goes on, the ARM7 takes the request and answers,
  with whatever result.
* `FSArchive`: each process in a call goes on. That clients call, cancel or suspend is not assumed.
* `WMPort`: both threads of the ARM7 go on and every exchange ends. Strong fairness is needed where
  others use the same turn: picture frames go on beginning, frames are made for packets and not for
  pings only, and not *every* exchange is disturbed (`AllAnswer`), without which no radio protocol
  reports anything.

## 5. Proofs

TLAPS 1.4.5 checks the modules named `...Proofs` and `...Lemmas`. A theorem about a component that has
a run of its own is stated of the component's `Spec`; where a run checks several, the proof module
EXTENDS the run's MC module, the theorem is stated of its `MCSpec` (of `MCSound`: `SoundSpec`) and names the
property as the run does, and a lemma says that each part of a behaviour takes its own steps or
stands still. The
theorems hold for every value of the constants that meets the ASSUMEs of the modules and, for those
an MC module passes on to a component, the hypothesis the theorem names: `MaxLocks` a number,
`TickAssumption` (an even range of the timer), `ResetAssumption` (four bits, FIFOs with room),
`CardAssumption` and `ArchiveAssumption` (the card's thread, the suspender and the reader are nobody
else), `SoundAssumption` (queues with room, an even range of tags wider than what may wait, two
commands or more), `ShareAssumption` (no child is station 0, and a set is not nothing). Bounds such as
`MaxNesting`, `MaxCount`, `MaxTick`, `MaxLen` and `MaxRetry` are arbitrary numbers there. What each property needs besides itself is an inductive invariant, which TLC checked
on the run's instance before it was proved.

**OSProcessorProofs** (its invariants are defined in `OSProcessorInv`, which has no theorem).
`MutualExclusion` is not inductive: one must know that `lockFlag` is 0
exactly when nobody is between taking and freeing (`FlagTellsFree`), which failed swaps preserve
because they find it non-zero and leave it so; that `ownerID` names the one thread past the store
of it (`OwnerIsHolder`), because the unlock is guarded by it alone; and where the bus is at every
place (`BusInv`). From these, `SpinLockExcludes`, `BusIsHolders`, and `SpinLockIsLock`: the swap
that succeeds is an acquire, the last store a release, every other step a stutter.
`ProcessorsStartTogether` (`StartTogether`) needs a relation between the two counts of `PXI_InitFifo`.
The ARM7 counts down and the ARM9 up; once the ARM7 is below 6, the ARM9's count plus the ARM7's is at
least 5 (`CountOK`), so it has reached `Started` when the ARM7's is 0 and leaves when it reads that 0,
and the ARM7 cannot leave while the ARM9 is in the loop. That the sum is kept rests on what each knows
of the other's bits (`EchoOK`): an answer is to the number shown, unless the ARM9 has only begun to
count. The other parts are where the ARM7 may be for each place of the ARM9 (`PlacesOK`), the bits out
of the loop (`SilentOK`), what words can be in the FIFOs (`WordsOK`), and the lock word (`LocksOK`).
Of data sharing: `SharersAgree` (`SetsAgree`) and `SharersNeverAllWait` (`NobodyWaits`), for any children
that come and go, any number of sets, and any number of full queues; in double mode until the parent's
queue refuses a set or its piece goes past one (`Orderly`: what strayed stays so, `StrayedStays`, so each
step of an orderly behaviour begins in a state that has the invariant). The
invariant (`ShareInv`) is a count that goes round. The parent's ring has the numbers of its sets where
its three indices say (`RingOK`, `SentOK`); what is finished and not reported is in the port, among the
callbacks on their way, or is one set put next or refused (`PortOK`, `PendingOK`), and numbered from
there. A child's ring holds the sets that follow the one it read last and that lead up to those in
the port (`ReadsOK`), and its pieces are those of the sets before (`KidOK`, `PiecesOK`). So the sets a child
is given or still to read, with its pieces on their way, are as many as the sets under
collection that lack its piece (`BalanceOK`): exactly while nobody comes or goes. When a child comes while
a refused set is put again it may have one to answer more than anybody waits for; the
balance says when (`Exact`), and the parent drops that piece. From the balance follows that a set
that lacks somebody's piece is not waited for in vain, which is `NobodyWaits`, and that while nobody
comes or goes, a piece goes into the set it was given for (`AnswersInOrder`), which is what `InStep`
says. A callback does several things in a row, and it comes
between any two steps of `WM_StepDataSharing`; so each part of the invariant has the parent's state, its
port, its callbacks and the set yet to be put as parameters, and each operation of the code
(`SendKeeps`, `AnswerKeeps`, `RetryKeeps`, ...) is shown to keep it once, wherever it is called from.

**OSThreadProofs.** `HighestRuns` speaks of threads and says nothing in an interrupt. The invariant
adds `OwedOrChosen` (in a handler as well, without a noted or skipped switch, the interrupted
thread is still the one to choose), `IdleRunnable` (the idle thread is in the list and ready, so
there is always a thread to select) and `RunningListed` (for `OS_YieldThread`). `ReschedulingStep`
does once what all calls that end in a reschedule have in common, whatever they did to list and
states; each call adds its own facts. `OSSequenceLemmas` has what inserting and removing do to
sequences. Results: `TypeCorrect`, `MostUrgentRuns`, `NoRequestIsLeft`.
`ListsHoldTheLive` (`ThreadsAreListed`) needs besides that the list and the queues are in the order of
the priorities (`ListInv`, `LinkInv`): `OS_SleepThread` of a thread that is still linked finds it by
looking only as far as the less urgent ones, and would otherwise link it twice. `OnlyInterruptsPreempt`
(`DisabledOnlyIrqQueueSwitches`) is an action property; it needs that no switch is noted
while the scheduler is disabled (`AskedWhileEnabled`).

**OSThreadLinkProofs.** That the linked lists behave as the sequences `OSThread` has:
`ListsKeepOrders` (`LinksKeepOrders`, a refinement) and `WaitersBackIsForth` (`BackIsForth`), for any
threads, priorities and queues. Both have the hypothesis `Careful`, without which
`thread_list_unmasked` refutes the first. The invariant says that the links are those of a sequence
that holds each of its threads once (`IsThreadList`, `IsWaitList`), whatever the links of other threads
are. Of the thread list it adds that the sequence holds the live threads (`ListOK`), so that a call
finds the thread it looks for, and that every head read before interrupts were disabled is
still the head (`HeadsOK`). Of the queues it adds that a thread in a queue lives and has it as
`OSThread.queue` (`QueuesOK`): so it is in one only, an end finds it there, and stale links of others
are outside all lists; and that each is in the order of the priorities, since a thread that is
still linked is looked for only among those not less urgent. `OSSequenceLemmas` has what this
and the alarms share: a walk along the links of a list returns its sequence (`WalkFinds`), and
linking and unlinking between neighbours insert and remove (`FollowsInserted`, `FollowsRemoved`, and
both ways `ListInserted`, `ListRemoved`). What a walk returns is a function defined by recursion; its
value is found from a least place where it would differ. This is induction by hand, over one
list that is given, and not over all data.

**OSMessageProofs.** `NobodyForgotten` needs that sleepers are linked in the queue that will wake
them (`SleepersAreLinked`). The refinement needs the arithmetic of the ring (`SlotShifts`): adding
to the first index modulo the size moves places by one, in both directions, and no two of the used
places coincide. Results: `NobodyIsForgotten`, `SleepersStayLinked`, `MessageQueueIsChannel`.
Of the event: `NoWaiterIsForgotten` (`NobodySleepsOnSetBits`): a signal wakes all that are linked, and
every sleeper is.
Of the sound commands: `CommandsAreListed` (`ListsAndTags`) and `CommandsExecutedInOrder`
(`ExecutedInOrder`, the refinement of `SNDOrder`), for any number of callers and commands, any depth of the
queues and any range of the tags, under `SoundAssumption`, which is `SNDAssumption` of the callers (TLC
evaluates it: `CommandAssumption`). The
code has one field `next` for all lists, so neither property is inductive: what a step does to one
list is seen by the others only through links. The invariant (`SoundInv`) says that there are sequences of
commands whose links these are: f free, r reserved, and one for each list sent (`ChainsOK`); that
they have no command in common, nor with those threads hold, and together have all (`ApartOK`); that the
ARM7 has done d of those sent and has the others in order, one at work, some queued, the rest on
the FIFO among words that are no lists (`TagsOK`); and that who is in a call holds no command (`CallsOK`).
A list taken back goes behind f, a command taken off the front of it, one pushed behind r, a flushed r
becomes the last list sent; each changes at most one link of a sequence (`FollowsJoined`,
`FollowsAppended`), and the others are kept because they are apart (`FollowsKept`).
For the order, what is pending is found from the links: the rest of the list at work, the lists
queued, those on the FIFO and the reserved one (`IsOrdered`), one after the other (`Listed`). The ARM7 works
on a rest of a list (`FollowsRest`), and all of these are apart from the free list and from what
threads hold (`WordsFound`), so links written there change nothing of what it will execute. A flush, a
word received and a list begun move a sequence over a boundary, which joining does not see
(`ListedSent`, `ListedQueued`, `ListedTaken`); a push is an append and an execution a tail.

**OSMutexProofs.** What is said of owners (`OwnersOK`: queue, owner and count agree) and of those
who wait (`NobodyForgotten`) is kept apart and joined per action. Results: `ExitFreesItsOwn`,
`NobodySleepsOnFreeMutex`, `OwnerKeepsMutex` (an action property, from the same invariant).
Of the read and write locks: `LocksAreCounted` (`LocksAgree`), `NobodySleepsOnFreeLock`
(`NoLockForgotten`) and `ConvertersAreNotWoken` (`ConvertingSleepsForever`). The locks of a mutex are
the cardinality of a set of pairs; that a call adds or takes one of them (`HeldMore`,
`AgreesMore`, `AgreesLess`) and the type, count and owner with it is what each call is reduced to.

**OSTimerProofs.** Of the alarms, for any number of them and any delays and periods:
`AlarmsAreQueued` (`QueueIsUsed`), `TimerComesInTime` (`TimerServesFirst`) and `AlarmsKeepTurns`
(`FiresInOrder`). All have the hypothesis `Careful`, without which `alarm_end` refutes the first. The
module has the links of the code, so the invariant says that head, tail and links are those of some
sequence of alarms in the order of their ticks (`QueueOK`, `IsList`), and each step is shown to
insert into it, remove from it or take its first. An alarm whose handler runs is out of the queue;
until the handler calls anything its links are still those of the first (`OwnLinks`), so that a
cancellation by them does no harm, and a handler that has called may no longer cancel it
(`CallsInHandlers`). That a periodic alarm is put back in the future needs its start to be past by a
period at most (`PhaseOK`). Of the tick: `TickWasCurrent` (`TickIsCurrent`), for every range of the timer. The invariant is
that of an unfinished addition: the time is what the counter, the timer and an interrupt not yet
handled say together (`TimeIsCounted`), and `OS_GetTick` knows its result from when it has read the
timer (`ReadIsKept`), because less than half a range passes until it reads the rest.
Of the V-count alarms: `LinesBeginFirst` (`FiresAfterItsLine`), an action property, for any number of
alarms and lines and any latency below a frame (`ScreenAssumption`). The invariant says of each alarm in
the queue that its line began, that a frame was counted for it before it began, or that the line is still
to come in the frame the alarm has (`LinesToCome`); of the handler, that the line it works with is at most
the time the interrupt was late behind the screen, a frame's end in between included (`ReadLately`), so
that no more than one frame is missed; and that it arms the screen only for an alarm that is for later
(`ForLater`). The order of the queue is not needed for it.

**StorageProofs.** Of the card: `CardAnswersAlways` (`CardAnswers`: one command at a time, and for every sleeper an
answer is to come). A request is at one place (`RequestOK`) only because one thread runs commands
(`CommandOK`), which holds because who holds the lock begins no other before the first has ended
(`LocksOK`). The load and the store of `p->flag |= bit` may lie around the other thread's; the invariant
says that the bits which tell who works are the same at both (`CardCopyOK`): a cancel can be lost, nothing
else.
Of the archives: `ArchiveTakesTurns` (`ArchiveTurns`). The code has no lock on a turn: flags hand
it from a client to the procedure, to the card's thread and back, one store at a time. The invariant
says who has the turn at each place (`HasTurn`, `CardHas`), that it is one while the archive runs
(`TurnOK`), that suspending falls between two turns (`SuspendOK`), what the first file and the target
of whoever has the turn are to each other (`FilesOK`, `TargetsOK`), what the marks for the card's answer
say (`MarksOK`), and what each flag word loaded and not yet stored may differ in (`CopyOK`). A store
of an older word is harmless only where these bits agree. The theorem has the condition of the property,
that no command was misjudged: the model is that of the code, without a restriction on clients, and the
invariant is shown to be kept by every step that misjudges nothing (`JudgeKeeps`).

Only model-checked: of `OSAlloc` `HeapsSound` and `KeepsBlocks`, of `WMPort` `ImplementsOrder`, and all
liveness: with ENABLED it is out of the prover's reach, and so are induction theorems, which take an
operator. A lambda passed to `SelectSeq` is opaque to the provers, so the modules with proofs take
elements out of sequences by an operator with a name (`Remove`, `Without`).

## 6. Where the code disagrees with itself

Each is a run that must end in a counterexample to what an assertion of the code states.

* `thread_list_unmasked`: `OS_SetThreadPriority` reads the head of the thread list before it
  disables interrupts (os_thread.c:1297). A switch in between may put another thread at the head;
  the thread list then loses a live thread, and its end fails "Cannot remove thread from list."
  (os_thread.c:365).
* `mutex_rw_end`: the last reader unlinks the mutex from its *own* queue (os_mutex.c:274), the
  first one has it linked. The first reader's end then finds a mutex it does not own
  (`SDK_ASSERT(mutex->thread == thread)`, os_mutex.c:100).
* `alarm_end`: a periodic alarm is out of the queue while its handler runs, with stale links
  (os_alarm.c:317). A handler that sets another alarm and then cancels its own unlinks by them
  (os_alarm.c:248): the other alarm is lost, and `OS_EndAlarm`'s assertion "Cannot end alarm system
  while using alarm." (os_alarm.c:91), which looks at the head only, passes.
* `alloc_fixed`: `OS_AllocFixed` is to fail for a range that meets a block (os_alloc.c:355), and
  `RangeOverlap` (os_alloc.c:75) asks only whether a cell begins or ends in the range: one strictly
  inside a block passes and is given away a second time.

Not counted there, because no text of the repository speaks of them, are the cases named as
exceptions above: the command whose SYNC bit is misread, the cancelled client that sleeps
for ever, the overwritten SUSPENDING, the second reading of `writeIndex`, the set put again in
double mode, the holder of a lock word starved by a spinning thread of its own processor, and the frame of V-count alarms that is counted before it begins.

## 7. What is not modelled

* *Of the operating system:* `OS_Sleep` (an alarm on the stack that wakes its thread: what
  `OS_DestroyThread` reads there after `OS_KillThread` is not told by the code), the check flags of
  `OS_WaitIrq`, thread switch callbacks, stack checks, thread arguments and destructors; the bitmaps of
  lock IDs; `OS_EndAlarm` and `OS_EndVAlarm`; arenas; `OSThread.mutex`, which no code reads. Builds without
  `SDK_THREAD_INFINITY` keep wait queues as bit masks.
* *Of the card and the file system:* reads of the ROM and their hashes, the pull-out of the card; loading
  and unloading of archives, paths and positions, overlays, the SDK 5 branches of both.
* *Of wireless:* the table of requests and their callbacks, scans and connections (requests one at a
  time, refused while another runs), key sharing, a child's own packets and their retries, ports without
  sequence numbers, `WMSP_ResumeMaMP`, the end of MP, the counts of exchanges in a picture frame.
  `VAlarm` without a child clears those counts at once, also during an exchange, which the model does
  not see. Protocols above (multiboot, exchange, browsing) are not modelled.
* *Hardware and assembly:* context switch, cache, exceptions, copying and DMA. The context switch is
  the change of `current`.
* *Data without concurrency:* graphics, arithmetic, text, tables, compression. Candidates for
  operators checked against a reference: checksums, sorting, decompression.
* *Out of the repository:* the wireless firmware, the DSP, the ARM7 side of devices that come as
  binaries. Their interfaces can be modelled from how src/ uses them.
* *The simulator and tools:* another machine (threads of the host, no interrupts).

## 8. Plan

Done, in this order: `OSSpinLock`, `OSThread`, `OSMessage`, `OSMutex`, `OSMutexRW`, the links, alarms
and tick, events; then `SNDCommand`, `OSReset`, `OSAlloc`, `CARDTask`, `FSArchive`, `WMPort`,
`WMDataSharing`, `OSVAlarm`.

Theorems to come: of `OSAlloc` (`HeapsSound`, `KeepsBlocks`), whose lists are linked both ways and share
cells that are split and joined, so that sizes and addresses have to be carried along with the links as
`SoundInv` carries sequences; and that a port implements `WMPortOrder` (`ImplementsOrder`).

Of the code, in the order of what it would add: `OS_Sleep` with the memory of its alarm;
lock IDs; the requests of the wireless manager; multiboot's blocks.
