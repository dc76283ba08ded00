# A TLA+ model of finkyOS

finkyOS is a small x86 kernel in the manner of Orange'S: seven processes (the
tasks tty, sys, hd and fs in ring 1, three user processes in ring 3), messages
between them, a priority scheduler, drivers for disk, keyboard and screen. This
directory models it in TLA+, from the boot sector to the empty file system, checks
the models with TLC and proves the most important of their properties with TLAPS. Line numbers refer to
`src/`.

Contents: [the system](#1-the-system), [the plan](#2-the-plan),
[the modules](#3-the-modules), [the runs](#4-the-runs),
[what is proved](#5-what-is-proved),
[where the code and its comments disagree](#6-where-the-code-and-its-comments-disagree),
[what is not modelled](#7-what-is-not-modelled).

## 1. The system

One processor. A process enters the kernel by a software interrupt
(`kernel.asm` `sys_call`) or is interrupted. Three facts of `kernel.asm` decide
what can interleave with what:

* a system call runs with interrupts enabled (`sti`, line 403), and so does an
  interrupt handler (127, 218), with its own line masked;
* an interrupt that comes while the kernel runs (`k_reenter` > 0) returns to
  where it interrupted, and the clock handler does not schedule then
  (`clock.c:39`); so no two system calls are ever in progress at once;
* a task in ring 1 is an ordinary process: it is preempted between any two
  instructions, also in a driver.

| component | state | operations | interacts with | correct when |
|---|---|---|---|---|
| message passing, `kernel/proc.c` | `p_flags`, `p_msg`, `p_recvfrom`, `p_sendto`, `has_int_msg`, the sending queues | `sys_sendrec` (`msg_send`, `msg_receive`, `deadlock`), `inform_int` | every process calls it; the disk's interrupt handler calls `inform_int` in the middle of it; `block` calls the scheduler | queues hold exactly the blocked senders; partners meet; no cycle of senders; no wakeup is lost; the assertions hold |
| scheduler, `kernel/proc.c:44-70`, `kernel/clock.c`, `kernel/kernel.asm` | `p_proc_ready`, the slices `ticks`, `k_reenter`, the mask of the clock's line | `schedule`, `clock_handler`, entry and exit of the kernel | clock and disk interrupts in the middle of it | what runs is runnable; nobody starves; slices are renewed when spent |
| disk driver, `kernel/hd.c` | `hd_info`, the current command, `hd_status` | `hd_open`, `hd_close`, `hd_rdwt`, `hd_ioctl`, `hd_handler`, `waitfor` | the drive; requests of fs by message; interrupts by `inform_int` | every request is answered, with the right sectors; each interrupt is taken by its command |
| partitions, `kernel/hd.c:273-481` | `hd_info` | `partition`, `get_part_table`, `hd_ioctl` | reads the disk when it is opened first | every device number leads to the partition the tables give that name; the walk ends |
| fs, `fs/main.c` | `fsbuf`, the super block it writes | `init_fs`, `mkfs`, `rw_sector` | client of the disk driver | what is on the disk at the end is a consistent file system in its own partition, whatever was there before |
| system task, `kernel/systask.c` | the answer it is about to send | answers `GET_TICKS` | everybody who sleeps, and hd in `waitfor` | answers every caller |
| clock, `kernel/clock.c` | `ticks` | `clock_handler`, `get_ticks`, `milli_delay`, `sleep` | sys by message | a delay ends, and not too early |
| keyboard, `kernel/keyboard.c` | the ring `kb_in`, the modifiers, the LEDs | `keyboard_handler`, `keyboard_read`, `set_leds` | its interrupt writes what the terminal task reads; both read the data port | every key arrives, once, in order, with the right modifiers |
| terminals, `kernel/tty.c` | `in_buf` of each, the current console | `task_tty`, `in_process`, `put_key`, `sys_printx` | keyboard, consoles | echoes what was typed where it was typed |
| consoles, `kernel/console.c` | cursor, start of the window, limits; the display registers | `out_char`, `scroll_screen`, `flush`, `select_console` | written by the terminal task and, in the kernel, by `sys_printx` | each stays in its own memory, the display shows the current one |
| boot sector and loader, `boot/` | the counters of the search, the cluster, the place in memory | search in the root directory, `ReadSector`, `GetFATEntry` | the BIOS; the boot sector jumps to the loader, that to the kernel | what is run has been loaded whole |
| protected mode, formatting | - | - | run before or beside all this | sequential code |

Hard to test in all this, and the reason for the models: interrupts in the middle
of a call (`proc.c:325`, `527`), a tick inside another interrupt
(`clock.c:36`), an interrupt that nobody waits for (`hd.c:354`), an echo
preempted between two accesses to a record (`console.c:105`), a port that is read
by a handler and polled by a task (`keyboard.c:343`), sequences of bytes cut by a
full buffer (`keyboard.c:48`), chains of blocked senders built by many calls
(`proc.c:315`), a counter that wraps under the loops that compare it (`clock.c:33`),
a stop in the middle of making a file system (`fs/main.c:151`), a buffer inside the
memory that is being loaded to (`load_util.inc:54`). `PROJECT.json` lists each with the properties that watch it.

## 2. The plan

Done, in this order:

1. `Ipc`, with `IpcProofs`: the message passing, cut at every point where an
   interrupt can be seen.
2. `Sched`: who runs.
3. `SendQueue`, with `SendQueueProofs`: the lists and loops of the code, implementing `Ipc`.
4. `HdDriver`, with `HdProofs`: the driver between its client, its drive and the
   interrupt.
5. `Fifo`, `Ring`: the ring of the keyboard as a queue.
6. `Keyboard`, with `KeyboardProofs` about both: from the key to the character.
7. `Screen`, `Console`, with `ConsoleProofs`: the consoles as they should be, and the
   code cut at every load and store, implementing it.
8. `Clock`: `ticks` and its wrap, the system task that hands it out, `milli_delay` and
   `waitfor` that compare it; with `ClockProofs`, about `Sched` and `Clock`.
9. `Partition`: `partition` and `get_part_table` over any tables; device numbers
   against what the tables say.
10. `Mkfs`, composed with `Partition`, with `MkfsProofs` about both: the file system
    task, stopped and started again anywhere.
11. `Loader`, with `LoaderProofs`: from the floppy to memory, twice.

To do:

12. An abstract disk that `HdDriver` implements until its first write, which `Mkfs`
    could then use.

## 3. The modules

### Ipc (`kernel/proc.c:85-121, 214-641`)

One table entry per process (`p_flags` ... `q_sending` as in the code), the
message buffer of each process's current call (`buf`), and one call in progress
(`pc`, `caller`, `peer`). A call starts with `Send` or with one of
`RecvInt`/`RecvTake`/`RecvWait`, which are the three ways `msg_receive` begins:
an interrupt is pending, a sender is queued, or neither. It goes on in steps
named after what they do to the table, cut exactly where `inform_int` can come
between and be noticed: the check of the flags (`SendCheck`), the copy
(`SendCopy`), the clearing of the flags (`SendClear`), the assertions after it
(`SendDone`), and likewise for the receiver (`RecvMark`, `RecvFrom`, `RecvBlock`,
`RecvSched`, `RecvDone`). `InformInt` is one step because its interrupt's line is
masked meanwhile. A failed assertion stops the machine and leaves its line in
`halted`; 316 is the panic of `deadlock()`.

Abstracted: sending queues are sequences (module `SendQueue` has the lists); a
`phys_copy` is one step, with the address `p_dest->p_msg` read before it (325);
a message is its source and a type. Calls are the legal
ones: SEND to another process, RECEIVE from another process, ANY or INTERRUPT.
`InformInt` may come at any time, more often than a real drive's interrupt.

### SendQueue (the same lines, with the lists)

`head` and `next_sending` are the code's `q_sending` and `next_sending`; `walk`
is the loop being executed: the walk of `deadlock()` along `p_sendto` (266-291),
the walk to the end of a list (349-359) or to a sender in it (465-474). Interrupts
come between any two steps. `Chain` reads a list off its links, from its head on. `ImplementsIpc` is `Ipc` with `q_sending` read off
the lists (`Queues`); steps that touch no queue are taken from the instance.

### Sched (`proc.c:44-70`, `clock.c:27-46`, `kernel.asm:101-136, 368-417`)

Which process is blocked, what is left of each slice, who `p_proc_ready` is, and
what the processor does (`mode`). `schedule()` is a loop with a step for each
process it looks at (`Scan`, `Take`) and each it refills (`Refill`), because
ticks and the disk's interrupt come in between: `Take` reads the slice a second
time, as the code does. `p_ticks` is the code's `p->ticks`. `TickUser` is a tick that interrupts a process and
schedules, `TickNested` one that interrupts the kernel and only charges. Why a
process blocks or wakes is left to `Ipc`: a call does either. `Spinners` are the
processes that may stop calling the kernel: `task_tty`, which polls its buffers for
ever, `task_fs`, which ends in `spin("FS")` on every boot (`fs/main.c:57`), and
`task_hd`, which spins on a message it does not know (`hd.c:85`).

### HdDriver (`kernel/hd.c:54-361`, client `fs/main.c:82-92, 258-275`)

The client `fs`, the task `hd` (`Main` ... `Answer` are the steps of `task_hd`),
the mark `has_int`, the drive (external: busy, ready for data, idle) with its
interrupt line, the sectors of a partition. A request becomes a list of commands
(`Commands`): identify, a partition table, or the read or write of several
sectors. `HdHandler` is `hd_handler` with `inform_int`: it wakes the task, leaves
a mark, or, in the main loop, delivers a message nobody expects. RECEIVE, from ANY in
the main loop and from INTERRUPT in `interrupt_wait`, is cut where `Ipc` cuts it
(`Main`, `InterruptWait`, `Clear`, `Taken`, `Blocked`), so that an interrupt inside it
fails the assertions it fails in the code (`hd = "halted"`), and so is the client's
send to the waiting task (`ReceiveDisturbed`) and the question for the time in
`waitfor` (`TicksHalt`). `GiveUp` is the panic after `waitfor`: it asks nothing of the
drive, as the loop looks at the time before it looks at the status (239-243), and at the
wrap of `ticks` the time is up at once. `Count` is the byte `cmd.count`. The content of the
tables is whether they were read properly (`known`).

### Fifo, Ring (`keyboard.c:44-57, 304-320`; the same ring in `tty.c:116-151`)

`Ring` is the buffer with two pointers and a count, its writer an interrupt
(`Handler`), its reader a task (`Wait` with interrupts enabled, `Take` with
interrupts disabled). `Fifo` is a bounded queue, and `ImplementsFifo` says that
the first is the second with `Contents` as its queue.

### Keyboard (`keyboard.c:44-361`, `tty.c:38-43, 60-156`)

The user presses and releases keys (external), the keyboard sends their codes,
answers commands and holds keys back between an LED command and its parameter
(external). `Arrive` is the interrupt with its handler; `ReadOn` and `ReadEnd`
are `keyboard_read` with `get_byte_from_kbuf`: a byte in the middle of a sequence
and the last one, after which modifiers, `in_buf` and the current console change;
`SetLeds` is `set_leds` with its two polls of the port; `WriteKey` is
`tty_do_write`. `typed` remembers what the user wanted: each character with its
case and its console. The key A stands for all characters.

### Screen, Console (`console.c:31-214`, `tty.c:60-111, 143-156, 181-245`)

`Screen` has the records of the consoles, the current console and the display
registers, and one step per operation (`Output`, `Scroll`, `Select`). `Console`
has the same variables and `task_tty` at a point of an operation (`task`). Each access to a record is a step: the kernel
is built without optimisation (`makefile:11`), and nothing protects the record.
`Printx` is a whole character because `sys_printx` runs in the kernel, where
nothing is scheduled; it may come between any two steps of `task_tty`, on any console,
also the one `task_tty` is at. That console is then `spoilt`: the two writers have worked
on one record, and the echo goes on with an address, a test or a sum that is out of
date. `Screen` promises nothing of a spoilt console (`Disturbed`) until an operation
finds its record whole again (`Finds`, `Whole`), and everything of the others.
`ImplementsScreen` is `Screen` seen through `ShownCon` and `ShownCrtc`, which show an
operation in progress on a console that is not spoilt as not yet begun. Which cells are
written is modelled (`OwnMemory`, `Cleared`), what they hold is not. A console that is
full clears the memory of all consoles and as much again behind it, twice `V_MEM_SIZE`
bytes (`console.c:86`, `Clear`). The model begins when `init_screen` has run for all
consoles.

### Clock, IntC (`kernel/clock.c`, `kernel/systask.c`, `kernel/hd.c:235-244`)

`Tick` is what `clock_handler` does to the counter. `SysReads` and `SysSends` are the
two steps of `task_sys`: it is preempted in between, and so is the asker after the
answer has come, so what a loop compares is old. `Begin`, `First` and `Compare` are
`t = get_ticks()` and the loop of `milli_delay`; `waitfor` is the same loop that may
also end because the drive is ready (`Pollers`). The expression of the loop is
computed in an `int` that wraps and is divided towards zero (`IntC`). `due` is a
history variable: the ticks that must still come, counted from the reading that
became `t`. Of `Ipc` the model keeps that a question is served once and that its
answer reaches the asker; in which order questions are served is left open.

### Partition, Mkfs (`kernel/hd.c:41-43, 100-114, 273-481`, `fs/main.c:53-274`)

`OpenDrive`, `PrimaryEntry`, `SubEntry` and `OpenDone` are the recursion of
`partition` flattened to its loop counters, one step per table read, as each is a
command of `HdDriver`. What a table says is chosen when its sector is read first, so
the links of an extended partition may lead anywhere. Sums of sector numbers are kept in
32 bits (`U32`, `WORD`), and 28 of them reach the drive (`Sector`, `LBA`), as
`get_part_table` and `hd_rdwt` divide the number over four registers (407-414, 327-330):
a table beyond is looked for at the beginning of the disk. `Named` is the reference: what
the tables on the disk say a device number is, in unbounded numbers; `Reached` says of a
device that the numbers which lead to it fit.

`Mkfs` goes through the requests of `init_fs` and `mkfs`; a write is one step with
`rw_sector` and `hd_rdwt`'s look-up of the partition. The layout is computed from the
size as in the code. What a sector holds is an abstract value (the super block, a set
of marked bits, a function of inodes, the entries of a directory); names and the
constant offsets of the super block are left out. `Restart` stops the machine
between any two requests: the disk keeps what has been written, `hd_info` is lost.
`Consistent` reads the file system back from its super block, as a mount would, with the
28 bits a reader has too. `Roomy` is a partition with room for the layout that ends where
the 28 bits do or before.

### Loader (`boot/boot.asm:40-142`, `boot/loader.asm:58-167`, `boot/include/*.inc`)

One state machine run twice, in the stages "boot" and "loader": `Search` (one sector
of the root directory), `LoadSector`, `GetFATEntry` (which reads two sectors of the
FAT into memory below the loader, and extracts twelve bits from two bytes). Memory is
counted in sectors and remembers which sector was read where. The two programs differ
in what they do at the end of a segment (`Following`). The floppy and the BIOS are
external; a floppy says which clusters each file should have, its FAT which it has.

## 4. The runs

| run | module, cfg | what it shows | bounds |
|---|---|---|---|
| `ipc` | MCIpc, MCIpc.cfg | `TypeOK`, `QueueExact`, `SendAcyclic`, `NoMissedRendezvous`, `NoLostWakeup`, `AssertsOnlyForHD`, `ReleasedWithMessage` | 3 processes and hd |
| `ipc_delivers` | MCIpc, MCIpcDelivers.cfg | finding 1 | 2 processes and hd |
| `send_queue` | MCSendQueue, MCSendQueue.cfg | the lists implement the sequences; no stale link; the three loops end | 3 processes and hd |
| `sched` | MCSched, MCSched.cfg | the invariants; slices are renewed only when spent; starvation only behind a stuck spinner | 4 processes: three tasks that may spin and a user process |
| `hd` | HdDriver, HdDriver.cfg | what is answered as written has been written, and nothing else; until the first write, interrupts are taken by their command, reads return their sectors, requests are answered unless the machine stops | 3 sectors, 2 contents, a byte of 2 values |
| `ring` | Ring, Ring.cfg | the ring is a queue | 4 places, 2 codes |
| `kb` | Keyboard, Keyboard.cfg | every character arrives, once, in order, in its case and on its console; the modifiers; no wait inside a sequence is in vain | ring of 4, 2 keys held, 2 consoles |
| `kb_ack` | Keyboard, KbAck.cfg | finding 2 | ring of 3, 1 console |
| `console` | Console, Console.cfg | the code implements `Screen`, and a console both writers are at is the only one to suffer; on the others cursor and window stay inside, the display follows, the loop ends; a character goes to its console's memory or, where both write, misses it by a few cells | 2 consoles of 5 cells in lines of 2, both typed on and looked at, one printed on; window of one line; numbers wrap at 17 |
| `clock` | Clock, Clock.cfg | delays are long enough, also with old answers and across the wrap; they end | an `int` of -12 .. 11, the counter wraps at 11; two milliseconds per tick; a delay of 5; one delay and one `waitfor`; 2 ticks from one reading to the next |
| `mkfs` | MCMkfs, Mkfs.cfg | device numbers lead to what the tables say; the walk ends; mkfs leaves a consistent file system, in its own partition | tables of 2 entries, 3 logical partitions, 17 tables; sectors of 16 bits; 100 sectors for 2^28, 400 for 2^32; one stop |
| `boot` | MCLoader, Loader.cfg | what is run has been loaded whole; a proper floppy starts the kernel | 28 clusters, files of up to 9 sectors, 8 sectors for 64 KB |

Why the bounds are enough. *Ipc*: three processes besides hd make every cycle
that `deadlock()` must walk (two and three long), queues of three with a removal
from the middle, and a bystander; one message type suffices because the kernel
never looks at it. The processes other than hd are interchangeable (symmetry).
*Sched*: priorities 2 and 1 give slices that run out at different times, and the
loop over four processes has a first, a middle and a last one; three of them need not
call the kernel, as in the code tty, hd and fs need not, the disk task being the one that
interrupts wake. *HdDriver*: three
sectors make reads and writes of one, two and three; two contents tell a sector
read from one not read; an open finds one or three tables; a byte of two values makes
a request for three sectors one that `cmd.count` cannot name; `written` remembers
whether anything has been written, since after a write the driver may spin (section 6). *Ring*: every position
of the two pointers relative to each other and to the wrap. *Keyboard*: the ring
is shorter than the longest code, so that it is full in the middle of one; two
keys held cover a modifier with a key; the right Ctrl and Alt have the codes of the
left ones behind a prefix; after a byte
has been dropped the user stops (`MaxDown` and this are the bounds).
*Console*: the memory of a console is not a multiple of a line, as in
the code (5461 = 68 lines of 80 and 21 cells), the window is smaller than it by
more than a line, so that it scrolls, stops at the end and starts again. Everything is
echoed, scrolled and selected on either console, so that the one printed on is now the
one `task_tty` is at and now another, now displayed and now not. In the code `procB` and
`procC` print on one console, the others on another; that several are printed on at once is left
to the proofs. The numbers wrap at `MOD`, above the memory but so near that a cursor before
console 0 is seen to wrap.
*Clock*: `MAX_TICKS` is below the end of the `int` by one, as in the code it is by
21555, so that a wrap shortens a delay and not only by rounding; a delay of 5 is not
a whole number of ticks, and with what may come between two readings it just fits the
`int`; `SLOW` bounds how long the scheduler keeps the process from reading again, which
`DelayEnds` needs and `DelayLongEnough` does not (its proof knows no bound). *Mkfs*:
the device is any of two primary and two logical ones; partitions of 4, 15, 33 and 40
sectors are too small, just roomy, and need two or three sectors of map; one of them
lies across the end of the 32 bits, and links lead across the end of the 28; the
extended partition is either entry of the table, its links lead back to themselves,
to each other and to table 0; one stop, since a second one begins again from a disk
like the first's. *Loader*: 11 bytes a sector make the entries lie across sectors of
the FAT in every position; files in one piece, backwards and scattered, at the ends of
the disk, of every length up to more than 64 KB; ends other than 0FFFh, chains in a
circle and files that are missing.

Fairness. *Sched*: the processor never idles (WF of its own steps); the timer goes
on, and a tick that finds its line masked stays pending in the 8259A, hence SF of
`ClockTick`; each process that is not a spinner calls again and again, and not all its
calls return at once, since the loops of `task_sys` and of procA-C contain a RECEIVE,
hence SF of its calls when it is the one that runs. Nothing of the kind is assumed of the
spinners (`task_tty`, `task_fs`, `task_hd`), which may call or not, so that the states in
which all processes are blocked are met too. *HdDriver*: the
task is scheduled, the drive gets ready, its interrupt is taken (WF each); nothing
makes the client send or the timeout come. That the task is scheduled presumes that no
process is stuck in front of it (`StarvedOnlyByStuck`). *Keyboard*: the terminal task is
scheduled, the keyboard sends what it has begun (WF); the user need not do
anything. *Clock*: the timer goes on (SF, as `SLOW` may hold it up), every question is
served in the end (SF: `task_sys` is at times busy with another, and the sending queue
is first in, first out), the processes are scheduled (WF). *Mkfs*: only opening the
drive is fair, as `AnsweredOrStopped` shows that a driver that has not written
answers unless the machine stops, and a stop ends the walk (`WalkDone`); after the first
write it need not, so nothing is said of `mkfs` ending.
*Loader*: nothing else runs (WF). *Ipc*, *SendQueue*, *Ring* and *Console* are checked
for safety only;
that their loops end is stated so that a state or a step can break it (`WalkEnds`:
the rest of the walk is finite; `LoopScrolls`: the window moves on in every round, on a
console that is not spoilt).
`kb_ack` fails under this fairness although every step that could be taken is
taken.

Deadlock is checked except where the machine may really stop: after a failed
assertion or panic (`Ipc`, `SendQueue`, `HdDriver`), where the driver may wait
for a key that never comes (`Keyboard`, after a dropped byte), and where the program
ends (`Mkfs`, `Loader`).

## 5. What is proved

Each theorem holds for every value of the constants under the assumptions named
in the module (`ConstantAssumption`, `SendQueueAssumption`, `SchedAssumption`, `HdAssumption`,
`RingAssumption`, `KeyboardAssumption`, `ClockAssumption`, `LoaderAssumption`, `PartitionAssumption`,
`MkfsAssumption`, `ConsoleAssumption`); `DelayCorrect` and `LoadedWhole` assume also
the numbers of the code's headers (`Units`, `RealSizes`).

**IpcProofs.** `Invariance`: `Spec => []IInv`. The safety properties are not
inductive alone. `QueueExact` needs to know that a blocked sender's fields agree
(`FieldsCoherent`); that in turn depends on where the call in progress is, as its
steps change the fields one by one (`CallCoherent`: what each point of a call
knows of its two sides, with `WokenByInt` as the one thing an interrupt can have
changed meanwhile). `SendAcyclic` is kept because `SendBlock` adds an edge only
after the check, and nothing but interrupts of hd, which send nothing, comes
between. `NoLostWakeup` needs `WakeupCoherent`, the only stretch in which the mark
and the wait coexist; `ReleasedWithMessage` needs `MessageCoherent`. From `Invariance`
follow `TypeCorrect`, `QueueCorrect`, `NoSendCycle`, `RendezvousCorrect`,
`WakeupCorrect`, `AssertsCorrect` and `ReleaseCorrect`.

**SendQueueProofs.** `Refinement`: for any finite process table the lists and loops
implement `Ipc`. The invariant says what a list is: a sequence without repetition that
is threaded through the links from the head on, of exactly the processes that are
blocked sending to its owner, but for the one that is still walking to its end
(`ListsCoherent`, `Linked`). `ChainIs` ties this to the model: what `Chain` reads off
the links is that sequence. The code's three ways to change a list are lemmas about
any sequence and any links: `LinkFirst`, `LinkLast` and `UnlinkAt`; `OtherLinks` keeps
the other lists. `WalkCoherent` says where a loop stands: on the list, with the sender
it looks for still ahead and `prev` behind it, or, in `deadlock()`, on the only way
from the destination, with nothing but senders behind. Hence `DeadlockDecides`: the walk meets the
caller if and only if the send would close a cycle. A walk that goes on is no step of
`Ipc`; a sender is queued there as soon as it is blocked, although the loop links it
only at its end (`AppendEndInv`). From the invariant follow `LinksCorrect`, and
`LoopsCorrect`: a loop that never ended would stay in a set of processes that all send
to one another, or on a list that has no end (`Reaches`).

**HdProofs.** `Invariance`: the inductive invariant ties the task to the drive.
`ClientInv` says which requests there can be where; `CommandInv` that the commands left
are the request's and how far the current one may be; `InterruptInv`, until the first
write, that the drive, its line and `has_int` are in one of the few combinations that
belong to the command that waits, and that the drive is at the sector the task is at;
`ReadInv` that what was read so far are the first sectors asked for. `WriteInv` needs no
such condition: an interrupt left over from a write can end the wait of a later read
too early or stop the task, but a write waits for `STATUS_DRQ`, not for an interrupt,
so the sectors behind the drive's have been written whatever the interrupts do. Theorems, for any
partition, contents and requests: `TypeCorrect`, `QuietCorrect`, `ReadsCorrect`,
`WritesCorrect`, and `OnlyWritesSpin`, which no run states: only after a write does the
main loop take an interrupt for a request and spin, and only after a write does an
assertion fail outside a command. Inside a command one may fail before any write, when the
interrupt comes while `interrupt_wait` is blocking the task.

**KeyboardProofs.** Of the ring: `RingCorrect`, and `RingIsFifo`: it implements the
bounded queue, by `HandlerPuts` (the place filled is behind the last item and none of
the others) and `TakeGets` (the places move up by one). Of `Keyboard`: `OrderCorrect`,
`ModifiersCorrect`, `SequenceCorrect` and `NoneLost`, for any number of consoles, places
in the ring and keys held. What the driver will know depends on bytes it has not read,
so the invariant (`FlowInv`) is about those: `Flow` takes the driver through all the
bytes on their way, in `kb_in` and still to be sent, and says that it ends knowing what
the user does (`Knows`) and that each character it puts on the way is the next one the
user waits for, in the case and on the console the driver believes in then. Reading a
byte takes the first step of that way (`FlowHead`), a key adds its code at the end
(`KeyFlow`, `LongFlow`), an answer of the keyboard adds a byte that changes nothing
(`AckFlow`), a character written takes one off what the user waits for (`FlowWritten`).
That a code is recognised for what it is, and no sooner than at its last byte, is
proved from the table of the codes (`PlainCode`, `PrefixCode`, `LongCode`, `LongEnds`,
`KeyCodes`). `BufInv` says that `in_buf` holds a character only between the reading and
the writing of its terminal, and that the rest of a sequence is waited for by the
terminal that began it. All of it holds only as long as no byte has been dropped.

**ClockProofs.** `TypeCorrect`, and `DelayCorrect`: with 100 ticks and 1000
milliseconds a second, an `int` of 32 bits and any `MAX_TICKS` from the longest delay
that fits to the end of the `int`, for any processes and delays. The two facts of arithmetic are `ElapsedPlain` (within one
round of the counter the loop's `int` is not too large, whether the product wraps or
not) and `ElapsedWrapped` (across the end it is larger by `Gain` and no more). The
inductive invariant ties what a process holds to what is still due: `t` and the answer
it has, or the system task holds for it, are a number of ticks apart that has really
come, and less than a round of the counter (`LiveCoherent`, `SysCoherent`).
Of `Sched`, `SchedInvariance`: `RunsRunnable` needs to know in the middle of
the search that what was found so far stays runnable, and that a search that found
nobody found everybody spent (`ScanCoherent`, `SpentBelow`); `RefillWhenSpent`
needs that this is still so during the refill (`RefillCoherent`), which is where
hd must be excepted. Theorems `SchedTypeCorrect`, `RunsCorrect`, `RefillCorrect`.

**LoaderProofs.** `LoadedWhole`, for the sizes of the code and every floppy. `RoundTrip`
says that the two bytes read at `Offset(c)` of the packed table give entry `c` back;
`NextEntry` that the two sectors read always hold both bytes; `Progress`, the
invariant, that while a file is being loaded the clusters up to the current one are in
memory. The buffer of the FAT is below the loader and, up to 60 KB, above the kernel.

**MkfsProofs.** `StaysCorrect`: for any partition tables and any number of restarts, a
sector mkfs writes is in its partition, if that has room for the layout below 2^28. The
invariant
has two parts: whatever the tables say, links in a circle included, `hd_info` holds
partitions (`DiskInv`); and from the answer to the ioctl on, what mkfs was told (`geo`)
is what `hd_rdwt` adds to its sectors, as the drive is not walked through again before
the next boot (`MkfsInv`). `MkfsWrites` says that every request is for a sector of the
layout, `LayoutFacts` that the layout ends before the root directory does.
`FormatCorrect`: when mkfs is done the partition holds a consistent file system, also
where the 28 bits lead its sectors round to the beginning of the disk: the layout is
shorter than what they count (`MkfsAssumption`), so that its sectors stay different ones. Its
invariant (`FormatInv`) is what has been written so far in each phase: no request
writes a sector a second time, and a restart claims nothing. The theorem assumes three
terminals, which the code asserts (`fs/main.c:169`) and writes the size of the root
directory for (209); the other sizes are any.
`OpenCorrect`: the walk through the partition tables has, wherever it is, put into
`hd_info` what the tables read so far say, and nothing behind (`WalkInv`), as far as the
numbers that lead there fit their 28 and 32 bits (`Reached`); a table found in the wrong
place spoils the devices behind it and no other. What they say
is `Named`, which follows a recursively defined chain; that it exists, that tables read
later do not change where it has led (`SubStays`) and that nothing follows its end
(`SubEnds`) are proved by `Induction`, which is stated for sets of numbers and not for
predicates, as the prover needs it.

**ConsoleProofs.** `ScreenImplemented`: `task_tty`, preempted between any two loads and
stores of a CONSOLE, and `sys_printx` do what `Screen` does in whole operations, one
after the other, for consoles of any number and size that the unsigned addresses have
room for, whichever of them are printed on; `Refinement` says the same of the two
specifications. The invariant (`IInv`) says of a console that is not spoilt that its
record is `Good` and, where `task_tty` is at it, what that holds in registers and how far
the record has come (`TaskOK`); the core of this is `Written`: once the character is in, the
record is one which the window, line by line, will make what `Screen!OutChar` makes of the
old one at once (`LineOnFollows`, `FollowsOnce`). `Good` adds that windows move by whole
lines, without which scrolling up could leave the memory of the console. On a spoilt
console a step of `task_tty` is `Screen!Disturbed` (`SpoiltStep`), and an operation that
finds the record whole makes it `Good` again (`BeginStep`, `FreeStep`). From the
invariant follow `InsideCorrect`, `ShownCorrect`, `LoopCorrect` and `FollowCorrect`; the
part of the last that holds of spoilt consoles too rests on `FollowEnds`: from any
window, the loop of `sys_printx` comes above a cursor in the memory of its console.
`OwnCorrect` needs a second invariant, `NearInv`: also on a spoilt console the cursor, and the
cells and sums `task_tty` holds, are at most a cell before the memory of the console or
less than a line behind it. It holds because each store is of a number computed from a
record that was itself near, after a test of a record that was.

Model-checked only: the liveness properties `StarvedOnlyByStuck`, `AnsweredOrStopped`,
`DelayEnds`, `WalkDone` and `Boots`, as the prover does not reason about fairness. Every invariant,
action property and refinement a run checks is a theorem.

## 6. Where the code and its comments disagree

1. `ipc_delivers`: an interrupt between the copy of a message to the waiting disk
   task and the clearing of its flags replaces the message (`proc.c:325-330`).
2. `kb_ack`: an answer of the keyboard hidden by the next scan code is waited for
   for ever (`keyboard.c:344`).

More disagreements are part of the models and have no run of their own:

* A tick inside the kernel (another interrupt's handler, or a call that returns) can
  take the last of a slice without scheduling; from then on no tick takes the processor
  from a process that never blocks (`clock.c:36`), and `task_tty` never calls the
  kernel. `StarvedOnlyByStuck` says that this is the only way to starve.
* The interrupt after a sector written is not waited for (`hd.c:354`); it reaches the
  main loop as a message nobody expects, and the driver spins. `AnsweredOrStopped`
  says that every request before the first write is answered unless the machine stops:
  by an assertion that fails because the interrupt comes inside RECEIVE
  (`proc.c:422`, `530-534`), or by the timeout's panic.
* An echo preempted inside `out_char` by a print on the same console writes outside it
  and may leave a cursor outside (`console.c:76-118`). `OwnMemory` says how far
  (`Around`), `ImplementsScreen` that it heals and that no other console suffers; to see
  it happen, check `Echoing \subseteq S!Cells(c)` in Console.cfg.
* A print that comes between the test of a newline (`console.c:94`) and its store (96-98)
  leaves the cursor behind the memory of the console, and a print that takes the cursor
  of console 0 to the top between the test of a backspace (105) and its decrement leaves
  it before 0, which is 2^32 - 1. The loop at 122 of `task_tty` then never ends, as
  `scroll_screen` moves nothing at the end of the memory: no key is served until something
  is printed on that console. The loop of `sys_printx` ends from there (`FollowsCursor`),
  as a full console begins again at its top.
* The comment of `console.h:37` has the video memory end where clearing it does not
  (`console.c:86`).
* The window of 1 also lets assertions fail, in calls of or to the disk task and nowhere
  else: this is what `AssertsOnlyForHD` says (`proc.c:322`, `422`, `527-534`).
* The right Alt key is noted as the left one (`keyboard.c:189`, action `Modify`), so that
  `ModifiersTrack` can speak of both only together.
* `loader.asm:157` provides for a kernel of more than 64 KB. The buffer of the FAT lies
  in the last 4 KB of the 64 (`load_util.inc:54`), so that from 60 KB on the kernel is
  overwritten, and past 64 KB so is the loader itself (`at = "lost"`).
* `waitfor`'s comment promises its timeout (`hd.c:231`); across the wrap of `ticks` it
  gives up at once (`clock.c:33`), on a drive that is ready as well (239).
  `DelayLongEnough` says by how much.
* A partition that needs a sector number of 28 bits or more is read and written at the
  beginning of the disk (`hd.c:327-330`), a request for more than 256 sectors asks for the
  remainder (326), and nothing refuses either.

## 7. What is not modelled

*Protected mode set-up* (`start.c`, `protect.c`, `i8259.c`, `kliba.asm`, and the
loader's switch to it, page tables, memory map and copying of the ELF segments):
straight-line code that writes tables and registers once, before anything runs
concurrently. What the rest needs of it, the masking of interrupt lines, is in
`Sched`. *Formatting and strings* (`vsprintf.c`, `printf.c`, `klib.c`, `string.asm`):
sequential, reached by ordinary tests. `dump_proc`, `dump_msg`, `print_hdinfo` and
`print_identify_info` only print. The panic screen of `sys_printx` stops the machine.

Within what is modelled: the key pad, Num Lock and Scroll Lock are like keys and locks
that are modelled; keys without an effect of their own are left out. What the cells of
a console hold is left out, so that of the clearing of a full console only its extent is
known. The drive does
what it is told: the code reads its status after an interrupt but never looks at the
error in it (`hd.c:262`), and a sector half written when the machine stops is not
considered. The second drive of `MAX_DRIVES` has no place in `hd_info` and is never
opened.
