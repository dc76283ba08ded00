----------------------------- MODULE HdDriver -----------------------------
(***************************************************************************)
(* The hard disk task (kernel/hd.c), the drive it talks to and the file     *)
(* system task that is its only client.                                     *)
(*                                                                          *)
(* The client sends a request and waits for the answer (send_recv(BOTH)).   *)
(* The task turns it into ATA commands, one after the other; for each it    *)
(* polls the status register (waitfor) and sleeps until the drive's         *)
(* interrupt (interrupt_wait).  The interrupt comes whenever the drive is   *)
(* ready, and inform_int either wakes the task or leaves a mark that the    *)
(* task's next RECEIVE from ANY or INTERRUPT turns into a message.  That    *)
(* RECEIVE is cut where an interrupt in the middle of it makes a            *)
(* difference, the points at which module Ipc cuts it too.                  *)
(*                                                                          *)
(* The drive is external: it is what the code expects of an ATA drive in    *)
(* PIO mode, which raises its interrupt when a sector can be read, and      *)
(* after every sector written.                                              *)
(***************************************************************************)
EXTENDS Naturals, SequencesExt

CONSTANTS Kinds,   \* the requests the client makes
          NSect,   \* sectors of the partition the client uses, 1 .. NSect
          Val,     \* what a sector may hold
          NOISE,   \* what port_read finds when the drive has no data ready
          Tables,  \* how many partition tables hd_open may find on a disk
          U8,      \* the values of the byte cmd.count: 256
          MaxOpen  \* bound: how often the client opens without closing

ASSUME HdAssumption ==
  /\ Kinds \subseteq {"DEV_OPEN", "DEV_CLOSE", "DEV_READ", "DEV_WRITE", "DEV_IOCTL"}
  /\ NSect \in Nat \ {0}
  /\ NOISE \notin Val \cup {"identify", "table"} /\ Val # {}
  /\ Tables \subseteq Nat \ {0} /\ U8 \in Nat \ {0} /\ MaxOpen \in Nat \ {0}

VARIABLES
  fs,       \* the client: "ready", "sending", "waiting"
  req,      \* its last request
  hd,       \* where task_hd is
  has_int,  \* has_int_msg of TASK_HD
  cmds,     \* the commands that are left for the request, the current one first
  left,     \* sectors left of the current command (bytes_left)
  data,     \* the sectors read for the request
  open_cnt, known,  \* hd_info: opened how often; the partition's base is right
  drive,    \* its state, its command, the current sector, the sectors left, and
            \* whether the command has just been given
  intrq,    \* the drive's interrupt line
  disk,     \* the sectors of the partition
  written   \* history: a write has been requested

task == <<hd, cmds, left, data, open_cnt, known>>
ext  == <<drive, intrq, disk>>
vars == <<fs, req, hd, has_int, cmds, left, data, open_cnt, known, drive, intrq, disk, written>>

Sector == 1 .. NSect
Cmd(op, sect, n) == [op |-> op, sect |-> sect, n |-> n]

Request ==
  [type : Kinds \ {"DEV_READ", "DEV_WRITE"}] \cup
  {r \in [type : Kinds \cap {"DEV_READ", "DEV_WRITE"}, sect : Sector, n : Sector, val : Val] :
     r.sect + r.n - 1 <= NSect /\ (r.type = "DEV_READ" => r.val = CHOOSE v \in Val : TRUE)}

Init ==
  /\ fs = "ready" /\ req = [type |-> "none"]
  /\ hd = "main" /\ has_int = 0
  /\ cmds = <<>> /\ left = 0 /\ data = <<>>
  /\ open_cnt = 0 /\ known = FALSE
  /\ drive = [state |-> "idle", op |-> "none", sect |-> 0, n |-> 0, new |-> FALSE]
  /\ intrq = FALSE
  /\ disk \in [Sector -> Val]
  /\ written = FALSE

----------------------------------------------------------------------------
(* The client, fs/main.c *)

\* A request goes out; the device is opened first and not closed more often.
ClientSends(r) ==
  /\ fs = "ready" /\ hd # "halted" /\ fs' = "sending" /\ req' = r
  /\ open_cnt = 0 => r.type = "DEV_OPEN"
  /\ r.type = "DEV_OPEN" => open_cnt < MaxOpen
  /\ written' = (written \/ r.type = "DEV_WRITE")
  /\ UNCHANGED <<task, has_int, ext>>

----------------------------------------------------------------------------
(* task_hd *)

\* The commands a request leads to: hd_identify and, the first time, the sectors
\* partition() reads; or one command for all sectors of a read or write.
Commands(r, tables) ==
  IF r.type = "DEV_OPEN"
  THEN <<Cmd("identify", 0, 1)>> \o
       [k \in 1 .. IF open_cnt = 0 THEN tables ELSE 0 |-> Cmd("table", 0, 1)]
  ELSE IF r.type = "DEV_READ" THEN <<Cmd("read", r.sect, r.n)>>
  ELSE IF r.type = "DEV_WRITE" THEN <<Cmd("write", r.sect, r.n)>>
  ELSE <<>>

\* RECEIVE from ANY (61) when there is no request to take: an interrupt that has
\* come is looked for first.
Main ==
  /\ hd = "main"
  /\ \/ has_int = 1 /\ hd' = "clear"
     \/ has_int = 0 /\ fs # "sending" /\ hd' = "block"
  /\ UNCHANGED <<fs, req, has_int, cmds, left, data, open_cnt, known, ext, written>>

\* The request is received by the waiting task or from its queue; a close or an
\* ioctl needs no command.
TakeRequest ==
  /\ fs = "sending" /\ fs' = "waiting"
  /\ data' = <<>>
  /\ \E tables \in Tables : cmds' = Commands(req, tables)
  /\ hd' = IF cmds' = <<>> THEN "answer" ELSE "command"
  /\ open_cnt' = IF req.type = "DEV_CLOSE" THEN open_cnt - 1 ELSE open_cnt
  /\ UNCHANGED <<req, has_int, left, known, drive, disk, written>>

Receive ==
  /\ hd = "any" \/ (hd = "main" /\ has_int = 0)
  /\ TakeRequest /\ UNCHANGED intrq

\* An interrupt in the middle of the client's msg_send to the waiting task: an
\* assertion fails (322), or one of the two messages is lost (325-330).
ReceiveDisturbed ==
  /\ hd = "any" /\ fs = "sending" /\ intrq /\ intrq' = FALSE
  /\ \/ /\ \/ hd' = "halted" /\ UNCHANGED fs
           \/ hd' = "spin" /\ fs' = "waiting"
        /\ UNCHANGED <<req, cmds, left, data, open_cnt, known, has_int, drive, disk, written>>
     \/ TakeRequest

\* The sectors the drive is asked for: cmd.count is a byte (326), and 0 asks for as
\* many as there are bytes.
Count(n) == IF n % U8 = 0 THEN U8 ELSE n % U8

\* Mutant of CommandOut: cmd.count is rounded up to one sector too many.
CommandOutTooMany ==
  /\ hd = "command" /\ drive.state # "busy"
  /\ LET c == Head(cmds)
     IN  /\ drive' = [state |-> "busy", op |-> c.op, sect |-> c.sect, n |-> Count(c.n) + 1,
                    new |-> TRUE]
         /\ left' = c.n
         /\ hd' = IF c.op = "write" THEN "poll" ELSE "wait"
  /\ intrq' = FALSE
  /\ UNCHANGED <<fs, req, has_int, cmds, data, open_cnt, known, disk, written>>

\* hd_cmd_out: once the drive is not busy the command is written, which cancels
\* what the drive was at and lowers its interrupt line.
CommandOut ==
  /\ hd = "command" /\ drive.state # "busy"
  /\ LET c == Head(cmds)
     IN  /\ drive' = [state |-> "busy", op |-> c.op, sect |-> c.sect, n |-> Count(c.n),
                    new |-> TRUE]
         /\ left' = c.n
         /\ hd' = IF c.op = "write" THEN "poll" ELSE "wait"
  /\ intrq' = FALSE
  /\ UNCHANGED <<fs, req, has_int, cmds, data, open_cnt, known, disk, written>>

\* Mutant of InterruptWait: it does not sleep.
InterruptWaitNot ==
  /\ hd = "wait" /\ hd' = "read"
  /\ UNCHANGED <<fs, req, has_int, cmds, left, data, open_cnt, known, ext, written>>

\* interrupt_wait: RECEIVE from INTERRUPT.
InterruptWait ==
  /\ hd = "wait" /\ hd' = IF has_int = 1 THEN "clear" ELSE "block"
  /\ UNCHANGED <<fs, req, has_int, cmds, left, data, open_cnt, known, ext, written>>

\* In either RECEIVE: the mark is cleared (proc.c:417); an interrupt since it was
\* seen is forgotten with it.
Clear ==
  /\ hd = "clear" /\ hd' = "taken" /\ has_int' = 0
  /\ UNCHANGED <<fs, req, cmds, left, data, open_cnt, known, ext, written>>

\* No second one must have come (422).  The main loop spins on a message that is no
\* request (82-86).
Taken ==
  /\ hd = "taken"
  /\ hd' = IF has_int = 1 THEN "halted" ELSE IF cmds = <<>> THEN "spin" ELSE "read"
  /\ UNCHANGED <<fs, req, has_int, cmds, left, data, open_cnt, known, ext, written>>

\* The task is blocked, and no interrupt has come in the meantime (524-534).
Blocked ==
  /\ hd = "block" /\ hd' = IF cmds = <<>> THEN "any" ELSE "sleep"
  /\ UNCHANGED <<fs, req, has_int, cmds, left, data, open_cnt, known, ext, written>>

\* Mutant of After: bytes_left >= 0 instead of bytes_left > 0.
AfterOnceMore(waiting) ==
  /\ left' = left - 1
  /\ IF left > 0 THEN hd' = waiting /\ UNCHANGED cmds
     ELSE cmds' = Tail(cmds) /\ hd' = IF Len(cmds) = 1 THEN "answer" ELSE "command"

\* What comes after a sector: the next one of the command, the next command or
\* the answer.
After(waiting) ==
  /\ left' = left - 1
  /\ IF left > 1 THEN hd' = waiting /\ UNCHANGED cmds
     ELSE cmds' = Tail(cmds) /\ hd' = IF Len(cmds) = 1 THEN "answer" ELSE "command"

\* port_read: a sector, if the drive has one ready.
PortRead ==
  /\ hd = "read" /\ After("wait")
  /\ IF drive.state = "drq" /\ drive.op # "write"
     THEN /\ data' = Append(data, IF drive.op = "read" /\ known THEN disk[drive.sect]
                                  ELSE IF drive.op = "read" THEN NOISE ELSE drive.op)
          /\ drive' = [drive EXCEPT !.state = IF drive.n > 1 THEN "busy" ELSE "idle",
                                    !.sect = @ + 1, !.n = @ - 1, !.new = FALSE]
     ELSE data' = Append(data, NOISE) /\ UNCHANGED drive
  /\ UNCHANGED <<fs, req, has_int, open_cnt, known, intrq, disk, written>>

\* Mutant of Poll: it does not wait for DRQ.
PollNot ==
  /\ hd = "poll" /\ hd' = "write"
  /\ UNCHANGED <<fs, req, has_int, cmds, left, data, open_cnt, known, ext, written>>

\* waitfor(STATUS_DRQ)
Poll ==
  /\ hd = "poll" /\ drive.state = "drq" /\ hd' = "write"
  /\ UNCHANGED <<fs, req, has_int, cmds, left, data, open_cnt, known, ext, written>>

\* port_write; the drive takes the data only when it asked for it.  There is no
\* interrupt_wait after it (354).
PortWrite ==
  /\ hd = "write" /\ After("poll")
  /\ IF drive.state = "drq" /\ drive.op = "write"
     THEN /\ disk' = [disk EXCEPT ![drive.sect] = req.val]
          /\ drive' = [drive EXCEPT !.state = "busy", !.sect = @ + 1, !.n = @ - 1, !.new = FALSE]
     ELSE UNCHANGED <<disk, drive>>
  /\ UNCHANGED <<fs, req, has_int, data, open_cnt, known, intrq, written>>

\* waitfor gives up after HD_TIMEOUT: panic (191, 350).  The time is looked at before
\* the status (239), so a drive that is ready in the end may still be given up.
GiveUp ==
  /\ hd \in {"command", "poll"} /\ hd' = "panic"
  /\ UNCHANGED <<fs, req, has_int, cmds, left, data, open_cnt, known, ext, written>>

\* waitfor asks TASK_SYS for the time (237, 239); when the task has to wait for the
\* answer, no interrupt must be marked (proc.c:534).
TicksHalt ==
  /\ hd \in {"command", "poll"} /\ has_int = 1 /\ hd' = "halted"
  /\ UNCHANGED <<fs, req, has_int, cmds, left, data, open_cnt, known, ext, written>>

\* The answer reaches the client, which waits for it.
Answer ==
  /\ hd = "answer" /\ hd' = "main"
  /\ fs = "waiting" /\ fs' = "ready"
  /\ IF req.type = "DEV_OPEN"
     THEN /\ open_cnt' = open_cnt + 1
          /\ known' = IF open_cnt = 0 THEN NOISE \notin ToSet(data) ELSE known
     ELSE UNCHANGED <<open_cnt, known>>
  /\ UNCHANGED <<req, has_int, cmds, left, data, ext, written>>

TaskStep == \/ Main \/ Receive \/ CommandOut \/ InterruptWait \/ Clear \/ Taken \/ Blocked
            \/ PortRead \/ Poll \/ PortWrite \/ Answer

----------------------------------------------------------------------------
(* The drive and its interrupt *)

\* The drive is done: a sector is there to be read, the next may be written, or
\* the last one has been.  Only the first sector of a write is not announced.
DriveReady ==
  /\ drive.state = "busy"
  /\ drive' = [drive EXCEPT !.state = IF drive.n = 0 THEN "idle" ELSE "drq"]
  /\ intrq' = (intrq \/ drive.op # "write" \/ ~drive.new)
  /\ UNCHANGED <<fs, req, task, has_int, disk, written>>

\* Mutant of HdHandler: the mark is not taken back when the task is woken.
HdHandlerMarks ==
  /\ intrq /\ intrq' = FALSE /\ hd \notin {"panic", "halted"}
  /\ \/ hd = "sleep" /\ hd' = "read"
     \/ hd = "any" /\ hd' = "spin"
     \/ hd = "block" /\ hd' = "halted"
     \/ hd \notin {"sleep", "any", "block"} /\ UNCHANGED hd
  /\ has_int' = 1
  /\ UNCHANGED <<fs, req, cmds, left, data, open_cnt, known, drive, disk, written>>

\* hd_handler: the status register is read, which lowers the line, and the task
\* is informed: woken in interrupt_wait, woken with a message it does not know in
\* its main loop, or marked.  While the task is being blocked an assertion of
\* block() or msg_receive() fails (233, 530-534).
HdHandler ==
  /\ intrq /\ intrq' = FALSE /\ hd \notin {"panic", "halted"}
  /\ \/ hd = "sleep" /\ hd' = "read" /\ has_int' = 0
     \/ hd = "any" /\ hd' = "spin" /\ has_int' = 0
     \/ hd = "block" /\ hd' = "halted" /\ UNCHANGED has_int
     \/ hd \notin {"sleep", "any", "block"} /\ UNCHANGED hd /\ has_int' = 1
  /\ UNCHANGED <<fs, req, cmds, left, data, open_cnt, known, drive, disk, written>>

Next == \/ \E r \in Request : ClientSends(r)
        \/ TaskStep \/ ReceiveDisturbed \/ GiveUp \/ TicksHalt \/ DriveReady \/ HdHandler

\* The task is scheduled, the drive gets done, its interrupt is taken.
Spec == /\ Init /\ [][Next]_vars
        /\ WF_vars(TaskStep) /\ WF_vars(DriveReady) /\ WF_vars(HdHandler)

----------------------------------------------------------------------------
(* Properties *)

\* The variables keep their types, and a command never reaches beyond the sectors of
\* the partition.
TypeOK ==
  /\ fs \in {"ready", "sending", "waiting"}
  /\ req \in Request \cup {[type |-> "none"]}
  /\ hd \in {"main", "any", "clear", "taken", "block", "command", "wait", "sleep", "read",
             "poll", "write", "answer", "spin", "panic", "halted"}
  /\ has_int \in {0, 1} /\ intrq \in BOOLEAN
  /\ left \in 0 .. NSect
  /\ open_cnt \in Nat /\ known \in BOOLEAN
  /\ disk \in [Sector -> Val]
  /\ drive.state \in {"idle", "busy", "drq"} /\ drive.n \in 0 .. NSect
  /\ drive.op \in {"read", "write"} => 1 <= drive.sect /\ drive.sect + drive.n <= NSect + 1

\* While the task is at no command the drive has nothing left to say, as long as
\* nothing has been written: every interrupt was taken by the command it belongs to.
QuietBetweenRequests ==
  ~written /\ cmds = <<>> => drive.state = "idle" /\ ~intrq /\ has_int = 0

\* A read is answered with the sectors it asked for, in their order, as long as
\* nothing has been written.
ReadsSectors ==
  [][hd = "answer" /\ hd' = "main" /\ req.type = "DEV_READ" /\ ~written
     => data = [k \in 1 .. req.n |-> disk[req.sect + k - 1]]]_vars

\* A write is answered when all its sectors are with the drive, and it changes no
\* other sector; also when the one before it has left the driver in disorder.
WritesSectors ==
  [][/\ hd = "answer" /\ hd' = "main" /\ req.type = "DEV_WRITE"
          => \A s \in req.sect .. req.sect + req.n - 1 : disk[s] = req.val
     /\ \A s \in Sector : disk'[s] # disk[s] => s \in req.sect .. req.sect + req.n - 1]_vars

\* A request for more sectors than a command can name.
Oversized(r) == r.type \in {"DEV_READ", "DEV_WRITE"} /\ r.n > U8

\* As long as nothing has been written, every request that one command can serve is
\* answered unless the machine stops: the task never sleeps through its interrupt and
\* never spins.
AnsweredOrStopped ==
  fs = "sending" ~> fs = "ready" \/ written \/ Oversized(req) \/ hd \in {"panic", "halted"}
=============================================================================
