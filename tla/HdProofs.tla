------------------------------ MODULE HdProofs ------------------------------
(***************************************************************************)
(* Proofs about module HdDriver, for any partition, any contents and any    *)
(* requests: what is answered as written has been written; and until the    *)
(* first write every interrupt is taken by its command, the main loop is    *)
(* not disturbed by one, and reads return their sectors.                    *)
(***************************************************************************)
EXTENDS HdDriver, Integers, SequenceTheorems, TLAPS

Ops == {"identify", "table", "read", "write"}

Places == {"main", "any", "clear", "taken", "block", "command", "wait", "sleep", "read",
           "poll", "write", "answer", "spin", "panic", "halted"}

\* The commands a request can lead to.
CmdsOf(r) ==
  IF r.type = "DEV_OPEN" THEN {Cmd("identify", 0, 1), Cmd("table", 0, 1)}
  ELSE IF r.type = "DEV_READ" THEN {Cmd("read", r.sect, r.n)}
  ELSE IF r.type = "DEV_WRITE" THEN {Cmd("write", r.sect, r.n)}
  ELSE {}

\* Where task_hd is while data comes in (in interrupt_wait, if there is a command), and
\* while it goes out.
Input  == {"wait", "clear", "taken", "block", "sleep", "read"}
Output == {"poll", "write"}

\* The task is at a request.
Serving == cmds # <<>> \/ hd = "answer"

\* The sectors of a command that its count leaves out.
Over(c) == c.n - Count(c.n)

TypeInv ==
  /\ TypeOK
  /\ cmds \in Seq([op : Ops, sect : Nat, n : Nat]) /\ data \in Seq(Val \cup Ops \cup {NOISE})
  /\ drive \in [state : {"idle", "busy", "drq"}, op : Ops \cup {"none"}, sect : Nat, n : Nat,
                new : BOOLEAN]
  /\ drive.state = "drq" => drive.n >= 1
  /\ drive.state # "idle" => drive.op # "none"
  /\ written \in BOOLEAN

\* The client and its request.
ClientInv ==
  /\ hd # "spin" => (fs = "waiting" <=> Serving)
  /\ fs # "ready" => req \in Request
  /\ fs = "sending" => req.type = "DEV_OPEN" \/ open_cnt > 0
  /\ fs = "waiting" /\ req.type = "DEV_READ" => open_cnt > 0
  /\ req.type = "DEV_WRITE" => written

\* The commands left of it.
CommandInv ==
  /\ hd \in {"main", "any", "spin", "answer"} => cmds = <<>>
  /\ hd \in {"command", "wait", "sleep", "read", "panic"} \cup Output => cmds # <<>>
  /\ cmds # <<>> => cmds \in Seq(CmdsOf(req)) /\ (req.type # "DEV_OPEN" => Len(cmds) <= 1)
  /\ cmds # <<>> /\ hd \in Input => cmds[1].op # "write"
  /\ hd \in Output => cmds[1].op = "write"
  /\ cmds # <<>> /\ hd \in Input \cup Output => 1 <= left /\ left <= cmds[1].n

\* Until something is written: the interrupt belongs to the command that waits for it,
\* and one whose count is too small gets none in the end.
InterruptInv ==
  ~written =>
    /\ hd # "spin"
    /\ cmds = <<>> => hd \notin {"clear", "taken", "halted"}
    /\ cmds = <<>> \/ hd = "command" => drive.state = "idle" /\ ~intrq /\ has_int = 0
    /\ cmds # <<>> /\ hd \in {"wait", "block", "sleep"} =>
         \/ drive.state = "idle" /\ drive.n = 0 /\ ~intrq /\ has_int = 0
         \/ drive.state = "busy" /\ drive.n >= 1 /\ ~intrq /\ has_int = 0
         \/ drive.state = "drq" /\ intrq /\ has_int = 0
         \/ drive.state = "drq" /\ ~intrq /\ has_int = 1 /\ hd = "wait"
    /\ hd = "clear" => drive.state = "drq" /\ ~intrq /\ has_int = 1
    /\ hd \in {"taken", "read"} => drive.state = "drq" /\ ~intrq /\ has_int = 0
    /\ cmds # <<>> /\ hd \in Input => /\ drive.op = cmds[1].op
                                      /\ drive.n = left - Over(cmds[1])
                                      /\ drive.sect = cmds[1].sect + cmds[1].n - left

\* What has been read, and how much of a read is to come.
ToRead == IF hd = "command" THEN req.n ELSE IF hd = "answer" THEN 0 ELSE left

ReadInv ==
  ~written /\ hd \notin {"panic", "halted"} =>
    /\ open_cnt > 0 => known
    /\ fs = "waiting" /\ req.type = "DEV_OPEN" =>
         \A k \in 1 .. Len(data) : data[k] \in {"identify", "table"}
    /\ fs = "waiting" /\ req.type = "DEV_READ" =>
         /\ Len(data) = req.n - ToRead
         /\ \A k \in 1 .. Len(data) : data[k] = disk[req.sect + k - 1]

\* What has been written: the sectors before the drive's.
WriteInv ==
  /\ hd \in Output =>
       /\ drive.op = "write" /\ drive.n = left - Over(cmds[1])
       /\ drive.sect = req.sect + req.n - left
       /\ hd = "write" => drive.state = "drq"
       /\ \A s \in Sector : req.sect <= s /\ s < drive.sect => disk[s] = req.val
  /\ hd = "answer" /\ req.type = "DEV_WRITE" =>
       \A s \in Sector : req.sect <= s /\ s < req.sect + req.n => disk[s] = req.val

IInv == TypeInv /\ ClientInv /\ CommandInv /\ InterruptInv /\ ReadInv /\ WriteInv

----------------------------------------------------------------------------
(* Requests and their commands *)

LEMMA RequestFacts ==
  ASSUME NEW r \in Request
  PROVE  r.type \in {"DEV_READ", "DEV_WRITE"} =>
           /\ r.sect \in Nat /\ r.n \in Nat /\ 1 <= r.sect /\ 1 <= r.n /\ r.sect + r.n - 1 <= NSect
           /\ r.val \in Val
BY HdAssumption, SMT DEF Request, Sector

LEMMA CmdsFacts ==
  ASSUME NEW r \in Request, NEW c \in CmdsOf(r)
  PROVE  /\ c \in [op : Ops, sect : Nat, n : Nat] /\ 1 <= c.n /\ c.n <= NSect
         /\ c.op = "write" => r.type = "DEV_WRITE"
         /\ r.type = "DEV_OPEN" => c.op \in {"identify", "table"}
         /\ r.type = "DEV_READ" => c.op = "read" /\ c.sect = r.sect /\ c.n = r.n
         /\ r.type = "DEV_WRITE" => c.op = "write" /\ c.sect = r.sect /\ c.n = r.n
BY RequestFacts, HdAssumption, SMT DEF CmdsOf, Cmd, Ops

LEMMA CountFacts ==
  ASSUME NEW n \in Nat, 1 <= n
  PROVE  Count(n) \in Nat /\ 1 <= Count(n) /\ Count(n) <= n
<1> DEFINE r == n % U8
           q == n \div U8
<1>1. U8 \in Nat /\ U8 >= 1
  BY HdAssumption
<1>2. r \in Nat /\ q \in Int /\ n = U8 * q + r /\ r < U8
  BY <1>1, SMT
<1>3. q = 0 \/ q >= 1
  BY <1>1, <1>2, SMT
<1>4. q >= 1 => U8 * q >= U8
  BY <1>1, <1>2, SMT
<1>5. q = 0 => n = r
  BY <1>1, <1>2, SMT
<1>6. Count(n) = IF r = 0 THEN U8 ELSE r
  BY DEF Count
<1> HIDE DEF r, q
<1> QED
  BY <1>1, <1>2, <1>3, <1>4, <1>5, <1>6, SMT

LEMMA CmdsFit ==
  ASSUME NEW r \in Request, NEW c \in CmdsOf(r), c.op \in {"read", "write"}
  PROVE  1 <= c.sect /\ c.sect + Count(c.n) <= NSect + 1
<1>1. r.type \in {"DEV_READ", "DEV_WRITE"} /\ c.sect = r.sect /\ c.n = r.n
  BY SMT DEF CmdsOf, Cmd
<1> QED
  <2>1. r.sect \in Nat /\ r.n \in Nat /\ 1 <= r.sect /\ 1 <= r.n /\ r.sect + r.n - 1 <= NSect
    BY <1>1, RequestFacts, Zenon
  <2>2. Count(r.n) \in Nat /\ Count(r.n) <= r.n
    BY <2>1, CountFacts
  <2> QED
    BY <1>1, <2>1, <2>2, HdAssumption, SMT

LEMMA CommandsFacts ==
  ASSUME NEW r \in Request, NEW tables \in Tables
  PROVE  /\ Commands(r, tables) \in Seq(CmdsOf(r))
         /\ r.type # "DEV_OPEN" => Len(Commands(r, tables)) <= 1
         /\ Commands(r, tables) = <<>> => r.type \notin {"DEV_READ", "DEV_WRITE"}
<1>1. CASE r.type = "DEV_OPEN"
  <2>1. PICK m : m = IF open_cnt = 0 THEN tables ELSE 0
    OBVIOUS
  <2>2. m \in Nat
    BY <2>1, HdAssumption
  <2>3. [k \in 1 .. m |-> Cmd("table", 0, 1)] \in Seq(CmdsOf(r))
    BY <1>1, <2>2, SMT DEF CmdsOf
  <2>4. <<Cmd("identify", 0, 1)>> \in Seq(CmdsOf(r))
    BY <1>1, SMT DEF CmdsOf
  <2>5. Commands(r, tables) = <<Cmd("identify", 0, 1)>> \o [k \in 1 .. m |-> Cmd("table", 0, 1)]
    BY <1>1, <2>1, Zenon DEF Commands
  <2> QED
    BY <1>1, <2>3, <2>4, <2>5, ConcatProperties, Zenon
<1>2. CASE r.type \in {"DEV_READ", "DEV_WRITE"}
  <2>1. PICK c : c = IF r.type = "DEV_READ" THEN Cmd("read", r.sect, r.n) ELSE Cmd("write", r.sect, r.n)
    OBVIOUS
  <2>2. Commands(r, tables) = <<c>> /\ CmdsOf(r) = {c}
    BY <1>2, <2>1, Zenon DEF Commands, CmdsOf
  <2>3. <<c>> \in Seq({c}) /\ Len(<<c>>) = 1 /\ <<c>> # <<>>
    BY SMT
  <2> QED
    BY <1>2, <2>2, <2>3, SMT
<1>3. CASE r.type \notin {"DEV_OPEN", "DEV_READ", "DEV_WRITE"}
  <2>1. Commands(r, tables) = <<>>
    BY <1>3, Zenon DEF Commands
  <2> QED
    BY <1>3, <2>1, EmptySeq, SMT
<1> QED
  BY <1>1, <1>2, <1>3

LEMMA NoneLeft == ASSUME NEW S, NEW s \in Seq(S) PROVE Len(s) = 0 <=> s = <<>>
BY EmptySeq, LenProperties, SMT

\* The current command and the ones behind it.
LEMMA CurrentCommand ==
  ASSUME TypeInv, ClientInv, CommandInv, cmds # <<>>
  PROVE  /\ req \in Request /\ fs = "waiting"
         /\ Head(cmds) = cmds[1] /\ cmds[1] \in CmdsOf(req)
         /\ Len(cmds) \in Nat /\ Len(cmds) >= 1
         /\ Tail(cmds) \in Seq(CmdsOf(req)) /\ Len(Tail(cmds)) = Len(cmds) - 1
         /\ Tail(cmds) \in Seq([op : Ops, sect : Nat, n : Nat])
         /\ Len(cmds) = 1 => Tail(cmds) = <<>>
         /\ Len(cmds) # 1 => Tail(cmds) # <<>> /\ req.type = "DEV_OPEN"
<1>1. req \in Request /\ fs = "waiting"
  BY DEF ClientInv, CommandInv, Serving
<1>2. cmds \in Seq(CmdsOf(req)) /\ cmds # <<>> /\ cmds \in Seq([op : Ops, sect : Nat, n : Nat])
  BY <1>1 DEF CommandInv, TypeInv
<1>3. req.type # "DEV_OPEN" => Len(cmds) <= 1
  BY <1>1 DEF CommandInv
<1>4. /\ Head(cmds) \in CmdsOf(req) /\ Tail(cmds) \in Seq(CmdsOf(req)) /\ Len(Tail(cmds)) = Len(cmds) - 1
      /\ Tail(cmds) \in Seq([op : Ops, sect : Nat, n : Nat])
  BY <1>2, HeadTailProperties, Zenon
<1>5. Len(cmds) \in Nat /\ Len(cmds) >= 1 /\ Head(cmds) = cmds[1]
  BY <1>2, SMT
<1>6. Len(cmds) = 1 => Tail(cmds) = <<>>
  <2>1. Len(Tail(cmds)) = 0 <=> Tail(cmds) = <<>>
    BY <1>4, NoneLeft
  <2> QED
    BY <1>4, <1>5, <2>1, SMT
<1>7. Len(cmds) # 1 => Tail(cmds) # <<>> /\ req.type = "DEV_OPEN"
  <2>1. Len(Tail(cmds)) = 0 <=> Tail(cmds) = <<>>
    BY <1>4, NoneLeft
  <2>2. PICK m \in Nat : m = Len(cmds) /\ m >= 1
    BY <1>5
  <2>3. m # 1 => Tail(cmds) # <<>>
    BY <1>4, <2>1, <2>2, SMT
  <2>4. m # 1 => ~(m <= 1)
    BY <2>2
  <2> QED
    BY <1>3, <2>2, <2>3, <2>4, Zenon
<1> QED
  BY <1>1, <1>4, <1>5, <1>6, <1>7

----------------------------------------------------------------------------
(* Every step keeps the invariant *)

LEMMA InitInv == Init => IInv
<1> SUFFICES ASSUME Init PROVE IInv
  OBVIOUS
<1>1. TypeInv
  <2>1. cmds \in Seq([op : Ops, sect : Nat, n : Nat]) /\ data \in Seq(Val \cup Ops \cup {NOISE})
    BY EmptySeq, Zenon DEF Init
  <2>2. drive \in [state : {"idle", "busy", "drq"}, op : Ops \cup {"none"}, sect : Nat, n : Nat,
                   new : BOOLEAN]
    BY SMT DEF Init
  <2>3. req \in Request \cup {[type |-> "none"]} /\ disk \in [Sector -> Val]
    BY Zenon DEF Init
  <2>4. /\ left \in 0 .. NSect /\ has_int \in {0, 1} /\ open_cnt \in Nat
        /\ drive.state = "idle" /\ drive.op = "none" /\ drive.n = 0 /\ drive.n \in 0 .. NSect
    BY HdAssumption, SMT DEF Init
  <2>5. fs = "ready" /\ hd = "main" /\ intrq \in BOOLEAN /\ known \in BOOLEAN /\ written \in BOOLEAN
    BY Zenon DEF Init
  <2> QED
    BY <2>1, <2>2, <2>3, <2>4, <2>5, SMT DEF TypeOK, TypeInv
<1>2. ClientInv /\ CommandInv /\ InterruptInv /\ ReadInv /\ WriteInv
  BY SMT DEF Init, ClientInv, CommandInv, InterruptInv, ReadInv, WriteInv, Input, Output, Serving
<1> QED
  BY <1>1, <1>2 DEF IInv

LEMMA ClientStep == ASSUME IInv, NEW r \in Request, ClientSends(r) PROVE IInv'
<1> USE DEF IInv, ClientSends, task, ext
<1>1. TypeInv'
  BY SMT DEF TypeInv, TypeOK
<1>2. ClientInv'
  <2>1. fs' = "sending" /\ req' = r /\ hd' = hd
    OBVIOUS
  <2>2. fs = "ready" /\ cmds' = cmds
    OBVIOUS
  <2>3. r.type = "DEV_OPEN" \/ open_cnt > 0
    BY SMT DEF TypeInv, TypeOK
  <2>4. r.type = "DEV_WRITE" => written'
    OBVIOUS
  <2> QED
    BY <2>1, <2>2, <2>3, <2>4, SMT DEF ClientInv, Serving
<1>3. cmds = <<>> /\ hd \notin Output \cup {"answer"}
  BY DEF ClientInv, CommandInv, Serving, Output
<1>4. CommandInv'
  BY <1>3, SMT DEF CommandInv, Input, Output
<1>5. InterruptInv' /\ ReadInv'
  <2>1. cmds' = cmds /\ hd' = hd /\ fs' = "sending" /\ (~written' => ~written)
    BY SMT DEF TypeInv
  <2>2. InterruptInv'
    BY <1>3, <2>1, SMT DEF InterruptInv
  <2>3. ReadInv'
    BY <2>1, SMT DEF ReadInv
  <2> QED
    BY <2>2, <2>3
<1>6. WriteInv'
  BY <1>3, SMT DEF WriteInv, Output
<1> QED
  BY <1>1, <1>2, <1>4, <1>5, <1>6

\* A request is taken by a task without one.
LEMMA RequestTaken ==
  ASSUME IInv, TakeRequest, hd \in {"any", "main"}, intrq' \in BOOLEAN, written \/ intrq' = intrq
  PROVE  IInv'
<1> USE DEF IInv, TakeRequest
<1>0. req \in Request /\ fs = "sending"
  BY DEF ClientInv
<1>1. PICK tables \in Tables : cmds' = Commands(req, tables)
  OBVIOUS
<1>2. /\ cmds' \in Seq(CmdsOf(req)) /\ (req.type # "DEV_OPEN" => Len(cmds') <= 1)
      /\ cmds' = <<>> => req.type \notin {"DEV_READ", "DEV_WRITE"}
  BY <1>0, <1>1, CommandsFacts, Zenon
<1>3. cmds' \in Seq([op : Ops, sect : Nat, n : Nat])
  BY <1>0, <1>2, CmdsFacts, SeqMonotonic, Zenon DEF Ops
<1>4. TypeInv'
  BY <1>3, EmptySeq, SMT DEF TypeInv, TypeOK, ClientInv
<1>5. ClientInv'
  BY <1>0, SMT DEF TypeInv, TypeOK, ClientInv, Serving
<1>6. CommandInv'
  <2>1. cmds' \in Seq(CmdsOf(req)')
    BY <1>2, Zenon DEF CmdsOf
  <2> QED
    BY <1>2, <2>1, SMT DEF CommandInv, Input, Output
<1>7. InterruptInv'
  BY SMT DEF InterruptInv, CommandInv, Input
<1>8. ReadInv' /\ WriteInv'
  BY <1>0, <1>2, RequestFacts, EmptySeq, SMT DEF TypeInv, TypeOK, ClientInv, ReadInv, WriteInv, ToRead, Output
<1> QED
  BY <1>4, <1>5, <1>6, <1>7, <1>8

LEMMA ReceiveStep == ASSUME IInv, Receive PROVE IInv'
<1>1. TakeRequest /\ hd \in {"any", "main"} /\ intrq' = intrq
  BY DEF Receive
<1>2. intrq' \in BOOLEAN
  BY <1>1 DEF IInv, TypeInv, TypeOK
<1> QED
  BY <1>1, <1>2, RequestTaken

LEMMA ReceiveDisturbedStep == ASSUME IInv, ReceiveDisturbed PROVE IInv'
<1>1. hd = "any" /\ intrq /\ intrq' = FALSE /\ fs = "sending"
  BY DEF ReceiveDisturbed
<1>2. written /\ cmds = <<>>
  BY <1>1, SMT DEF IInv, InterruptInv, CommandInv
<1>3. CASE TakeRequest
  BY <1>1, <1>2, <1>3, RequestTaken
<1>4. CASE ~TakeRequest
  <2>1. /\ \/ hd' = "halted" /\ fs' = fs
           \/ hd' = "spin" /\ fs' = "waiting"
        /\ UNCHANGED <<req, cmds, left, data, open_cnt, known, has_int, drive, disk, written>>
    BY <1>4 DEF ReceiveDisturbed
  <2>2. TypeInv'
    <3>1. fs' \in {"ready", "sending", "waiting"} /\ hd' \in Places
      BY <1>1, <2>1, SMT DEF Places
    <3>2. intrq' \in BOOLEAN
      BY <1>1, Zenon
    <3> QED
      BY <2>1, <3>1, <3>2, Zenon DEF IInv, TypeInv, TypeOK, Places
  <2>3. ClientInv'
    BY <1>1, <1>2, <2>1, SMT DEF IInv, ClientInv, Serving
  <2>4. CommandInv' /\ WriteInv'
    BY <1>2, <2>1, SMT DEF CommandInv, WriteInv, Input, Output
  <2> QED
    BY <1>2, <2>1, <2>2, <2>3, <2>4 DEF IInv, InterruptInv, ReadInv
<1> QED
  BY <1>3, <1>4

\* Data goes out for a write only.
LEMMA OutputWrites ==
  ASSUME IInv, hd \in Output
  PROVE  written /\ req \in Request /\ req.type = "DEV_WRITE" /\ cmds[1].sect = req.sect /\ cmds[1].n = req.n
<1>0. cmds # <<>>
  BY DEF IInv, CommandInv
<1>1. /\ req \in Request /\ cmds[1] \in CmdsOf(req)
  BY <1>0, CurrentCommand DEF IInv
<1>2. cmds[1].op = "write"
  BY DEF IInv, CommandInv
<1>3. req.type = "DEV_WRITE" /\ cmds[1].sect = req.sect /\ cmds[1].n = req.n
  BY <1>1, <1>2, CmdsFacts, Zenon
<1> QED
  BY <1>1, <1>3 DEF IInv, ClientInv

\* Steps that change nothing but where the task is and the mark of an interrupt.
LEMMA Moves ==
  ASSUME IInv, UNCHANGED <<fs, req, cmds, left, data, open_cnt, known, drive, disk, written>>,
         hd' \in Places, has_int' \in {0, 1}, intrq' \in BOOLEAN,
         hd' = hd \/ (hd \notin {"answer", "spin"} /\ hd' # "answer")
  PROVE  TypeInv' /\ ClientInv'
<1>1. TypeInv'
  BY SMT DEF IInv, TypeInv, TypeOK, Places
<1>2. ClientInv'
  BY SMT DEF IInv, ClientInv, Serving
<1> QED
  BY <1>1, <1>2

Move == Main \/ InterruptWait \/ Clear \/ Taken \/ Blocked \/ Poll \/ GiveUp \/ TicksHalt

LEMMA MoveStep == ASSUME IInv, Move PROVE IInv'
<1>1. /\ UNCHANGED <<fs, req, cmds, left, data, open_cnt, known, drive, disk, written, intrq>>
      /\ \/ Main /\ hd' \in {"clear", "block"}
         \/ InterruptWait /\ hd' \in {"clear", "block"}
         \/ Clear /\ hd' = "taken"
         \/ Taken /\ hd' \in {"halted", "spin", "read"}
         \/ Blocked /\ hd' \in {"any", "sleep"}
         \/ Poll /\ hd' = "write"
         \/ GiveUp /\ hd' = "panic"
         \/ TicksHalt /\ hd' = "halted"
  BY Zenon DEF Move, Main, InterruptWait, Clear, Taken, Blocked, Poll, GiveUp, TicksHalt, ext
<1>2. hd \in {"main", "wait", "clear", "taken", "block", "poll", "command"}
  BY DEF Move, Main, InterruptWait, Clear, Taken, Blocked, Poll, GiveUp, TicksHalt
<1>3. TypeInv' /\ ClientInv'
  <2>1. has_int' \in {0, 1} /\ intrq' \in BOOLEAN
    BY <1>1, SMT DEF IInv, TypeInv, TypeOK, Move, Main, InterruptWait, Clear, Taken, Blocked, Poll,
       GiveUp, TicksHalt
  <2>2. hd' \in Places /\ hd \notin {"answer", "spin"} /\ hd' # "answer"
    BY <1>1, <1>2, SMT DEF Places
  <2> QED
    BY <1>1, <2>1, <2>2, Moves
<1>4. CommandInv'
  BY <1>1, SMT DEF IInv, CommandInv, CmdsOf, Input, Output, Main, InterruptWait, Clear, Taken, Blocked,
     Poll, GiveUp, TicksHalt
<1>5. InterruptInv'
  <2>1. CASE Main
    BY <1>1, <2>1, SMT DEF IInv, InterruptInv, CommandInv, Main, Input
  <2>2. CASE InterruptWait
    BY <1>1, <2>2, SMT DEF IInv, InterruptInv, CommandInv, InterruptWait, Input, Over
  <2>3. CASE Clear
    BY <1>1, <2>3, SMT DEF IInv, InterruptInv, CommandInv, Clear, Input, Over
  <2>4. CASE Taken
    BY <1>1, <2>4, SMT DEF IInv, InterruptInv, CommandInv, Taken, Input, Over
  <2>5. CASE Blocked
    BY <1>1, <2>5, SMT DEF IInv, InterruptInv, CommandInv, Blocked, Input, Over
  <2>6. CASE Poll
    BY <1>1, <2>6, OutputWrites DEF IInv, InterruptInv, Poll, Output
  <2>7. CASE GiveUp
    BY <1>1, <2>7, SMT DEF IInv, InterruptInv, CommandInv, GiveUp, Input, Output
  <2>8. CASE TicksHalt
    <3>1. written
      BY <2>8, OutputWrites, SMT DEF IInv, InterruptInv, TicksHalt, Output
    <3> QED
      BY <1>1, <3>1 DEF InterruptInv
  <2> QED
    BY <1>1, <2>1, <2>2, <2>3, <2>4, <2>5, <2>6, <2>7, <2>8
<1>6. ReadInv'
  <2>1. written \/ hd' \in {"panic", "halted"} \/ (ToRead' = ToRead /\ hd \notin {"panic", "halted"})
    BY <1>1, <1>2, OutputWrites, SMT DEF ToRead, Output, Main, InterruptWait, Clear, Taken, Blocked,
       Poll, GiveUp, TicksHalt
  <2> QED
    BY <1>1, <2>1, Zenon DEF IInv, ReadInv
<1>7. WriteInv'
  <2>1. hd' # "answer"
    BY <1>1
  <2>2. hd' \in Output => hd = "poll" /\ hd' = "write" /\ drive.state = "drq"
    BY <1>1 DEF Output, Poll
  <2> QED
    BY <1>1, <2>1, <2>2, SMT DEF IInv, WriteInv, Output, Over
<1> QED
  BY <1>3, <1>4, <1>5, <1>6, <1>7 DEF IInv

LEMMA DriveReadyStep == ASSUME IInv, DriveReady PROVE IInv'
<1> USE DEF DriveReady, task
<1>1. /\ drive.state = "busy" /\ drive' \in [state : {"idle", "drq"}, op : Ops \cup {"none"}, sect : Nat,
                                           n : Nat, new : BOOLEAN]
      /\ drive'.op = drive.op /\ drive'.sect = drive.sect /\ drive'.n = drive.n
      /\ drive'.state = IF drive.n = 0 THEN "idle" ELSE "drq"
  <2>1. drive \in [state : {"idle", "busy", "drq"}, op : Ops \cup {"none"}, sect : Nat, n : Nat, new : BOOLEAN]
    BY Zenon DEF IInv, TypeInv
  <2>2. PICK st \in {"idle", "drq"} : st = IF drive.n = 0 THEN "idle" ELSE "drq"
    BY Zenon
  <2>3. drive.state = "busy" /\ drive' = [drive EXCEPT !.state = st]
    BY <2>2, Zenon
  <2> HIDE DEF DriveReady
  <2> QED
    BY <2>1, <2>2, <2>3, SMT
<1>2. drive.n \in Nat /\ drive.n <= NSect
  BY HdAssumption, SMT DEF IInv, TypeInv, TypeOK
<1>3. TypeInv'
  <2>1. intrq' \in BOOLEAN
    BY Zenon
  <2>2. drive'.state \in {"idle", "busy", "drq"} /\ drive'.n \in 0 .. NSect /\ (drive'.state = "drq" => drive'.n >= 1)
    BY <1>1, <1>2, HdAssumption, SMT
  <2>3. drive' \in [state : {"idle", "busy", "drq"}, op : Ops \cup {"none"}, sect : Nat, n : Nat, new : BOOLEAN]
    BY <1>1, SMT
  <2> QED
    BY <2>1, <2>2, <2>3, Zenon DEF IInv, TypeInv, TypeOK
<1>4. ClientInv' /\ CommandInv'
  BY Zenon DEF IInv, ClientInv, CommandInv, CmdsOf, Serving
<1>5. InterruptInv'
  <2> SUFFICES ASSUME ~written PROVE InterruptInv'
    BY Zenon DEF InterruptInv
  <2>0. CASE cmds = <<>> \/ hd \in {"panic", "halted"}
    BY <1>1, <2>0, SMT DEF IInv, InterruptInv, CommandInv, Input
  <2> SUFFICES ASSUME cmds # <<>>, hd \notin {"panic", "halted"} PROVE InterruptInv'
    BY <2>0
  <2>3. hd \in Places /\ hd \notin Output
    BY OutputWrites DEF IInv, TypeInv, TypeOK, Places
  <2>1. /\ hd \in {"wait", "block", "sleep"} /\ ~intrq /\ has_int = 0
        /\ drive.n >= 1 /\ drive.op = cmds[1].op
    BY <1>1, <2>3, SMT DEF IInv, InterruptInv, CommandInv, Input, Output, Places
  <2>2. intrq' /\ drive'.state = "drq"
    <3>1. drive.n # 0 /\ drive.op # "write"
      BY <1>2, <2>1, SMT DEF IInv, CommandInv, Input
    <3> QED
      BY <1>1, <3>1, Zenon
  <2> QED
    BY <1>1, <2>1, <2>2, SMT DEF IInv, InterruptInv, Input, Over
<1>6. ReadInv'
  BY Zenon DEF IInv, ReadInv, ToRead
<1>7. WriteInv'
  BY <1>1, <1>2, SMT DEF IInv, WriteInv, CommandInv, Output, Over
<1> QED
  BY <1>3, <1>4, <1>5, <1>6, <1>7 DEF IInv

LEMMA HdHandlerStep == ASSUME IInv, HdHandler PROVE IInv'
<1>1. /\ intrq /\ intrq' = FALSE /\ hd \notin {"panic", "halted"}
      /\ UNCHANGED <<fs, req, cmds, left, data, open_cnt, known, drive, disk, written>>
      /\ \/ hd = "sleep" /\ hd' = "read" /\ has_int' = 0
         \/ hd = "any" /\ hd' = "spin" /\ has_int' = 0
         \/ hd = "block" /\ hd' = "halted" /\ has_int' = has_int
         \/ hd \notin {"sleep", "any", "block"} /\ hd' = hd /\ has_int' = 1
  BY DEF HdHandler
<1>2. TypeInv' /\ ClientInv'
  <2>0. has_int \in {0, 1}
    BY DEF IInv, TypeInv, TypeOK
  <2>1. has_int' \in {0, 1} /\ intrq' \in BOOLEAN
    BY <1>1, <2>0, Zenon
  <2>2. hd' \in Places
    BY <1>1, SMT DEF IInv, TypeInv, TypeOK, Places
  <2>3. hd' = hd \/ (hd \notin {"answer", "spin"} /\ hd' # "answer")
    BY <1>1
  <2> QED
    BY <1>1, <2>1, <2>2, <2>3, Moves
<1>3. CommandInv'
  BY <1>1, SMT DEF IInv, CommandInv, CmdsOf, Input, Output
<1>4. InterruptInv'
  <2> SUFFICES ASSUME ~written PROVE InterruptInv'
    BY <1>1, Zenon DEF InterruptInv
  <2>1. cmds # <<>> /\ hd \in {"wait", "block", "sleep"} /\ drive.state = "drq" /\ has_int = 0
    BY <1>1, OutputWrites, SMT DEF IInv, InterruptInv, CommandInv, TypeInv, TypeOK, Output
  <2> QED
    BY <1>1, <2>1, SMT DEF IInv, InterruptInv, Input, Over
<1>5. ReadInv'
  <2>1. hd' = "halted" \/ (ToRead' = ToRead /\ hd \notin {"panic", "halted"})
    BY <1>1, SMT DEF ToRead
  <2> QED
    BY <1>1, <2>1, Zenon DEF IInv, ReadInv
<1>6. WriteInv'
  <2>1. hd' \in Output \cup {"answer"} => hd' = hd
    BY <1>1, SMT DEF Output
  <2> QED
    BY <1>1, <2>1, SMT DEF IInv, WriteInv, Output, Over
<1> QED
  BY <1>2, <1>3, <1>4, <1>5, <1>6 DEF IInv

LEMMA CommandOutStep == ASSUME IInv, CommandOut PROVE IInv'
<1> USE DEF CommandOut
<1>1. PICK c : c = cmds[1]
  OBVIOUS
<1>2. /\ req \in Request /\ fs = "waiting" /\ hd = "command" /\ Head(cmds) = c /\ c \in CmdsOf(req)
  BY <1>1, CurrentCommand DEF IInv, CommandInv
<1>3. /\ c \in [op : Ops, sect : Nat, n : Nat] /\ 1 <= c.n /\ c.n <= NSect
      /\ c.op = "write" => req.type = "DEV_WRITE"
      /\ req.type = "DEV_READ" => c.op = "read" /\ c.sect = req.sect /\ c.n = req.n
      /\ req.type = "DEV_WRITE" => c.op = "write" /\ c.sect = req.sect /\ c.n = req.n
  BY <1>2, CmdsFacts, Zenon
<1>12. Count(c.n) \in Nat /\ 1 <= Count(c.n) /\ Count(c.n) <= c.n
  BY <1>3, CountFacts, SMT
<1>4. /\ drive' = [state |-> "busy", op |-> c.op, sect |-> c.sect, n |-> Count(c.n), new |-> TRUE]
      /\ left' = c.n /\ hd' = IF c.op = "write" THEN "poll" ELSE "wait"
      /\ intrq' = FALSE /\ cmds' = cmds /\ drive.state # "busy"
      /\ UNCHANGED <<fs, req, has_int, data, open_cnt, known, disk, written>>
  BY <1>2, Zenon
<1>5. /\ drive'.state = "busy" /\ drive'.op = c.op /\ drive'.sect = c.sect /\ drive'.n = Count(c.n)
      /\ drive' \in [state : {"idle", "busy", "drq"}, op : Ops \cup {"none"}, sect : Nat, n : Nat, new : BOOLEAN]
  BY <1>3, <1>4, <1>12, SMT
<1> HIDE DEF CommandOut
<1>6. TypeInv'
  <2>1. left' \in 0 .. NSect /\ drive'.n \in 0 .. NSect
    BY <1>3, <1>4, <1>5, <1>12, HdAssumption, SMT
  <2>2. drive'.op \in {"read", "write"} => 1 <= drive'.sect /\ drive'.sect + drive'.n <= NSect + 1
    <3>1. c.op \in {"read", "write"} => c.sect + Count(c.n) <= NSect + 1 /\ 1 <= c.sect
      BY <1>2, <1>3, CmdsFit, Zenon
    <3> QED
      BY <1>5, <3>1, Zenon
  <2>3. drive'.op # "none" /\ drive'.state # "drq" /\ drive'.state \in {"idle", "busy", "drq"}
    BY <1>3, <1>5, SMT DEF Ops
  <2>4. hd' \in Places
    BY <1>4 DEF Places
  <2> QED
    BY <1>4, <1>5, <2>1, <2>2, <2>3, <2>4, Zenon DEF IInv, TypeInv, TypeOK, Places
<1>7. ClientInv'
  <2>1. cmds # <<>>
    BY <1>2 DEF IInv, CommandInv
  <2> QED
    BY <1>2, <1>4, <2>1, SMT DEF IInv, ClientInv, Serving
<1>8. CommandInv'
  BY <1>1, <1>2, <1>3, <1>4, SMT DEF IInv, CommandInv, CmdsOf, Input, Output
<1>9. InterruptInv'
  <2> SUFFICES ASSUME ~written PROVE InterruptInv'
    BY <1>4, Zenon DEF InterruptInv
  <2>1. cmds # <<>> /\ has_int = 0
    BY <1>2 DEF IInv, CommandInv, InterruptInv
  <2>2. c.op # "write"
    BY <1>3 DEF IInv, ClientInv
  <2>3. left' - Over(c) = Count(c.n) /\ c.sect + c.n - left' = c.sect
    BY <1>3, <1>4, <1>12, SMT DEF Over
  <2>4. hd' = "wait" /\ cmds' # <<>> /\ cmds'[1] = c
    BY <1>1, <1>4, <2>1, <2>2
  <2>5. drive'.n = left' - Over(cmds'[1]) /\ drive'.sect = cmds'[1].sect + cmds'[1].n - left'
    BY <1>5, <2>3, <2>4, Zenon
  <2>6. Over(cmds'[1]) = Over(cmds[1])'
    BY Zenon DEF Over
  <2> QED
    BY <1>4, <1>5, <1>12, <2>1, <2>4, <2>5, <2>6, SMT DEF InterruptInv, Input
<1>10. ReadInv'
  BY <1>2, <1>3, <1>4, SMT DEF IInv, ReadInv, ToRead
<1>11. WriteInv'
  <2>1. hd' \in Output => c.op = "write" /\ drive'.sect = req.sect /\ c.n = req.n /\ req.n \in Nat /\ req.sect \in Nat
    BY <1>3, <1>4, <1>5, SMT DEF Output
  <2>5. hd' \in Output => left' - Over(cmds'[1]) = Count(c.n)
    BY <1>1, <1>3, <1>4, <1>12, SMT DEF Over
  <2>2. hd' \in Output => drive'.sect = req.sect + req.n - left'
    BY <1>4, <2>1, SMT
  <2>3. hd' \in Output => \A s \in Sector : ~(req.sect <= s /\ s < drive'.sect)
    BY <2>1, SMT DEF Sector
  <2> QED
    BY <1>4, <1>5, <2>1, <2>2, <2>3, <2>5, SMT DEF WriteInv, Output, Over
<1> QED
  BY <1>6, <1>7, <1>8, <1>9, <1>10, <1>11 DEF IInv

\* A sector is done.
LEMMA AfterFacts ==
  ASSUME IInv, hd \in {"read"} \cup Output, NEW w, After(w)
  PROVE  /\ left \in Nat /\ 1 <= left /\ left' = left - 1 /\ left' \in 0 .. NSect
         /\ left > 1 => hd' = w /\ cmds' = cmds
         /\ left = 1 => \/ hd' = "answer" /\ cmds' = <<>>
                        \/ hd' = "command" /\ cmds' # <<>> /\ req.type = "DEV_OPEN"
         /\ cmds' \in Seq(CmdsOf(req)) /\ cmds' \in Seq([op : Ops, sect : Nat, n : Nat])
         /\ req.type # "DEV_OPEN" => Len(cmds') <= 1
<1>6. cmds # <<>> /\ hd \in Input \cup Output
  BY DEF IInv, CommandInv, Input
<1>7. 1 <= left /\ left \in 0 .. NSect
  BY <1>6 DEF IInv, TypeInv, TypeOK, CommandInv
<1>1. left \in Nat /\ 1 <= left /\ left <= NSect
  BY <1>7, HdAssumption, SMT
<1>2. left' = left - 1 /\ left' \in 0 .. NSect
  BY <1>1, HdAssumption, SMT DEF After
<1>3. /\ cmds \in Seq(CmdsOf(req)) /\ cmds \in Seq([op : Ops, sect : Nat, n : Nat])
      /\ req.type # "DEV_OPEN" => Len(cmds) <= 1
  BY <1>6, CurrentCommand, Zenon DEF IInv, CommandInv, TypeInv
<1>4. CASE left > 1
  BY <1>1, <1>2, <1>3, <1>4, SMT DEF After
<1>5. CASE ~(left > 1)
  <2>1. cmds' = Tail(cmds) /\ hd' = IF Len(cmds) = 1 THEN "answer" ELSE "command"
    BY <1>5, Zenon DEF After
  <2>2. req.type # "DEV_OPEN" => Len(Tail(cmds)) <= 1
    BY <1>3, <1>6, CurrentCommand, SMT DEF IInv
  <2>3. /\ Tail(cmds) \in Seq(CmdsOf(req)) /\ Tail(cmds) \in Seq([op : Ops, sect : Nat, n : Nat])
        /\ Len(cmds) = 1 => Tail(cmds) = <<>>
        /\ Len(cmds) # 1 => Tail(cmds) # <<>> /\ req.type = "DEV_OPEN"
    BY <1>6, CurrentCommand, Zenon DEF IInv
  <2> QED
    BY <1>1, <1>2, <1>5, <2>1, <2>2, <2>3, Zenon
<1> QED
  BY <1>4, <1>5

LEMMA FieldsSet ==
  ASSUME NEW r \in [state : {"idle", "busy", "drq"}, op : Ops \cup {"none"}, sect : Nat, n : Nat, new : BOOLEAN],
         NEW st \in {"idle", "busy"}, NEW a \in Nat, NEW b \in Nat, NEW q,
         q = [r EXCEPT !.state = st, !.sect = a, !.n = b, !.new = FALSE]
  PROVE  /\ q \in [state : {"idle", "busy", "drq"}, op : Ops \cup {"none"}, sect : Nat, n : Nat, new : BOOLEAN]
         /\ q.state = st /\ q.op = r.op /\ q.sect = a /\ q.n = b
<1>1. PICK r1 : r1 = [r EXCEPT !.state = st]
  OBVIOUS
<1>2. PICK r2 : r2 = [r1 EXCEPT !.sect = a]
  OBVIOUS
<1>3. PICK r3 : r3 = [r2 EXCEPT !.n = b]
  OBVIOUS
<1>4. q = [r3 EXCEPT !.new = FALSE]
  BY <1>1, <1>2, <1>3
<1>5. /\ r1 \in [state : {"idle", "busy", "drq"}, op : Ops \cup {"none"}, sect : Nat, n : Nat, new : BOOLEAN]
      /\ r1.state = st /\ r1.op = r.op
  BY <1>1, SMT
<1>6. /\ r2 \in [state : {"idle", "busy", "drq"}, op : Ops \cup {"none"}, sect : Nat, n : Nat, new : BOOLEAN]
      /\ r2.state = st /\ r2.op = r.op /\ r2.sect = a
  BY <1>2, <1>5, SMT
<1>7. /\ r3 \in [state : {"idle", "busy", "drq"}, op : Ops \cup {"none"}, sect : Nat, n : Nat, new : BOOLEAN]
      /\ r3.state = st /\ r3.op = r.op /\ r3.sect = a /\ r3.n = b
  BY <1>3, <1>6, SMT
<1>8. PICK f \in BOOLEAN : f = FALSE
  OBVIOUS
<1>9. q = [r3 EXCEPT !.new = f]
  BY <1>4, <1>8, Zenon
<1> QED
  BY <1>7, <1>9, SMT

\* A sector has passed between the drive and the task.
LEMMA DriveMoves ==
  ASSUME TypeInv, NEW st \in {"idle", "busy"}, drive.state = "drq",
         drive' = [drive EXCEPT !.state = st, !.sect = @ + 1, !.n = @ - 1, !.new = FALSE]
  PROVE  /\ drive'.state = st /\ drive'.op = drive.op /\ drive'.sect = drive.sect + 1
         /\ drive'.n = drive.n - 1 /\ drive'.n \in 0 .. NSect
         /\ drive' \in [state : {"idle", "busy", "drq"}, op : Ops \cup {"none"}, sect : Nat, n : Nat,
                        new : BOOLEAN]
         /\ drive'.op \in {"read", "write"} => 1 <= drive'.sect /\ drive'.sect + drive'.n <= NSect + 1
<1>1. /\ drive \in [state : {"idle", "busy", "drq"}, op : Ops \cup {"none"}, sect : Nat, n : Nat, new : BOOLEAN]
      /\ drive.n \in 0 .. NSect /\ drive.n >= 1
      /\ drive.op \in {"read", "write"} => 1 <= drive.sect /\ drive.sect + drive.n <= NSect + 1
  BY SMT DEF TypeInv, TypeOK
<1>2. /\ drive.sect \in Nat /\ drive.n \in Nat /\ drive.n <= NSect /\ NSect \in Nat
  BY <1>1, HdAssumption, SMT
<1>3. PICK a \in Nat, b \in Nat : a = drive.sect + 1 /\ b = drive.n - 1
  BY <1>1, <1>2, SMT
<1>4. drive' = [drive EXCEPT !.state = st, !.sect = a, !.n = b, !.new = FALSE]
  BY <1>3, Zenon
<1>5. /\ drive' \in [state : {"idle", "busy", "drq"}, op : Ops \cup {"none"}, sect : Nat, n : Nat, new : BOOLEAN]
      /\ drive'.state = st /\ drive'.op = drive.op /\ drive'.sect = a /\ drive'.n = b
  <2>1. PICK q : q = drive'
    OBVIOUS
  <2>2. PICK r : r = drive
    OBVIOUS
  <2>3. /\ r \in [state : {"idle", "busy", "drq"}, op : Ops \cup {"none"}, sect : Nat, n : Nat, new : BOOLEAN]
        /\ q = [r EXCEPT !.state = st, !.sect = a, !.n = b, !.new = FALSE]
    BY <1>1, <1>4, <2>1, <2>2, Zenon
  <2>4. /\ q \in [state : {"idle", "busy", "drq"}, op : Ops \cup {"none"}, sect : Nat, n : Nat, new : BOOLEAN]
        /\ q.state = st /\ q.op = r.op /\ q.sect = a /\ q.n = b
    BY <2>3, FieldsSet
  <2> QED
    BY <2>1, <2>2, <2>4, Zenon
<1> QED
  BY <1>1, <1>2, <1>3, <1>5, SMT

LEMMA PortReadStep == ASSUME IInv, PortRead PROVE IInv'
<1>1. /\ hd = "read" /\ After("wait") /\ cmds # <<>>
      /\ UNCHANGED <<fs, req, has_int, open_cnt, known, intrq, disk, written>>
  BY SMT DEF PortRead, IInv, CommandInv
<1>2. PICK c : c = cmds[1]
  OBVIOUS
<1>3. /\ req \in Request /\ fs = "waiting" /\ c \in CmdsOf(req) /\ c.op # "write"
  BY <1>1, <1>2, CurrentCommand DEF IInv, CommandInv, Input
<1>4. /\ req.type = "DEV_OPEN" => c.op \in {"identify", "table"}
      /\ req.type = "DEV_READ" => c.op = "read" /\ c.sect = req.sect /\ c.n = req.n
      /\ req.type # "DEV_WRITE"
  BY <1>3, CmdsFacts, Zenon
<1>5. /\ left \in Nat /\ 1 <= left /\ left' = left - 1 /\ left' \in 0 .. NSect
      /\ left > 1 => hd' = "wait" /\ cmds' = cmds
      /\ left = 1 => \/ hd' = "answer" /\ cmds' = <<>>
                     \/ hd' = "command" /\ cmds' # <<>> /\ req.type = "DEV_OPEN"
      /\ cmds' \in Seq(CmdsOf(req)) /\ cmds' \in Seq([op : Ops, sect : Nat, n : Nat])
      /\ req.type # "DEV_OPEN" => Len(cmds') <= 1
  BY <1>1, AfterFacts, Zenon
<1>6. hd' \in {"wait", "answer", "command"} /\ left <= cmds[1].n
  BY <1>1, <1>5, SMT DEF IInv, CommandInv, Input
<1>9. ClientInv'
  <2>1. cmds' # <<>> \/ hd' = "answer"
    BY <1>1, <1>5, <1>6, SMT
  <2> QED
    BY <1>1, <1>3, <1>6, <2>1, SMT DEF IInv, ClientInv, Serving
<1>12. hd' = "wait" => left > 1 /\ 1 <= left' /\ left' <= cmds[1].n /\ cmds' = cmds
  <2>1. cmds[1].n \in Nat
    BY <1>2, <1>3, CmdsFacts, SMT
  <2> QED
    BY <1>5, <1>6, <2>1, SMT
<1>10. CommandInv'
  <2>1. hd' = "answer" => cmds' = <<>>
    BY <1>5, <1>6, SMT
  <2>2. hd' # "answer" => cmds' # <<>>
    BY <1>1, <1>5, <1>6, SMT DEF IInv, CommandInv
  <2>3. hd' \in Input \cup Output => hd' = "wait"
    BY <1>6 DEF Input, Output
  <2>4. cmds' \in Seq(CmdsOf(req)') /\ (req'.type # "DEV_OPEN" => Len(cmds') <= 1)
    BY <1>1, <1>5, Zenon DEF CmdsOf
  <2>5. hd' \notin Output
    BY <1>6 DEF Output
  <2> QED
    BY <1>2, <1>3, <1>12, <2>1, <2>2, <2>3, <2>4, <2>5, <1>6, SMT DEF CommandInv
<1>11. WriteInv'
  BY <1>1, <1>4, <1>6, SMT DEF WriteInv, Output
<1>7. CASE drive.state = "drq" /\ drive.op # "write"
  <2>1. PICK x : /\ x = IF drive.op = "read" /\ known THEN disk[drive.sect]
                         ELSE IF drive.op = "read" THEN NOISE ELSE drive.op
                 /\ data' = Append(data, x)
    BY <1>7, Zenon DEF PortRead
  <2>2. PICK st \in {"idle", "busy"} : st = IF drive.n > 1 THEN "busy" ELSE "idle"
    BY Zenon
  <2>3. drive' = [drive EXCEPT !.state = st, !.sect = @ + 1, !.n = @ - 1, !.new = FALSE]
    BY <1>7, <2>2, Zenon DEF PortRead
  <2>4. drive.n \in Nat /\ (st = "idle" <=> drive.n = 1) /\ (st = "busy" <=> drive.n > 1) /\ drive.n >= 1
    BY <1>7, <2>2, HdAssumption, SMT DEF IInv, TypeInv, TypeOK
  <2>5. /\ drive'.state = st /\ drive'.op = drive.op /\ drive'.sect = drive.sect + 1
        /\ drive'.n = drive.n - 1 /\ drive'.n \in 0 .. NSect
        /\ drive' \in [state : {"idle", "busy", "drq"}, op : Ops \cup {"none"}, sect : Nat, n : Nat,
                       new : BOOLEAN]
        /\ drive'.op \in {"read", "write"} => 1 <= drive'.sect /\ drive'.sect + drive'.n <= NSect + 1
    BY <1>7, <2>3, DriveMoves, Zenon DEF IInv
  <2>11. drive.op # "none"
    BY <1>7 DEF IInv, TypeInv
  <2>6. x \in Val \cup Ops \cup {NOISE}
    <3>1. drive.op = "read" => drive.sect \in Sector
      BY <2>4, HdAssumption, SMT DEF IInv, TypeInv, TypeOK, Sector
    <3>2. drive.op \in Ops \cup {"none"} /\ disk \in [Sector -> Val]
      BY SMT DEF IInv, TypeInv, TypeOK
    <3> QED
      BY <2>1, <2>11, <3>1, <3>2, SMT
  <2>7. /\ data' \in Seq(Val \cup Ops \cup {NOISE}) /\ Len(data') = Len(data) + 1 /\ Len(data) \in Nat
        /\ \A k \in 1 .. Len(data) : data'[k] = data[k]
        /\ data'[Len(data) + 1] = x
    <3>1. data \in Seq(Val \cup Ops \cup {NOISE})
      BY DEF IInv, TypeInv
    <3>2. PICK d : d = data
      OBVIOUS
    <3>5. d \in Seq(Val \cup Ops \cup {NOISE})
      BY <3>1, <3>2
    <3>3. /\ Append(d, x) \in Seq(Val \cup Ops \cup {NOISE}) /\ Len(Append(d, x)) = Len(d) + 1
          /\ \A k \in 1 .. Len(d) : Append(d, x)[k] = d[k]
          /\ Append(d, x)[Len(d) + 1] = x
      BY <2>6, <3>5, AppendProperties
    <3>4. Len(data) \in Nat
      BY <3>1, LenProperties
    <3> QED
      BY <2>1, <3>2, <3>3, <3>4, Zenon
  <2>8. TypeInv'
    <3>1. drive'.state # "drq" /\ drive'.state \in {"idle", "busy", "drq"}
      BY <2>5, Zenon
    <3>2. hd' \in Places
      BY <1>6, SMT DEF Places
    <3> QED
      BY <1>1, <1>5, <2>5, <2>7, <2>11, <3>1, <3>2, Zenon DEF IInv, TypeInv, TypeOK, Places
  <2>9. ReadInv'
    <3> SUFFICES ASSUME ~written PROVE ReadInv'
      BY <1>1, Zenon DEF ReadInv
    <3>1. drive.op = c.op /\ drive.sect = c.sect + c.n - left
      BY <1>1, <1>2 DEF IInv, InterruptInv, Input
    <3>2. (open_cnt > 0 => known)'
      BY <1>1 DEF IInv, ReadInv
    <3>3. ASSUME req.type = "DEV_OPEN"
          PROVE  \A k \in 1 .. Len(data') : data'[k] \in {"identify", "table"}
      <4>1. x \in {"identify", "table"}
        BY <1>4, <2>1, <3>1, <3>3, SMT
      <4>2. \A k \in 1 .. Len(data) : data[k] \in {"identify", "table"}
        BY <1>1, <1>3, <3>3 DEF IInv, ReadInv
      <4> QED
        BY <2>7, <4>1, <4>2, SMT
    <3>4. ASSUME req.type = "DEV_READ"
          PROVE  /\ Len(data') = req.n - ToRead'
                 /\ \A k \in 1 .. Len(data') : data'[k] = disk[req.sect + k - 1]
      <4>1. /\ req.sect \in Nat /\ req.n \in Nat /\ drive.sect = req.sect + req.n - left /\ drive.op = "read"
        BY <1>3, <1>4, <3>1, <3>4, RequestFacts, Zenon
      <4>2. known
        BY <1>1, <1>3, <3>4 DEF IInv, ClientInv, ReadInv
      <4>3. x = disk[drive.sect]
        BY <2>1, <4>1, <4>2
      <4>4. Len(data) = req.n - left /\ \A k \in 1 .. Len(data) : data[k] = disk[req.sect + k - 1]
        BY <1>1, <1>3, <3>4, SMT DEF IInv, ReadInv, ToRead
      <4>5. ToRead' = left'
        BY <1>5, <1>6, <3>4, SMT DEF ToRead
      <4>6. drive.sect = req.sect + (Len(data) + 1) - 1
        BY <1>5, <2>7, <4>1, <4>4, SMT
      <4>7. Len(data') = req.n - ToRead'
        BY <1>5, <2>7, <4>1, <4>4, <4>5, SMT
      <4>8. ASSUME NEW k \in 1 .. Len(data') PROVE data'[k] = disk[req.sect + k - 1]
        <5>1. CASE k \in 1 .. Len(data)
          BY <2>7, <4>4, <5>1, Zenon
        <5>2. CASE k = Len(data) + 1
          BY <2>7, <4>3, <4>6, <5>2, Zenon
        <5>3. k \in 1 .. Len(data) \/ k = Len(data) + 1
          BY <2>7, SMT
        <5> QED
          BY <5>1, <5>2, <5>3
      <4> QED
        BY <4>7, <4>8
    <3> QED
      BY <1>1, <3>2, <3>3, <3>4, Zenon DEF ReadInv
  <2>10. InterruptInv'
    <3> SUFFICES ASSUME ~written PROVE InterruptInv'
      BY <1>1, Zenon DEF InterruptInv
    <3>0. cmds[1] = c /\ Over(cmds[1]) = Over(c) /\ Over(c) = c.n - Count(c.n)
      BY <1>2, Zenon DEF Over
    <3>1. /\ drive.op = c.op /\ drive.n = left - Over(c) /\ drive.sect = c.sect + c.n - left
          /\ ~intrq /\ has_int = 0
      BY <1>1, <3>0, SMT DEF IInv, InterruptInv, Input
    <3>4. c.sect \in Nat /\ c.n \in Nat /\ 1 <= c.n
      BY <1>3, CmdsFacts, SMT
    <3>5. Over(c) \in Nat
      BY <3>0, <3>4, CountFacts, SMT
    <3>2. hd' = "wait" => /\ cmds' # <<>> /\ drive'.op = cmds'[1].op /\ drive'.n = left' - Over(cmds[1])'
                          /\ drive'.sect = cmds'[1].sect + cmds'[1].n - left'
                          /\ \/ drive'.state = "busy" /\ drive'.n >= 1
                             \/ drive'.state = "idle" /\ drive'.n = 0
      <4>2. hd' = "wait" => cmds'[1] = c /\ cmds' # <<>> /\ Over(cmds[1])' = Over(c)
        BY <1>1, <1>2, <1>12, Zenon DEF Over
      <4>3. hd' = "wait" => drive.n - 1 = left' - Over(c) /\ drive.sect + 1 = c.sect + c.n - left'
        BY <1>5, <3>1, <3>4, <3>5, SMT
      <4>4. \/ st = "busy" /\ drive.n - 1 >= 1
            \/ st = "idle" /\ drive.n - 1 = 0
        BY <2>4, SMT
      <4> QED
        BY <2>5, <3>1, <4>2, <4>3, <4>4, Zenon
    <3>3. hd' \in {"answer", "command"} => drive'.state = "idle"
      <4>1. left = 1 => drive.n = 1
        BY <2>4, <3>1, <3>5, SMT
      <4> QED
        BY <1>5, <1>6, <2>4, <2>5, <4>1, SMT
    <3> QED
      BY <1>1, <1>6, <3>1, <3>2, <3>3, SMT DEF InterruptInv, Input
  <2> QED
    BY <1>9, <1>10, <1>11, <2>8, <2>9, <2>10 DEF IInv
<1>8. CASE ~(drive.state = "drq" /\ drive.op # "write")
  <2>1. data' = Append(data, NOISE) /\ drive' = drive
    BY <1>8, Zenon DEF PortRead
  <2>2. data' \in Seq(Val \cup Ops \cup {NOISE})
    <3>1. data \in Seq(Val \cup Ops \cup {NOISE}) /\ NOISE \in Val \cup Ops \cup {NOISE}
      BY DEF IInv, TypeInv
    <3> QED
      BY <2>1, <3>1, AppendProperties, Zenon
  <2>3. TypeInv'
    BY <1>1, <1>5, <1>6, <2>1, <2>2, SMT DEF IInv, TypeInv, TypeOK
  <2>4. written
    BY <1>1, <1>2, <1>3, <1>8 DEF IInv, InterruptInv, Input
  <2> QED
    BY <1>1, <1>9, <1>10, <1>11, <2>3, <2>4, Zenon DEF IInv, ReadInv, InterruptInv
<1> QED
  BY <1>7, <1>8

LEMMA PortWriteStep == ASSUME IInv, PortWrite PROVE IInv'
<1>1. /\ hd = "write" /\ After("poll") /\ hd \in Output /\ cmds # <<>>
      /\ UNCHANGED <<fs, req, has_int, data, open_cnt, known, intrq, written>>
  BY DEF PortWrite, Output, IInv, CommandInv
<1>2. /\ written /\ req \in Request /\ req.type = "DEV_WRITE" /\ cmds[1].sect = req.sect /\ cmds[1].n = req.n
      /\ fs = "waiting" /\ cmds[1].op = "write"
  BY <1>1, OutputWrites, CurrentCommand DEF IInv, CommandInv
<1>3. /\ left \in Nat /\ 1 <= left /\ left' = left - 1 /\ left' \in 0 .. NSect
      /\ left > 1 => hd' = "poll" /\ cmds' = cmds
      /\ left = 1 => hd' = "answer" /\ cmds' = <<>>
      /\ cmds' \in Seq(CmdsOf(req)) /\ cmds' \in Seq([op : Ops, sect : Nat, n : Nat])
      /\ Len(cmds') <= 1
  BY <1>1, <1>2, AfterFacts, Zenon
<1>4. /\ req.sect \in Nat /\ req.n \in Nat /\ 1 <= req.sect /\ req.sect + req.n - 1 <= NSect /\ req.val \in Val
  BY <1>2, RequestFacts, Zenon
<1>5. /\ drive.state = "drq" /\ drive.op = "write" /\ drive.n = left - Over(cmds[1])
      /\ drive.sect = req.sect + req.n - left /\ left <= req.n
      /\ \A s \in Sector : req.sect <= s /\ s < drive.sect => disk[s] = req.val
  <2>1. left <= cmds[1].n
    BY <1>1 DEF IInv, CommandInv
  <2> QED
    BY <1>1, <1>2, <2>1, Zenon DEF IInv, WriteInv
<1>6. /\ disk' = [disk EXCEPT ![drive.sect] = req.val]
      /\ drive' = [drive EXCEPT !.state = "busy", !.sect = @ + 1, !.n = @ - 1, !.new = FALSE]
  BY <1>5, Zenon DEF PortWrite
<1>7. /\ drive'.state = "busy" /\ drive'.op = drive.op /\ drive'.sect = drive.sect + 1
      /\ drive'.n = drive.n - 1 /\ drive'.n \in 0 .. NSect
      /\ drive' \in [state : {"idle", "busy", "drq"}, op : Ops \cup {"none"}, sect : Nat, n : Nat, new : BOOLEAN]
      /\ drive'.op \in {"read", "write"} => 1 <= drive'.sect /\ drive'.sect + drive'.n <= NSect + 1
  <2>1. PICK st \in {"idle", "busy"} : st = "busy"
    OBVIOUS
  <2>2. drive' = [drive EXCEPT !.state = st, !.sect = @ + 1, !.n = @ - 1, !.new = FALSE]
    BY <1>6, <2>1, Zenon
  <2> QED
    BY <1>5, <2>1, <2>2, DriveMoves, Zenon DEF IInv
<1>8. disk \in [Sector -> Val] /\ disk' \in [Sector -> Val]
  <2>1. disk \in [Sector -> Val]
    BY DEF IInv, TypeInv, TypeOK
  <2> QED
    BY <1>4, <1>6, <2>1, Zenon
<1>9. hd' \in {"poll", "answer"} /\ (hd' = "poll" => left > 1 /\ cmds' = cmds /\ 1 <= left' /\ left' <= cmds[1].n)
      /\ (hd' = "answer" => left = 1 /\ cmds' = <<>>)
  BY <1>2, <1>3, <1>4, <1>5, SMT
<1>10. TypeInv'
  <2>1. drive'.state # "drq" /\ drive'.op # "none" /\ drive'.state \in {"idle", "busy", "drq"}
    BY <1>5, <1>7, Zenon
  <2>2. hd' \in Places
    BY <1>9, SMT DEF Places
  <2> QED
    BY <1>1, <1>3, <1>7, <1>8, <2>1, <2>2, Zenon DEF IInv, TypeInv, TypeOK, Places
<1>11. ClientInv'
  BY <1>1, <1>2, <1>9, SMT DEF IInv, ClientInv, Serving
<1>12. CommandInv'
  <2>1. hd' # "answer" => hd' = "poll" /\ cmds' # <<>>
    BY <1>1, <1>9, SMT DEF IInv, CommandInv, Output
  <2>2. hd' = "answer" => cmds' = <<>>
    BY <1>9, SMT
  <2>3. cmds' \in Seq(CmdsOf(req)')
    BY <1>1, <1>3, Zenon DEF CmdsOf
  <2>4. hd' \notin Input
    BY <1>9 DEF Input
  <2>5. hd' \in Input \cup Output => hd' = "poll"
    BY <1>9 DEF Input, Output
  <2> QED
    BY <1>2, <1>3, <1>9, <2>1, <2>2, <2>3, <2>4, <2>5, SMT DEF CommandInv
<1>13. WriteInv'
  <2>1. ASSUME NEW s \in Sector, req.sect <= s, s < drive'.sect PROVE disk'[s] = req.val
    <3>1. CASE s < drive.sect
      <4>1. s # drive.sect
        BY <1>4, <1>5, <1>3, <3>1, SMT DEF Sector
      <4> QED
        BY <1>5, <1>6, <1>8, <2>1, <3>1, <4>1, Zenon
    <3>2. CASE s = drive.sect
      BY <1>6, <1>8, <3>2, Zenon
    <3>3. s < drive.sect \/ s = drive.sect
      <4>1. PICK d \in Nat : d = drive.sect
        BY <1>3, <1>4, <1>5, SMT
      <4>2. s \in Nat /\ s < d + 1
        BY <1>7, <2>1, <4>1, SMT DEF Sector
      <4> QED
        BY <4>1, <4>2, SMT
    <3> QED
      BY <3>1, <3>2, <3>3
  <2>2. /\ drive'.sect = req.sect + req.n - left'
        /\ hd' = "poll" => drive'.n = left' - Over(cmds[1])'
    <3>1. Over(cmds[1]) = req.n - Count(req.n) /\ Count(req.n) \in Nat
      <4>1. 1 <= req.n
        BY <1>3, <1>4, <1>5, SMT
      <4> QED
        BY <1>2, <1>4, <4>1, CountFacts, Zenon DEF Over
    <3>2. drive.n - 1 = left' - Over(cmds[1]) /\ drive.sect + 1 = req.sect + req.n - left'
      <4>1. PICK o \in Int, k \in Int : o = Over(cmds[1]) /\ k = drive.sect
        BY <1>3, <1>4, <1>5, <3>1, SMT
      <4>2. drive.n = left - o /\ k = req.sect + req.n - left
        BY <1>5, <4>1
      <4>3. drive.n - 1 = left' - o
        BY <1>3, <4>1, <4>2, SMT
      <4>4. k + 1 = req.sect + req.n - left'
        BY <1>3, <1>4, <4>1, <4>2, SMT
      <4> QED
        BY <4>1, <4>3, <4>4
    <3>3. hd' = "poll" => Over(cmds[1])' = Over(cmds[1])
      BY <1>9, Zenon DEF Over
    <3> QED
      BY <1>7, <3>2, <3>3, Zenon
  <2>3. hd' = "answer" => drive'.sect = req.sect + req.n
    BY <1>3, <1>4, <1>5, <1>7, <1>9, SMT
  <2>4. hd' \in Output => hd' = "poll"
    BY <1>9 DEF Output
  <2> QED
    BY <1>1, <1>5, <1>7, <1>9, <2>1, <2>2, <2>3, <2>4, SMT DEF WriteInv
<1> QED
  BY <1>1, <1>2, <1>10, <1>11, <1>12, <1>13, Zenon DEF IInv, InterruptInv, ReadInv

LEMMA AnswerStep == ASSUME IInv, Answer PROVE IInv'
<1>1. /\ hd = "answer" /\ hd' = "main" /\ fs = "waiting" /\ fs' = "ready" /\ req \in Request
      /\ UNCHANGED <<req, has_int, cmds, left, data, drive, intrq, disk, written>>
  BY DEF Answer, ext, IInv, ClientInv
<1>2. CASE req.type = "DEV_OPEN"
  <2>1. open_cnt' = open_cnt + 1 /\ known' = IF open_cnt = 0 THEN NOISE \notin ToSet(data) ELSE known
    BY <1>2, Zenon DEF Answer
  <2>2. open_cnt' \in Nat /\ known' \in BOOLEAN
    <3>1. open_cnt \in Nat /\ known \in BOOLEAN
      BY DEF IInv, TypeInv, TypeOK
    <3>2. open_cnt + 1 \in Nat
      BY <3>1
    <3> QED
      BY <2>1, <3>1, <3>2, Zenon
  <2>3. ~written => known'
    <3> SUFFICES ASSUME ~written PROVE known'
      OBVIOUS
    <3>1. \A k \in 1 .. Len(data) : data[k] \in {"identify", "table"}
      BY <1>1, <1>2, Zenon DEF IInv, ReadInv
    <3>2. DOMAIN data = 1 .. Len(data)
      BY LenProperties, Zenon DEF IInv, TypeInv
    <3>3. NOISE \notin {"identify", "table"}
      BY HdAssumption
    <3>4. NOISE \notin ToSet(data)
      BY <3>1, <3>2, <3>3, SMT DEF ToSet
    <3>5. open_cnt # 0 => known
      BY <1>1, SMT DEF IInv, ReadInv, TypeInv, TypeOK
    <3> QED
      BY <2>1, <3>4, <3>5, Zenon
  <2> QED
    BY <1>1, <2>2, <2>3, SMT DEF IInv, TypeInv, TypeOK, ClientInv, CommandInv, InterruptInv, ReadInv, WriteInv, Input, Output, Serving
<1>3. CASE req.type # "DEV_OPEN"
  <2>1. UNCHANGED <<open_cnt, known>>
    BY <1>3, Zenon DEF Answer
  <2> QED
    BY <1>1, <2>1, SMT DEF IInv, TypeInv, TypeOK, ClientInv, CommandInv, InterruptInv, ReadInv, WriteInv, Input, Output, Serving
<1> QED
  BY <1>2, <1>3

----------------------------------------------------------------------------
(* The theorems *)

LEMMA NextCases ==
  ASSUME [Next]_vars
  PROVE  \/ \E r \in Request : ClientSends(r)
         \/ Move \/ Receive \/ ReceiveDisturbed \/ CommandOut \/ PortRead \/ PortWrite \/ Answer
         \/ DriveReady \/ HdHandler \/ UNCHANGED vars
BY Zenon DEF Next, TaskStep, Move

\* The invariant of the driver, its client and the drive, for any partition and any
\* requests.
THEOREM Invariance == Spec => []IInv
<1>1. IInv /\ [Next]_vars => IInv'
  <2> SUFFICES ASSUME IInv, [Next]_vars PROVE IInv'
    OBVIOUS
  <2>1. CASE UNCHANGED vars
    <3>0. /\ fs' = fs /\ req' = req /\ hd' = hd /\ has_int' = has_int /\ cmds' = cmds /\ left' = left
          /\ data' = data /\ open_cnt' = open_cnt /\ known' = known /\ drive' = drive /\ intrq' = intrq
          /\ disk' = disk /\ written' = written
      BY <2>1, Zenon DEF vars
    <3>1. TypeInv'
      BY <3>0, SMT DEF IInv, TypeInv, TypeOK
    <3>2. ClientInv'
      BY <3>0, Zenon DEF IInv, ClientInv, Serving
    <3>3. CommandInv'
      BY <3>0, Zenon DEF IInv, CommandInv, CmdsOf
    <3>4. InterruptInv'
      BY <3>0, Zenon DEF IInv, InterruptInv, Over
    <3>5. ReadInv'
      BY <3>0, Zenon DEF IInv, ReadInv, ToRead
    <3>6. WriteInv'
      BY <3>0, Zenon DEF IInv, WriteInv, Over
    <3> QED
      BY <3>1, <3>2, <3>3, <3>4, <3>5, <3>6, Zenon DEF IInv
  <2> QED
    BY <2>1, NextCases, ClientStep, MoveStep, ReceiveStep, ReceiveDisturbedStep, CommandOutStep,
       PortReadStep, PortWriteStep, AnswerStep, DriveReadyStep, HdHandlerStep, Zenon
<1> QED
  BY <1>1, InitInv, PTL DEF Spec

\* Whatever the drive and the client do, also once the driver is in disorder, the
\* driver's and the drive's counts of what is left stay within the partition
\* (bytes_left of hd_rdwt, hd.c:166).
THEOREM TypeCorrect == Spec => []TypeOK
<1>1. IInv => TypeOK
  BY DEF IInv, TypeInv
<1> QED
  BY <1>1, Invariance, PTL

\* Until the first write no interrupt is left over when a request has been answered,
\* whatever was asked for (interrupt_wait, hd.c:215).
THEOREM QuietCorrect == Spec => []QuietBetweenRequests
<1>1. IInv => QuietBetweenRequests
  BY SMT DEF IInv, InterruptInv, QuietBetweenRequests
<1> QED
  BY <1>1, Invariance, PTL

\* Until the first write the task's main loop is not disturbed: no interrupt is taken
\* for a request (hd.c:82), and the assertions of the kernel that an interrupt can fail
\* fail in the middle of a command at most (proc.c:422, 530-534).
THEOREM OnlyWritesSpin == Spec => [](~written => hd # "spin" /\ (hd = "halted" => cmds # <<>>))
<1>1. IInv => (~written => hd # "spin" /\ (hd = "halted" => cmds # <<>>))
  BY SMT DEF IInv, InterruptInv
<1> QED
  BY <1>1, Invariance, PTL

\* Until the first write a read of any length is answered with its sectors (hd_rdwt).
THEOREM ReadsCorrect == Spec => ReadsSectors
<1>1. ASSUME IInv, hd = "answer", req.type = "DEV_READ", ~written
      PROVE  data = [k \in 1 .. req.n |-> disk[req.sect + k - 1]]
  <2>1. fs = "waiting" /\ req \in Request
    BY <1>1, SMT DEF IInv, ClientInv, Serving
  <2>2. req.n \in Nat
    BY <1>1, <2>1, RequestFacts, Zenon
  <2>3. Len(data) = req.n - 0 /\ \A k \in 1 .. Len(data) : data[k] = disk[req.sect + k - 1]
    BY <1>1, <2>1, SMT DEF IInv, ReadInv, ToRead
  <2>4. data \in [1 .. Len(data) -> Val \cup Ops \cup {NOISE}]
    BY <1>1, LenProperties DEF IInv, TypeInv
  <2>5. Len(data) = req.n
    BY <2>2, <2>3
  <2> QED
    BY <2>3, <2>4, <2>5, Zenon
<1>2. IInv /\ [Next]_vars => [hd = "answer" /\ hd' = "main" /\ req.type = "DEV_READ" /\ ~written
         => data = [k \in 1 .. req.n |-> disk[req.sect + k - 1]]]_vars
  BY <1>1, Zenon
<1> QED
  BY <1>2, Invariance, PTL DEF Spec, ReadsSectors

\* A write that is answered has reached the drive, and no write touches another
\* sector, also after one that has left the driver in disorder (hd_rdwt, port_write).
THEOREM WritesCorrect == Spec => WritesSectors
<1>1. ASSUME IInv, hd = "answer", req.type = "DEV_WRITE"
      PROVE  \A s \in req.sect .. req.sect + req.n - 1 : disk[s] = req.val
  <2>1. fs = "waiting" /\ req \in Request
    BY <1>1, SMT DEF IInv, ClientInv, Serving
  <2>2. /\ req.sect \in Nat /\ req.n \in Nat /\ 1 <= req.sect /\ req.sect + req.n - 1 <= NSect
    BY <1>1, <2>1, RequestFacts, Zenon
  <2>3. \A s \in Sector : req.sect <= s /\ s < req.sect + req.n => disk[s] = req.val
    BY <1>1 DEF IInv, WriteInv
  <2> QED
    BY <2>2, <2>3, HdAssumption, SMT DEF Sector
<1>2. ASSUME IInv, [Next]_vars, NEW s \in Sector, disk'[s] # disk[s]
      PROVE  s \in req.sect .. req.sect + req.n - 1
  <2>1. PortWrite
    BY <1>2, NextCases, Zenon DEF ClientSends, Move, Main, InterruptWait, Clear, Taken, Blocked, Poll,
       GiveUp, TicksHalt, Receive, ReceiveDisturbed, TakeRequest, CommandOut, PortRead, Answer, DriveReady,
       HdHandler, vars, ext
  <2>2. hd \in Output
    BY <2>1 DEF PortWrite, Output
  <2>3. req \in Request /\ req.type = "DEV_WRITE" /\ cmds[1].n = req.n
    BY <1>2, <2>2, OutputWrites
  <2>4. /\ req.sect \in Nat /\ req.n \in Nat
    BY <2>3, RequestFacts, Zenon
  <2>5. drive.sect = req.sect + req.n - left /\ left \in Nat /\ 1 <= left /\ left <= req.n
    BY <1>2, <2>2, <2>3, HdAssumption, SMT DEF IInv, WriteInv, CommandInv, TypeInv, TypeOK
  <2>6. s = drive.sect
    <3>1. disk' = [disk EXCEPT ![drive.sect] = req.val] \/ disk' = disk
      BY <2>1, Zenon DEF PortWrite
    <3>2. disk \in [Sector -> Val]
      BY <1>2 DEF IInv, TypeInv, TypeOK
    <3> QED
      BY <1>2, <3>1, <3>2, Zenon
  <2> QED
    BY <2>4, <2>5, <2>6, SMT
<1>3. IInv /\ [Next]_vars =>
        [/\ hd = "answer" /\ hd' = "main" /\ req.type = "DEV_WRITE"
              => \A s \in req.sect .. req.sect + req.n - 1 : disk[s] = req.val
         /\ \A s \in Sector : disk'[s] # disk[s] => s \in req.sect .. req.sect + req.n - 1]_vars
  BY <1>1, <1>2, Zenon
<1> QED
  BY <1>3, Invariance, PTL DEF Spec, WritesSectors
=============================================================================
