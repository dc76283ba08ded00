-------------------------------- MODULE Ipc --------------------------------
(***************************************************************************)
(* The message passing of kernel/proc.c: sys_sendrec, msg_send,            *)
(* msg_receive, deadlock and inform_int, on one processor.                 *)
(*                                                                         *)
(* A system call runs in ring 0 with interrupts ENABLED (kernel.asm:403,   *)
(* sti), and the clock handler returns without scheduling when it          *)
(* interrupts the kernel, so at most one call is in progress, and the only *)
(* thing that interleaves with it is inform_int, called by the disk's      *)
(* interrupt handler for the disk task HD.  A call is therefore cut into   *)
(* steps exactly where inform_int can be seen; everything between two such *)
(* points is one step.  inform_int itself is atomic: its own interrupt     *)
(* line is masked while its handler runs.                                  *)
(*                                                                         *)
(* A failed assertion or a panic in ring 0 stops the machine: the line of  *)
(* proc.c is kept in `halted' and no further step is taken.                *)
(***************************************************************************)
EXTENDS Naturals, SequencesExt

CONSTANTS Proc,       \* the processes of proc_table
          HD,         \* TASK_HD, the one process inform_int is called for
          ANY,        \* p_recvfrom: a message of any process
          INTERRUPT,  \* p_recvfrom and MESSAGE.source: an interrupt
          NO_TASK,    \* p_recvfrom, p_sendto: nobody
          NULL,       \* the null pointer
          SENDING,    \* the bits of p_flags
          RECEIVING,
          Type,       \* message types the programs use
          HARD_INT    \* the message type of an interrupt

ASSUME ConstantAssumption ==
  /\ HD \in Proc
  /\ {ANY, INTERRUPT, NO_TASK, NULL} \cap Proc = {}
  /\ ANY # INTERRUPT /\ ANY # NO_TASK /\ INTERRUPT # NO_TASK
  /\ SENDING # RECEIVING
  /\ Type # {} /\ HARD_INT \notin Type

VARIABLES
  p_flags,      \* [Proc -> SUBSET {SENDING, RECEIVING}]; {} means runnable
  p_msg,        \* the buffer the kernel remembers for a blocked process, or NULL
  p_recvfrom,   \* whom a RECEIVING process waits for
  p_sendto,     \* whom a SENDING process sends to
  has_int_msg,  \* 1 if an interrupt is pending for the process
  q_sending,    \* the processes queued to send to the process, oldest first
  buf,          \* the MESSAGE structure of each process's current call
  pc,           \* where in the kernel the call in progress is, or "idle"
  caller,       \* the calling process, NO_TASK when idle
  peer,         \* src_dest of the call, NO_TASK when idle
  halted        \* 0, or the line of proc.c that stopped the machine

table == <<p_flags, p_msg, p_recvfrom, p_sendto, has_int_msg, q_sending>>
call  == <<pc, caller, peer>>
vars  == <<p_flags, p_msg, p_recvfrom, p_sendto, has_int_msg, q_sending,
           buf, pc, caller, peer, halted>>

Message == [source : Proc \cup {INTERRUPT}, type : Type \cup {HARD_INT}]
PcSend == {"snd_check", "snd_copy", "snd_clear", "snd_finish", "snd_done",
           "snd_block", "snd_sched"}
PcRecv == {"rcv_int", "rcv_int_done",
           "rcv_mark", "rcv_from", "rcv_block", "rcv_sched", "rcv_done"}

\* Mutant of Runnable: a process blocked in a receive may still run.
RunnableUnlessSending == {p \in Proc : SENDING \notin p_flags[p]}

Runnable == {p \in Proc : p_flags[p] = {}}
Running == halted = 0

----------------------------------------------------------------------------
(* Helpers of the code. *)

\* The machine stops at a failed assertion: nothing but `halted' changes.
Halt(line) == halted' = line /\ UNCHANGED <<table, buf, call>>

\* The rest of the step does not matter when the assertion fails.
Asserted(cond, line) == halted' = IF cond THEN halted ELSE line

Enter(where, p, sd) == pc' = where /\ caller' = p /\ peer' = sd
Goto(where) == pc' = where /\ UNCHANGED <<caller, peer>>
Return == Enter("idle", NO_TASK, NO_TASK)

\* The block of assertions "has nothing pending" (333-336, 337-340, 419-421, 437-440).
Quiet(p) == /\ p_flags[p] = {}
            /\ p_msg[p] = NULL
            /\ p_recvfrom[p] = NO_TASK
            /\ p_sendto[p] = NO_TASK

\* The block of assertions "is blocked sending to d" (363-366, 442-445).
SendingTo(s, d) == /\ p_flags[s] = {SENDING}
                   /\ p_msg[s] # NULL
                   /\ p_recvfrom[s] = NO_TASK
                   /\ p_sendto[s] = d

\* s is blocked sending to d.
SendsTo(s, d) == SENDING \in p_flags[s] /\ p_sendto[s] = d

\* A set of processes the walk of deadlock() cannot leave.
Closed(C) == \A q \in C : SENDING \in p_flags[q] => p_sendto[q] \in C

\* Mutant of Deadlock: only the cycle of two processes is looked for.
DeadlockOfTwo(src, dest) == SendsTo(dest, src)

\* The walk follows p_sendto from dest as long as the process is SENDING and
\* succeeds when it meets src: src is in every closed set that contains dest.
Deadlock(src, dest) ==
  \A C \in SUBSET Proc : dest \in C /\ Closed(C) => src \in C

\* Mutant of WaitsFor: whom the process waits for is not looked at.
WaitsForAnybody(d, s) == RECEIVING \in p_flags[d]

\* d is blocked in a receive that a message of s satisfies.
WaitsFor(d, s) == RECEIVING \in p_flags[d] /\ p_recvfrom[d] \in {s, ANY}

\* Mutant of Candidates: only the head of the queue is looked at.
CandidatesAtHead(p, src) ==
  {s \in Proc : q_sending[p] # <<>> /\ s = Head(q_sending[p]) /\ src \in {s, ANY}}

\* The process whose message a receive of p from src takes, if there is one.
Candidates(p, src) ==
  IF src = ANY
  THEN IF q_sending[p] = <<>> THEN {} ELSE {Head(q_sending[p])}
  ELSE {s \in Proc : s = src /\ SendsTo(s, p)}

\* Mutant of Unlink: it is always the head that leaves the queue.
UnlinkHead(q, s) == Tail(q)

\* Unlinking s from a sending queue (which holds a process once).
Unlink(q, s) == RemoveAt(q, CHOOSE i \in DOMAIN q : q[i] = s)

\* The asserts at 420-422: no second interrupt has come in the meantime.
StillTaken(p) == Quiet(p) /\ has_int_msg[p] = 0

\* Mutant of StillWaiting: the assert at 534 is missing.
StillWaitingOrInformed(p) == /\ p_flags[p] = {RECEIVING}
                             /\ p_msg[p] # NULL
                             /\ p_recvfrom[p] # NO_TASK
                             /\ p_sendto[p] = NO_TASK

\* The asserts at 530-534: the caller is still blocked, and no interrupt it
\* waits for was recorded while it was being blocked.
StillWaiting(p) == /\ p_flags[p] = {RECEIVING}
                   /\ p_msg[p] # NULL
                   /\ p_recvfrom[p] # NO_TASK
                   /\ p_sendto[p] = NO_TASK
                   /\ has_int_msg[p] = 0

Init ==
  /\ p_flags = [p \in Proc |-> {}]
  /\ p_msg = [p \in Proc |-> NULL]
  /\ p_recvfrom = [p \in Proc |-> NO_TASK]
  /\ p_sendto = [p \in Proc |-> NO_TASK]
  /\ has_int_msg = [p \in Proc |-> 0]
  /\ q_sending = [p \in Proc |-> <<>>]
  /\ buf \in [Proc -> {[source |-> INTERRUPT, type |-> HARD_INT]}]
  /\ pc = "idle" /\ caller = NO_TASK /\ peer = NO_TASK
  /\ halted = 0

----------------------------------------------------------------------------
(* sys_sendrec(SEND, d, m, p) *)

\* From the system call to the decision of msg_send (87-97, 312-321).
Send(p, d, t) ==
  /\ Running /\ pc = "idle" /\ p \in Runnable /\ d # p
  /\ buf' = [buf EXCEPT ![p] = [source |-> p, type |-> t]]
  /\ Asserted(~Deadlock(p, d), 316)
  /\ Enter(IF WaitsFor(d, p) THEN "snd_check" ELSE "snd_block", p, d)
  /\ UNCHANGED table

\* assert(p_dest->p_msg)
SendCheck ==
  /\ Running /\ pc = "snd_check"
  /\ \/ p_msg[peer] # NULL /\ Goto("snd_copy") /\ UNCHANGED <<table, buf, halted>>
     \/ p_msg[peer] = NULL /\ Halt(322)

\* phys_copy to where p_dest->p_msg pointed when its address was taken, before or
\* after an interrupt that reset it; through NULL it changes no MESSAGE.
SendCopy ==
  /\ Running /\ pc = "snd_copy" /\ Goto("snd_clear")
  /\ \E to \in {peer, p_msg[peer]} :
       buf' = IF to = NULL THEN buf ELSE [buf EXCEPT ![to] = buf[caller]]
  /\ UNCHANGED <<table, halted>>

\* p_dest->p_msg = 0
SendClear ==
  /\ Running /\ pc = "snd_clear" /\ Goto("snd_finish")
  /\ p_msg' = [p_msg EXCEPT ![peer] = NULL]
  /\ UNCHANGED <<p_flags, p_recvfrom, p_sendto, has_int_msg, q_sending, buf, halted>>

\* Mutant of SendFinish: p_recvfrom is not reset.
SendFinishKeepingSource ==
  /\ Running /\ pc = "snd_finish" /\ Goto("snd_done")
  /\ p_flags' = [p_flags EXCEPT ![peer] = @ \ {RECEIVING}]
  /\ UNCHANGED <<p_msg, p_recvfrom, p_sendto, has_int_msg, q_sending, buf, halted>>

\* p_dest is made runnable (329-330).
SendFinish ==
  /\ Running /\ pc = "snd_finish" /\ Goto("snd_done")
  /\ p_flags' = [p_flags EXCEPT ![peer] = @ \ {RECEIVING}]
  /\ p_recvfrom' = [p_recvfrom EXCEPT ![peer] = NO_TASK]
  /\ UNCHANGED <<p_msg, p_sendto, has_int_msg, q_sending, buf, halted>>

\* The asserts on both sides (331-340).
SendDone ==
  /\ Running /\ pc = "snd_done" /\ Return
  /\ Asserted(Quiet(peer) /\ Quiet(caller), 333)
  /\ UNCHANGED <<table, buf>>

\* The sender is blocked and appended to the queue (343-361).
SendBlock ==
  /\ Running /\ pc = "snd_block" /\ Goto("snd_sched")
  /\ p_flags' = [p_flags EXCEPT ![caller] = @ \cup {SENDING}]
  /\ p_sendto' = [p_sendto EXCEPT ![caller] = peer]
  /\ p_msg' = [p_msg EXCEPT ![caller] = caller]
  /\ q_sending' = [q_sending EXCEPT ![peer] = Append(@, caller)]
  /\ UNCHANGED <<p_recvfrom, has_int_msg, buf, halted>>

\* schedule() loops until a process is runnable; then the asserts 363-366.
SendSched ==
  /\ Running /\ pc = "snd_sched" /\ Runnable # {} /\ Return
  /\ Asserted(SendingTo(caller, peer), 363)
  /\ UNCHANGED <<table, buf>>

----------------------------------------------------------------------------
(* sys_sendrec(RECEIVE, src, m, p) *)

Receiving(p, src) ==
  /\ Running /\ pc = "idle" /\ p \in Runnable /\ src # p

\* A pending interrupt is turned into a message (401-415) ...
RecvInt(p, src) ==
  /\ Receiving(p, src)
  /\ has_int_msg[p] = 1 /\ src \in {ANY, INTERRUPT}
  /\ buf' = [buf EXCEPT ![p] = [source |-> INTERRUPT, type |-> HARD_INT]]
  /\ Enter("rcv_int", p, src)
  /\ UNCHANGED <<table, halted>>

\* ... then forgotten (417) ...
RecvIntClear ==
  /\ Running /\ pc = "rcv_int" /\ Goto("rcv_int_done")
  /\ has_int_msg' = [has_int_msg EXCEPT ![caller] = 0]
  /\ UNCHANGED <<p_flags, p_msg, p_recvfrom, p_sendto, q_sending, buf, halted>>

\* ... and the asserts 419-422 look whether another one has come.
RecvIntDone ==
  /\ Running /\ pc = "rcv_int_done"
  /\ \/ StillTaken(caller) /\ Return /\ UNCHANGED <<table, buf, halted>>
     \/ ~StillTaken(caller) /\ Halt(422)

\* The message of a queued sender is taken and the sender released
\* (428-487, 495-518).
RecvTake(p, src) ==
  /\ Receiving(p, src)
  /\ ~(has_int_msg[p] = 1 /\ src \in {ANY, INTERRUPT})
  /\ \E s \in Candidates(p, src) :
       /\ Asserted(Quiet(p) /\ SendingTo(s, p) /\ Contains(q_sending[p], s), 437)
       /\ q_sending' = [q_sending EXCEPT ![p] = Unlink(@, s)]
       /\ buf' = [buf EXCEPT ![p] = buf[p_msg[s]]]
       /\ p_msg' = [p_msg EXCEPT ![s] = NULL]
       /\ p_sendto' = [p_sendto EXCEPT ![s] = NO_TASK]
       /\ p_flags' = [p_flags EXCEPT ![s] = @ \ {SENDING}]
  /\ UNCHANGED <<p_recvfrom, has_int_msg, call>>

\* There is nothing to take: the caller will be blocked.
RecvWait(p, src) ==
  /\ Receiving(p, src)
  /\ ~(has_int_msg[p] = 1 /\ src \in {ANY, INTERRUPT})
  /\ Candidates(p, src) = {}
  /\ buf' = [buf EXCEPT ![p].source = p]
  /\ Enter("rcv_mark", p, src)
  /\ UNCHANGED <<table, halted>>

\* p_flags |= RECEIVING, p_msg = m (524-526)
RecvMark ==
  /\ Running /\ pc = "rcv_mark" /\ Goto("rcv_from")
  /\ p_flags' = [p_flags EXCEPT ![caller] = @ \cup {RECEIVING}]
  /\ p_msg' = [p_msg EXCEPT ![caller] = caller]
  /\ UNCHANGED <<p_recvfrom, p_sendto, has_int_msg, q_sending, buf, halted>>

\* p_recvfrom = src (527)
RecvFrom ==
  /\ Running /\ pc = "rcv_from" /\ Goto("rcv_block")
  /\ p_recvfrom' = [p_recvfrom EXCEPT ![caller] = peer]
  /\ UNCHANGED <<p_flags, p_msg, p_sendto, has_int_msg, q_sending, buf, halted>>

\* block(): assert(p->p_flags) (233)
RecvBlock ==
  /\ Running /\ pc = "rcv_block"
  /\ \/ p_flags[caller] # {} /\ Goto("rcv_sched") /\ UNCHANGED <<table, buf, halted>>
     \/ p_flags[caller] = {} /\ Halt(233)

\* schedule() loops until a process is runnable.
RecvSched ==
  /\ Running /\ pc = "rcv_sched" /\ Runnable # {} /\ Goto("rcv_done")
  /\ UNCHANGED <<table, buf, halted>>

\* The asserts 530-534.
RecvDone ==
  /\ Running /\ pc = "rcv_done"
  /\ \/ StillWaiting(caller) /\ Return /\ UNCHANGED <<table, buf, halted>>
     \/ ~StillWaiting(caller) /\ Halt(530)

----------------------------------------------------------------------------
(* inform_int(HD), from the disk's interrupt handler. *)

\* HD waits for an interrupt: the message is written into its buffer.
InformWaiting ==
  /\ Running
  /\ RECEIVING \in p_flags[HD] /\ p_recvfrom[HD] \in {INTERRUPT, ANY}
  /\ buf' = IF p_msg[HD] = NULL THEN buf
            ELSE [buf EXCEPT ![p_msg[HD]] = [source |-> INTERRUPT, type |-> HARD_INT]]
  /\ p_msg' = [p_msg EXCEPT ![HD] = NULL]
  /\ has_int_msg' = [has_int_msg EXCEPT ![HD] = 0]
  /\ p_flags' = [p_flags EXCEPT ![HD] = @ \ {RECEIVING}]
  /\ p_recvfrom' = [p_recvfrom EXCEPT ![HD] = NO_TASK]
  /\ UNCHANGED <<p_sendto, q_sending, call>>
  /\ Asserted(p_flags[HD] = {RECEIVING} /\ p_sendto[HD] = NO_TASK, 630)

\* HD does not: the interrupt is remembered.
InformPending ==
  /\ Running
  /\ ~(RECEIVING \in p_flags[HD] /\ p_recvfrom[HD] \in {INTERRUPT, ANY})
  /\ has_int_msg' = [has_int_msg EXCEPT ![HD] = 1]
  /\ UNCHANGED <<p_flags, p_msg, p_recvfrom, p_sendto, q_sending, buf, call, halted>>

InformInt == InformWaiting \/ InformPending

----------------------------------------------------------------------------

SendStep == SendCheck \/ SendCopy \/ SendClear \/ SendFinish \/ SendDone \/ SendBlock \/ SendSched
RecvStep == \/ RecvIntClear \/ RecvIntDone
            \/ RecvMark \/ RecvFrom \/ RecvBlock \/ RecvSched \/ RecvDone

Next ==
  \/ \E p, d \in Proc, t \in Type : Send(p, d, t)
  \/ SendStep
  \/ \E p \in Proc, src \in Proc \cup {ANY, INTERRUPT} :
       RecvInt(p, src) \/ RecvTake(p, src) \/ RecvWait(p, src)
  \/ RecvStep
  \/ InformInt

Spec == Init /\ [][Next]_vars

----------------------------------------------------------------------------
(* Properties *)

\* The variables keep their types, and no process is ever SENDING and
\* RECEIVING at once: the one p_msg of its table entry serves both.
TypeOK ==
  /\ p_flags \in [Proc -> {{}, {SENDING}, {RECEIVING}}]
  /\ p_msg \in [Proc -> Proc \cup {NULL}]
  /\ p_recvfrom \in [Proc -> Proc \cup {ANY, INTERRUPT, NO_TASK}]
  /\ p_sendto \in [Proc -> Proc \cup {NO_TASK}]
  /\ has_int_msg \in [Proc -> {0, 1}]
  /\ q_sending \in [Proc -> Seq(Proc)]
  /\ buf \in [Proc -> Message]
  /\ pc \in {"idle"} \cup PcSend \cup PcRecv
  /\ caller \in Proc \cup {NO_TASK}
  /\ peer \in Proc \cup {ANY, INTERRUPT, NO_TASK}
  /\ halted \in Nat

\* A sending queue lists exactly the processes blocked sending to its owner,
\* each once: nobody is queued twice, left behind or lost (350-359, 495-504).
QueueExact ==
  \A d \in Proc :
    /\ IsInjective(q_sending[d])
    /\ ToSet(q_sending[d]) = {s \in Proc : SendsTo(s, d)}

\* No set of processes is blocked sending to one another: every chain of
\* senders ends at a process that is not sending, so deadlock()'s own walk
\* terminates, and the check made at the time of the send suffices although
\* the senders of the chain block at different times (266-291, 315).
SendAcyclic ==
  \A S \in SUBSET Proc :
    S # {} => ~ \A q \in S : SENDING \in p_flags[q] /\ p_sendto[q] \in S

\* Two partners never wait for one another: a process is not blocked waiting
\* for a message that a process blocked sending to it holds (319-321, 428-487).
NoMissedRendezvous ==
  \A s, d \in Proc : ~ (SendsTo(s, d) /\ WaitsFor(d, s))

\* When no call is in progress the disk task is not asleep waiting for an
\* interrupt that has already been recorded (401, 534, 639).
NoLostWakeup ==
  pc = "idle" /\ Running /\ RECEIVING \in p_flags[HD]
    /\ p_recvfrom[HD] \in {ANY, INTERRUPT}
  => has_int_msg[HD] = 0

\* Of the many assertions of msg_send, msg_receive and inform_int only five can
\* fail (322, 233, 422, 530-534), and only in a call the disk task takes part in.
AssertsOnlyForHD ==
  halted \notin {0, 316} =>
    /\ halted \in {233, 322, 422, 530}
    /\ HD \in {caller, peer}

\* A blocked sender is released only by a step that puts its message into its
\* destination's buffer; a blocked receiver other than HD only with a
\* message of the process it named.
ReleasedWithMessage ==
  [][\A p \in Proc :
       /\ p_flags[p] = {SENDING} /\ p_flags'[p] = {} =>
            buf'[p_sendto[p]] = buf[p] /\ buf[p].source = p
       /\ p # HD /\ p_flags[p] = {RECEIVING} /\ p_flags'[p] = {} =>
            /\ buf'[p].source \in Proc
            /\ p_recvfrom[p] \in {buf'[p].source, ANY}]_vars

----------------------------------------------------------------------------
(* The inductive invariant: what the fields of a table entry say together, *)
(* and what each point of a call knows of its two sides.                   *)

\* The IPC fields of one process agree with its p_flags, except while a step of
\* the call in progress has changed only some of them.
FieldsOf(p) ==
  /\ p_flags[p] = {SENDING} => /\ p_msg[p] = p
                               /\ p_recvfrom[p] = NO_TASK
                               /\ p_sendto[p] \in Proc \ {p}
  /\ p_flags[p] # {SENDING} => p_sendto[p] = NO_TASK
  /\ p_flags[p] = {} => p_msg[p] = NULL /\ p_recvfrom[p] = NO_TASK
  /\ p_flags[p] = {RECEIVING} =>
       /\ p_recvfrom[p] = NO_TASK <=> pc = "rcv_from" /\ caller = p
       /\ p_msg[p] = IF pc = "snd_finish" /\ peer = p THEN NULL ELSE p
  /\ p # HD => has_int_msg[p] = 0
FieldsCoherent == \A p \in Proc : FieldsOf(p)

\* HD was waiting for the sender and is not any more: the interrupt came first.
WokenByInt(p) == p = HD /\ p_flags[p] = {}

CallCoherent ==
  /\ pc = "idle" <=> caller = NO_TASK
  /\ pc = "idle" => peer = NO_TASK
  /\ pc \in PcSend => peer \in Proc \ {caller}
  /\ pc \in PcRecv => peer \notin {caller, NO_TASK}
  /\ pc \in PcSend \ {"snd_sched"} \/ pc \in {"rcv_int", "rcv_int_done", "rcv_mark"}
       => p_flags[caller] = {}
  /\ pc \in {"rcv_int", "rcv_int_done"} => caller = HD
  /\ pc \in {"snd_check", "snd_copy", "snd_clear", "snd_finish"} =>
       WaitsFor(peer, caller) \/ WokenByInt(peer)
  /\ pc = "snd_done" => p_flags[peer] = {}
  /\ pc = "snd_block" => ~WaitsFor(peer, caller)
  /\ pc = "snd_block" /\ Running => ~Deadlock(caller, peer)
  /\ pc = "snd_sched" => SendsTo(caller, peer)
  /\ pc \in {"rcv_mark", "rcv_from"} => Candidates(caller, peer) = {}
  /\ pc = "rcv_from" => p_flags[caller] = {RECEIVING}
  /\ pc \in {"rcv_block", "rcv_sched", "rcv_done"} =>
       \/ p_flags[caller] = {RECEIVING} /\ p_recvfrom[caller] = peer
       \/ WokenByInt(caller)

\* HD waits for an interrupt that is already recorded only on its way to
\* sleep, where the assertions 530-534 still follow.
WakeupCoherent ==
  /\ RECEIVING \in p_flags[HD] /\ p_recvfrom[HD] \in {ANY, INTERRUPT}
  /\ has_int_msg[HD] = 1
  => pc \in {"rcv_block", "rcv_sched", "rcv_done"} /\ caller = HD

\* A message keeps the name of its sender from the call on (95) until the
\* receiver has it; only HD's buffer is written by somebody else.
MessageCoherent ==
  /\ \A p \in Proc : p_flags[p] = {SENDING} => buf[p].source = p
  /\ pc \in {"snd_check", "snd_copy", "snd_block"} => buf[caller].source = caller
  /\ pc \in {"snd_clear", "snd_finish"} /\ peer # HD => buf[peer].source = caller

\* What holds in every reachable state, and by itself from step to step.
IInv == /\ TypeOK /\ FieldsCoherent /\ CallCoherent /\ WakeupCoherent
        /\ MessageCoherent
        /\ QueueExact /\ SendAcyclic /\ NoMissedRendezvous /\ AssertsOnlyForHD

----------------------------------------------------------------------------
(* What a comment of proc.c says, and the code does not keep. *)

\* A send that returns without having blocked has delivered its message (297-298).
SendDelivers ==
  [][pc = "snd_done" /\ pc' = "idle" => buf'[peer] = buf[caller]]_vars
=============================================================================
