----------------------------- MODULE SendQueue -----------------------------
(***************************************************************************)
(* The message passing of module Ipc with the data structures and the      *)
(* loops of kernel/proc.c: a sending queue is a list threaded through      *)
(* next_sending, msg_send walks to its end, msg_receive walks to the       *)
(* sender it wants, and deadlock() follows p_sendto.  The disk's interrupt *)
(* may come between any two steps of a walk.                               *)
(*                                                                         *)
(* The list is shown to implement Ipc, whose q_sending[d] is the sequence  *)
(* of the processes on d's list (Queues).  The actions of Ipc that touch   *)
(* no queue are used as they are.                                          *)
(***************************************************************************)
EXTENDS Naturals, SequencesExt

CONSTANTS Proc, HD, ANY, INTERRUPT, NO_TASK, NULL, SENDING, RECEIVING, Type, HARD_INT

VARIABLES
  p_flags, p_msg, p_recvfrom, p_sendto, has_int_msg,  \* as in Ipc
  buf, pc, caller, peer, halted,
  head,          \* p->q_sending: the first process of the list, or NULL
  next_sending,  \* the process behind this one in the list it is on, or NULL
  walk           \* the loop being executed, see NoWalk

call  == <<pc, caller, peer>>
lists == <<head, next_sending>>
vars  == <<p_flags, p_msg, p_recvfrom, p_sendto, has_int_msg,
           buf, call, halted, lists, walk>>

\* A walk of a call of `caller' with `peer' stands at process `at', behind `prev'.
NoWalk == [op |-> "none"]
Walk(op, p, d, at, prev, t) ==
  [op |-> op, caller |-> p, peer |-> d, at |-> at, prev |-> prev, type |-> t]

\* The processes on the list that begins at h, along next.
Chain(h, next) ==
  LET at[k \in 1 .. Cardinality(Proc)] ==
        IF k = 1 THEN h ELSE IF at[k-1] = NULL THEN NULL ELSE next[at[k-1]]
  IN  [k \in {k \in 1 .. Cardinality(Proc) : at[k] # NULL} |-> at[k]]

ListOf(d) == Chain(head[d], next_sending)

\* A sender that is blocked but not yet linked is queued all the same.
Queues == [d \in Proc |->
             IF walk.op = "append" /\ walk.peer = d
             THEN Append(ListOf(d), walk.caller) ELSE ListOf(d)]

I == INSTANCE Ipc WITH q_sending <- Queues

ASSUME SendQueueAssumption == I!ConstantAssumption /\ IsFiniteSet(Proc)

Init ==
  /\ head = [p \in Proc |-> NULL]
  /\ next_sending = [p \in Proc |-> NULL]
  /\ walk = NoWalk
  /\ I!Init

Idle == halted = 0 /\ pc = "idle" /\ walk = NoWalk

----------------------------------------------------------------------------
(* deadlock() and the decision of msg_send *)

\* p = proc_table + dest
Send(p, d, t) ==
  /\ Idle /\ p_flags[p] = {} /\ d # p
  /\ walk' = Walk("deadlock", p, d, d, NULL, t)
  /\ UNCHANGED <<p_flags, p_msg, p_recvfrom, p_sendto, has_int_msg, buf, call,
                 halted, lists>>

InDeadlock == halted = 0 /\ walk.op = "deadlock"
AtSender == SENDING \in p_flags[walk.at]

\* p = proc_table + p->p_sendto
DeadlockOn ==
  /\ InDeadlock /\ AtSender /\ p_sendto[walk.at] # walk.caller
  /\ walk' = [walk EXCEPT !.at = p_sendto[walk.at]]
  /\ UNCHANGED <<p_flags, p_msg, p_recvfrom, p_sendto, has_int_msg, buf, call,
                 halted, lists>>

\* Mutant of DeadlockEnds: the cycle that was found is not acted upon.
DeadlockEndsUnheeded ==
  /\ InDeadlock /\ (AtSender => p_sendto[walk.at] = walk.caller)
  /\ buf' = [buf EXCEPT ![walk.caller] = [source |-> walk.caller, type |-> walk.type]]
  /\ I!Enter(IF I!WaitsFor(walk.peer, walk.caller) THEN "snd_check" ELSE "snd_block",
             walk.caller, walk.peer)
  /\ walk' = NoWalk
  /\ UNCHANGED <<p_flags, p_msg, p_recvfrom, p_sendto, has_int_msg, halted, lists>>

\* The walk has met the caller (panic) or a process that is not sending; msg_send
\* goes on to see whether dest waits for the message.
DeadlockEnds ==
  /\ InDeadlock /\ (AtSender => p_sendto[walk.at] = walk.caller)
  /\ buf' = [buf EXCEPT ![walk.caller] = [source |-> walk.caller, type |-> walk.type]]
  /\ I!Asserted(~AtSender, 316)
  /\ I!Enter(IF I!WaitsFor(walk.peer, walk.caller) THEN "snd_check" ELSE "snd_block",
             walk.caller, walk.peer)
  /\ walk' = NoWalk
  /\ UNCHANGED <<p_flags, p_msg, p_recvfrom, p_sendto, has_int_msg, lists>>

----------------------------------------------------------------------------
(* msg_send appends the blocked caller to the list of dest. *)

SendBlock ==
  /\ halted = 0 /\ pc = "snd_block" /\ I!Goto("snd_sched")
  /\ p_flags' = [p_flags EXCEPT ![caller] = @ \cup {SENDING}]
  /\ p_sendto' = [p_sendto EXCEPT ![caller] = peer]
  /\ p_msg' = [p_msg EXCEPT ![caller] = caller]
  /\ \/ /\ head[peer] = NULL
        /\ head' = [head EXCEPT ![peer] = caller]
        /\ next_sending' = [next_sending EXCEPT ![caller] = NULL]
        /\ walk' = NoWalk
     \/ /\ head[peer] # NULL
        /\ walk' = Walk("append", caller, peer, head[peer], NULL, NULL)
        /\ UNCHANGED lists
  /\ UNCHANGED <<p_recvfrom, has_int_msg, buf, halted>>

\* p = p->next_sending
AppendOn ==
  /\ halted = 0 /\ walk.op = "append" /\ next_sending[walk.at] # NULL
  /\ walk' = [walk EXCEPT !.at = next_sending[walk.at]]
  /\ UNCHANGED <<p_flags, p_msg, p_recvfrom, p_sendto, has_int_msg, buf, call,
                 halted, lists>>

\* Mutant of AppendEnd: the caller is linked behind the first process.
AppendEndAnywhere ==
  /\ halted = 0 /\ walk.op = "append"
  /\ next_sending' = [next_sending EXCEPT ![walk.at] = walk.caller, ![walk.caller] = NULL]
  /\ walk' = NoWalk
  /\ UNCHANGED <<p_flags, p_msg, p_recvfrom, p_sendto, has_int_msg, buf, call,
                 halted, head>>

\* p->next_sending = sender, sender->next_sending = 0
AppendEnd ==
  /\ halted = 0 /\ walk.op = "append" /\ next_sending[walk.at] = NULL
  /\ next_sending' = [next_sending EXCEPT ![walk.at] = walk.caller, ![walk.caller] = NULL]
  /\ walk' = NoWalk
  /\ UNCHANGED <<p_flags, p_msg, p_recvfrom, p_sendto, has_int_msg, buf, call,
                 halted, head>>

----------------------------------------------------------------------------
(* msg_receive takes a sender out of the list of the caller. *)

\* Mutant of Unlinked: the link of the process taken out is kept.
UnlinkedKeepingLink(p, s, prev) ==
  IF head[p] = s
  THEN /\ head' = [head EXCEPT ![p] = next_sending[s]] /\ UNCHANGED next_sending
  ELSE /\ next_sending' = [next_sending EXCEPT ![prev] = next_sending[s]] /\ UNCHANGED head

\* s leaves the list of p, where it is the first or comes behind prev.
Unlinked(p, s, prev) ==
  IF head[p] = s
  THEN /\ head' = [head EXCEPT ![p] = next_sending[s]]
       /\ next_sending' = [next_sending EXCEPT ![s] = NULL]
  ELSE /\ next_sending' = [next_sending EXCEPT ![prev] = next_sending[s], ![s] = NULL]
       /\ UNCHANGED head

\* The asserts 437-445 or 476-484 and 497 or 502, the unlinking, the copy and
\* the release of the sender.
Taken(p, s, prev) ==
  /\ I!Asserted(/\ I!Quiet(p) /\ I!SendingTo(s, p) /\ head[p] # NULL
                /\ (head[p] = s <=> prev = NULL), 437)
  /\ Unlinked(p, s, prev)
  /\ buf' = [buf EXCEPT ![p] = buf[p_msg[s]]]
  /\ p_msg' = [p_msg EXCEPT ![s] = NULL]
  /\ p_sendto' = [p_sendto EXCEPT ![s] = NO_TASK]
  /\ p_flags' = [p_flags EXCEPT ![s] = @ \ {SENDING}]
  /\ walk' = NoWalk
  /\ UNCHANGED <<p_recvfrom, has_int_msg, call>>

\* RECEIVE from ANY takes the first one.
RecvAny(p) ==
  /\ Idle /\ p_flags[p] = {} /\ has_int_msg[p] = 0 /\ head[p] # NULL
  /\ Taken(p, head[p], NULL)

\* RECEIVE from src, which is sending to the caller, looks for it from the head on.
RecvFromOne(p, src) ==
  /\ Idle /\ p_flags[p] = {} /\ src # p /\ I!SendsTo(src, p)
  /\ walk' = Walk("search", p, src, head[p], NULL, NULL)
  /\ UNCHANGED <<p_flags, p_msg, p_recvfrom, p_sendto, has_int_msg, buf, call,
                 halted, lists>>

\* prev = p, p = p->next_sending
SearchOn ==
  /\ halted = 0 /\ walk.op = "search" /\ walk.at \notin {NULL, walk.peer}
  /\ walk' = [walk EXCEPT !.prev = walk.at, !.at = next_sending[walk.at]]
  /\ UNCHANGED <<p_flags, p_msg, p_recvfrom, p_sendto, has_int_msg, buf, call,
                 halted, lists>>

SearchEnd ==
  /\ halted = 0 /\ walk.op = "search" /\ walk.at \in {NULL, walk.peer}
  /\ Taken(walk.caller, walk.peer, walk.prev)

----------------------------------------------------------------------------
(* The rest is as in Ipc. *)

\* A step of the call in progress, or the start of one, that touches no list.
OtherStep ==
  /\ walk = NoWalk /\ UNCHANGED <<lists, walk>>
  /\ \/ I!SendCheck \/ I!SendCopy \/ I!SendClear \/ I!SendFinish \/ I!SendDone
     \/ I!SendSched \/ I!RecvStep
     \/ \E p \in Proc, src \in Proc \cup {ANY, INTERRUPT} :
          I!RecvInt(p, src) \/ I!RecvWait(p, src)

InformInt == UNCHANGED <<lists, walk>> /\ I!InformInt

Loop == DeadlockOn \/ DeadlockEnds \/ AppendOn \/ AppendEnd \/ SearchOn \/ SearchEnd

Next ==
  \/ \E p, d \in Proc, t \in Type : Send(p, d, t)
  \/ SendBlock
  \/ \E p \in Proc : RecvAny(p)
  \/ \E p, src \in Proc : RecvFromOne(p, src)
  \/ Loop
  \/ OtherStep
  \/ InformInt

Spec == Init /\ [][Next]_vars

----------------------------------------------------------------------------
(* Properties *)

\* The lists implement the queues of Ipc: a walk appends at the end, takes out
\* the sender that was asked for and no other, keeps the order of the rest, and
\* deadlock() finds a cycle exactly when the sends would close one.
ImplementsIpc == I!Spec

\* A link is left only on a process that is blocked sending with another one
\* queued behind it for the same destination: a stale link would splice two
\* lists together at the next append (proc.c:359, 499, 504).
NoStaleLink ==
  \A p \in Proc : next_sending[p] # NULL =>
    /\ SENDING \in p_flags[p] /\ SENDING \in p_flags[next_sending[p]]
    /\ p_sendto[next_sending[p]] = p_sendto[p]

\* The loop ends at p, or goes on to the next process.
Stops(p) ==
  \/ walk.op = "deadlock" /\ (SENDING \in p_flags[p] => p_sendto[p] = walk.caller)
  \/ walk.op = "append" /\ next_sending[p] = NULL
  \/ walk.op = "search" /\ p = walk.peer
Onward(p) == IF walk.op = "deadlock" THEN p_sendto[p] ELSE next_sending[p]

\* Every loop ends, because no set of processes can keep it: deadlock() has no cycle
\* before it that the caller is not on, no list is circular, and the sender searched
\* for is on the list (proc.c:269-289, 352-354, 465-474).
WalkEnds ==
  walk # NoWalk =>
    \A S \in SUBSET (Proc \cup {NULL}) :
      walk.at \in S /\ (\A p \in S \cap Proc : ~Stops(p) => Onward(p) \in S)
        => \E p \in S \cap Proc : Stops(p)

----------------------------------------------------------------------------
(* The inductive invariant: what a list is, and what a walk has behind it. *)

\* The sequence q is threaded through next, from h on.
Threads(q, h, next) ==
  /\ q \in Seq(Proc) /\ IsInjective(q)
  /\ h = IF q = <<>> THEN NULL ELSE q[1]
  /\ \A k \in DOMAIN q : next[q[k]] = IF k < Len(q) THEN q[k+1] ELSE NULL

\* p is blocked sending and on a list.
Linked(p) == SENDING \in p_flags[p] /\ ~(walk.op = "append" /\ walk.caller = p)

\* The list of d holds the processes that send to d; nobody else has a link.
ListsCoherent ==
  /\ head \in [Proc -> Proc \cup {NULL}] /\ next_sending \in [Proc -> Proc \cup {NULL}]
  /\ \A d \in Proc :
       /\ Threads(ListOf(d), head[d], next_sending)
       /\ ToSet(ListOf(d)) = {s \in Proc : Linked(s) /\ p_sendto[s] = d}
  /\ \A p \in Proc : ~Linked(p) => next_sending[p] = NULL

SendersCoherent ==
  /\ p_flags \in [Proc -> SUBSET {SENDING, RECEIVING}]
  /\ p_sendto \in [Proc -> Proc \cup {NO_TASK}]
  /\ \A p \in Proc : SENDING \in p_flags[p] => p_sendto[p] \in Proc \ {p}

\* Where msg_send is about to block its caller.
BlockCoherent ==
  pc = "snd_block" =>
    /\ caller \in Proc /\ peer \in Proc \ {caller} /\ SENDING \notin p_flags[caller]
    /\ halted = 0 => ~I!Deadlock(caller, peer)

\* Whatever can be reached from dest includes where the walk stands, and the processes
\* it has passed lead nowhere else.
DeadlockCoherent ==
  /\ pc = "idle" /\ p_flags[walk.caller] = {} /\ walk.type \in Type /\ walk.at \in Proc
  /\ \A C \in SUBSET Proc : walk.peer \in C /\ I!Closed(C) => walk.at \in C
  /\ \E V \in SUBSET (Proc \ {walk.caller}) :
       /\ walk.peer \in V /\ walk.at \in V
       /\ \A q \in V \ {walk.at} : SENDING \in p_flags[q] /\ p_sendto[q] \in V

AppendCoherent ==
  /\ pc = "snd_sched"
  /\ I!SendsTo(walk.caller, walk.peer)
  /\ walk.at \in ToSet(ListOf(walk.peer))

\* The sender is still ahead, and prev is the one before.
SearchCoherent ==
  /\ pc = "idle" /\ p_flags[walk.caller] = {}
  /\ \E q \in {ListOf(walk.caller)} : \E k, l \in DOMAIN q :
       /\ k <= l /\ q[k] = walk.at /\ q[l] = walk.peer
       /\ walk.prev = IF k = 1 THEN NULL ELSE q[k-1]

WalkCoherent ==
  /\ walk # NoWalk =>
       /\ walk = Walk(walk.op, walk.caller, walk.peer, walk.at, walk.prev, walk.type)
       /\ walk.op \in {"deadlock", "append", "search"}
       /\ walk.caller \in Proc /\ walk.peer \in Proc \ {walk.caller}
  /\ walk.op = "deadlock" => DeadlockCoherent
  /\ walk.op = "append" => AppendCoherent
  /\ walk.op = "search" => SearchCoherent

IInv == ListsCoherent /\ SendersCoherent /\ BlockCoherent /\ WalkCoherent /\ I!SendAcyclic
=============================================================================
