----------------------------- MODULE IpcProofs -----------------------------
(***************************************************************************)
(* Proofs about Ipc for every set of processes.                            *)
(***************************************************************************)
EXTENDS Ipc, SequenceTheorems, TLAPS

----------------------------------------------------------------------------
(* Sending queues *)

\* Appending a process that is not queued keeps a queue free of duplicates and
\* adds that process (msg_send, proc.c:350-359).
LEMMA AppendToQueue ==
  ASSUME NEW S, NEW q \in Seq(S), NEW x \in S, IsInjective(q), x \notin ToSet(q)
  PROVE  /\ Append(q, x) \in Seq(S)
         /\ IsInjective(Append(q, x))
         /\ ToSet(Append(q, x)) = ToSet(q) \cup {x}
<1> DEFINE r == Append(q, x)
<1>1. /\ r \in Seq(S) /\ DOMAIN q = 1..Len(q) /\ DOMAIN r = 1..(Len(q) + 1)
      /\ \A i \in DOMAIN q : r[i] = q[i]
      /\ r[Len(q) + 1] = x
      /\ Len(q) \in Nat
  OBVIOUS
<1>2. IsInjective(r)
  BY <1>1 DEF IsInjective, ToSet
<1>3. ToSet(r) = ToSet(q) \cup {x}
  BY <1>1 DEF ToSet
<1> QED
  BY <1>1, <1>2, <1>3

\* The arithmetic of the positions on both sides of position i.
LEMMA PositionArithmetic ==
  ASSUME NEW n \in Nat, NEW i \in 1..n
  PROVE  /\ n - (i + 1) + 1 = n - i
         /\ \A k \in 1..(n - i) : i + 1 + k - 1 = i + k
         /\ i + 1 <= n \/ n - i = 0
         /\ (i - 1) + (n - i) = n - 1
         /\ 1 <= i - 1 \/ i - 1 = 0
OBVIOUS

\* Removing position i shifts what follows it.
LEMMA RemoveAtProperties ==
  ASSUME NEW S, NEW q \in Seq(S), NEW i \in 1..Len(q)
  PROVE  /\ RemoveAt(q, i) \in Seq(S)
         /\ Len(RemoveAt(q, i)) = Len(q) - 1
         /\ \A k \in 1..(i - 1) : RemoveAt(q, i)[k] = q[k]
         /\ \A k \in i..(Len(q) - 1) : RemoveAt(q, i)[k] = q[k + 1]
<1> DEFINE n == Len(q)
           a == SubSeq(q, 1, i - 1)
           b == SubSeq(q, i + 1, n)
<1>1. n \in Nat /\ i \in 1..n /\ i \in Nat
  OBVIOUS
<1>2. \A k \in 1..n : q[k] \in S
  OBVIOUS
<1>3. /\ a \in Seq(S) /\ Len(a) = i - 1
      /\ \A k \in 1..(i - 1) : a[k] = q[k]
  <2>1. \A k \in 1..(i - 1) : q[k] \in S
    BY <1>1, <1>2
  <2>2. /\ a \in Seq(S) /\ Len(a) = IF 1 <= i - 1 THEN i - 1 - 1 + 1 ELSE 0
        /\ \A k \in 1..(i - 1 - 1 + 1) : a[k] = q[1 + k - 1]
    BY <1>1, <2>1, SubSeqProperties
  <2> QED
    BY <1>1, <2>2
<1>4. /\ b \in Seq(S) /\ Len(b) = n - i
      /\ \A k \in 1..(n - i) : b[k] = q[i + k]
  <2>1. \A k \in (i + 1)..n : q[k] \in S
    BY <1>1, <1>2
  <2>2. /\ b \in Seq(S) /\ Len(b) = IF i + 1 <= n THEN n - (i + 1) + 1 ELSE 0
        /\ \A k \in 1..(n - (i + 1) + 1) : b[k] = q[i + 1 + k - 1]
    BY <1>1, <2>1, SubSeqProperties
  <2> HIDE DEF b, n
  <2> QED
    BY <1>1, <2>2, PositionArithmetic
<1> HIDE DEF a, b, n
<1>5. /\ a \o b \in Seq(S) /\ Len(a \o b) = n - 1
      /\ \A k \in 1..(n - 1) : (a \o b)[k] = IF k <= i - 1 THEN a[k] ELSE b[k - (i - 1)]
  <2>1. /\ a \o b \in Seq(S) /\ Len(a \o b) = Len(a) + Len(b)
        /\ \A k \in 1..(Len(a) + Len(b)) : (a \o b)[k] = IF k <= Len(a) THEN a[k] ELSE b[k - Len(a)]
    BY <1>3, <1>4, ConcatProperties
  <2>2. Len(a) = i - 1 /\ Len(a) + Len(b) = n - 1
    BY <1>1, <1>3, <1>4, PositionArithmetic
  <2> QED
    BY <2>1, <2>2
<1>6. \A k \in i..(n - 1) : k \in 1..(n - 1) /\ ~(k <= i - 1) /\ k - (i - 1) \in 1..(n - i) /\ i + (k - (i - 1)) = k + 1
  BY <1>1
<1>7. RemoveAt(q, i) = a \o b
  BY DEF RemoveAt, a, b, n
<1>8. \A k \in 1..(i - 1) : k \in 1..(n - 1) /\ k <= i - 1
  BY <1>1
<1>9. \A k \in 1..(i - 1) : (a \o b)[k] = q[k]
  BY <1>3, <1>5, <1>8
<1>10. ASSUME NEW k \in i..(n - 1) PROVE (a \o b)[k] = q[k + 1]
  <2>1. (a \o b)[k] = b[k - (i - 1)]
    BY <1>5, <1>6
  <2>2. b[k - (i - 1)] = q[i + (k - (i - 1))]
    BY <1>4, <1>6
  <2> QED
    BY <2>1, <2>2, <1>6
<1> QED
  BY <1>5, <1>7, <1>9, <1>10 DEF n

\* Unlinking a queued process removes it and nothing else (msg_receive,
\* proc.c:495-504).
LEMMA UnlinkFromQueue ==
  ASSUME NEW S, NEW q \in Seq(S), NEW x \in ToSet(q), IsInjective(q)
  PROVE  /\ Unlink(q, x) \in Seq(S)
         /\ IsInjective(Unlink(q, x))
         /\ ToSet(Unlink(q, x)) = ToSet(q) \ {x}
<1> DEFINE i == CHOOSE j \in DOMAIN q : q[j] = x
           r == Unlink(q, x)
           n == Len(q)
<1>1. n \in Nat /\ DOMAIN q = 1..n /\ i \in 1..n /\ q[i] = x
  <2>1. n \in Nat /\ DOMAIN q = 1..n
    OBVIOUS
  <2>2. \E j \in DOMAIN q : q[j] = x
    BY DEF ToSet
  <2> QED
    BY <2>1, <2>2
<1>2. r = RemoveAt(q, i)
  BY DEF Unlink
<1> HIDE DEF i
<1>3. /\ r \in Seq(S) /\ Len(r) = n - 1
      /\ \A k \in 1..(i - 1) : r[k] = q[k]
      /\ \A k \in i..(n - 1) : r[k] = q[k + 1]
  BY <1>1, <1>2, RemoveAtProperties
<1> HIDE DEF r, n
<1>4. DOMAIN r = 1..(n - 1)
  BY <1>3
<1> DEFINE from(k) == IF k < i THEN k ELSE k + 1
<1>5. \A k \in 1..(n - 1) : from(k) \in 1..n /\ from(k) # i /\ r[k] = q[from(k)]
  <2> TAKE k \in 1..(n - 1)
  <2>1. CASE k < i
    <3>1. k \in 1..(i - 1) /\ k \in 1..n /\ k # i /\ from(k) = k
      BY <2>1, <1>1
    <3> QED
      BY <3>1, <1>3
  <2>2. CASE ~(k < i)
    <3>1. k \in i..(n - 1) /\ k + 1 \in 1..n /\ k + 1 # i /\ from(k) = k + 1
      BY <2>2, <1>1
    <3> HIDE DEF from
    <3> QED
      BY <3>1, <1>3
  <2> QED
    BY <2>1, <2>2
<1>6. \A k, l \in 1..(n - 1) : from(k) = from(l) => k = l
  BY <1>1
<1> HIDE DEF from
<1>7. \A k, l \in 1..n : q[k] = q[l] => k = l
  BY <1>1 DEF IsInjective
<1>8. IsInjective(r)
  BY <1>4, <1>5, <1>6, <1>7 DEF IsInjective
<1>9. ToSet(r) = ToSet(q) \ {x}
  <2>1. \A k \in DOMAIN r : r[k] \in ToSet(q) \ {x}
    BY <1>1, <1>4, <1>5, <1>7 DEF ToSet
  <2>2. ASSUME NEW j \in 1..n, q[j] # x
        PROVE  \E k \in DOMAIN r : r[k] = q[j]
    <3>1. CASE j < i
      BY <3>1, <1>1, <1>3, <1>4
    <3>2. CASE j > i
      <4>1. j - 1 \in i..(n - 1) /\ j - 1 \in DOMAIN r /\ (j - 1) + 1 = j
        BY <3>2, <1>1, <1>4
      <4>2. r[j - 1] = q[j]
        BY <4>1, <1>3
      <4> QED
        BY <4>1, <4>2
    <3> QED
      BY <3>1, <3>2, <2>2, <1>1
  <2> QED
    BY <2>1, <2>2, <1>1 DEF ToSet
<1> QED
  BY <1>3, <1>8, <1>9 DEF r

----------------------------------------------------------------------------
(* What the steps that change p_flags do, given the invariant. *)

\* p_flags holds at most one bit.
LEMMA FlagFacts ==
  /\ {} \cup {SENDING} = {SENDING} /\ {} \cup {RECEIVING} = {RECEIVING}
  /\ {SENDING} \ {SENDING} = {} /\ {RECEIVING} \ {RECEIVING} = {}
  /\ {} \ {RECEIVING} = {}
  /\ {SENDING} # {} /\ {RECEIVING} # {} /\ {SENDING} # {RECEIVING}
  /\ \A f \in {{}, {SENDING}, {RECEIVING}} :
       /\ SENDING \in f <=> f = {SENDING}
       /\ RECEIVING \in f <=> f = {RECEIVING}
BY ConstantAssumption

\* msg_send blocks a runnable caller (343).
LEMMA SendBlockFlags ==
  ASSUME IInv, SendBlock
  PROVE  /\ caller \in Proc /\ peer \in Proc /\ peer # caller
         /\ p_flags[caller] = {}
         /\ p_flags' = [p_flags EXCEPT ![caller] = {SENDING}]
<1>1. caller \in Proc /\ peer \in Proc /\ peer # caller /\ p_flags[caller] = {}
  BY ConstantAssumption DEF IInv, TypeOK, CallCoherent, SendBlock, PcSend
<1> QED
  BY <1>1, FlagFacts DEF SendBlock

\* msg_receive blocks a runnable caller (524).
LEMMA RecvMarkFlags ==
  ASSUME IInv, RecvMark
  PROVE  /\ caller \in Proc /\ peer # caller /\ peer # NO_TASK
         /\ p_flags[caller] = {}
         /\ p_flags' = [p_flags EXCEPT ![caller] = {RECEIVING}]
<1>1. caller \in Proc /\ peer # caller /\ peer # NO_TASK /\ p_flags[caller] = {}
  BY ConstantAssumption DEF IInv, TypeOK, CallCoherent, RecvMark, PcRecv
<1> QED
  BY <1>1, FlagFacts DEF RecvMark

\* msg_send releases its waiting destination (329).
LEMMA SendFinishFlags ==
  ASSUME IInv, SendFinish
  PROVE  /\ caller \in Proc /\ peer \in Proc /\ peer # caller
         /\ p_flags[caller] = {}
         /\ p_flags[peer] \in {{}, {RECEIVING}}
         /\ p_msg[peer] = NULL
         /\ p_flags' = [p_flags EXCEPT ![peer] = {}]
<1>1. caller \in Proc /\ peer \in Proc /\ peer # caller /\ p_flags[caller] = {}
  BY ConstantAssumption DEF IInv, TypeOK, CallCoherent, SendFinish, PcSend
<1>2. p_flags[peer] \in {{}, {RECEIVING}}
  <2>1. p_flags[peer] \in {{}, {SENDING}, {RECEIVING}}
    BY <1>1 DEF IInv, TypeOK
  <2>2. RECEIVING \in p_flags[peer] \/ p_flags[peer] = {}
    BY DEF IInv, CallCoherent, SendFinish, WaitsFor, WokenByInt
  <2> QED
    BY <2>1, <2>2, FlagFacts
<1>3. p_msg[peer] = NULL
  BY <1>1, <1>2 DEF IInv, FieldsCoherent, FieldsOf, SendFinish
<1> QED
  BY <1>1, <1>2, <1>3, FlagFacts DEF SendFinish

\* inform_int releases HD (628).
LEMMA InformWaitingFlags ==
  ASSUME IInv, InformWaiting
  PROVE  /\ p_flags[HD] = {RECEIVING} /\ p_sendto[HD] = NO_TASK
         /\ p_flags' = [p_flags EXCEPT ![HD] = {}]
         /\ halted' = halted
<1>1. p_flags[HD] = {RECEIVING}
  BY FlagFacts, ConstantAssumption DEF IInv, TypeOK, InformWaiting
<1>2. p_sendto[HD] = NO_TASK
  BY <1>1, FlagFacts, ConstantAssumption DEF IInv, FieldsCoherent, FieldsOf
<1> QED
  BY <1>1, <1>2, FlagFacts DEF InformWaiting, Asserted

\* The message of s is taken by p.
Taken(p, src, s) ==
  /\ p_flags[s] = {SENDING} /\ p_sendto[s] = p /\ p_msg[s] = s
  /\ src \in {s, ANY}
  /\ s \in ToSet(q_sending[p])
  /\ q_sending' = [q_sending EXCEPT ![p] = Unlink(@, s)]
  /\ buf' = [buf EXCEPT ![p] = buf[s]]
  /\ p_msg' = [p_msg EXCEPT ![s] = NULL]
  /\ p_sendto' = [p_sendto EXCEPT ![s] = NO_TASK]
  /\ p_flags' = [p_flags EXCEPT ![s] = {}]
  /\ halted' = halted

\* A receive takes the message of a process that is queued to the receiver, and
\* none of the assertions on the two of them and on the queue fails (437-518).
LEMMA RecvTakeEffect ==
  ASSUME IInv, NEW p \in Proc, NEW src \in Proc \cup {ANY, INTERRUPT}, RecvTake(p, src)
  PROVE  \E s \in Proc \ {p} : Taken(p, src, s)
<1>1. PICK s \in Candidates(p, src) :
        /\ Asserted(Quiet(p) /\ SendingTo(s, p) /\ Contains(q_sending[p], s), 437)
        /\ q_sending' = [q_sending EXCEPT ![p] = Unlink(@, s)]
        /\ buf' = [buf EXCEPT ![p] = buf[p_msg[s]]]
        /\ p_msg' = [p_msg EXCEPT ![s] = NULL]
        /\ p_sendto' = [p_sendto EXCEPT ![s] = NO_TASK]
        /\ p_flags' = [p_flags EXCEPT ![s] = @ \ {SENDING}]
  BY DEF RecvTake
<1>2. q_sending[p] \in Seq(Proc) /\ ToSet(q_sending[p]) = {r \in Proc : SendsTo(r, p)}
  BY DEF IInv, TypeOK, QueueExact
<1>3. s \in Proc /\ SendsTo(s, p) /\ s \in ToSet(q_sending[p]) /\ src \in {s, ANY}
  <2>1. CASE src = ANY
    <3>1. q_sending[p] # <<>> /\ s = Head(q_sending[p])
      BY <2>1 DEF Candidates
    <3>2. s = q_sending[p][1] /\ 1 \in DOMAIN q_sending[p]
      BY <3>1, <1>2
    <3>3. s \in ToSet(q_sending[p])
      BY <3>2 DEF ToSet
    <3> QED
      BY <2>1, <3>3, <1>2
  <2>2. CASE src # ANY
    BY <2>2, <1>2 DEF Candidates
  <2> QED
    BY <2>1, <2>2
<1>4. p_flags[s] = {SENDING} /\ p_sendto[s] = p
  BY <1>3, FlagFacts DEF IInv, TypeOK, SendsTo
<1>5. p_msg[s] = s /\ p_recvfrom[s] = NO_TASK /\ s # p
  BY <1>3, <1>4 DEF IInv, FieldsCoherent, FieldsOf
<1>6. Quiet(p) /\ SendingTo(s, p) /\ Contains(q_sending[p], s)
  <2>1. Quiet(p)
    <3>1. p_flags[p] = {}
      BY DEF RecvTake, Receiving, Runnable
    <3> QED
      BY <3>1, FlagFacts DEF IInv, FieldsCoherent, FieldsOf, Quiet
  <2>2. SendingTo(s, p)
    BY <1>3, <1>4, <1>5, ConstantAssumption DEF SendingTo
  <2>3. Contains(q_sending[p], s)
    BY <1>2, <1>3 DEF Contains, ToSet
  <2> QED
    BY <2>1, <2>2, <2>3
<1>7. halted' = halted
  BY <1>1, <1>6 DEF Asserted
<1> QED
  BY <1>1, <1>3, <1>4, <1>5, <1>7, FlagFacts DEF Taken

----------------------------------------------------------------------------
(* The invariant holds initially. *)

\* The boot state (kernel/main.c:73-81) satisfies the inductive invariant.
LEMMA InitInv ==
  Init => IInv
<1> SUFFICES ASSUME Init PROVE IInv
  OBVIOUS
<1> USE DEF Init
<1>1. TypeOK
  <2>1. buf \in [Proc -> Message]
    BY DEF Message
  <2> QED
    BY <2>1 DEF TypeOK
<1>2. FieldsCoherent
  BY FlagFacts DEF FieldsCoherent, FieldsOf
<1>3. CallCoherent
  BY ConstantAssumption DEF CallCoherent, PcSend, PcRecv
<1>4. WakeupCoherent
  BY ConstantAssumption DEF WakeupCoherent
<1>5. QueueExact
  BY DEF QueueExact, IsInjective, ToSet, SendsTo
<1>6. SendAcyclic
  BY DEF SendAcyclic
<1>7. NoMissedRendezvous
  BY DEF NoMissedRendezvous, SendsTo
<1>8. AssertsOnlyForHD
  BY DEF AssertsOnlyForHD
<1>9. MessageCoherent
  BY FlagFacts DEF MessageCoherent
<1> QED
  BY <1>1, <1>2, <1>3, <1>4, <1>5, <1>6, <1>7, <1>8, <1>9 DEF IInv

----------------------------------------------------------------------------
(* Every step keeps each part of it. *)

\* The actions that leave the process table alone.
TableStep ==
  \/ \E p, d \in Proc, t \in Type : Send(p, d, t)
  \/ SendCheck \/ SendCopy \/ SendDone \/ SendSched
  \/ \E p \in Proc, src \in Proc \cup {ANY, INTERRUPT} : RecvInt(p, src) \/ RecvWait(p, src)
  \/ RecvIntDone \/ RecvBlock \/ RecvSched \/ RecvDone

\* A step that leaves p_flags, the p_ fields, has_int_msg and q_sending alone keeps
\* every predicate on them.
LEMMA TableUnchanged ==
  ASSUME TableStep
  PROVE  /\ p_flags' = p_flags /\ p_msg' = p_msg /\ p_recvfrom' = p_recvfrom
         /\ p_sendto' = p_sendto /\ has_int_msg' = has_int_msg /\ q_sending' = q_sending
<1>1. UNCHANGED table
  BY DEF TableStep, Send, SendCheck, SendCopy, SendDone, SendSched, RecvInt, RecvWait,
         RecvIntDone, RecvBlock, RecvSched, RecvDone, Halt
<1> QED
  BY <1>1 DEF table

\* Case analysis on a step.
LEMMA NextCases ==
  [Next]_vars =>
    \/ UNCHANGED vars
    \/ TableStep
    \/ SendClear \/ SendFinish \/ SendBlock
    \/ RecvIntClear \/ RecvMark \/ RecvFrom
    \/ \E p \in Proc, src \in Proc \cup {ANY, INTERRUPT} : RecvTake(p, src)
    \/ InformWaiting \/ InformPending
BY DEF Next, TableStep, SendStep, RecvStep, InformInt

\* Every step keeps the variables' types, one bit of p_flags at a time included.
LEMMA TypeStep ==
  ASSUME IInv, [Next]_vars
  PROVE  TypeOK'
<1> USE DEF TypeOK, PcSend, PcRecv
<1>0. TypeOK
  BY DEF IInv
<1>1. CASE UNCHANGED vars
  BY <1>0, <1>1 DEF vars
<1>2. CASE TableStep
  <2>1. ASSUME NEW p \in Proc, NEW d \in Proc, NEW t \in Type, Send(p, d, t)
        PROVE  TypeOK'
    <3>1. /\ pc' \in {"snd_check", "snd_block"} /\ caller' = p /\ peer' = d
          /\ halted' \in Nat
      BY <1>0, <2>1 DEF Send, Enter, Asserted
    <3>2. buf' \in [Proc -> Message]
      BY <1>0, <2>1 DEF Send, Message
    <3> QED
      BY <1>0, <1>2, <3>1, <3>2, TableUnchanged
  <2>2. CASE SendCheck \/ RecvIntDone \/ RecvBlock \/ RecvSched \/ RecvDone
    <3>1. buf' = buf
      BY <2>2 DEF SendCheck, RecvIntDone, RecvBlock, RecvSched, RecvDone, Halt
    <3>2. /\ pc' \in {"idle"} \cup PcSend \cup PcRecv
          /\ caller' \in Proc \cup {NO_TASK}
          /\ peer' \in Proc \cup {ANY, INTERRUPT, NO_TASK}
      BY <1>0, <2>2 DEF SendCheck, RecvIntDone, RecvBlock, RecvSched, RecvDone,
                        call, Goto, Return, Enter, Halt
    <3>3. halted' \in Nat
      BY <1>0, <2>2 DEF SendCheck, RecvIntDone, RecvBlock, RecvSched, RecvDone, Halt
    <3> QED
      BY <1>0, <1>2, <3>1, <3>2, <3>3, TableUnchanged
  <2>3. CASE SendCopy
    <3>1. /\ pc' = "snd_clear" /\ caller' = caller /\ peer' = peer
          /\ halted' = halted
      BY <2>3 DEF SendCopy, Goto
    <3>2. buf' \in [Proc -> Message]
      <4>1. caller \in Proc /\ peer \in Proc
        BY <1>0, <2>3 DEF IInv, CallCoherent, SendCopy
      <4>2. p_msg[peer] \in Proc \cup {NULL}
        BY <1>0, <4>1 DEF TypeOK
      <4>3. PICK to \in {peer, p_msg[peer]} :
              buf' = IF to = NULL THEN buf ELSE [buf EXCEPT ![to] = buf[caller]]
        BY <2>3 DEF SendCopy
      <4> QED
        BY <1>0, <4>1, <4>2, <4>3 DEF TypeOK
    <3> QED
      BY <1>0, <1>2, <3>1, <3>2, TableUnchanged
  <2>4. CASE SendDone \/ SendSched
    <3>1. buf' = buf /\ pc' = "idle" /\ caller' = NO_TASK /\ peer' = NO_TASK
      BY <2>4 DEF SendDone, SendSched, Return, Enter
    <3>2. halted' \in Nat
      BY <1>0, <2>4 DEF SendDone, SendSched, Asserted
    <3> QED
      BY <1>0, <1>2, <3>1, <3>2, TableUnchanged
  <2>5. ASSUME NEW p \in Proc, NEW src \in Proc \cup {ANY, INTERRUPT},
               RecvInt(p, src) \/ RecvWait(p, src)
        PROVE  TypeOK'
    <3>1. /\ pc' \in {"rcv_int", "rcv_mark"} /\ caller' = p /\ peer' = src
          /\ halted' = halted
      BY <2>5 DEF RecvInt, RecvWait, Enter
    <3>2. buf' \in [Proc -> Message]
      <4>1. CASE RecvInt(p, src)
        BY <1>0, <4>1 DEF RecvInt, Message
      <4>2. CASE RecvWait(p, src)
        <5>1. buf' = [buf EXCEPT ![p] = [buf[p] EXCEPT !.source = p]]
          BY <4>2 DEF RecvWait
        <5>2. [buf[p] EXCEPT !.source = p] \in Message
          BY <1>0 DEF Message
        <5> QED
          BY <1>0, <5>1, <5>2
      <4> QED
        BY <2>5, <4>1, <4>2
    <3> QED
      BY <1>0, <1>2, <3>1, <3>2, TableUnchanged
  <2> QED
    BY <1>2, <2>1, <2>2, <2>3, <2>4, <2>5 DEF TableStep
<1>3. CASE SendClear \/ RecvIntClear
  BY <1>0, <1>3 DEF SendClear, RecvIntClear, Goto
<1>4. CASE SendFinish
  BY <1>0, <1>4, SendFinishFlags DEF SendFinish, Goto
<1>5. CASE SendBlock
  <2>1. q_sending' \in [Proc -> Seq(Proc)]
    BY <1>0, <1>5, SendBlockFlags DEF SendBlock
  <2> QED
    BY <1>0, <1>5, <2>1, SendBlockFlags DEF SendBlock, Goto
<1>6. CASE RecvMark
  BY <1>0, <1>6, RecvMarkFlags DEF RecvMark, Goto
<1>7. CASE RecvFrom
  <2>1. peer \in Proc \cup {ANY, INTERRUPT}
    BY <1>0, <1>7 DEF IInv, CallCoherent, RecvFrom
  <2> QED
    BY <1>0, <1>7, <2>1 DEF RecvFrom, Goto
<1>8. ASSUME NEW p \in Proc, NEW src \in Proc \cup {ANY, INTERRUPT}, RecvTake(p, src)
      PROVE  TypeOK'
  <2>1. PICK s \in Proc \ {p} : Taken(p, src, s)
    BY <1>8, RecvTakeEffect
  <2>2. Unlink(q_sending[p], s) \in Seq(Proc)
    BY <2>1, UnlinkFromQueue DEF IInv, QueueExact, Taken
  <2> QED
    BY <1>0, <1>8, <2>1, <2>2 DEF RecvTake, call, Taken
<1>9. CASE InformWaiting
  BY <1>0, <1>9, InformWaitingFlags, ConstantAssumption DEF InformWaiting, call, Message
<1>10. CASE InformPending
  BY <1>0, <1>10 DEF InformPending, call
<1> QED
  BY <1>1, <1>2, <1>3, <1>4, <1>5, <1>6, <1>7, <1>8, <1>9, <1>10, NextCases

----------------------------------------------------------------------------
(* The sending queues and the graph of senders *)

\* A step after which the same processes send to the same destinations.
SendersSame ==
  /\ p_sendto' = p_sendto /\ q_sending' = q_sending
  /\ \A q \in Proc : SENDING \in p_flags'[q] <=> SENDING \in p_flags[q]

\* Only a send that blocks and a receive that takes a message change the senders.
LEMMA SendersCases ==
  ASSUME IInv, [Next]_vars
  PROVE  \/ SendersSame
         \/ SendBlock
         \/ \E p \in Proc, src \in Proc \cup {ANY, INTERRUPT} : RecvTake(p, src)
<1> USE DEF SendersSame
<1>0. \A q \in Proc : p_flags[q] \in {{}, {SENDING}, {RECEIVING}}
  BY DEF IInv, TypeOK
<1>1. CASE UNCHANGED vars
  BY <1>1 DEF vars
<1>2. CASE TableStep
  BY <1>2, TableUnchanged
<1>3. CASE SendClear \/ RecvIntClear \/ RecvFrom \/ InformPending
  BY <1>3 DEF SendClear, RecvIntClear, RecvFrom, InformPending
<1>4. CASE SendFinish
  <2>1. p_sendto' = p_sendto /\ q_sending' = q_sending
    BY <1>4 DEF SendFinish
  <2>2. ASSUME NEW q \in Proc
        PROVE  SENDING \in p_flags'[q] <=> SENDING \in p_flags[q]
    BY <1>0, <1>4, SendFinishFlags, FlagFacts DEF IInv, TypeOK
  <2> QED
    BY <2>1, <2>2
<1>5. CASE RecvMark
  <2>1. p_sendto' = p_sendto /\ q_sending' = q_sending
    BY <1>5 DEF RecvMark
  <2>2. ASSUME NEW q \in Proc
        PROVE  SENDING \in p_flags'[q] <=> SENDING \in p_flags[q]
    BY <1>0, <1>5, RecvMarkFlags, FlagFacts DEF IInv, TypeOK
  <2> QED
    BY <2>1, <2>2
<1>6. CASE InformWaiting
  <2>1. p_sendto' = p_sendto /\ q_sending' = q_sending
    BY <1>6 DEF InformWaiting
  <2>2. ASSUME NEW q \in Proc
        PROVE  SENDING \in p_flags'[q] <=> SENDING \in p_flags[q]
    BY <1>0, <1>6, InformWaitingFlags, FlagFacts DEF IInv, TypeOK
  <2> QED
    BY <2>1, <2>2
<1> QED
  BY <1>1, <1>2, <1>3, <1>4, <1>5, <1>6, NextCases

\* Every step keeps a sending queue equal to the processes blocked sending to its
\* owner: only SendBlock and RecvTake change either (proc.c:343-361, 495-518).
LEMMA QueueStep ==
  ASSUME IInv, [Next]_vars
  PROVE  QueueExact'
<1> SUFFICES ASSUME NEW d \in Proc
             PROVE  /\ IsInjective(q_sending'[d])
                    /\ ToSet(q_sending'[d]) = {s \in Proc : SendsTo(s, d)'}
  BY DEF QueueExact
<1>0. /\ q_sending \in [Proc -> Seq(Proc)] /\ p_flags \in [Proc -> {{}, {SENDING}, {RECEIVING}}]
      /\ p_sendto \in [Proc -> Proc \cup {NO_TASK}]
      /\ IsInjective(q_sending[d])
      /\ ToSet(q_sending[d]) = {s \in Proc : SendsTo(s, d)}
  BY DEF IInv, TypeOK, QueueExact
<1>1. CASE SendersSame
  BY <1>0, <1>1 DEF SendersSame, SendsTo
<1>2. CASE SendBlock
  <2>1. /\ q_sending' = [q_sending EXCEPT ![peer] = Append(@, caller)]
        /\ p_sendto' = [p_sendto EXCEPT ![caller] = peer]
        /\ p_flags' = [p_flags EXCEPT ![caller] = {SENDING}]
        /\ caller \in Proc /\ peer \in Proc /\ p_flags[caller] = {}
    BY <1>2, SendBlockFlags DEF SendBlock
  <2>2. ASSUME NEW s \in Proc
        PROVE  SendsTo(s, d)' <=> SendsTo(s, d) \/ (s = caller /\ d = peer)
    BY <1>0, <2>1, FlagFacts DEF SendsTo
  <2>3. CASE d = peer
    <3>1. caller \notin ToSet(q_sending[d])
      BY <1>0, <2>1 DEF SendsTo
    <3>2. q_sending'[d] = Append(q_sending[d], caller)
      BY <1>0, <2>1, <2>3
    <3>3. /\ IsInjective(q_sending'[d])
          /\ ToSet(q_sending'[d]) = ToSet(q_sending[d]) \cup {caller}
      BY <1>0, <2>1, <3>1, <3>2, AppendToQueue
    <3> QED
      BY <1>0, <2>1, <2>2, <2>3, <3>3
  <2>4. CASE d # peer
    BY <1>0, <2>1, <2>2, <2>4
  <2> QED
    BY <2>3, <2>4
<1>3. ASSUME NEW p \in Proc, NEW src \in Proc \cup {ANY, INTERRUPT}, RecvTake(p, src)
      PROVE  /\ IsInjective(q_sending'[d])
             /\ ToSet(q_sending'[d]) = {s \in Proc : SendsTo(s, d)'}
  <2>0. PICK r \in Proc \ {p} : Taken(p, src, r)
    BY <1>3, RecvTakeEffect
  <2>1. /\ p_flags[r] = {SENDING} /\ p_sendto[r] = p
        /\ r \in ToSet(q_sending[p])
        /\ q_sending' = [q_sending EXCEPT ![p] = Unlink(@, r)]
        /\ p_sendto' = [p_sendto EXCEPT ![r] = NO_TASK]
        /\ p_flags' = [p_flags EXCEPT ![r] = {}]
    BY <2>0 DEF Taken
  <2>2. ASSUME NEW s \in Proc
        PROVE  SendsTo(s, d)' <=> SendsTo(s, d) /\ ~(s = r /\ d = p)
    BY <1>0, <2>1, FlagFacts DEF SendsTo
  <2>3. CASE d = p
    <3>1. q_sending'[d] = Unlink(q_sending[d], r)
      BY <1>0, <2>1, <2>3
    <3>2. /\ IsInjective(q_sending'[d])
          /\ ToSet(q_sending'[d]) = ToSet(q_sending[d]) \ {r}
      BY <1>0, <2>1, <2>3, <3>1, UnlinkFromQueue
    <3> QED
      BY <1>0, <2>2, <2>3, <3>2
  <2>4. CASE d # p
    BY <1>0, <2>1, <2>2, <2>4
  <2> QED
    BY <2>3, <2>4
<1> QED
  BY <1>1, <1>2, <1>3, SendersCases

\* A send that the walk of deadlock() has let through closes no cycle: the set
\* the walk cannot leave separates the destination from the sender.
LEMMA AcyclicStep ==
  ASSUME IInv, [Next]_vars
  PROVE  SendAcyclic'
<1> SUFFICES ASSUME NEW S \in SUBSET Proc, S # {},
                    \A q \in S : SENDING \in p_flags'[q] /\ p_sendto'[q] \in S
             PROVE  FALSE
  BY DEF SendAcyclic
<1>0. /\ p_flags \in [Proc -> {{}, {SENDING}, {RECEIVING}}]
      /\ p_sendto \in [Proc -> Proc \cup {NO_TASK}]
      /\ SendAcyclic
  BY DEF IInv, TypeOK
<1>1. CASE SendersSame
  BY <1>0, <1>1 DEF SendersSame, SendAcyclic
<1>2. CASE SendBlock
  <2>1. /\ p_sendto' = [p_sendto EXCEPT ![caller] = peer]
        /\ p_flags' = [p_flags EXCEPT ![caller] = {SENDING}]
        /\ caller \in Proc /\ peer \in Proc /\ p_flags[caller] = {}
    BY <1>2, SendBlockFlags DEF SendBlock
  <2>2. \A q \in Proc \ {caller} : /\ SENDING \in p_flags'[q] <=> SENDING \in p_flags[q]
                                   /\ p_sendto'[q] = p_sendto[q]
    BY <1>0, <2>1
  <2>3. CASE caller \notin S
    BY <1>0, <2>2, <2>3 DEF SendAcyclic
  <2>4. CASE caller \in S
    <3>1. PICK C \in SUBSET Proc : peer \in C /\ Closed(C) /\ caller \notin C
      BY <1>2 DEF IInv, CallCoherent, SendBlock, Deadlock
    <3>2. peer \in S \cap C
      BY <1>0, <2>1, <2>4, <3>1
    <3>3. \A q \in S \cap C : SENDING \in p_flags[q] /\ p_sendto[q] \in S \cap C
      BY <2>2, <3>1 DEF Closed
    <3>4. S \cap C \in SUBSET Proc /\ S \cap C # {}
      BY <3>2
    <3> QED
      BY <1>0, <3>3, <3>4 DEF SendAcyclic
  <2> QED
    BY <2>3, <2>4
<1>3. ASSUME NEW p \in Proc, NEW src \in Proc \cup {ANY, INTERRUPT}, RecvTake(p, src)
      PROVE  FALSE
  <2>1. PICK r \in Proc \ {p} : Taken(p, src, r)
    BY <1>3, RecvTakeEffect
  <2>2. r \notin S
    BY <1>0, <2>1, FlagFacts DEF Taken
  <2> QED
    BY <1>0, <2>1, <2>2 DEF SendAcyclic, Taken
<1> QED
  BY <1>1, <1>2, <1>3, SendersCases

----------------------------------------------------------------------------
(* The fields of a table entry *)

\* Every step keeps p_msg, p_recvfrom, p_sendto and has_int_msg in agreement with
\* p_flags, except at the points of a call where FieldsOf says they are not.
LEMMA FieldsStep ==
  ASSUME IInv, [Next]_vars
  PROVE  FieldsCoherent'
<1> SUFFICES ASSUME NEW q \in Proc PROVE FieldsOf(q)'
  BY DEF FieldsCoherent
<1> USE DEF FieldsOf
<1>0. /\ FieldsOf(q) /\ p_flags[q] \in {{}, {SENDING}, {RECEIVING}}
      /\ p_flags \in [Proc -> {{}, {SENDING}, {RECEIVING}}]
      /\ p_msg \in [Proc -> Proc \cup {NULL}]
      /\ p_recvfrom \in [Proc -> Proc \cup {ANY, INTERRUPT, NO_TASK}]
      /\ p_sendto \in [Proc -> Proc \cup {NO_TASK}]
      /\ has_int_msg \in [Proc -> {0, 1}]
  BY DEF IInv, TypeOK, FieldsCoherent
<1>1. CASE UNCHANGED vars
  BY <1>0, <1>1 DEF vars
<1>2. CASE TableStep
  <2>1. pc \notin {"rcv_from", "snd_finish"} /\ pc' \notin {"rcv_from", "snd_finish"}
    BY <1>2 DEF TableStep, Send, SendCheck, SendCopy, SendDone, SendSched, RecvInt, RecvWait,
                RecvIntDone, RecvBlock, RecvSched, RecvDone, Receiving,
                Halt, call, Enter, Goto, Return
  <2> QED
    BY <1>0, <1>2, <2>1, TableUnchanged
<1>3. CASE SendClear
  <2>1. /\ p_msg'[q] = IF q = peer THEN NULL ELSE p_msg[q]
        /\ pc = "snd_clear" /\ pc' = "snd_finish" /\ peer' = peer
        /\ UNCHANGED <<p_flags, p_recvfrom, p_sendto, has_int_msg>>
    BY <1>0, <1>3 DEF SendClear, Goto
  <2>2. p_flags[peer] # {SENDING}
    BY <1>3, FlagFacts DEF IInv, CallCoherent, SendClear, WaitsFor, WokenByInt
  <2> QED
    BY <1>0, <2>1, <2>2
<1>4. CASE SendFinish
  <2>1. /\ p_recvfrom'[q] = IF q = peer THEN NO_TASK ELSE p_recvfrom[q]
        /\ p_flags'[q] = IF q = peer THEN {} ELSE p_flags[q]
        /\ p_msg[peer] = NULL /\ p_flags[peer] # {SENDING}
        /\ UNCHANGED <<p_msg, p_sendto, has_int_msg>>
        /\ pc = "snd_finish" /\ pc' = "snd_done"
    BY <1>0, <1>4, SendFinishFlags, FlagFacts DEF SendFinish, Goto
  <2> QED
    BY <1>0, <2>1, FlagFacts
<1>5. CASE SendBlock
  <2>1. /\ p_msg'[q] = IF q = caller THEN caller ELSE p_msg[q]
        /\ p_sendto'[q] = IF q = caller THEN peer ELSE p_sendto[q]
        /\ p_flags'[q] = IF q = caller THEN {SENDING} ELSE p_flags[q]
        /\ p_flags[caller] = {} /\ peer \in Proc \ {caller}
        /\ UNCHANGED <<p_recvfrom, has_int_msg>>
        /\ pc = "snd_block" /\ pc' = "snd_sched"
    BY <1>0, <1>5, SendBlockFlags DEF SendBlock, Goto
  <2> QED
    BY <1>0, <2>1, FlagFacts
<1>6. CASE RecvIntClear
  <2>1. /\ caller = HD /\ has_int_msg' = [has_int_msg EXCEPT ![caller] = 0]
        /\ pc = "rcv_int" /\ pc' = "rcv_int_done"
    BY <1>6 DEF IInv, CallCoherent, RecvIntClear, Goto
  <2> QED
    BY <1>0, <1>6, <2>1, ConstantAssumption DEF RecvIntClear
<1>7. CASE RecvMark
  <2>1. /\ p_msg'[q] = IF q = caller THEN caller ELSE p_msg[q]
        /\ p_flags'[q] = IF q = caller THEN {RECEIVING} ELSE p_flags[q]
        /\ p_flags[caller] = {}
        /\ UNCHANGED <<p_recvfrom, p_sendto, has_int_msg>>
        /\ pc = "rcv_mark" /\ pc' = "rcv_from" /\ caller' = caller
    BY <1>0, <1>7, RecvMarkFlags DEF RecvMark, Goto
  <2> QED
    BY <1>0, <2>1, FlagFacts
<1>8. CASE RecvFrom
  <2>1. /\ p_recvfrom'[q] = IF q = caller THEN peer ELSE p_recvfrom[q]
        /\ UNCHANGED <<p_flags, p_msg, p_sendto, has_int_msg>>
        /\ pc = "rcv_from" /\ pc' = "rcv_block" /\ caller' = caller
    BY <1>0, <1>8 DEF RecvFrom, Goto
  <2>2. peer # NO_TASK /\ p_flags[caller] = {RECEIVING}
    BY <2>1 DEF IInv, CallCoherent, PcRecv
  <2> QED
    BY <1>0, <2>1, <2>2, FlagFacts
<1>9. ASSUME NEW p \in Proc, NEW src \in Proc \cup {ANY, INTERRUPT}, RecvTake(p, src)
      PROVE  FieldsOf(q)'
  <2>0. PICK s \in Proc \ {p} : Taken(p, src, s)
    BY <1>9, RecvTakeEffect
  <2>1. /\ p_msg'[q] = IF q = s THEN NULL ELSE p_msg[q]
        /\ p_sendto'[q] = IF q = s THEN NO_TASK ELSE p_sendto[q]
        /\ p_flags'[q] = IF q = s THEN {} ELSE p_flags[q]
        /\ p_flags[s] = {SENDING}
    BY <1>0, <2>0 DEF Taken
  <2>2. UNCHANGED <<p_recvfrom, has_int_msg, pc, caller, peer>>
    BY <1>9 DEF RecvTake, call
  <2> QED
    BY <1>0, <2>1, <2>2, FlagFacts
<1>10. CASE InformWaiting
  <2>1. /\ p_msg'[q] = IF q = HD THEN NULL ELSE p_msg[q]
        /\ p_recvfrom'[q] = IF q = HD THEN NO_TASK ELSE p_recvfrom[q]
        /\ p_flags'[q] = IF q = HD THEN {} ELSE p_flags[q]
        /\ p_flags[HD] = {RECEIVING}
        /\ has_int_msg'[q] = IF q = HD THEN 0 ELSE has_int_msg[q]
        /\ UNCHANGED <<p_sendto, pc, caller, peer>>
    BY <1>0, <1>10, InformWaitingFlags DEF InformWaiting, call
  <2> QED
    BY <1>0, <2>1, FlagFacts
<1>11. CASE InformPending
  <2>1. /\ has_int_msg' = [has_int_msg EXCEPT ![HD] = 1]
        /\ UNCHANGED <<p_flags, p_msg, p_recvfrom, p_sendto, pc, caller, peer>>
    BY <1>11 DEF InformPending, call
  <2> QED
    BY <1>0, <2>1
<1> QED
  BY <1>1, <1>2, <1>3, <1>4, <1>5, <1>6, <1>7, <1>8, <1>9, <1>10, <1>11, NextCases

----------------------------------------------------------------------------
(* The points of a call *)

\* What the walk of deadlock() and the search of msg_receive find depends on the
\* senders only.
LEMMA SendersSameFacts ==
  ASSUME SendersSame
  PROVE  /\ \A p, d \in Proc : SendsTo(p, d)' <=> SendsTo(p, d)
         /\ \A p, d \in Proc : Deadlock(p, d)' <=> Deadlock(p, d)
         /\ \A p \in Proc, src \in Proc \cup {ANY, INTERRUPT} :
              Candidates(p, src)' = Candidates(p, src)
<1> USE DEF SendersSame
<1>1. \A p, d \in Proc : SendsTo(p, d)' <=> SendsTo(p, d)
  BY DEF SendsTo
<1>2. \A C \in SUBSET Proc : Closed(C)' <=> Closed(C)
  BY DEF Closed
<1>3. \A p, d \in Proc : Deadlock(p, d)' <=> Deadlock(p, d)
  BY <1>2 DEF Deadlock
<1>4. \A p \in Proc, src \in Proc \cup {ANY, INTERRUPT} :
        Candidates(p, src)' = Candidates(p, src)
  BY <1>1 DEF Candidates
<1> QED
  BY <1>1, <1>3, <1>4

\* Every step leads to a point of the call whose assumptions on caller and peer
\* hold, whether or not inform_int came in between.
LEMMA CallStep ==
  ASSUME IInv, [Next]_vars
  PROVE  CallCoherent'
<1> USE DEF PcSend, PcRecv
<1>0. /\ TypeOK /\ CallCoherent /\ FieldsCoherent
      /\ \A q \in Proc : p_flags[q] \in {{}, {SENDING}, {RECEIVING}}
      /\ caller \in Proc \cup {NO_TASK}
      /\ peer \in Proc \cup {ANY, INTERRUPT, NO_TASK}
  BY DEF IInv, TypeOK
<1>1. CASE UNCHANGED vars
  BY <1>0, <1>1 DEF vars, CallCoherent, WaitsFor, WokenByInt, Running, Deadlock, Closed,
                    SendsTo, Candidates
<1>2. ASSUME NEW p \in Proc, NEW d \in Proc, NEW t \in Type, Send(p, d, t)
      PROVE  CallCoherent'
  <2>1. /\ caller' = p /\ peer' = d /\ d # p
        /\ pc' = IF WaitsFor(d, p) THEN "snd_check" ELSE "snd_block"
        /\ p_flags[p] = {} /\ p # NO_TASK
        /\ p_flags' = p_flags /\ p_recvfrom' = p_recvfrom /\ p_sendto' = p_sendto
        /\ halted' = 0 => ~Deadlock(p, d)
    BY <1>2, ConstantAssumption DEF Send, Enter, Runnable, Running, Asserted, table
  <2>2. WaitsFor(d, p)' <=> WaitsFor(d, p)
    BY <2>1 DEF WaitsFor
  <2>3. Deadlock(p, d)' <=> Deadlock(p, d)
    BY <2>1 DEF Deadlock, Closed
  <2> QED
    BY <2>1, <2>2, <2>3 DEF CallCoherent, Running
<1>3. CASE SendCheck \/ SendCopy
  <2>1. /\ pc \in {"snd_check", "snd_copy"} /\ pc' \in {"snd_check", "snd_copy", "snd_clear"}
        /\ UNCHANGED <<p_flags, p_recvfrom, caller, peer>>
    BY <1>3 DEF SendCheck, SendCopy, table, call, Goto, Halt
  <2> QED
    BY <1>0, <2>1 DEF CallCoherent, WaitsFor, WokenByInt
<1>4. CASE SendClear
  <2>1. /\ pc = "snd_clear" /\ pc' = "snd_finish"
        /\ UNCHANGED <<p_flags, p_recvfrom, caller, peer>>
    BY <1>4 DEF SendClear, Goto
  <2> QED
    BY <1>0, <2>1 DEF CallCoherent, WaitsFor, WokenByInt
<1>5. CASE SendFinish
  <2>1. /\ pc = "snd_finish" /\ pc' = "snd_done" /\ UNCHANGED <<caller, peer>>
        /\ p_flags'[peer] = {} /\ p_flags'[caller] = {}
    BY <1>0, <1>5, SendFinishFlags DEF SendFinish, Goto, TypeOK
  <2> QED
    BY <1>0, <2>1 DEF CallCoherent
<1>6. CASE SendDone \/ SendSched \/ (RecvIntDone /\ pc' = "idle") \/ (RecvDone /\ pc' = "idle")
  <2>1. pc' = "idle" /\ caller' = NO_TASK /\ peer' = NO_TASK
    BY <1>6 DEF SendDone, SendSched, RecvIntDone, RecvDone, Return, Enter, Halt, call
  <2> QED
    BY <2>1 DEF CallCoherent
<1>7. CASE SendBlock
  <2>1. /\ pc = "snd_block" /\ pc' = "snd_sched" /\ UNCHANGED <<caller, peer>>
        /\ caller \in Proc /\ peer \in Proc \ {caller}
        /\ p_flags'[caller] = {SENDING} /\ p_sendto'[caller] = peer
    BY <1>0, <1>7, SendBlockFlags DEF SendBlock, Goto, TypeOK
  <2> QED
    BY <1>0, <2>1 DEF CallCoherent, SendsTo
<1>8. ASSUME NEW p \in Proc, NEW src \in Proc \cup {ANY, INTERRUPT}, RecvInt(p, src)
      PROVE  CallCoherent'
  <2>1. /\ pc' = "rcv_int" /\ caller' = p /\ peer' = src /\ src # p /\ p # NO_TASK
        /\ src # NO_TASK /\ p_flags[p] = {} /\ p_flags' = p_flags
        /\ has_int_msg[p] = 1
    BY <1>8, ConstantAssumption DEF RecvInt, Receiving, Runnable, Enter, table
  <2>2. p = HD
    BY <1>0, <2>1 DEF FieldsCoherent, FieldsOf
  <2> QED
    BY <2>1, <2>2 DEF CallCoherent
<1>9. CASE RecvIntClear
  <2>1. /\ pc = "rcv_int" /\ pc' = "rcv_int_done" /\ UNCHANGED <<p_flags, caller, peer>>
    BY <1>9 DEF RecvIntClear, Goto
  <2> QED
    BY <1>0, <2>1 DEF CallCoherent
<1>10. CASE UNCHANGED <<table, call>> /\ pc # "snd_block"
  BY <1>0, <1>10 DEF table, call, CallCoherent, WaitsFor, WokenByInt, SendsTo, Candidates
<1>11. ASSUME NEW p \in Proc, NEW src \in Proc \cup {ANY, INTERRUPT}, RecvWait(p, src)
       PROVE  CallCoherent'
  <2>1. /\ pc' = "rcv_mark" /\ caller' = p /\ peer' = src /\ src # p /\ p # NO_TASK
        /\ src # NO_TASK /\ p_flags[p] = {}
        /\ p_flags' = p_flags /\ p_sendto' = p_sendto /\ q_sending' = q_sending
        /\ Candidates(p, src) = {}
    BY <1>11, ConstantAssumption DEF RecvWait, Receiving, Runnable, Enter, table
  <2>2. Candidates(p, src)' = {}
    BY <2>1 DEF Candidates, SendsTo
  <2> QED
    BY <2>1, <2>2 DEF CallCoherent
<1>12. CASE RecvMark
  <2>1. /\ pc = "rcv_mark" /\ pc' = "rcv_from" /\ UNCHANGED <<caller, peer>>
        /\ caller \in Proc /\ peer \in Proc \cup {ANY, INTERRUPT}
        /\ p_flags'[caller] = {RECEIVING}
    BY <1>0, <1>12, RecvMarkFlags DEF RecvMark, Goto, TypeOK
  <2>2. SendersSame
    <3>1. p_sendto' = p_sendto /\ q_sending' = q_sending
      BY <1>12 DEF RecvMark
    <3>2. ASSUME NEW q \in Proc PROVE SENDING \in p_flags'[q] <=> SENDING \in p_flags[q]
      BY <1>0, <1>12, RecvMarkFlags, FlagFacts DEF TypeOK
    <3> QED
      BY <3>1, <3>2 DEF SendersSame
  <2>3. Candidates(caller, peer)' = {}
    <3>1. Candidates(caller, peer) = {}
      BY <1>0, <2>1 DEF CallCoherent
    <3> QED
      BY <2>1, <2>2, <3>1, SendersSameFacts
  <2> QED
    BY <1>0, <2>1, <2>3 DEF CallCoherent
<1>13. CASE RecvFrom
  <2>1. /\ pc = "rcv_from" /\ pc' = "rcv_block" /\ UNCHANGED <<p_flags, caller, peer>>
        /\ caller \in Proc
        /\ p_recvfrom'[caller] = peer
    BY <1>0, <1>13 DEF RecvFrom, Goto, TypeOK, CallCoherent
  <2> QED
    BY <1>0, <2>1 DEF CallCoherent, WokenByInt
<1>14. CASE (RecvBlock /\ pc' # pc) \/ RecvSched
  <2>1. /\ pc \in {"rcv_block", "rcv_sched"} /\ pc' \in {"rcv_sched", "rcv_done"}
        /\ UNCHANGED <<p_flags, p_recvfrom, caller, peer>>
    BY <1>14 DEF RecvBlock, RecvSched, Goto, Halt, call, table
  <2> QED
    BY <1>0, <2>1 DEF CallCoherent, WokenByInt
<1>15. ASSUME NEW p \in Proc, NEW src \in Proc \cup {ANY, INTERRUPT}, RecvTake(p, src)
       PROVE  CallCoherent'
  <2>1. pc = "idle" /\ pc' = "idle" /\ UNCHANGED <<caller, peer>>
    BY <1>15 DEF RecvTake, Receiving, call
  <2> QED
    BY <1>0, <2>1 DEF CallCoherent
<1>16. CASE InformWaiting \/ InformPending
  <2>1. UNCHANGED <<pc, caller, peer, halted>>
    BY <1>16, InformWaitingFlags DEF InformWaiting, InformPending, call
  <2>2. SendersSame
    <3>1. p_sendto' = p_sendto /\ q_sending' = q_sending
      BY <1>16 DEF InformWaiting, InformPending
    <3>2. ASSUME NEW q \in Proc PROVE SENDING \in p_flags'[q] <=> SENDING \in p_flags[q]
      BY <1>0, <1>16, InformWaitingFlags, FlagFacts DEF InformPending, TypeOK
    <3> QED
      BY <3>1, <3>2 DEF SendersSame
  <2>3. ASSUME NEW q \in Proc
        PROVE  \/ p_flags'[q] = p_flags[q] /\ p_recvfrom'[q] = p_recvfrom[q]
               \/ /\ q = HD /\ p_flags[q] = {RECEIVING} /\ p_flags'[q] = {}
                  /\ p_recvfrom[q] # NO_TASK
    <3>1. CASE InformWaiting
      BY <1>0, <3>1, InformWaitingFlags, ConstantAssumption DEF InformWaiting, TypeOK
    <3>2. CASE InformPending
      BY <3>2 DEF InformPending
    <3> QED
      BY <1>16, <3>1, <3>2
  <2>4. pc \in PcSend => peer \in Proc /\ caller \in Proc
    BY <1>0 DEF CallCoherent
  <2>5. pc \in PcRecv => caller \in Proc /\ peer \in Proc \cup {ANY, INTERRUPT}
    BY <1>0 DEF CallCoherent
  <2>6. \A q \in Proc : p_flags[q] = {} => p_flags'[q] = {}
    BY <2>3, FlagFacts
  <2>7. ASSUME pc \in {"snd_check", "snd_copy", "snd_clear", "snd_finish"}
        PROVE  (WaitsFor(peer, caller) \/ WokenByInt(peer))'
    BY <1>0, <2>1, <2>3, <2>4, <2>6, <2>7 DEF CallCoherent, WaitsFor, WokenByInt
  <2>8. ASSUME pc = "snd_block"
        PROVE  ~WaitsFor(peer, caller)' /\ (Running' => ~Deadlock(caller, peer)')
    <3>1. ~WaitsFor(peer, caller)'
      BY <1>0, <2>1, <2>3, <2>4, <2>8 DEF CallCoherent, WaitsFor
    <3>2. Running' => ~Deadlock(caller, peer)'
      BY <1>0, <2>1, <2>2, <2>4, <2>8, SendersSameFacts DEF CallCoherent, Running
    <3> QED
      BY <3>1, <3>2
  <2>9. ASSUME pc = "snd_sched" PROVE SendsTo(caller, peer)'
    BY <1>0, <2>1, <2>2, <2>4, <2>9, SendersSameFacts DEF CallCoherent
  <2>10. ASSUME pc \in {"rcv_mark", "rcv_from"} PROVE Candidates(caller, peer)' = {}
    BY <1>0, <2>1, <2>2, <2>5, <2>10, SendersSameFacts DEF CallCoherent
  <2>11. ASSUME pc = "rcv_from" PROVE p_flags'[caller] = {RECEIVING}
    <3>1. p_recvfrom[caller] = NO_TASK
      BY <1>0, <2>5, <2>11 DEF CallCoherent, FieldsCoherent, FieldsOf
    <3> QED
      BY <1>0, <2>3, <2>5, <2>11, <3>1 DEF CallCoherent
  <2>12. ASSUME pc \in {"rcv_block", "rcv_sched", "rcv_done"}
         PROVE  \/ p_flags'[caller] = {RECEIVING} /\ p_recvfrom'[caller] = peer
                \/ WokenByInt(caller)'
    BY <1>0, <2>1, <2>3, <2>5, <2>6, <2>12 DEF CallCoherent, WokenByInt
  <2>13. /\ (pc = "idle" <=> caller = NO_TASK) /\ (pc = "idle" => peer = NO_TASK)
         /\ (pc \in PcSend => peer \in Proc \ {caller})
         /\ (pc \in PcRecv => peer \notin {caller, NO_TASK})
         /\ (pc \in {"rcv_int", "rcv_int_done"} => caller = HD)
    BY <1>0 DEF CallCoherent
  <2>14. /\ pc \in PcSend \ {"snd_sched"} \/ pc \in {"rcv_int", "rcv_int_done", "rcv_mark"}
              => p_flags'[caller] = {}
         /\ pc = "snd_done" => p_flags'[peer] = {}
    BY <1>0, <2>4, <2>5, <2>6 DEF CallCoherent
  <2> QED
    BY <2>1, <2>7, <2>8, <2>9, <2>10, <2>11, <2>12, <2>13, <2>14 DEF CallCoherent
<1>17. CASE RecvIntDone \/ RecvBlock \/ RecvDone
  <2>1. \/ (RecvIntDone \/ RecvDone) /\ pc' = "idle"
        \/ UNCHANGED <<table, call>> /\ pc # "snd_block"
        \/ RecvBlock /\ pc' # pc
    BY <1>17 DEF RecvIntDone, RecvBlock, RecvDone, Halt, Return, Enter, Goto
  <2> QED
    BY <2>1, <1>6, <1>10, <1>14
<1> QED
  BY <1>1, <1>2, <1>3, <1>4, <1>5, <1>6, <1>7, <1>8, <1>9, <1>11, <1>12, <1>13, <1>14,
     <1>15, <1>16, <1>17, NextCases DEF TableStep

----------------------------------------------------------------------------
(* Sleeping and waking *)

\* HD is asleep although an interrupt is recorded.
Overslept ==
  /\ RECEIVING \in p_flags[HD] /\ p_recvfrom[HD] \in {ANY, INTERRUPT}
  /\ has_int_msg[HD] = 1

\* No step leaves HD waiting for a recorded interrupt, except on its way to sleep.
LEMMA WakeupStep ==
  ASSUME IInv, [Next]_vars
  PROVE  WakeupCoherent'
<1> DEFINE Late == {"rcv_block", "rcv_sched", "rcv_done"}
<1> SUFFICES ASSUME Overslept'
             PROVE  pc' \in Late /\ caller' = HD
  BY DEF WakeupCoherent, Overslept
<1>0. /\ Overslept => pc \in Late /\ caller = HD
      /\ p_flags[HD] \in {{}, {SENDING}, {RECEIVING}} /\ HD \in Proc
      /\ p_flags \in [Proc -> {{}, {SENDING}, {RECEIVING}}]
      /\ p_recvfrom \in [Proc -> Proc \cup {ANY, INTERRUPT, NO_TASK}]
      /\ has_int_msg \in [Proc -> {0, 1}]
      /\ FieldsOf(HD)
  BY ConstantAssumption DEF IInv, TypeOK, WakeupCoherent, Overslept, FieldsCoherent
<1> USE DEF Overslept
<1>1. CASE UNCHANGED vars
  BY <1>0, <1>1 DEF vars
<1>2. CASE TableStep
  <2>1. Overslept /\ pc \in Late /\ caller = HD
    BY <1>0, <1>2, TableUnchanged
  <2>2. RecvBlock \/ RecvSched \/ RecvDone
    BY <1>2, <2>1 DEF TableStep, Send, SendCheck, SendCopy, SendDone, SendSched,
                      RecvInt, RecvWait, RecvIntDone, Receiving
  <2>3. ~StillWaiting(HD)
    BY <2>1 DEF StillWaiting
  <2> QED
    BY <2>1, <2>2, <2>3 DEF RecvBlock, RecvSched, RecvDone, Halt, Goto, call
<1>3. CASE SendClear
  BY <1>0, <1>3 DEF SendClear
<1>4. CASE SendFinish
  <2>1. Overslept
    BY <1>0, <1>4, SendFinishFlags, FlagFacts DEF SendFinish
  <2> QED
    BY <1>0, <1>4, <2>1 DEF SendFinish
<1>5. CASE SendBlock
  <2>1. Overslept
    BY <1>0, <1>5, SendBlockFlags, FlagFacts DEF SendBlock
  <2> QED
    BY <1>0, <1>5, <2>1 DEF SendBlock
<1>6. CASE RecvIntClear
  <2>1. Overslept
    BY <1>0, <1>6 DEF RecvIntClear
  <2> QED
    BY <1>0, <1>6, <2>1 DEF RecvIntClear
<1>7. CASE RecvMark
  <2>1. caller # HD
    <3>1. p_recvfrom' = p_recvfrom
      BY <1>7 DEF RecvMark
    <3>2. p_flags[HD] = {} => p_recvfrom[HD] = NO_TASK
      BY <1>0 DEF FieldsOf
    <3> QED
      BY <1>7, <3>1, <3>2, RecvMarkFlags, ConstantAssumption
  <2>2. Overslept
    BY <1>0, <1>7, <2>1, RecvMarkFlags DEF RecvMark
  <2> QED
    BY <1>0, <1>7, <2>2 DEF RecvMark
<1>8. CASE RecvFrom
  <2>1. CASE caller = HD
    BY <1>8, <2>1 DEF RecvFrom, Goto
  <2>2. CASE caller # HD
    <3>1. Overslept
      BY <1>0, <1>8, <2>2 DEF RecvFrom
    <3> QED
      BY <1>0, <1>8, <3>1 DEF RecvFrom
  <2> QED
    BY <2>1, <2>2
<1>9. ASSUME NEW p \in Proc, NEW src \in Proc \cup {ANY, INTERRUPT}, RecvTake(p, src)
      PROVE  FALSE
  <2>1. PICK s \in Proc \ {p} : Taken(p, src, s)
    BY <1>9, RecvTakeEffect
  <2>2. Overslept
    BY <1>0, <1>9, <2>1, FlagFacts DEF RecvTake, Taken
  <2> QED
    BY <1>0, <1>9, <2>2 DEF RecvTake, Receiving
<1>10. CASE InformWaiting
  BY <1>0, <1>10, InformWaitingFlags, FlagFacts
<1>11. CASE InformPending
  BY <1>0, <1>11 DEF InformPending
<1> QED
  BY <1>1, <1>2, <1>3, <1>4, <1>5, <1>6, <1>7, <1>8, <1>9, <1>10, <1>11, NextCases

\* No step makes a process wait for a message that is queued for it: msg_send has
\* looked at p_recvfrom before it blocks and msg_receive at the queue.
LEMMA RendezvousStep ==
  ASSUME IInv, [Next]_vars
  PROVE  NoMissedRendezvous'
<1> SUFFICES ASSUME NEW s \in Proc, NEW d \in Proc, SendsTo(s, d)', WaitsFor(d, s)'
             PROVE  FALSE
  BY DEF NoMissedRendezvous
<1>0. /\ ~(SendsTo(s, d) /\ WaitsFor(d, s))
      /\ p_flags \in [Proc -> {{}, {SENDING}, {RECEIVING}}]
      /\ p_recvfrom \in [Proc -> Proc \cup {ANY, INTERRUPT, NO_TASK}]
      /\ p_sendto \in [Proc -> Proc \cup {NO_TASK}]
      /\ FieldsOf(d)
  BY DEF IInv, TypeOK, NoMissedRendezvous, FieldsCoherent
<1>1. CASE UNCHANGED vars
  BY <1>0, <1>1 DEF vars, SendsTo, WaitsFor
<1>2. CASE TableStep
  BY <1>0, <1>2, TableUnchanged DEF SendsTo, WaitsFor
<1>3. CASE SendClear \/ RecvIntClear \/ InformPending
  BY <1>0, <1>3 DEF SendClear, RecvIntClear, InformPending, SendsTo, WaitsFor
<1>4. CASE SendFinish
  <2>1. p_sendto' = p_sendto
    BY <1>4 DEF SendFinish
  <2>2. p_flags'[s] = p_flags[s] /\ p_flags'[d] = p_flags[d] /\ d # peer
    BY <1>0, <1>4, SendFinishFlags, FlagFacts DEF SendsTo, WaitsFor
  <2>3. p_recvfrom'[d] = p_recvfrom[d]
    BY <1>0, <1>4, <2>2 DEF SendFinish
  <2> QED
    BY <1>0, <2>1, <2>2, <2>3 DEF SendsTo, WaitsFor
<1>5. CASE SendBlock
  <2>1. /\ p_recvfrom' = p_recvfrom
        /\ p_sendto' = [p_sendto EXCEPT ![caller] = peer]
        /\ pc = "snd_block"
    BY <1>5 DEF SendBlock
  <2>2. d # caller /\ p_flags'[d] = p_flags[d]
    BY <1>0, <1>5, SendBlockFlags, FlagFacts DEF WaitsFor
  <2>3. WaitsFor(d, s)
    BY <2>1, <2>2 DEF WaitsFor
  <2>4. CASE s = caller
    <3>1. d = peer
      BY <1>0, <2>1, <2>4 DEF SendsTo
    <3> QED
      BY <2>1, <2>3, <2>4, <3>1 DEF IInv, CallCoherent
  <2>5. CASE s # caller
    BY <1>0, <1>5, <2>1, <2>3, <2>5, SendBlockFlags DEF SendsTo
  <2> QED
    BY <2>4, <2>5
<1>6. CASE RecvMark
  <2>1. p_recvfrom' = p_recvfrom /\ p_sendto' = p_sendto
    BY <1>6 DEF RecvMark
  <2>2. d # caller
    BY <1>0, <1>6, <2>1, RecvMarkFlags, ConstantAssumption DEF WaitsFor, FieldsOf
  <2>3. s # caller
    BY <1>0, <1>6, RecvMarkFlags, FlagFacts DEF SendsTo
  <2> QED
    BY <1>0, <1>6, <2>1, <2>2, <2>3, RecvMarkFlags DEF SendsTo, WaitsFor
<1>7. CASE RecvFrom
  <2>1. /\ p_flags' = p_flags /\ p_sendto' = p_sendto
        /\ p_recvfrom' = [p_recvfrom EXCEPT ![caller] = peer]
        /\ pc = "rcv_from"
    BY <1>7 DEF RecvFrom
  <2>2. SendsTo(s, d)
    BY <2>1 DEF SendsTo
  <2>3. d = caller
    BY <1>0, <2>1, <2>2 DEF WaitsFor
  <2>4. peer \in {s, ANY} /\ Candidates(d, peer) = {}
    BY <1>0, <2>1, <2>3 DEF WaitsFor, IInv, CallCoherent
  <2>5. s \in ToSet(q_sending[d])
    BY <2>2 DEF IInv, QueueExact
  <2>6. q_sending[d] # <<>>
    BY <2>5 DEF ToSet
  <2> QED
    BY <2>2, <2>4, <2>6, ConstantAssumption DEF Candidates
<1>8. ASSUME NEW p \in Proc, NEW src \in Proc \cup {ANY, INTERRUPT}, RecvTake(p, src)
      PROVE  FALSE
  <2>1. PICK r \in Proc \ {p} : Taken(p, src, r)
    BY <1>8, RecvTakeEffect
  <2>2. s # r /\ d # r
    BY <1>0, <2>1, FlagFacts DEF Taken, SendsTo, WaitsFor
  <2>3. p_recvfrom' = p_recvfrom
    BY <1>8 DEF RecvTake
  <2> QED
    BY <1>0, <2>1, <2>2, <2>3 DEF Taken, SendsTo, WaitsFor
<1>9. CASE InformWaiting
  <2>1. p_sendto' = p_sendto /\ p_recvfrom' = [p_recvfrom EXCEPT ![HD] = NO_TASK]
    BY <1>9 DEF InformWaiting
  <2>2. s # HD /\ d # HD
    BY <1>0, <1>9, InformWaitingFlags, FlagFacts DEF SendsTo, WaitsFor
  <2> QED
    BY <1>0, <1>9, <2>1, <2>2, InformWaitingFlags DEF SendsTo, WaitsFor
<1> QED
  BY <1>1, <1>2, <1>3, <1>4, <1>5, <1>6, <1>7, <1>8, <1>9, NextCases

----------------------------------------------------------------------------
(* Messages and assertions *)

\* Every step keeps the name of the sender in the message on its way.
LEMMA MessageStep ==
  ASSUME IInv, [Next]_vars
  PROVE  MessageCoherent'
<1> USE DEF MessageCoherent
<1>0. /\ MessageCoherent
      /\ p_flags \in [Proc -> {{}, {SENDING}, {RECEIVING}}]
      /\ buf \in [Proc -> Message]
      /\ pc \in PcSend => caller \in Proc /\ peer \in Proc \ {caller}
      /\ pc \in PcSend \ {"snd_sched"} => p_flags[caller] = {}
  BY DEF IInv, TypeOK, CallCoherent, PcSend
<1>1. CASE UNCHANGED vars
  BY <1>0, <1>1 DEF vars
<1>2. ASSUME NEW p \in Proc, NEW d \in Proc, NEW t \in Type, Send(p, d, t)
      PROVE  MessageCoherent'
  <2>1. /\ buf' = [buf EXCEPT ![p] = [source |-> p, type |-> t]]
        /\ p_flags' = p_flags
        /\ pc' \in {"snd_check", "snd_block"} /\ caller' = p
    BY <1>2 DEF Send, Enter, table
  <2>2. buf'[p].source = p /\ \A q \in Proc \ {p} : buf'[q] = buf[q]
    BY <1>0, <2>1
  <2> QED
    BY <1>0, <2>1, <2>2
<1>3. CASE SendCheck
  BY <1>0, <1>3 DEF SendCheck, table, call, Goto, Halt
<1>4. CASE SendCopy
  <2>1. pc = "snd_copy" /\ pc' = "snd_clear" /\ UNCHANGED <<p_flags, caller, peer>>
    BY <1>4 DEF SendCopy, table, Goto
  <2>0. PICK to \in {peer, p_msg[peer]} :
          buf' = IF to = NULL THEN buf ELSE [buf EXCEPT ![to] = buf[caller]]
    BY <1>4 DEF SendCopy
  <2>2. /\ caller \in Proc /\ peer \in Proc /\ buf[caller].source = caller
        /\ p_flags[peer] # {SENDING}
        /\ peer # HD => p_flags[peer] = {RECEIVING}
    BY <1>0, <2>1, FlagFacts DEF IInv, CallCoherent, PcSend, WaitsFor, WokenByInt
  <2>3. p_msg[peer] \in {NULL, peer} /\ (peer # HD => p_msg[peer] = peer)
    <3>1. FieldsOf(peer) /\ p_flags[peer] \in {{}, {RECEIVING}}
      BY <1>0, <2>2 DEF IInv, FieldsCoherent
    <3> QED
      BY <2>1, <2>2, <3>1, FlagFacts DEF FieldsOf
  <2>4. peer # HD => buf'[peer].source = caller
    BY <1>0, <2>0, <2>2, <2>3, ConstantAssumption
  <2>5. \A q \in Proc \ {peer} : buf'[q] = buf[q]
    BY <1>0, <2>0, <2>2, <2>3
  <2> QED
    BY <1>0, <2>1, <2>2, <2>4, <2>5
<1>5. CASE SendClear
  BY <1>0, <1>5 DEF SendClear, Goto
<1>6. CASE SendFinish
  <2>1. pc' = "snd_done" /\ buf' = buf
    BY <1>6 DEF SendFinish, Goto
  <2> QED
    BY <1>0, <1>6, <2>1, SendFinishFlags, FlagFacts
<1>7. CASE SendDone \/ SendSched
  BY <1>0, <1>7 DEF SendDone, SendSched, Return, Enter, table
<1>8. CASE SendBlock
  <2>1. pc = "snd_block" /\ pc' = "snd_sched" /\ buf' = buf
    BY <1>8 DEF SendBlock, Goto
  <2> QED
    BY <1>0, <1>8, <2>1, SendBlockFlags
<1>9. ASSUME NEW p \in Proc, NEW src \in Proc \cup {ANY, INTERRUPT},
             RecvInt(p, src) \/ RecvWait(p, src)
      PROVE  MessageCoherent'
  <2>1. /\ p_flags[p] = {} /\ p_flags' = p_flags
        /\ pc' \in {"rcv_int", "rcv_mark"}
        /\ \A q \in Proc \ {p} : buf'[q] = buf[q]
    BY <1>0, <1>9 DEF RecvInt, RecvWait, Receiving, Runnable, Enter, table
  <2> QED
    BY <1>0, <2>1, FlagFacts
<1>10. CASE RecvIntClear \/ RecvFrom
  BY <1>0, <1>10 DEF RecvIntClear, RecvFrom, Goto
<1>11. CASE RecvIntDone \/ RecvBlock \/ RecvSched \/ RecvDone
  <2>1. /\ buf' = buf /\ p_flags' = p_flags
        /\ pc' \notin {"snd_check", "snd_copy", "snd_block", "snd_clear", "snd_finish"}
    BY <1>11 DEF RecvIntDone, RecvBlock, RecvSched, RecvDone, Return, Enter, Goto,
                 Halt, table, call
  <2> QED
    BY <1>0, <2>1
<1>12. CASE RecvMark
  <2>1. pc' = "rcv_from" /\ buf' = buf
    BY <1>12 DEF RecvMark, Goto
  <2> QED
    BY <1>0, <1>12, <2>1, RecvMarkFlags, FlagFacts
<1>13. ASSUME NEW p \in Proc, NEW src \in Proc \cup {ANY, INTERRUPT}, RecvTake(p, src)
       PROVE  MessageCoherent'
  <2>1. PICK s \in Proc \ {p} : Taken(p, src, s)
    BY <1>13, RecvTakeEffect
  <2>2. pc' = "idle" /\ p_flags[p] = {}
    BY <1>13 DEF RecvTake, Receiving, Runnable, call
  <2> QED
    BY <1>0, <2>1, <2>2, FlagFacts DEF Taken
<1>14. CASE InformWaiting
  <2>1. UNCHANGED <<pc, caller, peer>>
    BY <1>14 DEF InformWaiting, call
  <2>2. p_msg[HD] \in {NULL, HD}
    <3>1. FieldsOf(HD)
      BY ConstantAssumption DEF IInv, FieldsCoherent
    <3> QED
      BY <1>14, <3>1, InformWaitingFlags DEF FieldsOf
  <2>3. \A q \in Proc \ {HD} : buf'[q] = buf[q]
    BY <1>0, <1>14, <2>2 DEF InformWaiting
  <2>4. \A q \in Proc : p_flags'[q] = IF q = HD THEN {} ELSE p_flags[q]
    BY <1>0, <1>14, InformWaitingFlags
  <2>5. pc \in PcSend \ {"snd_sched"} => caller # HD
    BY <1>0, <1>14, InformWaitingFlags, FlagFacts
  <2> QED
    BY <1>0, <2>1, <2>3, <2>4, <2>5, FlagFacts DEF PcSend
<1>15. CASE InformPending
  BY <1>0, <1>15 DEF InformPending, call
<1> QED
  BY <1>1, <1>2, <1>3, <1>4, <1>5, <1>6, <1>7, <1>8, <1>9, <1>10, <1>11, <1>12, <1>13,
     <1>14, <1>15, NextCases DEF TableStep

\* No assertion of a step fails but the five of AssertsOnlyForHD.
LEMMA AssertsStep ==
  ASSUME IInv, [Next]_vars
  PROVE  AssertsOnlyForHD'
<1> DEFINE Stop(line) == halted' = line /\ UNCHANGED call /\ HD \in {caller, peer}
<1>0. /\ AssertsOnlyForHD
      /\ \A q \in Proc : FieldsOf(q)
      /\ \A q \in Proc : p_flags[q] \in {{}, {SENDING}, {RECEIVING}}
      /\ CallCoherent
      /\ pc \in PcSend => caller \in Proc /\ peer \in Proc \ {caller}
      /\ pc \in PcRecv => caller \in Proc /\ peer # NO_TASK
      /\ has_int_msg \in [Proc -> {0, 1}]
  BY DEF IInv, FieldsCoherent, TypeOK, CallCoherent, PcSend, PcRecv
<1>1. CASE UNCHANGED vars
  BY <1>0, <1>1 DEF vars, AssertsOnlyForHD
<1>2. CASE halted' \in {0, 316}
  BY <1>2 DEF AssertsOnlyForHD
<1>3. ASSUME NEW p \in Proc, NEW d \in Proc, NEW t \in Type, Send(p, d, t)
      PROVE  halted' \in {0, 316}
  BY <1>3 DEF Send, Asserted, Running
<1>4. CASE SendCheck
  <2>1. p_msg[peer] = NULL => peer = HD
    <3>1. pc = "snd_check" /\ peer \in Proc
      BY <1>0, <1>4 DEF SendCheck, PcSend
    <3>2. WaitsFor(peer, caller) \/ WokenByInt(peer)
      BY <1>0, <3>1 DEF CallCoherent
    <3>3. p_flags[peer] = {RECEIVING} => p_msg[peer] = peer
      BY <1>0, <3>1 DEF FieldsOf
    <3> QED
      BY <1>0, <3>1, <3>2, <3>3, FlagFacts, ConstantAssumption DEF WaitsFor, WokenByInt
  <2>2. halted' = 0 \/ Stop(322)
    BY <1>4, <2>1 DEF SendCheck, Halt, Running
  <2> QED
    BY <2>2 DEF AssertsOnlyForHD, call
<1>5. CASE SendDone
  <2>1. /\ p_flags[peer] = {} /\ p_flags[caller] = {} /\ caller \in Proc /\ peer \in Proc
    BY <1>0, <1>5 DEF SendDone, CallCoherent, PcSend
  <2>2. Quiet(peer) /\ Quiet(caller)
    BY <1>0, <2>1, FlagFacts DEF Quiet, FieldsOf
  <2> QED
    BY <1>2, <1>5, <2>2 DEF SendDone, Asserted, Running
<1>6. CASE SendSched
  <2>1. SendsTo(caller, peer) /\ caller \in Proc
    BY <1>0, <1>6 DEF SendSched, CallCoherent, PcSend
  <2>2. SendingTo(caller, peer)
    BY <1>0, <2>1, FlagFacts, ConstantAssumption DEF SendingTo, SendsTo, FieldsOf
  <2> QED
    BY <1>2, <1>6, <2>2 DEF SendSched, Asserted, Running
<1>7. CASE RecvIntDone
  <2>1. caller = HD
    BY <1>0, <1>7 DEF RecvIntDone, CallCoherent
  <2>2. halted' = 0 \/ Stop(422)
    BY <1>7, <2>1 DEF RecvIntDone, Halt, Running
  <2> QED
    BY <2>2 DEF AssertsOnlyForHD, call
<1>8. CASE RecvBlock
  <2>1. p_flags[caller] = {} => caller = HD
    BY <1>0, <1>8, FlagFacts DEF RecvBlock, CallCoherent, WokenByInt
  <2>2. halted' = 0 \/ Stop(233)
    BY <1>8, <2>1 DEF RecvBlock, Halt, Running
  <2> QED
    BY <2>2 DEF AssertsOnlyForHD, call
<1>9. CASE RecvDone
  <2>1. /\ caller \in Proc /\ peer # NO_TASK /\ pc = "rcv_done"
        /\ \/ p_flags[caller] = {RECEIVING} /\ p_recvfrom[caller] = peer
           \/ WokenByInt(caller)
    BY <1>0, <1>9 DEF RecvDone, CallCoherent, PcRecv
  <2>2. ~StillWaiting(caller) => caller = HD
    <3>1. CASE p_flags[caller] = {RECEIVING} /\ p_recvfrom[caller] = peer
      <4>1. p_msg[caller] = caller /\ p_sendto[caller] = NO_TASK
        BY <1>0, <2>1, <3>1, FlagFacts DEF FieldsOf
      <4>2. caller # HD => has_int_msg[caller] = 0
        BY <1>0, <2>1 DEF FieldsOf
      <4> QED
        BY <2>1, <3>1, <4>1, <4>2, ConstantAssumption DEF StillWaiting
    <3> QED
      BY <2>1, <3>1 DEF WokenByInt
  <2>3. halted' = 0 \/ Stop(530)
    BY <1>9, <2>2 DEF RecvDone, Halt, Running
  <2> QED
    BY <2>3 DEF AssertsOnlyForHD, call
<1>10. ASSUME NEW p \in Proc, NEW src \in Proc \cup {ANY, INTERRUPT}, RecvTake(p, src)
       PROVE  halted' = 0
  BY <1>10, RecvTakeEffect DEF Taken, RecvTake, Receiving, Running
<1>11. CASE InformWaiting
  BY <1>2, <1>11, InformWaitingFlags DEF InformWaiting, Running
<1>12. CASE \/ SendCopy \/ SendClear \/ SendFinish \/ SendBlock
            \/ RecvIntClear \/ RecvMark \/ RecvFrom \/ RecvSched \/ InformPending
            \/ \E p \in Proc, src \in Proc \cup {ANY, INTERRUPT} :
                 RecvInt(p, src) \/ RecvWait(p, src)
  <2>1. halted' = 0
    BY <1>12 DEF SendCopy, SendClear, SendFinish, SendBlock, RecvIntClear, RecvMark,
                 RecvFrom, RecvSched, InformPending, RecvInt, RecvWait, Receiving, Running
  <2> QED
    BY <1>2, <2>1
<1> QED
  BY <1>1, <1>2, <1>3, <1>4, <1>5, <1>6, <1>7, <1>8, <1>9, <1>10, <1>11, <1>12, NextCases
     DEF TableStep

----------------------------------------------------------------------------
(* The theorems *)

\* The inductive invariant holds in every reachable state of the message passing.
THEOREM Invariance == Spec => []IInv
<1>1. Init => IInv
  BY InitInv
<1>2. IInv /\ [Next]_vars => IInv'
  BY TypeStep, FieldsStep, CallStep, WakeupStep, MessageStep, QueueStep, AcyclicStep,
     RendezvousStep, AssertsStep DEF IInv
<1> QED
  BY <1>1, <1>2, PTL DEF Spec

\* Type correctness, and that no process is ever SENDING and RECEIVING at once.
THEOREM TypeCorrect == Spec => []TypeOK
<1>1. IInv => TypeOK
  BY DEF IInv
<1> QED
  BY <1>1, Invariance, PTL

\* The sending queue of a process holds exactly the processes blocked sending to
\* it, each once, however calls and disk interrupts interleave.
THEOREM QueueCorrect == Spec => []QueueExact
<1>1. IInv => QueueExact
  BY DEF IInv
<1> QED
  BY <1>1, Invariance, PTL

\* deadlock() keeps the graph of blocked senders free of cycles for any number
\* of processes, so its own walk ends.
THEOREM NoSendCycle == Spec => []SendAcyclic
<1>1. IInv => SendAcyclic
  BY DEF IInv
<1> QED
  BY <1>1, Invariance, PTL

\* A sender and the receiver that waits for it are never both left blocked.
THEOREM RendezvousCorrect == Spec => []NoMissedRendezvous
<1>1. IInv => NoMissedRendezvous
  BY DEF IInv
<1> QED
  BY <1>1, Invariance, PTL

\* Outside a call the disk task never sleeps through a recorded interrupt.
THEOREM WakeupCorrect == Spec => []NoLostWakeup
<1>1. IInv => NoLostWakeup
  BY ConstantAssumption DEF IInv, WakeupCoherent, NoLostWakeup, TypeOK
<1> QED
  BY <1>1, Invariance, PTL

\* The assertions that can fail are five, all in calls of or to the disk task.
THEOREM AssertsCorrect == Spec => []AssertsOnlyForHD
<1>1. IInv => AssertsOnlyForHD
  BY DEF IInv
<1> QED
  BY <1>1, Invariance, PTL

\* A blocked process is released only together with its message: a sender when
\* its message is in the destination's buffer, a receiver other than HD when
\* a message of the process it named is in its own.
THEOREM ReleaseCorrect == Spec => ReleasedWithMessage
<1> DEFINE Released ==
      \A p \in Proc :
        /\ p_flags[p] = {SENDING} /\ p_flags'[p] = {} =>
             buf'[p_sendto[p]] = buf[p] /\ buf[p].source = p
        /\ p # HD /\ p_flags[p] = {RECEIVING} /\ p_flags'[p] = {} =>
             /\ buf'[p].source \in Proc
             /\ p_recvfrom[p] \in {buf'[p].source, ANY}
<1>1. ASSUME IInv, [Next]_vars PROVE Released
  <2> SUFFICES ASSUME NEW p \in Proc
               PROVE  /\ p_flags[p] = {SENDING} /\ p_flags'[p] = {} =>
                           buf'[p_sendto[p]] = buf[p] /\ buf[p].source = p
                      /\ p # HD /\ p_flags[p] = {RECEIVING} /\ p_flags'[p] = {} =>
                           /\ buf'[p].source \in Proc
                           /\ p_recvfrom[p] \in {buf'[p].source, ANY}
    OBVIOUS
  <2>0. /\ p_flags \in [Proc -> {{}, {SENDING}, {RECEIVING}}]
        /\ buf \in [Proc -> Message]
        /\ p_flags[p] = {SENDING} => buf[p].source = p
    BY <1>1 DEF IInv, TypeOK, MessageCoherent
  <2>1. CASE p_flags[p] = p_flags'[p]
    BY <2>1, FlagFacts
  <2>2. CASE SendFinish
    <3>1. /\ caller \in Proc /\ peer \in Proc /\ p_flags[peer] \in {{}, {RECEIVING}}
          /\ p_flags' = [p_flags EXCEPT ![peer] = {}]
      BY <1>1, <2>2, SendFinishFlags
    <3>2. CASE p = peer /\ p # HD /\ p_flags[p] = {RECEIVING}
      <4>1. pc = "snd_finish" /\ buf' = buf
        BY <2>2 DEF SendFinish
      <4>2. buf[peer].source = caller
        BY <1>1, <3>2, <4>1 DEF IInv, MessageCoherent
      <4>3. p_recvfrom[peer] \in {caller, ANY}
        BY <1>1, <3>2, <4>1, FlagFacts DEF IInv, CallCoherent, WaitsFor, WokenByInt
      <4> QED
        BY <3>1, <3>2, <4>1, <4>2, <4>3, FlagFacts
    <3>3. CASE p # peer
      BY <2>0, <2>1, <3>1, <3>3
    <3> QED
      BY <3>1, <3>2, <3>3, FlagFacts
  <2>3. ASSUME NEW r \in Proc, NEW src \in Proc \cup {ANY, INTERRUPT}, RecvTake(r, src)
        PROVE  /\ p_flags[p] = {SENDING} /\ p_flags'[p] = {} =>
                    buf'[p_sendto[p]] = buf[p] /\ buf[p].source = p
               /\ p_flags[p] = {RECEIVING} => p_flags'[p] # {}
    <3>1. PICK s \in Proc \ {r} : Taken(r, src, s)
      BY <1>1, <2>3, RecvTakeEffect
    <3> QED
      BY <2>0, <3>1, FlagFacts DEF Taken
  <2>4. CASE SendBlock
    BY <1>1, <2>0, <2>4, SendBlockFlags, FlagFacts
  <2>5. CASE RecvMark
    BY <1>1, <2>0, <2>5, RecvMarkFlags, FlagFacts
  <2>6. CASE InformWaiting
    BY <1>1, <2>0, <2>6, InformWaitingFlags, FlagFacts
  <2>7. CASE TableStep \/ SendClear \/ RecvIntClear \/ RecvFrom \/ InformPending \/ UNCHANGED vars
    <3>1. p_flags' = p_flags
      BY <2>7, TableUnchanged DEF SendClear, RecvIntClear, RecvFrom, InformPending, vars
    <3> QED
      BY <2>1, <3>1
  <2> QED
    BY <1>1, <2>2, <2>3, <2>4, <2>5, <2>6, <2>7, NextCases, FlagFacts
<1>2. IInv /\ [Next]_vars => [Released]_vars
  BY <1>1
<1>3. Spec => [][Released]_vars
  BY <1>2, Invariance, PTL DEF Spec
<1> QED
  BY <1>3 DEF ReleasedWithMessage
=============================================================================
