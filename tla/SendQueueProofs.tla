--------------------------- MODULE SendQueueProofs ---------------------------
(***************************************************************************)
(* SendQueue implements Ipc for every set of processes: the lists that      *)
(* kernel/proc.c threads through next_sending are the queues of Ipc, and    *)
(* every loop over them, and the loop of deadlock(), comes to its end.      *)
(***************************************************************************)
EXTENDS SendQueue, SequenceTheorems, FiniteSetTheorems, WellFoundedInduction,
        NaturalsInduction, TLAPS

----------------------------------------------------------------------------
(* Numbers and sequences *)

\* Induction, of a set of numbers.
Below == {p \in Nat \X Nat : p[1] < p[2]}

LEMMA Induction ==
  ASSUME NEW H, 0 \in H, \A n \in Nat : n \in H => n + 1 \in H
  PROVE  \A n \in Nat : n \in H
<1> DEFINE T == {n \in Nat : n \notin H}
<1> SUFFICES ASSUME T # {} PROVE FALSE
  OBVIOUS
<1>1. OpToRel(<, Nat) = Below
  BY DEF OpToRel, Below
<1>2. IsWellFoundedOn(Below, Nat)
  BY <1>1, NatLessThanWellFounded
<1>3. PICK x \in T : \A y \in T : ~(<<y, x>> \in Below)
  BY <1>2, WFMin
<1>4. x \in Nat /\ x # 0
  OBVIOUS
<1>5. PICK n \in Nat : x = n + 1
  <2>1. x - 1 \in Nat /\ x = (x - 1) + 1
    BY <1>4
  <2> QED
    BY <2>1
<1>6. n \in T
  BY <1>5
<1>7. <<n, x>> \in Below
  BY <1>4, <1>5 DEF Below
<1> QED
  BY <1>3, <1>6, <1>7

\* An injective sequence of processes is no longer than the process table.
LEMMA FitsTable ==
  ASSUME NEW q \in Seq(Proc), IsInjective(q)
  PROVE  Len(q) <= Cardinality(Proc) /\ Cardinality(Proc) \in Nat
<1>1. q \in Injection(1 .. Len(q), Proc) /\ IsFiniteSet(Proc) /\ Len(q) \in Nat
  BY SendQueueAssumption DEF Injection, IsInjective
<1>2. Cardinality(1 .. Len(q)) <= Cardinality(Proc)
  BY <1>1, FS_Injection
<1>3. Cardinality(1 .. Len(q)) = Len(q)
  <2>1. PICK n \in Nat : n = Len(q)
    BY <1>1
  <2>2. Cardinality(1 .. n) = IF 1 > n THEN 0 ELSE n - 1 + 1
    BY FS_Interval
  <2> QED
    BY <2>1, <2>2
<1>4. Cardinality(Proc) \in Nat
  BY <1>1, FS_CardinalityType
<1> QED
  BY <1>2, <1>3, <1>4

\* Removing position i shifts what follows it.
LEMMA Removed ==
  ASSUME NEW S, NEW q \in Seq(S), NEW i \in 1 .. Len(q)
  PROVE  /\ RemoveAt(q, i) \in Seq(S)
         /\ Len(RemoveAt(q, i)) = Len(q) - 1
         /\ \A k \in 1 .. Len(q) - 1 : RemoveAt(q, i)[k] = q[IF k < i THEN k ELSE k + 1]
<1> DEFINE a == SubSeq(q, 1, i - 1)
           b == SubSeq(q, i + 1, Len(q))
<1>1. PICK n \in Nat : n = Len(q) /\ i \in 1 .. n
  OBVIOUS
<1>2. a \in Seq(S) /\ Len(a) = i - 1 /\ \A k \in 1 .. i - 1 : a[k] = q[k]
  BY <1>1
<1>3. b \in Seq(S) /\ Len(b) = n - i /\ \A k \in 1 .. n - i : b[k] = q[i + k]
  <2>1. b \in Seq(S) /\ Len(b) = n - i
    BY <1>1
  <2>2. ASSUME NEW k \in 1 .. n - i PROVE b[k] = q[i + k]
    BY <1>1
  <2> QED
    BY <2>1, <2>2
<1>4. RemoveAt(q, i) = a \o b
  BY DEF RemoveAt
<1> HIDE DEF a, b
<1>5. a \o b \in Seq(S) /\ Len(a \o b) = n - 1
  BY <1>1, <1>2, <1>3
<1>6. ASSUME NEW k \in 1 .. n - 1 PROVE (a \o b)[k] = q[IF k < i THEN k ELSE k + 1]
  <2>1. CASE k < i
    BY <1>1, <1>2, <1>3, <2>1
  <2>2. CASE ~(k < i)
    <3>1. PICK j \in 1 .. n - i : k = (i - 1) + j /\ i + j = k + 1
      <4>1. k - (i - 1) \in 1 .. n - i /\ k = (i - 1) + (k - (i - 1)) /\ i + (k - (i - 1)) = k + 1
        BY <1>1, <2>2
      <4> QED
        BY <4>1
    <3>2. (a \o b)[k] = b[j]
      BY <1>1, <1>2, <1>3, <2>2, <3>1
    <3> QED
      BY <1>3, <2>2, <3>1, <3>2
  <2> QED
    BY <2>1, <2>2
<1> QED
  BY <1>1, <1>4, <1>5, <1>6

\* Taking an element out of an injective sequence takes out just that one.
LEMMA RemovedSet ==
  ASSUME NEW S, NEW q \in Seq(S), IsInjective(q), NEW i \in 1 .. Len(q)
  PROVE  /\ IsInjective(RemoveAt(q, i))
         /\ ToSet(RemoveAt(q, i)) = ToSet(q) \ {q[i]}
<1>1. PICK n \in Nat : n = Len(q) /\ i \in 1 .. n /\ DOMAIN q = 1 .. n
  OBVIOUS
<1>2. PICK r : r = RemoveAt(q, i)
  OBVIOUS
<1>3. /\ r \in Seq(S) /\ DOMAIN r = 1 .. n - 1
      /\ \A k \in 1 .. n - 1 : r[k] = q[IF k < i THEN k ELSE k + 1]
  BY <1>1, <1>2, Removed
<1>4. \A k, l \in 1 .. n : q[k] = q[l] => k = l
  BY <1>1 DEF IsInjective
<1>5. IsInjective(r)
  BY <1>1, <1>3, <1>4 DEF IsInjective
<1>6. ASSUME NEW k \in 1 .. n - 1 PROVE r[k] \in ToSet(q) \ {q[i]}
  <2>1. PICK j \in 1 .. n : r[k] = q[j] /\ j # i
    <3>1. (IF k < i THEN k ELSE k + 1) \in 1 .. n /\ (IF k < i THEN k ELSE k + 1) # i
      BY <1>1
    <3> QED
      BY <1>3, <3>1
  <2> QED
    BY <1>1, <1>4, <2>1 DEF ToSet
<1>7. ASSUME NEW j \in 1 .. n, j # i PROVE q[j] \in ToSet(r)
  <2>1. CASE j < i
    <3>1. j \in 1 .. n - 1 /\ r[j] = q[j]
      BY <1>1, <1>3, <2>1
    <3> QED
      BY <1>3, <3>1 DEF ToSet
  <2>2. CASE j > i
    <3>1. PICK k \in 1 .. n - 1 : j = k + 1 /\ ~(k < i)
      <4>1. j - 1 \in 1 .. n - 1 /\ j = (j - 1) + 1 /\ ~(j - 1 < i)
        BY <1>1, <2>2
      <4> QED
        BY <4>1
    <3>2. r[k] = q[j]
      BY <1>3, <3>1
    <3> QED
      BY <1>3, <3>2 DEF ToSet
  <2> QED
    BY <1>1, <1>7, <2>1, <2>2
<1>8. ToSet(r) = ToSet(q) \ {q[i]}
  BY <1>1, <1>3, <1>6, <1>7 DEF ToSet
<1> QED
  BY <1>2, <1>5, <1>8

----------------------------------------------------------------------------
(* Threaded lists *)

\* f is the places of the list that begins at h.
IsAlong(f, h, next) ==
  f = [k \in 1 .. Cardinality(Proc) |->
         IF k = 1 THEN h ELSE IF f[k-1] = NULL THEN NULL ELSE next[f[k-1]]]
Along(h, next) == CHOOSE f : IsAlong(f, h, next)
Occupied(f) == {k \in 1 .. Cardinality(Proc) : f[k] # NULL}

\* Chain is what it says it is.
LEMMA ChainNamed ==
  ASSUME NEW h, NEW next
  PROVE  Chain(h, next) = [k \in Occupied(Along(h, next)) |-> Along(h, next)[k]]
BY Zenon DEF Chain, IsAlong, Along, Occupied

\* The places of a threaded sequence are its elements, and nothing behind them.
LEMMA PlacesOf ==
  ASSUME NEW q, NEW h, NEW next, Threads(q, h, next)
  PROVE  /\ Along(h, next) = [k \in 1 .. Cardinality(Proc) |-> IF k <= Len(q) THEN q[k] ELSE NULL]
         /\ Len(q) <= Cardinality(Proc) /\ Cardinality(Proc) \in Nat
<1>1. PICK N \in Nat : N = Cardinality(Proc) /\ Len(q) <= N
  BY FitsTable DEF Threads
<1>2. PICK n \in Nat : n = Len(q) /\ n <= N
  BY <1>1 DEF Threads
<1>3. /\ q \in Seq(Proc) /\ NULL \notin Proc
      /\ h = IF n = 0 THEN NULL ELSE q[1]
      /\ \A k \in 1 .. n : q[k] \in Proc /\ q[k] # NULL
      /\ \A k \in 1 .. n : next[q[k]] = IF k < n THEN q[k+1] ELSE NULL
  BY <1>2, SendQueueAssumption DEF Threads, I!ConstantAssumption
<1>4. PICK g : g = [k \in 1 .. N |-> IF k <= n THEN q[k] ELSE NULL]
  OBVIOUS
<1>5. ASSUME NEW k \in 1 .. N
      PROVE  g[k] = IF k = 1 THEN h ELSE IF g[k-1] = NULL THEN NULL ELSE next[g[k-1]]
  <2>1. CASE k = 1
    BY <1>3, <1>4, <2>1
  <2>2. CASE k # 1
    <3>1. PICK j \in 1 .. N : k = j + 1 /\ k - 1 = j
      <4>1. k - 1 \in 1 .. N /\ k = (k - 1) + 1
        BY <2>2
      <4> QED
        BY <4>1
    <3>2. g[j] = (IF j <= n THEN q[j] ELSE NULL) /\ g[k] = IF k <= n THEN q[k] ELSE NULL
      BY <1>4
    <3>3. CASE j <= n
      <4>1. g[j] # NULL /\ next[g[j]] = IF j < n THEN q[j+1] ELSE NULL
        BY <1>3, <3>2, <3>3
      <4>2. g[k] = next[g[j]]
        BY <3>1, <3>2, <4>1
      <4> QED
        BY <2>2, <3>1, <4>1, <4>2
    <3>4. CASE ~(j <= n)
      BY <2>2, <3>1, <3>2, <3>4
    <3> QED
      BY <3>3, <3>4
  <2> QED
    BY <2>1, <2>2
<1>6. IsAlong(g, h, next)
  BY <1>1, <1>4, <1>5 DEF IsAlong
<1>7. PICK f : f = Along(h, next)
  OBVIOUS
<1>8. IsAlong(f, h, next)
  BY <1>6, <1>7, Zenon DEF Along
<1>9. /\ f = [k \in 1 .. N |-> f[k]]
      /\ \A k \in 1 .. N : f[k] = IF k = 1 THEN h ELSE IF f[k-1] = NULL THEN NULL ELSE next[f[k-1]]
  BY <1>1, <1>8 DEF IsAlong
<1> DEFINE H == {j \in Nat : j + 1 <= N => f[j + 1] = g[j + 1]}
<1>10. 0 \in H
  BY <1>5, <1>9
<1>11. ASSUME NEW j \in Nat, j \in H PROVE j + 1 \in H
  <2> SUFFICES ASSUME (j + 1) + 1 <= N PROVE f[(j + 1) + 1] = g[(j + 1) + 1]
    OBVIOUS
  <2>1. PICK k \in 1 .. N : k = (j + 1) + 1 /\ k # 1 /\ k - 1 = j + 1
    <3>1. (j + 1) + 1 \in 1 .. N /\ (j + 1) + 1 # 1 /\ ((j + 1) + 1) - 1 = j + 1
      OBVIOUS
    <3> QED
      BY <3>1
  <2>2. f[k - 1] = g[k - 1]
    BY <1>11, <2>1
  <2>3. f[k] = g[k]
    BY <1>5, <1>9, <2>1, <2>2
  <2> QED
    BY <2>1, <2>3
<1> HIDE DEF H
<1>12. \A j \in Nat : j \in H
  BY <1>10, <1>11, Induction
<1>13. ASSUME NEW k \in 1 .. N PROVE f[k] = g[k]
  <2>1. PICK j \in Nat : k = j + 1
    <3>1. k - 1 \in Nat /\ k = (k - 1) + 1
      OBVIOUS
    <3> QED
      BY <3>1
  <2>2. j \in H
    BY <1>12
  <2> QED
    BY <2>1, <2>2 DEF H
<1>14. f = g
  BY <1>4, <1>9, <1>13
<1> QED
  BY <1>1, <1>2, <1>4, <1>7, <1>14

\* What is threaded from h is the chain from h.
LEMMA ChainIs ==
  ASSUME NEW q, NEW h, NEW next, Threads(q, h, next)
  PROVE  Chain(h, next) = q
<1>1. PICK N \in Nat : N = Cardinality(Proc)
  BY PlacesOf
<1>2. PICK n \in Nat : n = Len(q) /\ n <= N
  BY <1>1, PlacesOf DEF Threads
<1>3. q \in Seq(Proc) /\ \A k \in 1 .. n : q[k] # NULL
  BY <1>2, SendQueueAssumption DEF Threads, I!ConstantAssumption
<1>4. PICK f : f = Along(h, next) /\ f = [k \in 1 .. N |-> IF k <= n THEN q[k] ELSE NULL]
  BY <1>1, <1>2, PlacesOf
<1>5. Occupied(f) = 1 .. n
  BY <1>1, <1>2, <1>3, <1>4 DEF Occupied
<1>6. [k \in 1 .. n |-> f[k]] = q
  BY <1>2, <1>3, <1>4
<1> QED
  BY <1>4, <1>5, <1>6, ChainNamed

LEMMA ThreadsFacts ==
  ASSUME NEW q, NEW h, NEW next, Threads(q, h, next)
  PROVE  /\ q \in Seq(Proc) /\ IsInjective(q) /\ Len(q) \in Nat /\ DOMAIN q = 1 .. Len(q)
         /\ \A k, l \in 1 .. Len(q) : q[k] = q[l] => k = l
         /\ \A k \in 1 .. Len(q) : q[k] \in Proc
         /\ ToSet(q) = {q[k] : k \in 1 .. Len(q)}
         /\ h = IF Len(q) = 0 THEN NULL ELSE q[1]
         /\ q = <<>> <=> Len(q) = 0
         /\ \A k \in 1 .. Len(q) : next[q[k]] = IF k < Len(q) THEN q[k+1] ELSE NULL
BY DEF Threads, IsInjective, ToSet

\* Links of processes that are not on the list do not matter to it.
LEMMA OtherLinks ==
  ASSUME NEW q, NEW h, NEW next, Threads(q, h, next),
         NEW next2, \A p \in ToSet(q) : next2[p] = next[p]
  PROVE  Threads(q, h, next2)
<1>1. \A k \in DOMAIN q : q[k] \in ToSet(q)
  BY DEF ToSet
<1> QED
  BY <1>1 DEF Threads

\* The empty list.
LEMMA EmptyList == ASSUME NEW next PROVE Threads(<<>>, NULL, next) /\ ToSet(<<>>) = {}
BY DEF Threads, IsInjective, ToSet

\* A list of one (proc.c:350, 358-359).
LEMMA LinkFirst ==
  ASSUME NEW x \in Proc, NEW next2, next2[x] = NULL
  PROVE  Threads(Append(<<>>, x), x, next2) /\ ToSet(Append(<<>>, x)) = {x}
<1>1. PICK q \in Seq(Proc) : q = Append(<<>>, x)
  <2>1. Append(<<>>, x) \in Seq(Proc)
    OBVIOUS
  <2> QED
    BY <2>1
<1>2. Len(q) = 1 /\ DOMAIN q = 1 .. 1 /\ q[1] = x /\ q # <<>>
  BY <1>1
<1>3. \A k \in 1 .. 1 : k = 1
  OBVIOUS
<1>4. Threads(q, x, next2)
  BY <1>2, <1>3 DEF Threads, IsInjective
<1>5. ToSet(q) = {x}
  BY <1>2, <1>3 DEF ToSet
<1> QED
  BY <1>1, <1>4, <1>5

\* A process is linked behind the last one (355-359).
LEMMA LinkLast ==
  ASSUME NEW q, NEW h, NEW next, Threads(q, h, next), NEW n \in Nat \ {0}, n = Len(q),
         NEW x \in Proc \ ToSet(q), NEW next2, next2[q[n]] = x, next2[x] = NULL,
         \A p \in Proc \ {q[n], x} : next2[p] = next[p]
  PROVE  Threads(Append(q, x), h, next2) /\ ToSet(Append(q, x)) = ToSet(q) \cup {x}
<1>1. /\ q \in Seq(Proc) /\ h = q[1]
      /\ \A k, l \in 1 .. n : q[k] = q[l] => k = l
      /\ \A k \in 1 .. n : q[k] \in Proc /\ q[k] # x
      /\ ToSet(q) = {q[k] : k \in 1 .. n}
      /\ \A k \in 1 .. n : next[q[k]] = IF k < n THEN q[k+1] ELSE NULL
  BY ThreadsFacts
<1>2. PICK r \in Seq(Proc) : r = Append(q, x)
  <2>1. Append(q, x) \in Seq(Proc)
    BY <1>1
  <2> QED
    BY <2>1
<1>3. /\ Len(r) = n + 1 /\ DOMAIN r = 1 .. n + 1 /\ r # <<>>
      /\ \A k \in 1 .. n : r[k] = q[k]
      /\ r[n + 1] = x
  BY <1>1, <1>2
<1>4. IsInjective(r)
  BY <1>1, <1>3 DEF IsInjective
<1>5. r[1] = h
  BY <1>1, <1>3
<1>6. ASSUME NEW k \in 1 .. n + 1 PROVE next2[r[k]] = IF k < n + 1 THEN r[k+1] ELSE NULL
  <2>1. CASE k = n + 1
    BY <1>3, <2>1
  <2>2. CASE k = n
    <3>1. r[k] = q[n] /\ r[k + 1] = x /\ k < n + 1
      BY <1>3, <2>2
    <3> QED
      BY <3>1
  <2>3. CASE k < n
    <3>1. k \in 1 .. n /\ k + 1 \in 1 .. n /\ n \in 1 .. n /\ k # n /\ k < n + 1
      BY <2>3
    <3>2. next2[q[k]] = next[q[k]]
      <4>1. q[k] \in Proc /\ q[k] # x /\ q[k] # q[n]
        BY <1>1, <3>1
      <4> QED
        BY <4>1
    <3>3. next[q[k]] = q[k+1]
      BY <1>1, <2>3, <3>1
    <3> QED
      BY <1>3, <3>1, <3>2, <3>3
  <2> QED
    BY <2>1, <2>2, <2>3
<1>7. Threads(r, h, next2)
  BY <1>3, <1>4, <1>5, <1>6 DEF Threads
<1>8. ToSet(r) = ToSet(q) \cup {x}
  <2>1. \A k \in 1 .. n : k \in 1 .. n + 1
    OBVIOUS
  <2>2. n + 1 \in 1 .. n + 1 /\ \A k \in 1 .. n + 1 : k \in 1 .. n \/ k = n + 1
    OBVIOUS
  <2> QED
    BY <1>1, <1>3, <2>1, <2>2 DEF ToSet
<1> QED
  BY <1>2, <1>7, <1>8

\* The process at place i is unlinked: what comes behind it takes its place (495-504).
LEMMA UnlinkAt ==
  ASSUME NEW q, NEW h, NEW next, Threads(q, h, next), NEW i \in 1 .. Len(q),
         NEW h2, NEW next2, next2[q[i]] = NULL,
         IF i = 1 THEN h2 = next[q[i]] /\ \A p \in Proc \ {q[i]} : next2[p] = next[p]
         ELSE /\ h2 = h /\ next2[q[i-1]] = next[q[i]]
              /\ \A p \in Proc \ {q[i-1], q[i]} : next2[p] = next[p]
  PROVE  /\ Threads(RemoveAt(q, i), h2, next2)
         /\ ToSet(RemoveAt(q, i)) = ToSet(q) \ {q[i]}
<1>1. PICK n \in Nat \ {0} : n = Len(q) /\ i \in 1 .. n
  <2>1. Len(q) \in Nat \ {0}
    BY ThreadsFacts
  <2> QED
    BY <2>1
<1>2. /\ q \in Seq(Proc) /\ h = q[1] /\ IsInjective(q)
      /\ \A k, l \in 1 .. n : q[k] = q[l] => k = l
      /\ \A k \in 1 .. n : q[k] \in Proc
      /\ \A k \in 1 .. n : next[q[k]] = IF k < n THEN q[k+1] ELSE NULL
  BY <1>1, ThreadsFacts
<1>3. PICK r : r = RemoveAt(q, i)
  OBVIOUS
<1>4. /\ r \in Seq(Proc) /\ Len(r) = n - 1 /\ DOMAIN r = 1 .. n - 1
      /\ \A k \in 1 .. n - 1 : r[k] = q[IF k < i THEN k ELSE k + 1]
  BY <1>1, <1>2, <1>3, Removed
<1>5. IsInjective(r) /\ ToSet(r) = ToSet(q) \ {q[i]}
  BY <1>1, <1>2, <1>3, RemovedSet
<1>6. h2 = IF r = <<>> THEN NULL ELSE r[1]
  <2>1. r = <<>> <=> n = 1
    BY <1>4
  <2>2. n > 1 => 1 \in 1 .. n - 1 /\ r[1] = q[IF 1 < i THEN 1 ELSE 2]
    BY <1>4
  <2>3. CASE i = 1
    <3>1. h2 = IF 1 < n THEN q[2] ELSE NULL
      BY <1>1, <1>2, <2>3
    <3> QED
      BY <1>1, <2>1, <2>2, <2>3, <3>1
  <2>4. CASE i # 1
    <3>1. n > 1 /\ 1 < i
      BY <1>1, <2>4
    <3> QED
      BY <1>2, <2>1, <2>2, <2>4, <3>1
  <2> QED
    BY <2>3, <2>4
<1>7. ASSUME NEW k \in 1 .. n - 1 PROVE next2[r[k]] = IF k < n - 1 THEN r[k+1] ELSE NULL
  <2>1. CASE k >= i
    <3>1. PICK j \in 1 .. n : j = k + 1 /\ j # i /\ j # i - 1 /\ ~(k < i) /\ (j < n <=> k < n - 1) /\ ~(k + 1 < i)
      <4>1. k + 1 \in 1 .. n
        BY <1>1
      <4> QED
        BY <1>1, <2>1, <4>1
    <3>2. r[k] = q[j]
      BY <1>4, <3>1
    <3>3. next2[q[j]] = next[q[j]]
      <4>1. q[j] \in Proc /\ q[j] # q[i]
        BY <1>1, <1>2, <3>1
      <4>2. i # 1 => q[j] # q[i-1]
        <5>1. i # 1 => i - 1 \in 1 .. n
          BY <1>1
        <5> QED
          BY <1>2, <3>1, <5>1
      <4> QED
        BY <4>1, <4>2
    <3>4. k < n - 1 => r[k+1] = q[j+1]
      <4>1. k < n - 1 => k + 1 \in 1 .. n - 1
        OBVIOUS
      <4> QED
        BY <1>4, <3>1, <4>1
    <3>5. next[q[j]] = IF j < n THEN q[j+1] ELSE NULL
      BY <1>2
    <3> QED
      BY <3>1, <3>2, <3>3, <3>4, <3>5
  <2>2. CASE k < i /\ k + 1 < i
    <3>1. /\ k \in 1 .. n /\ k # i /\ k # i - 1 /\ i # 1 /\ i - 1 \in 1 .. n /\ k < n /\ k < n - 1
          /\ k + 1 \in 1 .. n - 1
      BY <1>1, <2>2
    <3>2. r[k] = q[k] /\ r[k+1] = q[k+1]
      BY <1>4, <2>2, <3>1
    <3>3. next2[q[k]] = next[q[k]]
      <4>1. q[k] \in Proc /\ q[k] # q[i] /\ q[k] # q[i-1]
        BY <1>1, <1>2, <3>1
      <4> QED
        BY <3>1, <4>1
    <3>4. next[q[k]] = q[k+1]
      BY <1>2, <3>1
    <3> QED
      BY <3>1, <3>2, <3>3, <3>4
  <2>3. CASE k < i /\ ~(k + 1 < i)
    <3>1. k = i - 1 /\ i # 1 /\ (i < n <=> k < n - 1) /\ ~(k + 1 < i) /\ k + 1 = i
      BY <1>1, <2>3
    <3>2. r[k] = q[i-1]
      BY <1>4, <2>3, <3>1
    <3>3. next2[q[i-1]] = IF i < n THEN q[i+1] ELSE NULL
      BY <1>1, <1>2, <3>1
    <3>4. k < n - 1 => r[k+1] = q[i+1]
      <4>1. k < n - 1 => k + 1 \in 1 .. n - 1 /\ ~(k + 1 < i)
        BY <3>1
      <4>2. k < n - 1 => r[k+1] = q[(k + 1) + 1]
        BY <1>4, <4>1
      <4> QED
        BY <3>1, <4>2
    <3> QED
      BY <3>1, <3>2, <3>3, <3>4
  <2> QED
    BY <1>1, <2>1, <2>2, <2>3
<1>8. Threads(r, h2, next2)
  BY <1>4, <1>5, <1>6, <1>7 DEF Threads
<1> QED
  BY <1>3, <1>5, <1>8

----------------------------------------------------------------------------
(* The lists of the process table *)

\* ListOf(d), where the lists are in order.
LEMMA ListFacts ==
  ASSUME ListsCoherent, NEW d \in Proc
  PROVE  \E q \in Seq(Proc) :
           /\ q = ListOf(d) /\ Threads(q, head[d], next_sending)
           /\ ToSet(q) = {s \in Proc : Linked(s) /\ p_sendto[s] = d}
<1>1. Threads(ListOf(d), head[d], next_sending) /\ ListOf(d) \in Seq(Proc)
  BY DEF ListsCoherent, Threads
<1> QED
  BY <1>1 DEF ListsCoherent

\* The lists after a step, where the links of the sequences L are in place.
LEMMA ListsBy ==
  ASSUME NEW L,
         head' \in [Proc -> Proc \cup {NULL}], next_sending' \in [Proc -> Proc \cup {NULL}],
         \A d \in Proc : /\ Threads(L[d], head'[d], next_sending')
                         /\ ToSet(L[d]) = {s \in Proc : Linked(s)' /\ p_sendto'[s] = d},
         \A p \in Proc : ~Linked(p)' => next_sending'[p] = NULL
  PROVE  ListsCoherent' /\ \A d \in Proc : ListOf(d)' = L[d]
<1>1. ASSUME NEW d \in Proc PROVE ListOf(d)' = L[d]
  BY ChainIs DEF ListOf
<1> QED
  BY <1>1 DEF ListsCoherent

\* A step that touches no link and leaves those on the lists as they are.
LEMMA ListsSame ==
  ASSUME ListsCoherent, UNCHANGED lists,
         \A p \in Proc : /\ Linked(p)' <=> Linked(p)
                         /\ Linked(p) => p_sendto'[p] = p_sendto[p]
  PROVE  ListsCoherent' /\ \A d \in Proc : ListOf(d)' = ListOf(d)
<1>1. head' = head /\ next_sending' = next_sending
  BY DEF lists
<1>2. \A d \in Proc : ListOf(d)' = ListOf(d)
  BY <1>1 DEF ListOf
<1>3. \A d \in Proc : {s \in Proc : Linked(s)' /\ p_sendto'[s] = d} = {s \in Proc : Linked(s) /\ p_sendto[s] = d}
  OBVIOUS
<1>4. ASSUME NEW d \in Proc
      PROVE  /\ Threads(ListOf(d)', head'[d], next_sending')
             /\ ToSet(ListOf(d)') = {s \in Proc : Linked(s)' /\ p_sendto'[s] = d}
  BY <1>1, <1>2, <1>3 DEF ListsCoherent
<1> QED
  BY <1>1, <1>2, <1>4 DEF ListsCoherent

\* Whom the processes send to does not change.
SameSenders ==
  /\ p_flags' \in [Proc -> SUBSET {SENDING, RECEIVING}]
  /\ p_sendto' = p_sendto
  /\ \A p \in Proc : SENDING \in p_flags'[p] <=> SENDING \in p_flags[p]

LEMMA SameSendersFacts ==
  ASSUME SendersCoherent, SameSenders
  PROVE  /\ SendersCoherent'
         /\ \A C \in SUBSET Proc : I!Closed(C)' <=> I!Closed(C)
         /\ \A x, y \in Proc : I!Deadlock(x, y)' <=> I!Deadlock(x, y)
         /\ \A x, y \in Proc : I!SendsTo(x, y)' <=> I!SendsTo(x, y)
         /\ I!SendAcyclic' <=> I!SendAcyclic
<1>1. SendersCoherent'
  BY DEF SendersCoherent, SameSenders
<1>2. ASSUME NEW C \in SUBSET Proc PROVE I!Closed(C)' <=> I!Closed(C)
  BY DEF SameSenders, I!Closed
<1>3. \A x, y \in Proc : I!Deadlock(x, y)' <=> I!Deadlock(x, y)
  BY <1>2 DEF I!Deadlock
<1>4. \A x, y \in Proc : I!SendsTo(x, y)' <=> I!SendsTo(x, y)
  BY DEF SameSenders, I!SendsTo
<1>5. I!SendAcyclic' <=> I!SendAcyclic
  <2>1. ASSUME NEW S \in SUBSET Proc
        PROVE  (\A q \in S : SENDING \in p_flags'[q] /\ p_sendto'[q] \in S)
                 <=> \A q \in S : SENDING \in p_flags[q] /\ p_sendto[q] \in S
    BY DEF SameSenders
  <2> QED
    BY <2>1 DEF I!SendAcyclic
<1> QED
  BY <1>1, <1>2, <1>3, <1>4, <1>5


\* A bit of p_flags other than SENDING.
LEMMA FlagSet ==
  ASSUME SendersCoherent, NEW x, NEW f,
         p_flags' = [p_flags EXCEPT ![x] = f], p_sendto' = p_sendto,
         x \in Proc => f \in {p_flags[x] \cup {RECEIVING}, p_flags[x] \ {RECEIVING}}
  PROVE  SameSenders
<1>1. SENDING # RECEIVING
  BY SendQueueAssumption DEF I!ConstantAssumption
<1>2. x \in Proc => f \in SUBSET {SENDING, RECEIVING} /\ (SENDING \in f <=> SENDING \in p_flags[x])
  BY <1>1 DEF SendersCoherent
<1> QED
  BY <1>2 DEF SendersCoherent, SameSenders

\* The steps taken from Ipc change nothing but RECEIVING in p_flags.
LEMMA OtherFlags ==
  ASSUME SendersCoherent, OtherStep \/ I!InformInt
  PROVE  SameSenders
<1>1. ASSUME UNCHANGED <<p_flags, p_sendto>> PROVE SameSenders
  BY <1>1 DEF SendersCoherent, SameSenders
<1>2. CASE I!SendCheck \/ I!SendDone \/ I!SendSched
  BY <1>1, <1>2 DEF I!SendCheck, I!SendDone, I!SendSched, I!Halt, I!table
<1>3. CASE I!SendCopy \/ I!SendClear
  BY <1>1, <1>3 DEF I!SendCopy, I!SendClear, I!table
<1>4. CASE I!SendFinish
  BY <1>4, FlagSet DEF I!SendFinish
<1>5. CASE I!RecvMark
  BY <1>5, FlagSet DEF I!RecvMark
<1>6. CASE I!RecvIntClear \/ I!RecvIntDone \/ I!RecvFrom \/ I!RecvBlock \/ I!RecvSched \/ I!RecvDone
  BY <1>1, <1>6 DEF I!RecvIntClear, I!RecvIntDone, I!RecvFrom, I!RecvBlock, I!RecvSched,
                    I!RecvDone, I!Halt, I!table
<1>7. CASE \E p \in Proc, src \in Proc \cup {ANY, INTERRUPT} : I!RecvInt(p, src) \/ I!RecvWait(p, src)
  BY <1>1, <1>7 DEF I!RecvInt, I!RecvWait, I!table
<1>8. CASE I!InformWaiting
  BY <1>8, FlagSet DEF I!InformWaiting
<1>9. CASE I!InformPending
  BY <1>1, <1>9 DEF I!InformPending
<1> QED
  BY <1>2, <1>3, <1>4, <1>5, <1>6, <1>7, <1>8, <1>9 DEF OtherStep, I!RecvStep, I!InformInt

\* inform_int comes back to where the call was.
LEMMA InformKeeps ==
  ASSUME I!InformInt
  PROVE  /\ UNCHANGED call /\ halted = 0
         /\ \A p \in Proc : p_flags[p] = {} => p_flags'[p] = {}
<1>1. CASE I!InformWaiting
  BY <1>1 DEF I!InformWaiting, I!call, call, I!Running
<1>2. CASE I!InformPending
  BY <1>2 DEF I!InformPending, I!call, call, I!Running
<1> QED
  BY <1>1, <1>2 DEF I!InformInt

\* The other steps of Ipc are steps of a call that is not about to block its sender.
LEMMA OtherPc ==
  ASSUME OtherStep
  PROVE  pc' # "snd_block"
<1>1. CASE I!SendCheck
  BY <1>1 DEF I!SendCheck, I!Goto, I!Halt, I!call
<1>2. CASE I!SendCopy \/ I!SendClear \/ I!SendFinish \/ I!SendDone \/ I!SendSched
  BY <1>2 DEF I!SendCopy, I!SendClear, I!SendFinish, I!SendDone, I!SendSched, I!Goto, I!Return, I!Enter
<1>3. CASE I!RecvStep
  BY <1>3 DEF I!RecvStep, I!RecvIntClear, I!RecvIntDone, I!RecvMark, I!RecvFrom, I!RecvBlock,
              I!RecvSched, I!RecvDone, I!Goto, I!Return, I!Enter, I!Halt, I!call
<1>4. CASE \E p \in Proc, src \in Proc \cup {ANY, INTERRUPT} : I!RecvInt(p, src) \/ I!RecvWait(p, src)
  BY <1>4 DEF I!RecvInt, I!RecvWait, I!Enter
<1> QED
  BY <1>1, <1>2, <1>3, <1>4 DEF OtherStep

----------------------------------------------------------------------------
(* The steps that leave the lists alone *)

LEMMA WalkFields ==
  /\ NoWalk.op = "none"
  /\ \A op, p, d, at, prev, t :
       \E w \in {Walk(op, p, d, at, prev, t)} :
         /\ w.op = op /\ w.caller = p /\ w.peer = d /\ w.at = at /\ w.prev = prev /\ w.type = t
BY DEF NoWalk, Walk

\* The loop that is being executed goes on to b.
LEMMA WalkGoesOn ==
  ASSUME WalkCoherent, walk.op # "none", NEW b
  PROVE  /\ walk.op \in {"deadlock", "append", "search"}
         /\ walk.caller \in Proc /\ walk.peer \in Proc \ {walk.caller}
         /\ walk' = [walk EXCEPT !.at = b] =>
              walk' = Walk(walk.op, walk.caller, walk.peer, b, walk.prev, walk.type)
         /\ walk' = [walk EXCEPT !.prev = walk.at, !.at = b] =>
              walk' = Walk(walk.op, walk.caller, walk.peer, b, walk.at, walk.type)
<1>1. /\ walk = Walk(walk.op, walk.caller, walk.peer, walk.at, walk.prev, walk.type)
      /\ walk.op \in {"deadlock", "append", "search"}
      /\ walk.caller \in Proc /\ walk.peer \in Proc \ {walk.caller}
  BY WalkFields DEF WalkCoherent
<1>2. PICK op, p, d, at, prev, t : /\ op = walk.op /\ p = walk.caller /\ d = walk.peer
                                   /\ at = walk.at /\ prev = walk.prev /\ t = walk.type
  OBVIOUS
<1>3. PICK w, v : w = walk /\ v = walk' /\ w = Walk(op, p, d, at, prev, t)
  BY <1>1, <1>2
<1>4. v = [w EXCEPT !.at = b] => v = Walk(op, p, d, b, prev, t)
  BY <1>3 DEF Walk
<1>5. ASSUME v = [w EXCEPT !.prev = at, !.at = b] PROVE v = Walk(op, p, d, b, at, t)
  <2>1. PICK u : u = [w EXCEPT !.prev = at]
    OBVIOUS
  <2>2. u = Walk(op, p, d, at, at, t)
    BY <1>3, <2>1 DEF Walk
  <2>3. v = [u EXCEPT !.at = b]
    BY <1>5, <2>1
  <2> QED
    BY <2>2, <2>3 DEF Walk
<1> QED
  BY <1>1, <1>2, <1>3, <1>4, <1>5

\* The loop stands where the three parts of the invariant allow it to.
LEMMA WalkStands ==
  ASSUME NEW op \in {"deadlock", "append", "search"}, NEW p \in Proc, NEW d \in Proc \ {p},
         NEW at, NEW prev, NEW t, walk' = Walk(op, p, d, at, prev, t),
         op = "deadlock" => DeadlockCoherent', op = "append" => AppendCoherent',
         op = "search" => SearchCoherent'
  PROVE  WalkCoherent'
<1>1. /\ walk'.op = op /\ walk'.caller = p /\ walk'.peer = d /\ walk'.at = at
      /\ walk'.prev = prev /\ walk'.type = t
  BY WalkFields
<1> QED
  BY <1>1 DEF WalkCoherent

\* What remains of the invariant when a step changes no list and no sender.
LEMMA QuietStep ==
  ASSUME IInv, UNCHANGED lists, SameSenders, \A p \in Proc : Linked(p)' <=> Linked(p)
  PROVE  /\ ListsCoherent' /\ SendersCoherent' /\ I!SendAcyclic'
         /\ \A d \in Proc : ListOf(d)' = ListOf(d)
<1>1. p_sendto' = p_sendto
  BY DEF SameSenders
<1>2. ListsCoherent' /\ \A d \in Proc : ListOf(d)' = ListOf(d)
  BY <1>1, ListsSame DEF IInv
<1> QED
  BY <1>2, SameSendersFacts DEF IInv

\* The steps of Ipc that touch no queue, from a call in which nothing is walked.
LEMMA OtherStepInv == ASSUME IInv, OtherStep PROVE IInv'
<1>1. SameSenders /\ walk = NoWalk /\ walk' = NoWalk /\ UNCHANGED lists
  BY OtherFlags DEF IInv, OtherStep
<1>2. \A p \in Proc : Linked(p)' <=> Linked(p)
  BY <1>1 DEF Linked, SameSenders
<1>3. BlockCoherent'
  BY OtherPc DEF BlockCoherent
<1>4. WalkCoherent'
  BY <1>1, WalkFields DEF WalkCoherent
<1> QED
  BY <1>1, <1>2, <1>3, <1>4, QuietStep DEF IInv

\* The interrupt of the disk, in the middle of whatever is walked.
LEMMA InformInv == ASSUME IInv, InformInt PROVE IInv'
<1>1. SameSenders /\ walk' = walk /\ UNCHANGED lists /\ UNCHANGED call /\ halted = 0
  BY OtherFlags, InformKeeps DEF IInv, InformInt
<1>2. \A p \in Proc : Linked(p)' <=> Linked(p)
  BY <1>1 DEF Linked, SameSenders
<1>3. /\ ListsCoherent' /\ SendersCoherent' /\ I!SendAcyclic'
      /\ \A d \in Proc : ListOf(d)' = ListOf(d)
  BY <1>1, <1>2, QuietStep
<1>4. pc' = pc /\ caller' = caller /\ peer' = peer
  BY <1>1 DEF call
<1>5. \A p \in Proc : p_flags[p] = {} => p_flags'[p] = {}
  BY InformKeeps DEF InformInt
<1>6. BlockCoherent'
  <2> SUFFICES ASSUME pc = "snd_block"
               PROVE  /\ caller \in Proc /\ peer \in Proc \ {caller} /\ SENDING \notin p_flags'[caller]
                      /\ ~I!Deadlock(caller, peer)'
    BY <1>4 DEF BlockCoherent, I!Deadlock, I!Closed
  <2>1. caller \in Proc /\ peer \in Proc \ {caller} /\ SENDING \notin p_flags[caller] /\ ~I!Deadlock(caller, peer)
    BY <1>1 DEF IInv, BlockCoherent
  <2>2. ~I!Deadlock(caller, peer)'
    BY <1>1, <1>4, <2>1, SameSendersFacts DEF IInv, I!Deadlock
  <2> QED
    BY <1>1, <2>1, <2>2 DEF SameSenders
<1>7. DeadlockCoherent /\ walk.caller \in Proc => DeadlockCoherent'
  <2> SUFFICES ASSUME DeadlockCoherent, walk.caller \in Proc PROVE DeadlockCoherent'
    OBVIOUS
  <2>1. \A C \in SUBSET Proc : I!Closed(C)' <=> I!Closed(C)
    BY <1>1, SameSendersFacts DEF IInv
  <2>2. pc = "idle" /\ p_flags'[walk.caller] = {} /\ walk.type \in Type /\ walk.at \in Proc
    BY <1>5 DEF DeadlockCoherent
  <2>3. \A C \in SUBSET Proc : walk.peer \in C /\ I!Closed(C)' => walk.at \in C
    BY <2>1 DEF DeadlockCoherent
  <2>4. PICK V \in SUBSET (Proc \ {walk.caller}) :
          /\ walk.peer \in V /\ walk.at \in V
          /\ \A q \in V \ {walk.at} : SENDING \in p_flags[q] /\ p_sendto[q] \in V
    BY DEF DeadlockCoherent
  <2>5. \A q \in V \ {walk.at} : SENDING \in p_flags'[q] /\ p_sendto'[q] \in V
    BY <1>1, <2>4 DEF SameSenders
  <2> QED
    BY <1>1, <1>4, <2>2, <2>3, <2>4, <2>5 DEF DeadlockCoherent
<1>8. AppendCoherent /\ walk.peer \in Proc /\ walk.caller \in Proc => AppendCoherent'
  <2> SUFFICES ASSUME AppendCoherent, walk.peer \in Proc, walk.caller \in Proc PROVE AppendCoherent'
    OBVIOUS
  <2>1. SENDING \in p_flags'[walk.caller] /\ p_sendto'[walk.caller] = walk.peer
    BY <1>1 DEF AppendCoherent, SameSenders, I!SendsTo
  <2>2. ListOf(walk.peer)' = ListOf(walk.peer)
    BY <1>1, <1>3 DEF ListOf, lists
  <2> QED
    BY <1>1, <1>4, <2>1, <2>2 DEF AppendCoherent, I!SendsTo
<1>9. SearchCoherent /\ walk.caller \in Proc => SearchCoherent'
  <2> SUFFICES ASSUME SearchCoherent, walk.caller \in Proc PROVE SearchCoherent'
    OBVIOUS
  <2>1. ListOf(walk.caller)' = ListOf(walk.caller)
    BY <1>1, <1>3 DEF ListOf, lists
  <2>2. p_flags'[walk.caller] = {}
    BY <1>5 DEF SearchCoherent
  <2> QED
    BY <1>1, <1>4, <2>1, <2>2 DEF SearchCoherent
<1>10. WalkCoherent'
  BY <1>1, <1>7, <1>8, <1>9, WalkFields DEF IInv, WalkCoherent
<1> QED
  BY <1>3, <1>6, <1>10 DEF IInv

\* A step of a loop, or the start of one, that changes nothing but the walk.
Walks ==
  UNCHANGED <<p_flags, p_msg, p_recvfrom, p_sendto, has_int_msg, buf, call, halted, lists>>

LEMMA WalksFacts ==
  ASSUME IInv, Walks, \A p \in Proc : Linked(p)' <=> Linked(p)
  PROVE  /\ ListsCoherent' /\ SendersCoherent' /\ I!SendAcyclic' /\ BlockCoherent'
         /\ \A d \in Proc : ListOf(d)' = ListOf(d)
         /\ pc' = pc /\ p_flags' = p_flags /\ p_sendto' = p_sendto
         /\ \A C : I!Closed(C)' <=> I!Closed(C)
<1>1. UNCHANGED lists /\ UNCHANGED call /\ p_flags' = p_flags /\ p_sendto' = p_sendto /\ halted' = halted
  BY DEF Walks
<1>2. SameSenders
  BY <1>1 DEF SameSenders, IInv, SendersCoherent
<1>3. BlockCoherent'
  BY <1>1 DEF IInv, BlockCoherent, call, I!Deadlock, I!Closed
<1>4. \A C : I!Closed(C)' <=> I!Closed(C)
  BY <1>1 DEF I!Closed
<1> QED
  BY <1>1, <1>2, <1>3, <1>4, QuietStep DEF call

\* To walk on is no step of Ipc.
LEMMA WalksStutter ==
  ASSUME Walks, \/ walk.op # "append" /\ walk'.op # "append"
                \/ walk'.op = walk.op /\ walk'.peer = walk.peer /\ walk'.caller = walk.caller
  PROVE  UNCHANGED I!vars
<1>1. \A d : ListOf(d)' = ListOf(d)
  BY DEF Walks, lists, ListOf
<1>2. Queues' = Queues
  BY <1>1 DEF Queues
<1> QED
  BY <1>2 DEF Walks, call, I!vars

\* msg_send begins with deadlock().
LEMMA SendInv ==
  ASSUME IInv, NEW p \in Proc, NEW d \in Proc, NEW t \in Type, Send(p, d, t)
  PROVE  IInv' /\ UNCHANGED I!vars
<1>1. /\ Walks /\ walk = NoWalk /\ p_flags[p] = {} /\ d # p /\ pc = "idle"
      /\ walk' = Walk("deadlock", p, d, d, NULL, t)
  BY DEF Send, Idle, Walks
<1>2. walk.op = "none"
  BY <1>1, WalkFields
<1>3. walk'.op = "deadlock" /\ walk'.caller = p /\ walk'.peer = d /\ walk'.at = d /\ walk'.type = t
  BY <1>1, WalkFields
<1>4. \A x \in Proc : Linked(x)' <=> Linked(x)
  BY <1>1, <1>2, <1>3 DEF Linked, Walks
<1>5. DeadlockCoherent'
  <2>1. {d} \in SUBSET (Proc \ {p}) /\ \A q \in {d} \ {d} : FALSE
    BY <1>1
  <2>2. pc' = "idle" /\ p_flags'[p] = {}
    BY <1>1, <1>4, WalksFacts
  <2>3. \E V \in SUBSET (Proc \ {p}) :
          d \in V /\ \A q \in V \ {d} : SENDING \in p_flags'[q] /\ p_sendto'[q] \in V
    BY <2>1
  <2> QED
    BY <1>3, <2>2, <2>3 DEF DeadlockCoherent
<1>6. WalkCoherent'
  BY <1>1, <1>5, WalkStands
<1> QED
  BY <1>1, <1>2, <1>3, <1>4, <1>6, WalksFacts, WalksStutter DEF IInv

\* deadlock() follows p_sendto.
LEMMA DeadlockOnInv == ASSUME IInv, DeadlockOn PROVE IInv' /\ UNCHANGED I!vars
<1>1. /\ Walks /\ walk.op = "deadlock" /\ SENDING \in p_flags[walk.at]
      /\ p_sendto[walk.at] # walk.caller
  BY DEF DeadlockOn, InDeadlock, AtSender, Walks
<1>2. PICK b : b = p_sendto[walk.at] /\ walk' = [walk EXCEPT !.at = b]
  BY DEF DeadlockOn
<1>3. PICK a, p, d, t : a = walk.at /\ p = walk.caller /\ d = walk.peer /\ t = walk.type
  OBVIOUS
<1>4. /\ DeadlockCoherent /\ p \in Proc /\ d \in Proc \ {p}
      /\ walk' = Walk("deadlock", p, d, b, walk.prev, t)
  BY <1>1, <1>2, <1>3, WalkGoesOn DEF IInv, WalkCoherent
<1>5. walk'.op = "deadlock" /\ walk'.caller = p /\ walk'.peer = d /\ walk'.at = b /\ walk'.type = t
  BY <1>4, WalkFields
<1>6. \A x \in Proc : Linked(x)' <=> Linked(x)
  BY <1>1, <1>5 DEF Linked, Walks
<1>7. pc' = pc /\ p_flags' = p_flags /\ p_sendto' = p_sendto /\ \A C : I!Closed(C)' <=> I!Closed(C)
  BY <1>1, <1>6, WalksFacts
<1>8. a \in Proc /\ b \in Proc /\ b # p
  BY <1>1, <1>2, <1>3, <1>4 DEF IInv, SendersCoherent, DeadlockCoherent
<1>9. DeadlockCoherent'
  <2>1. pc' = "idle" /\ p_flags'[p] = {} /\ t \in Type
    BY <1>3, <1>4, <1>7 DEF DeadlockCoherent
  <2>2. ASSUME NEW C \in SUBSET Proc, d \in C, I!Closed(C)' PROVE b \in C
    <3>1. I!Closed(C) /\ a \in C
      BY <1>3, <1>4, <1>7, <2>2 DEF DeadlockCoherent
    <3> QED
      BY <1>1, <1>2, <1>3, <3>1 DEF I!Closed
  <2>3. PICK V \in SUBSET (Proc \ {p}) :
          d \in V /\ a \in V /\ \A q \in V \ {a} : SENDING \in p_flags[q] /\ p_sendto[q] \in V
    BY <1>3, <1>4 DEF DeadlockCoherent
  <2>4. PICK W \in SUBSET (Proc \ {p}) : W = V \cup {b}
    BY <1>8
  <2>5. \A q \in W \ {b} : SENDING \in p_flags'[q] /\ p_sendto'[q] \in W
    BY <1>1, <1>2, <1>3, <1>7, <2>3, <2>4
  <2>6. d \in W /\ b \in W
    BY <2>3, <2>4
  <2> QED
    BY <1>5, <1>8, <2>1, <2>2, <2>5, <2>6 DEF DeadlockCoherent
<1>10. WalkCoherent'
  BY <1>4, <1>9, WalkStands
<1> QED
  BY <1>1, <1>5, <1>6, <1>10, WalksFacts, WalksStutter DEF IInv

\* When deadlock() comes to its end it has found a cycle if and only if the send
\* would close one.
LEMMA DeadlockDecides ==
  ASSUME IInv, walk.op = "deadlock", AtSender => p_sendto[walk.at] = walk.caller
  PROVE  AtSender <=> I!Deadlock(walk.caller, walk.peer)
<1>1. DeadlockCoherent
  BY DEF IInv, WalkCoherent
<1>2. ASSUME AtSender PROVE I!Deadlock(walk.caller, walk.peer)
  BY <1>1, <1>2 DEF DeadlockCoherent, I!Deadlock, I!Closed, AtSender
<1>3. ASSUME ~AtSender PROVE ~I!Deadlock(walk.caller, walk.peer)
  <2>1. PICK V \in SUBSET (Proc \ {walk.caller}) :
          /\ walk.peer \in V /\ walk.at \in V
          /\ \A q \in V \ {walk.at} : SENDING \in p_flags[q] /\ p_sendto[q] \in V
    BY <1>1 DEF DeadlockCoherent
  <2>2. I!Closed(V)
    BY <1>3, <2>1 DEF AtSender, I!Closed
  <2>3. V \in SUBSET Proc /\ walk.caller \notin V
    BY <2>1
  <2> QED
    BY <2>1, <2>2, <2>3 DEF I!Deadlock
<1> QED
  BY <1>2, <1>3

\* The send of Ipc, decided by the walk.
LEMMA DeadlockEndsInv ==
  ASSUME IInv, DeadlockEnds
  PROVE  IInv' /\ I!Next
<1>1. PICK p, d, t : p = walk.caller /\ d = walk.peer /\ t = walk.type
  OBVIOUS
<1>2. /\ walk.op = "deadlock" /\ halted = 0 /\ (AtSender => p_sendto[walk.at] = walk.caller)
      /\ buf' = [buf EXCEPT ![p] = [source |-> p, type |-> t]]
      /\ halted' = (IF ~AtSender THEN halted ELSE 316)
      /\ pc' = (IF I!WaitsFor(d, p) THEN "snd_check" ELSE "snd_block")
      /\ caller' = p /\ peer' = d
      /\ walk' = NoWalk
      /\ UNCHANGED <<p_flags, p_msg, p_recvfrom, p_sendto, has_int_msg, lists>>
  BY <1>1 DEF DeadlockEnds, InDeadlock, I!Asserted, I!Enter
<1>3. DeadlockCoherent /\ p \in Proc /\ d \in Proc \ {p}
  BY <1>1, <1>2, WalkGoesOn DEF IInv, WalkCoherent
<1>4. pc = "idle" /\ p_flags[p] = {} /\ t \in Type
  BY <1>1, <1>3 DEF DeadlockCoherent
<1>5. AtSender <=> I!Deadlock(p, d)
  BY <1>1, <1>2, DeadlockDecides
<1>6. \A x \in Proc : Linked(x)' <=> Linked(x)
  BY <1>2, WalkFields DEF Linked
<1>7. SameSenders /\ UNCHANGED lists
  BY <1>2 DEF IInv, SendersCoherent, SameSenders
<1>8. /\ ListsCoherent' /\ SendersCoherent' /\ I!SendAcyclic'
      /\ \A c \in Proc : ListOf(c)' = ListOf(c)
  BY <1>6, <1>7, QuietStep
<1>9. BlockCoherent'
  <2>1. I!Deadlock(p, d)' <=> I!Deadlock(p, d)
    BY <1>3, <1>7, SameSendersFacts DEF IInv
  <2>2. halted' = 0 => ~I!Deadlock(p, d)'
    BY <1>2, <1>5, <2>1
  <2>3. halted' = 0 => ~I!Deadlock(caller, peer)'
    BY <1>2, <2>2 DEF I!Deadlock
  <2>4. SENDING \notin p_flags'[p]
    BY <1>2, <1>4
  <2> QED
    BY <1>2, <1>3, <2>3, <2>4 DEF BlockCoherent
<1>10. WalkCoherent'
  BY <1>2, WalkFields DEF WalkCoherent
<1>11. Queues' = Queues
  BY <1>2, <1>8, WalkFields DEF Queues
<1>12. I!Send(p, d, t)
  <2>1. I!Running /\ pc = "idle" /\ p \in I!Runnable /\ d # p
    BY <1>2, <1>3, <1>4 DEF I!Running, I!Runnable
  <2>2. I!Asserted(~I!Deadlock(p, d), 316)
    BY <1>2, <1>5 DEF I!Asserted
  <2>3. I!Enter(IF I!WaitsFor(d, p) THEN "snd_check" ELSE "snd_block", p, d)
    BY <1>2 DEF I!Enter
  <2>4. UNCHANGED I!table
    BY <1>2, <1>11 DEF I!table
  <2> QED
    BY <1>2, <2>1, <2>2, <2>3, <2>4 DEF I!Send
<1> QED
  BY <1>3, <1>4, <1>8, <1>9, <1>10, <1>12 DEF IInv, I!Next

\* msg_send walks along the list.
LEMMA AppendOnInv == ASSUME IInv, AppendOn PROVE IInv' /\ UNCHANGED I!vars
<1>1. Walks /\ walk.op = "append" /\ next_sending[walk.at] # NULL
  BY DEF AppendOn, Walks
<1>2. PICK b : b = next_sending[walk.at] /\ walk' = [walk EXCEPT !.at = b]
  BY DEF AppendOn
<1>3. PICK a, p, d : a = walk.at /\ p = walk.caller /\ d = walk.peer
  OBVIOUS
<1>4. /\ AppendCoherent /\ p \in Proc /\ d \in Proc \ {p}
      /\ walk' = Walk("append", p, d, b, walk.prev, walk.type)
  BY <1>1, <1>2, <1>3, WalkGoesOn DEF IInv, WalkCoherent
<1>5. walk'.op = "append" /\ walk'.caller = p /\ walk'.peer = d /\ walk'.at = b
  BY <1>4, WalkFields
<1>6. \A x \in Proc : Linked(x)' <=> Linked(x)
  BY <1>1, <1>3, <1>5 DEF Linked, Walks
<1>7. /\ pc' = pc /\ p_flags' = p_flags /\ p_sendto' = p_sendto
      /\ \A c \in Proc : ListOf(c)' = ListOf(c)
  BY <1>1, <1>6, WalksFacts
<1>8. PICK q \in Seq(Proc) : q = ListOf(d) /\ Threads(q, head[d], next_sending)
  BY <1>4, ListFacts DEF IInv
<1>9. PICK n \in Nat : n = Len(q) /\ ToSet(q) = {q[k] : k \in 1 .. n}
  BY <1>8, ThreadsFacts
<1>10. PICK k \in 1 .. n : a = q[k]
  BY <1>3, <1>4, <1>8, <1>9 DEF AppendCoherent
<1>11. next_sending[q[k]] = IF k < n THEN q[k+1] ELSE NULL
  BY <1>8, <1>9, ThreadsFacts
<1>12. k < n /\ b = q[k+1] /\ k + 1 \in 1 .. n
  BY <1>1, <1>2, <1>3, <1>10, <1>11
<1>13. b \in ToSet(q)
  BY <1>9, <1>12
<1>14. AppendCoherent'
  <2>1. pc' = "snd_sched" /\ SENDING \in p_flags'[p] /\ p_sendto'[p] = d
    BY <1>3, <1>4, <1>7 DEF AppendCoherent, I!SendsTo
  <2>2. ListOf(d)' = q
    BY <1>4, <1>7, <1>8
  <2>3. \A c : c = d => ListOf(c)' = ListOf(d)'
    BY DEF ListOf
  <2> QED
    BY <1>5, <1>13, <2>1, <2>2, <2>3 DEF AppendCoherent, I!SendsTo, ListOf
<1>15. WalkCoherent'
  BY <1>4, <1>14, WalkStands
<1> QED
  BY <1>1, <1>3, <1>5, <1>6, <1>15, WalksFacts, WalksStutter DEF IInv

\* msg_receive begins to look for its sender at the head of the list.
LEMMA RecvFromOneInv ==
  ASSUME IInv, NEW p \in Proc, NEW src \in Proc, RecvFromOne(p, src)
  PROVE  IInv' /\ UNCHANGED I!vars
<1>1. /\ Walks /\ walk = NoWalk /\ p_flags[p] = {} /\ src # p /\ pc = "idle" /\ I!SendsTo(src, p)
  BY DEF RecvFromOne, Idle, Walks
<1>2. PICK h : h = head[p] /\ walk' = Walk("search", p, src, h, NULL, NULL)
  BY DEF RecvFromOne
<1>3. /\ walk.op = "none" /\ walk'.op = "search" /\ walk'.caller = p /\ walk'.peer = src
      /\ walk'.at = h /\ walk'.prev = NULL
  BY <1>1, <1>2, WalkFields
<1>4. \A x \in Proc : Linked(x)' <=> Linked(x)
  BY <1>1, <1>3 DEF Linked, Walks
<1>5. /\ pc' = pc /\ p_flags' = p_flags /\ \A c \in Proc : ListOf(c)' = ListOf(c)
  BY <1>1, <1>4, WalksFacts
<1>6. PICK q \in Seq(Proc) :
        /\ q = ListOf(p) /\ Threads(q, head[p], next_sending)
        /\ ToSet(q) = {s \in Proc : Linked(s) /\ p_sendto[s] = p}
  BY ListFacts DEF IInv
<1>7. PICK n \in Nat :
        /\ n = Len(q) /\ ToSet(q) = {q[k] : k \in 1 .. n} /\ DOMAIN q = 1 .. n
        /\ h = IF n = 0 THEN NULL ELSE q[1]
  BY <1>2, <1>6, ThreadsFacts
<1>8. src \in ToSet(q)
  BY <1>1, <1>3, <1>6 DEF I!SendsTo, Linked
<1>9. PICK l \in 1 .. n : q[l] = src
  BY <1>7, <1>8
<1>10. 1 \in 1 .. n /\ 1 <= l /\ q[1] = h
  BY <1>7
<1>11. SearchCoherent'
  <2>1. \E k, m \in DOMAIN q : k <= m /\ q[k] = h /\ q[m] = src /\ NULL = IF k = 1 THEN NULL ELSE q[k-1]
    BY <1>7, <1>9, <1>10
  <2>2. pc' = "idle" /\ p_flags'[p] = {} /\ ListOf(p)' = q
    BY <1>1, <1>5, <1>6
  <2> QED
    BY <1>3, <2>1, <2>2 DEF SearchCoherent, ListOf
<1>12. WalkCoherent'
  <2>1. src \in Proc \ {p}
    BY <1>1
  <2> QED
    BY <1>2, <1>11, <2>1, WalkStands
<1> QED
  BY <1>1, <1>3, <1>4, <1>12, WalksFacts, WalksStutter DEF IInv

\* ... and walks along it, remembering the one before.
LEMMA SearchOnInv == ASSUME IInv, SearchOn PROVE IInv' /\ UNCHANGED I!vars
<1>1. Walks /\ walk.op = "search" /\ walk.at \notin {NULL, walk.peer}
  BY DEF SearchOn, Walks
<1>2. PICK b : b = next_sending[walk.at] /\ walk' = [walk EXCEPT !.prev = walk.at, !.at = b]
  BY DEF SearchOn
<1>3. PICK a, p, d : a = walk.at /\ p = walk.caller /\ d = walk.peer
  OBVIOUS
<1>4. /\ SearchCoherent /\ p \in Proc /\ d \in Proc \ {p}
      /\ walk' = Walk("search", p, d, b, a, walk.type)
  BY <1>1, <1>2, <1>3, WalkGoesOn DEF IInv, WalkCoherent
<1>5. walk'.op = "search" /\ walk'.caller = p /\ walk'.peer = d /\ walk'.at = b /\ walk'.prev = a
  BY <1>4, WalkFields
<1>6. \A x \in Proc : Linked(x)' <=> Linked(x)
  BY <1>1, <1>5 DEF Linked, Walks
<1>7. pc' = pc /\ p_flags' = p_flags /\ \A c \in Proc : ListOf(c)' = ListOf(c)
  BY <1>1, <1>6, WalksFacts
<1>8. PICK q \in Seq(Proc) : q = ListOf(p) /\ Threads(q, head[p], next_sending)
  BY <1>4, ListFacts DEF IInv
<1>9. PICK n \in Nat : n = Len(q) /\ DOMAIN q = 1 .. n
  BY <1>8, ThreadsFacts
<1>10. PICK k, l \in 1 .. n : k <= l /\ q[k] = a /\ q[l] = d
  BY <1>3, <1>4, <1>8, <1>9 DEF SearchCoherent
<1>11. next_sending[q[k]] = IF k < n THEN q[k+1] ELSE NULL
  BY <1>8, <1>9, ThreadsFacts
<1>12. PICK j \in 1 .. n : j = k + 1 /\ j # 1 /\ j - 1 = k /\ j <= l /\ b = q[j]
  <2>1. k # l
    BY <1>1, <1>3, <1>10
  <2>2. k < n /\ k + 1 \in 1 .. n /\ k + 1 # 1 /\ (k + 1) - 1 = k /\ k + 1 <= l
    BY <1>10, <2>1
  <2>3. b = q[k + 1]
    BY <1>2, <1>3, <1>10, <1>11, <2>2
  <2> QED
    BY <2>2, <2>3
<1>13. SearchCoherent'
  <2>1. \E i, m \in DOMAIN q : i <= m /\ q[i] = b /\ q[m] = d /\ a = IF i = 1 THEN NULL ELSE q[i-1]
    BY <1>9, <1>10, <1>12
  <2>2. pc' = "idle" /\ p_flags'[p] = {} /\ ListOf(p)' = q
    BY <1>3, <1>4, <1>7, <1>8 DEF SearchCoherent
  <2> QED
    BY <1>5, <2>1, <2>2 DEF SearchCoherent, ListOf
<1>14. WalkCoherent'
  BY <1>4, <1>13, WalkStands
<1> QED
  BY <1>1, <1>5, <1>6, <1>14, WalksFacts, WalksStutter DEF IInv

----------------------------------------------------------------------------
(* The steps that block a sender and link it *)

\* The caller is about to be blocked and is on no list yet.
LEMMA BlockFacts ==
  ASSUME IInv, SendBlock
  PROVE  /\ caller \in Proc /\ peer \in Proc \ {caller} /\ SENDING \notin p_flags[caller]
         /\ ~I!Deadlock(caller, peer)
         /\ walk.op = "none" /\ walk = NoWalk
         /\ next_sending[caller] = NULL
         /\ \A d \in Proc : caller \notin ToSet(ListOf(d))
<1>1. pc = "snd_block" /\ halted = 0
  BY DEF SendBlock
<1>2. caller \in Proc /\ peer \in Proc \ {caller} /\ SENDING \notin p_flags[caller] /\ ~I!Deadlock(caller, peer)
  BY <1>1 DEF IInv, BlockCoherent
<1>3. walk = NoWalk
  BY <1>1 DEF IInv, WalkCoherent, DeadlockCoherent, AppendCoherent, SearchCoherent
<1>4. ~Linked(caller)
  BY <1>2 DEF Linked
<1> QED
  BY <1>2, <1>3, <1>4, WalkFields DEF IInv, ListsCoherent

\* What it sends to does not lead back to it, so no cycle of senders is closed.
LEMMA BlockSenders ==
  ASSUME IInv, SendBlock
  PROVE  /\ SendersCoherent' /\ I!SendAcyclic'
         /\ \A p \in Proc \ {caller} : /\ SENDING \in p_flags'[p] <=> SENDING \in p_flags[p]
                                       /\ p_sendto'[p] = p_sendto[p]
         /\ SENDING \in p_flags'[caller] /\ p_sendto'[caller] = peer
<1>1. PICK c \in Proc, d \in Proc : c # d /\ c = caller /\ d = peer
  BY BlockFacts
<1>2. p_flags' = [p_flags EXCEPT ![c] = @ \cup {SENDING}] /\ p_sendto' = [p_sendto EXCEPT ![c] = d]
  BY <1>1 DEF SendBlock
<1>3. /\ p_flags \in [Proc -> SUBSET {SENDING, RECEIVING}]
      /\ p_sendto \in [Proc -> Proc \cup {NO_TASK}]
      /\ \A p \in Proc : SENDING \in p_flags[p] => p_sendto[p] \in Proc \ {p}
  BY DEF IInv, SendersCoherent
<1>4. /\ \A p \in Proc \ {c} : p_flags'[p] = p_flags[p] /\ p_sendto'[p] = p_sendto[p]
      /\ SENDING \in p_flags'[c] /\ p_sendto'[c] = d
  BY <1>2, <1>3
<1>5. SendersCoherent'
  <2>1. p_flags' \in [Proc -> SUBSET {SENDING, RECEIVING}] /\ p_sendto' \in [Proc -> Proc \cup {NO_TASK}]
    BY <1>2, <1>3
  <2>2. \A p \in Proc : SENDING \in p_flags'[p] => p_sendto'[p] \in Proc \ {p}
    BY <1>1, <1>3, <1>4
  <2> QED
    BY <2>1, <2>2 DEF SendersCoherent
<1>6. PICK C \in SUBSET Proc : d \in C /\ I!Closed(C) /\ c \notin C
  BY <1>1, BlockFacts DEF I!Deadlock
<1>7. ASSUME NEW S \in SUBSET Proc, S # {}, \A q \in S : SENDING \in p_flags'[q] /\ p_sendto'[q] \in S
      PROVE  FALSE
  <2>1. \A T \in SUBSET Proc : T # {} => ~ \A q \in T : SENDING \in p_flags[q] /\ p_sendto[q] \in T
    BY DEF IInv, I!SendAcyclic
  <2>2. CASE c \notin S
    BY <1>4, <1>7, <2>1, <2>2
  <2>3. CASE c \in S
    <3>1. PICK T \in SUBSET Proc : T = S \cap C
      OBVIOUS
    <3>2. d \in T
      BY <1>4, <1>6, <1>7, <2>3, <3>1
    <3>3. ASSUME NEW q \in T PROVE SENDING \in p_flags[q] /\ p_sendto[q] \in T
      <4>1. q \in S /\ q \in C /\ q # c
        BY <1>6, <3>1
      <4>2. SENDING \in p_flags[q] /\ p_sendto[q] \in S
        BY <1>4, <1>7, <4>1
      <4> QED
        BY <1>6, <3>1, <4>1, <4>2 DEF I!Closed
    <3> QED
      BY <2>1, <3>2, <3>3
  <2> QED
    BY <2>2, <2>3
<1>8. I!SendAcyclic'
  BY <1>7 DEF I!SendAcyclic
<1> QED
  BY <1>1, <1>4, <1>5, <1>8

\* What is common to the two cases: with an empty list and with others on it.
LEMMA BlockLists ==
  ASSUME IInv, SendBlock
  PROVE  /\ \A p \in Proc : Linked(p) <=> SENDING \in p_flags[p]
         /\ ~Linked(caller)
         /\ head \in [Proc -> Proc \cup {NULL}] /\ next_sending \in [Proc -> Proc \cup {NULL}]
         /\ \A p \in Proc : ~Linked(p) => next_sending[p] = NULL
         /\ \A e \in Proc : /\ Threads(ListOf(e), head[e], next_sending)
                            /\ ToSet(ListOf(e)) = {s \in Proc : Linked(s) /\ p_sendto[s] = e}
         /\ Queues = [e \in Proc |-> ListOf(e)]
<1>1. \A p \in Proc : Linked(p) <=> SENDING \in p_flags[p]
  BY BlockFacts DEF Linked
<1>2. ~Linked(caller)
  BY <1>1, BlockFacts
<1>3. Queues = [e \in Proc |-> ListOf(e)]
  BY BlockFacts DEF Queues
<1> QED
  BY <1>1, <1>2, <1>3 DEF IInv, ListsCoherent

\* Nobody sends to dest yet: the caller is the whole list (350-351).
LEMMA BlockFirst ==
  ASSUME IInv, SendBlock, head[peer] = NULL
  PROVE  ListsCoherent' /\ WalkCoherent' /\ Queues' = [Queues EXCEPT ![peer] = Append(@, caller)]
<1>1. PICK c \in Proc, d \in Proc : c # d /\ c = caller /\ d = peer
  BY BlockFacts
<1>2. PICK q \in Seq(Proc) :
        /\ q = ListOf(d) /\ Threads(q, head[d], next_sending)
        /\ ToSet(q) = {s \in Proc : Linked(s) /\ p_sendto[s] = d}
  BY <1>1, ListFacts DEF IInv
<1>3. /\ head \in [Proc -> Proc \cup {NULL}] /\ next_sending \in [Proc -> Proc \cup {NULL}]
      /\ \A p \in Proc : ~Linked(p) => next_sending[p] = NULL
      /\ \A e \in Proc : /\ Threads(ListOf(e), head[e], next_sending)
                         /\ ToSet(ListOf(e)) = {s \in Proc : Linked(s) /\ p_sendto[s] = e}
  BY BlockLists
<1>4. \A p \in Proc : Linked(p) <=> SENDING \in p_flags[p]
  BY BlockLists
<1>5. ~Linked(c)
  BY <1>1, BlockLists
<1>6. /\ \A p \in Proc \ {c} : /\ SENDING \in p_flags'[p] <=> SENDING \in p_flags[p]
                               /\ p_sendto'[p] = p_sendto[p]
      /\ SENDING \in p_flags'[c] /\ p_sendto'[c] = d
  BY <1>1, BlockSenders
<1>7. /\ walk' = NoWalk /\ head' = [head EXCEPT ![d] = c]
      /\ next_sending' = [next_sending EXCEPT ![c] = NULL]
  BY <1>1 DEF SendBlock
<1>8. \A p \in Proc : Linked(p)' <=> SENDING \in p_flags'[p]
  BY <1>7, WalkFields DEF Linked
<1>9. q = <<>>
  BY <1>1, <1>2, SendQueueAssumption, ThreadsFacts DEF I!ConstantAssumption
<1>10. PICK L : L = [e \in Proc |-> IF e = d THEN Append(<<>>, c) ELSE ListOf(e)]
  OBVIOUS
<1>11. next_sending' = next_sending
  BY <1>3, <1>5, <1>7
<1>12. ASSUME NEW e \in Proc
      PROVE  /\ Threads(L[e], head'[e], next_sending')
             /\ ToSet(L[e]) = {s \in Proc : Linked(s)' /\ p_sendto'[s] = e}
  <2>1. CASE e = d
    <3>1. L[e] = Append(<<>>, c) /\ head'[e] = c /\ next_sending'[c] = NULL
      BY <1>3, <1>5, <1>7, <1>10, <1>11, <2>1
    <3>2. Threads(L[e], head'[e], next_sending') /\ ToSet(L[e]) = {c}
      BY <3>1, LinkFirst
    <3>3. {s \in Proc : Linked(s) /\ p_sendto[s] = d} = {}
      BY <1>2, <1>9, EmptyList
    <3>4. ASSUME NEW s \in Proc PROVE Linked(s)' /\ p_sendto'[s] = d <=> s = c
      BY <1>4, <1>6, <1>8, <3>3
    <3> QED
      BY <2>1, <3>2, <3>4
  <2>2. CASE e # d
    <3>1. L[e] = ListOf(e) /\ head'[e] = head[e]
      BY <1>3, <1>7, <1>10, <2>2
    <3>2. \A s \in Proc : Linked(s)' /\ p_sendto'[s] = e <=> Linked(s) /\ p_sendto[s] = e
      BY <1>4, <1>5, <1>6, <1>8, <2>2
    <3> QED
      BY <1>3, <1>11, <3>1, <3>2
  <2> QED
    BY <2>1, <2>2
<1>13. head' \in [Proc -> Proc \cup {NULL}] /\ next_sending' \in [Proc -> Proc \cup {NULL}]
  BY <1>3, <1>7, <1>11
<1>14. \A p \in Proc : ~Linked(p)' => next_sending'[p] = NULL
  BY <1>3, <1>4, <1>6, <1>8, <1>11
<1>15. ListsCoherent' /\ \A e \in Proc : ListOf(e)' = L[e]
  BY <1>12, <1>13, <1>14, ListsBy
<1>16. Queues' = [Queues EXCEPT ![d] = Append(@, c)]
  <2>1. Queues = [e \in Proc |-> ListOf(e)]
    BY BlockFacts DEF Queues
  <2>2. Queues' = [e \in Proc |-> L[e]]
    BY <1>7, <1>15, WalkFields DEF Queues
  <2> QED
    BY <1>2, <1>9, <1>10, <2>1, <2>2
<1>17. WalkCoherent'
  BY <1>7, WalkFields DEF WalkCoherent
<1> QED
  BY <1>1, <1>15, <1>16, <1>17

\* Others do: the loop begins with the first of them, and counts as queued already.
LEMMA BlockWalk ==
  ASSUME IInv, SendBlock, head[peer] # NULL
  PROVE  ListsCoherent' /\ WalkCoherent' /\ Queues' = [Queues EXCEPT ![peer] = Append(@, caller)]
<1>1. PICK c \in Proc, d \in Proc : c # d /\ c = caller /\ d = peer
  BY BlockFacts
<1>2. PICK q \in Seq(Proc) :
        /\ q = ListOf(d) /\ Threads(q, head[d], next_sending)
        /\ ToSet(q) = {s \in Proc : Linked(s) /\ p_sendto[s] = d}
  BY <1>1, ListFacts DEF IInv
<1>3. /\ head \in [Proc -> Proc \cup {NULL}] /\ next_sending \in [Proc -> Proc \cup {NULL}]
      /\ \A p \in Proc : ~Linked(p) => next_sending[p] = NULL
      /\ \A e \in Proc : /\ Threads(ListOf(e), head[e], next_sending)
                         /\ ToSet(ListOf(e)) = {s \in Proc : Linked(s) /\ p_sendto[s] = e}
  BY BlockLists
<1>4. \A p \in Proc : Linked(p) <=> SENDING \in p_flags[p]
  BY BlockLists
<1>5. ~Linked(c)
  BY <1>1, BlockLists
<1>6. /\ \A p \in Proc \ {c} : /\ SENDING \in p_flags'[p] <=> SENDING \in p_flags[p]
                               /\ p_sendto'[p] = p_sendto[p]
      /\ SENDING \in p_flags'[c] /\ p_sendto'[c] = d
  BY <1>1, BlockSenders
<1>7. pc' = "snd_sched" /\ caller' = c /\ peer' = d
  BY <1>1 DEF SendBlock, I!Goto
<1>8. PICK h : h = head[d]
  OBVIOUS
<1>9. walk' = Walk("append", c, d, h, NULL, NULL) /\ UNCHANGED lists
  BY <1>1, <1>8 DEF SendBlock
<1>10. walk'.op = "append" /\ walk'.caller = c /\ walk'.peer = d /\ walk'.at = h
  BY <1>9, WalkFields
<1>11. \A p \in Proc : Linked(p)' <=> Linked(p)
  BY <1>4, <1>5, <1>6, <1>10 DEF Linked
<1>12. \A p \in Proc : Linked(p) => p_sendto'[p] = p_sendto[p]
  BY <1>5, <1>6
<1>13. ListsCoherent' /\ \A e \in Proc : ListOf(e)' = ListOf(e)
  BY <1>9, <1>11, <1>12, ListsSame DEF IInv
<1>14. h \in ToSet(q)
  <2>1. PICK n \in Nat : /\ n = Len(q) /\ ToSet(q) = {q[k] : k \in 1 .. n}
                         /\ h = IF n = 0 THEN NULL ELSE q[1]
    BY <1>2, <1>8, ThreadsFacts
  <2>2. 1 \in 1 .. n /\ h = q[1]
    BY <1>1, <1>8, <2>1
  <2> QED
    BY <2>1, <2>2
<1>15. AppendCoherent'
  BY <1>2, <1>6, <1>7, <1>10, <1>13, <1>14 DEF AppendCoherent, I!SendsTo, ListOf
<1>16. WalkCoherent'
  <2>1. d \in Proc \ {c}
    BY <1>1
  <2> QED
    BY <1>9, <1>15, <2>1, WalkStands
<1>17. Queues' = [Queues EXCEPT ![d] = Append(@, c)]
  <2>1. Queues = [e \in Proc |-> ListOf(e)]
    BY BlockLists
  <2>2. Queues' = [e \in Proc |-> IF e = d THEN Append(ListOf(e), c) ELSE ListOf(e)]
    BY <1>10, <1>13 DEF Queues
  <2> QED
    BY <2>1, <2>2
<1> QED
  BY <1>1, <1>13, <1>16, <1>17

\* The sender of Ipc is queued as soon as it is blocked.
LEMMA SendBlockInv == ASSUME IInv, SendBlock PROVE IInv' /\ I!Next
<1>1. ListsCoherent' /\ WalkCoherent' /\ Queues' = [Queues EXCEPT ![peer] = Append(@, caller)]
  BY BlockFirst, BlockWalk
<1>2. BlockCoherent'
  BY DEF BlockCoherent, SendBlock, I!Goto
<1>3. I!SendBlock
  BY <1>1 DEF SendBlock, I!SendBlock, I!Running, I!Goto
<1> QED
  BY <1>1, <1>2, <1>3, BlockSenders DEF IInv, I!Next, I!SendStep

\* A link written while another one is (359, 499, 502-504), place by place.
LEMMA TwoLinks ==
  ASSUME NEW f \in [Proc -> Proc \cup {NULL}], NEW x \in Proc, NEW y \in Proc, x # y,
         NEW v \in Proc \cup {NULL}, NEW g, g = [f EXCEPT ![x] = v, ![y] = NULL]
  PROVE  /\ g \in [Proc -> Proc \cup {NULL}]
         /\ g[x] = v /\ g[y] = NULL /\ \A p \in Proc \ {x, y} : g[p] = f[p]
OBVIOUS

\* At its end the loop links the caller behind the last process; to Ipc it has been
\* there all the time.
LEMMA AppendEndInv == ASSUME IInv, AppendEnd PROVE IInv' /\ UNCHANGED I!vars
<1>1. PICK c, d, a : c = walk.caller /\ d = walk.peer /\ a = walk.at
  OBVIOUS
<1>2. /\ walk.op = "append" /\ next_sending[a] = NULL /\ halted = 0
      /\ next_sending' = [next_sending EXCEPT ![a] = c, ![c] = NULL]
      /\ walk' = NoWalk /\ head' = head
      /\ UNCHANGED <<p_flags, p_msg, p_recvfrom, p_sendto, has_int_msg, buf, call, halted>>
  BY <1>1 DEF AppendEnd
<1>3. AppendCoherent /\ c \in Proc /\ d \in Proc \ {c}
  BY <1>1, <1>2, WalkGoesOn DEF IInv, WalkCoherent
<1>4. PICK q \in Seq(Proc) :
        /\ q = ListOf(d) /\ Threads(q, head[d], next_sending)
        /\ ToSet(q) = {s \in Proc : Linked(s) /\ p_sendto[s] = d}
  BY <1>3, ListFacts DEF IInv
<1>5. /\ head \in [Proc -> Proc \cup {NULL}] /\ next_sending \in [Proc -> Proc \cup {NULL}]
      /\ \A p \in Proc : ~Linked(p) => next_sending[p] = NULL
      /\ \A e \in Proc : /\ Threads(ListOf(e), head[e], next_sending)
                         /\ ToSet(ListOf(e)) = {s \in Proc : Linked(s) /\ p_sendto[s] = e}
  BY DEF IInv, ListsCoherent
<1>6. /\ SENDING \in p_flags[c] /\ p_sendto[c] = d /\ ~Linked(c) /\ a \in ToSet(q)
      /\ pc = "snd_sched"
  BY <1>1, <1>2, <1>3, <1>4 DEF AppendCoherent, I!SendsTo, Linked
<1>7. PICK n \in Nat \ {0} : n = Len(q) /\ a = q[n]
  <2>1. PICK m \in Nat : m = Len(q) /\ ToSet(q) = {q[k] : k \in 1 .. m}
    BY <1>4, ThreadsFacts
  <2>2. PICK k \in 1 .. m : a = q[k]
    BY <1>6, <2>1
  <2>3. next_sending[q[k]] = IF k < m THEN q[k+1] ELSE NULL
    BY <1>4, <2>1, ThreadsFacts
  <2>4. k < m => k + 1 \in 1 .. m /\ q[k+1] # NULL
    <3>1. k < m => k + 1 \in 1 .. m
      OBVIOUS
    <3> QED
      BY <2>1, <3>1, SendQueueAssumption DEF I!ConstantAssumption
  <2> QED
    BY <1>2, <2>1, <2>2, <2>3, <2>4
<1>8. a \in Proc /\ Linked(a) /\ p_sendto[a] = d /\ a # c
  BY <1>4, <1>6
<1>9. PICK g : g = next_sending'
  OBVIOUS
<1>10. /\ g \in [Proc -> Proc \cup {NULL}] /\ g[a] = c /\ g[c] = NULL
       /\ \A p \in Proc \ {a, c} : g[p] = next_sending[p]
  BY <1>2, <1>3, <1>5, <1>8, <1>9, TwoLinks
<1>11. \A p \in Proc : Linked(p)' <=> SENDING \in p_flags[p]
  BY <1>2, WalkFields DEF Linked
<1>12. \A p \in Proc : Linked(p)' <=> Linked(p) \/ p = c
  BY <1>1, <1>2, <1>6, <1>11 DEF Linked
<1>13. PICK L : L = [e \in Proc |-> IF e = d THEN Append(q, c) ELSE ListOf(e)]
  OBVIOUS
<1>14. ASSUME NEW e \in Proc
       PROVE  /\ Threads(L[e], head'[e], next_sending')
              /\ ToSet(L[e]) = {s \in Proc : Linked(s)' /\ p_sendto'[s] = e}
  <2>1. CASE e = d
    <3>1. c \in Proc \ ToSet(q)
      BY <1>3, <1>4, <1>6
    <3>2. Threads(Append(q, c), head[d], g) /\ ToSet(Append(q, c)) = ToSet(q) \cup {c}
      BY <1>4, <1>7, <1>10, <3>1, LinkLast
    <3>3. \A s \in Proc : Linked(s)' /\ p_sendto'[s] = d <=> (Linked(s) /\ p_sendto[s] = d) \/ s = c
      BY <1>2, <1>6, <1>12
    <3> QED
      BY <1>2, <1>3, <1>4, <1>9, <1>13, <2>1, <3>2, <3>3
  <2>2. CASE e # d
    <3>1. L[e] = ListOf(e)
      BY <1>13, <2>2
    <3>2. \A s \in Proc : Linked(s)' /\ p_sendto'[s] = e <=> Linked(s) /\ p_sendto[s] = e
      BY <1>2, <1>6, <1>12, <2>2
    <3>3. \A s \in ToSet(ListOf(e)) : g[s] = next_sending[s]
      BY <1>5, <1>6, <1>8, <1>10, <2>2
    <3>4. Threads(ListOf(e), head[e], g)
      BY <1>5, <3>3, OtherLinks
    <3> QED
      BY <1>2, <1>5, <1>9, <3>1, <3>2, <3>4
  <2> QED
    BY <2>1, <2>2
<1>15. \A p \in Proc : ~Linked(p)' => next_sending'[p] = NULL
  BY <1>5, <1>8, <1>9, <1>10, <1>12
<1>16. ListsCoherent' /\ \A e \in Proc : ListOf(e)' = L[e]
  <2>1. head' \in [Proc -> Proc \cup {NULL}] /\ next_sending' \in [Proc -> Proc \cup {NULL}]
    BY <1>2, <1>5, <1>9, <1>10
  <2> QED
    BY <1>14, <1>15, <2>1, ListsBy
<1>17. Queues' = Queues
  <2>1. Queues = [e \in Proc |-> IF e = d THEN Append(ListOf(e), c) ELSE ListOf(e)]
    BY <1>1, <1>2 DEF Queues
  <2>2. Queues' = [e \in Proc |-> L[e]]
    BY <1>2, <1>16, WalkFields DEF Queues
  <2> QED
    BY <1>4, <1>13, <2>1, <2>2
<1>18. SendersCoherent' /\ I!SendAcyclic'
  <2>1. SameSenders
    BY <1>2 DEF IInv, SendersCoherent, SameSenders
  <2> QED
    BY <2>1, SameSendersFacts DEF IInv
<1>19. WalkCoherent' /\ BlockCoherent'
  BY <1>2, <1>6, WalkFields DEF WalkCoherent, BlockCoherent, call
<1>20. UNCHANGED I!vars
  BY <1>2, <1>17 DEF I!vars, call
<1> QED
  BY <1>16, <1>18, <1>19, <1>20 DEF IInv

----------------------------------------------------------------------------
(* The steps that take a sender out *)

\* The sender at place i of the list of p is released and unlinked.
LEMMA TakenInv ==
  ASSUME IInv, NEW p \in Proc, NEW q, q = ListOf(p), NEW i \in 1 .. Len(q), NEW prev,
         prev = IF i = 1 THEN NULL ELSE q[i-1], walk.op # "append", Taken(p, q[i], prev)
  PROVE  /\ ListsCoherent' /\ SendersCoherent' /\ WalkCoherent' /\ I!SendAcyclic'
         /\ Queues' = [Queues EXCEPT ![p] = RemoveAt(q, i)]
         /\ head[p] # NULL /\ (head[p] = q[i] <=> prev = NULL)
         /\ pc' = pc
<1>1. PICK s : s = q[i]
  OBVIOUS
<1>2. /\ Unlinked(p, s, prev) /\ walk' = NoWalk
      /\ p_sendto' = [p_sendto EXCEPT ![s] = NO_TASK]
      /\ p_flags' = [p_flags EXCEPT ![s] = @ \ {SENDING}]
      /\ pc' = pc
  BY <1>1 DEF Taken, call
<1>3. /\ head \in [Proc -> Proc \cup {NULL}] /\ next_sending \in [Proc -> Proc \cup {NULL}]
      /\ \A x \in Proc : ~Linked(x) => next_sending[x] = NULL
      /\ \A e \in Proc : /\ Threads(ListOf(e), head[e], next_sending)
                         /\ ToSet(ListOf(e)) = {x \in Proc : Linked(x) /\ p_sendto[x] = e}
  BY DEF IInv, ListsCoherent
<1>4. /\ q \in Seq(Proc) /\ Threads(q, head[p], next_sending) /\ DOMAIN q = 1 .. Len(q)
      /\ \A k, l \in 1 .. Len(q) : q[k] = q[l] => k = l
      /\ \A k \in 1 .. Len(q) : q[k] \in Proc /\ q[k] \in ToSet(q)
      /\ head[p] = q[1] /\ NULL \notin Proc
      /\ 1 \in 1 .. Len(q) /\ (i # 1 => i - 1 \in 1 .. Len(q) /\ i - 1 # i)
  <2>1. Threads(q, head[p], next_sending)
    BY <1>3
  <2>2. PICK n \in Nat : n = Len(q) /\ i \in 1 .. n
    BY <2>1, ThreadsFacts
  <2>3. 1 \in 1 .. n /\ n # 0 /\ (i # 1 => i - 1 \in 1 .. n /\ i - 1 # i)
    BY <2>2
  <2> QED
    BY <2>1, <2>2, <2>3, ThreadsFacts, SendQueueAssumption DEF I!ConstantAssumption
<1>5. s \in Proc /\ s \in ToSet(q) /\ Linked(s) /\ p_sendto[s] = p
  BY <1>1, <1>3, <1>4
<1>6. (head[p] = s <=> i = 1) /\ (i = 1 <=> prev = NULL) /\ head[p] # NULL
  <2>1. i # 1 => q[i-1] \in Proc
    BY <1>4
  <2> QED
    BY <1>1, <1>4, <2>1
<1>7. PICK g, h : g = next_sending' /\ h = head'
  OBVIOUS
<1>8. /\ g \in [Proc -> Proc \cup {NULL}] /\ h \in [Proc -> Proc \cup {NULL}]
      /\ \A e \in Proc \ {p} : h[e] = head[e]
      /\ g[s] = NULL
      /\ IF i = 1 THEN h[p] = next_sending[s] /\ \A x \in Proc \ {s} : g[x] = next_sending[x]
         ELSE /\ h[p] = head[p] /\ prev \in Proc /\ prev \in ToSet(q)
              /\ g[prev] = next_sending[s]
              /\ \A x \in Proc \ {prev, s} : g[x] = next_sending[x]
  <2>1. CASE i = 1
    <3>1. h = [head EXCEPT ![p] = next_sending[s]] /\ g = [next_sending EXCEPT ![s] = NULL]
      BY <1>2, <1>6, <1>7, <2>1 DEF Unlinked
    <3>2. next_sending[s] \in Proc \cup {NULL}
      BY <1>3, <1>5
    <3> QED
      BY <1>3, <1>5, <2>1, <3>1, <3>2
  <2>2. CASE i # 1
    <3>1. h = head /\ g = [next_sending EXCEPT ![prev] = next_sending[s], ![s] = NULL]
      BY <1>2, <1>6, <1>7, <2>2 DEF Unlinked
    <3>2. prev \in Proc /\ prev # s /\ next_sending[s] \in Proc \cup {NULL} /\ prev \in ToSet(q)
      BY <1>1, <1>3, <1>4, <1>5, <2>2
    <3>3. /\ g \in [Proc -> Proc \cup {NULL}] /\ g[prev] = next_sending[s] /\ g[s] = NULL
          /\ \A x \in Proc \ {prev, s} : g[x] = next_sending[x]
      BY <1>3, <1>5, <3>1, <3>2, TwoLinks
    <3> QED
      BY <1>3, <2>2, <3>1, <3>2, <3>3
  <2> QED
    BY <2>1, <2>2
<1>9. Threads(RemoveAt(q, i), h[p], g) /\ ToSet(RemoveAt(q, i)) = ToSet(q) \ {s}
  <2>1. CASE i = 1
    BY <1>1, <1>4, <1>8, <2>1, UnlinkAt
  <2>2. CASE i # 1
    BY <1>1, <1>4, <1>8, <2>2, UnlinkAt
  <2> QED
    BY <2>1, <2>2
<1>10. /\ p_flags \in [Proc -> SUBSET {SENDING, RECEIVING}]
       /\ p_sendto \in [Proc -> Proc \cup {NO_TASK}]
       /\ \A x \in Proc : SENDING \in p_flags[x] => p_sendto[x] \in Proc \ {x}
  BY DEF IInv, SendersCoherent
<1>11. /\ \A x \in Proc \ {s} : p_flags'[x] = p_flags[x] /\ p_sendto'[x] = p_sendto[x]
       /\ SENDING \notin p_flags'[s] /\ p_sendto'[s] = NO_TASK
  BY <1>2, <1>5, <1>10
<1>12. SendersCoherent'
  <2>1. p_flags' \in [Proc -> SUBSET {SENDING, RECEIVING}] /\ p_sendto' \in [Proc -> Proc \cup {NO_TASK}]
    BY <1>2, <1>5, <1>10
  <2>2. \A x \in Proc : SENDING \in p_flags'[x] => p_sendto'[x] \in Proc \ {x}
    BY <1>10, <1>11
  <2> QED
    BY <2>1, <2>2 DEF SendersCoherent
<1>13. I!SendAcyclic'
  <2>1. ASSUME NEW S \in SUBSET Proc, \A x \in S : SENDING \in p_flags'[x] /\ p_sendto'[x] \in S
        PROVE  \A x \in S : SENDING \in p_flags[x] /\ p_sendto[x] \in S
    BY <1>11, <2>1
  <2> QED
    BY <2>1 DEF IInv, I!SendAcyclic
<1>14. \A x \in Proc : (Linked(x) <=> SENDING \in p_flags[x]) /\ (Linked(x)' <=> SENDING \in p_flags'[x])
  BY <1>2, WalkFields DEF Linked
<1>15. \A x \in Proc : Linked(x)' <=> Linked(x) /\ x # s
  BY <1>11, <1>14
<1>16. PICK L : L = [e \in Proc |-> IF e = p THEN RemoveAt(q, i) ELSE ListOf(e)]
  OBVIOUS
<1>17. ASSUME NEW e \in Proc
       PROVE  /\ Threads(L[e], head'[e], next_sending')
              /\ ToSet(L[e]) = {x \in Proc : Linked(x)' /\ p_sendto'[x] = e}
  <2>1. CASE e = p
    <3>1. \A x \in Proc : Linked(x)' /\ p_sendto'[x] = p <=> Linked(x) /\ p_sendto[x] = p /\ x # s
      BY <1>11, <1>15
    <3>2. ToSet(q) = {x \in Proc : Linked(x) /\ p_sendto[x] = p}
      BY <1>3
    <3> QED
      BY <1>7, <1>9, <1>16, <2>1, <3>1, <3>2
  <2>2. CASE e # p
    <3>1. L[e] = ListOf(e) /\ head'[e] = head[e]
      BY <1>7, <1>8, <1>16, <2>2
    <3>2. \A x \in Proc : Linked(x)' /\ p_sendto'[x] = e <=> Linked(x) /\ p_sendto[x] = e
      BY <1>5, <1>11, <1>15, <2>2
    <3>3. \A x \in ToSet(ListOf(e)) : x \in Proc /\ x # s /\ x \notin ToSet(q)
      BY <1>3, <1>5, <2>2
    <3>4. \A x \in ToSet(ListOf(e)) : g[x] = next_sending[x]
      BY <1>8, <3>3
    <3>5. Threads(ListOf(e), head[e], g)
      BY <1>3, <3>4, OtherLinks
    <3> QED
      BY <1>3, <1>7, <3>1, <3>2, <3>5
  <2> QED
    BY <2>1, <2>2
<1>18. \A x \in Proc : ~Linked(x)' => next_sending'[x] = NULL
  <2> SUFFICES ASSUME NEW x \in Proc, ~Linked(x)', x # s PROVE g[x] = NULL
    BY <1>7, <1>8
  <2>1. ~Linked(x) /\ x \notin ToSet(q)
    BY <1>3, <1>15
  <2> QED
    BY <1>3, <1>8, <2>1
<1>19. ListsCoherent' /\ \A e \in Proc : ListOf(e)' = L[e]
  BY <1>7, <1>8, <1>17, <1>18, ListsBy
<1>20. Queues' = [Queues EXCEPT ![p] = RemoveAt(q, i)]
  <2>1. Queues = [e \in Proc |-> ListOf(e)]
    BY DEF Queues
  <2>2. Queues' = [e \in Proc |-> L[e]]
    BY <1>2, <1>19, WalkFields DEF Queues
  <2> QED
    BY <1>16, <2>1, <2>2
<1>21. WalkCoherent'
  BY <1>2, WalkFields DEF WalkCoherent
<1> QED
  BY <1>1, <1>2, <1>6, <1>12, <1>13, <1>19, <1>20, <1>21

\* The receive of Ipc that takes the message of the sender at place i, named or any.
LEMMA TakenIsTake ==
  ASSUME IInv, NEW p \in Proc, NEW q, q = ListOf(p), NEW i \in 1 .. Len(q), NEW prev,
         prev = IF i = 1 THEN NULL ELSE q[i-1], walk.op # "append", Taken(p, q[i], prev),
         halted = 0, pc = "idle", p_flags[p] = {}, NEW src \in Proc \cup {ANY, INTERRUPT},
         \/ src = ANY /\ i = 1 /\ has_int_msg[p] = 0
         \/ src \in Proc \ {p} /\ src = q[i]
  PROVE  IInv' /\ I!Next
<1>1. /\ ListsCoherent' /\ SendersCoherent' /\ WalkCoherent' /\ I!SendAcyclic' /\ pc' = pc
      /\ Queues' = [Queues EXCEPT ![p] = RemoveAt(q, i)]
      /\ head[p] # NULL /\ (head[p] = q[i] <=> prev = NULL)
  BY TakenInv
<1>2. BlockCoherent'
  BY <1>1 DEF BlockCoherent
<1>3. PICK s : s = q[i]
  OBVIOUS
<1>4. /\ halted' = IF I!Quiet(p) /\ I!SendingTo(s, p) THEN halted ELSE 437
      /\ buf' = [buf EXCEPT ![p] = buf[p_msg[s]]]
      /\ p_msg' = [p_msg EXCEPT ![s] = NULL]
      /\ p_sendto' = [p_sendto EXCEPT ![s] = NO_TASK]
      /\ p_flags' = [p_flags EXCEPT ![s] = @ \ {SENDING}]
      /\ UNCHANGED <<p_recvfrom, has_int_msg, call>>
  BY <1>1, <1>3 DEF Taken, I!Asserted
<1>5. /\ Threads(q, head[p], next_sending) /\ Queues[p] = q
      /\ ToSet(q) = {x \in Proc : Linked(x) /\ p_sendto[x] = p}
  BY DEF IInv, ListsCoherent, Queues
<1>6. /\ q \in Seq(Proc) /\ DOMAIN q = 1 .. Len(q) /\ q # <<>> /\ q[1] = Head(q)
      /\ \A k, l \in 1 .. Len(q) : q[k] = q[l] => k = l
      /\ ToSet(q) = {q[k] : k \in 1 .. Len(q)}
  BY <1>5, ThreadsFacts
<1>7. s \in ToSet(q) /\ s \in Proc /\ I!SendsTo(s, p)
  BY <1>3, <1>5, <1>6 DEF Linked, I!SendsTo
<1>8. I!Receiving(p, src)
  BY SendQueueAssumption DEF I!Receiving, I!Running, I!Runnable, I!ConstantAssumption
<1>9. ~(has_int_msg[p] = 1 /\ src \in {ANY, INTERRUPT})
  BY SendQueueAssumption DEF I!ConstantAssumption
<1>10. s \in I!Candidates(p, src)
  <2>1. CASE src = ANY /\ i = 1
    BY <1>3, <1>5, <1>6, <2>1 DEF I!Candidates
  <2>2. CASE src \in Proc /\ src = q[i]
    BY <1>3, <1>7, <2>2, SendQueueAssumption DEF I!Candidates, I!ConstantAssumption
  <2> QED
    BY <2>1, <2>2
<1>11. I!Unlink(q, s) = RemoveAt(q, i)
  <2>1. \A k \in DOMAIN q : q[k] = s <=> k = i
    BY <1>3, <1>6
  <2>2. PICK j : j = CHOOSE k \in DOMAIN q : q[k] = s
    OBVIOUS
  <2>3. I!Unlink(q, s) = I!RemoveAt(q, j)
    BY <2>2, Zenon DEF I!Unlink
  <2>4. j = i
    BY <1>6, <2>1, <2>2
  <2> QED
    BY <2>3, <2>4 DEF I!RemoveAt, RemoveAt
<1>12. Queues' = [Queues EXCEPT ![p] = I!Unlink(@, s)]
  BY <1>1, <1>5, <1>11
<1>13. I!Contains(Queues[p], s)
  BY <1>3, <1>5, <1>6 DEF I!Contains
<1>14. I!Asserted(I!Quiet(p) /\ I!SendingTo(s, p) /\ I!Contains(Queues[p], s), 437)
  BY <1>4, <1>13 DEF I!Asserted
<1>15. I!RecvTake(p, src)
  <2>1. UNCHANGED <<p_recvfrom, has_int_msg, I!call>>
    BY <1>4 DEF call, I!call
  <2> QED
    BY <1>4, <1>8, <1>9, <1>10, <1>12, <1>14, <2>1, Zenon DEF I!RecvTake
<1> QED
  BY <1>1, <1>2, <1>15 DEF IInv, I!Next

\* The first sender of all.
LEMMA RecvAnyInv == ASSUME IInv, NEW p \in Proc, RecvAny(p) PROVE IInv' /\ I!Next
<1>1. /\ halted = 0 /\ pc = "idle" /\ walk.op # "append" /\ p_flags[p] = {}
      /\ has_int_msg[p] = 0 /\ head[p] # NULL /\ Taken(p, head[p], NULL)
  BY WalkFields DEF RecvAny, Idle
<1>2. PICK q \in Seq(Proc) : q = ListOf(p) /\ Threads(q, head[p], next_sending)
  BY ListFacts DEF IInv
<1>3. PICK n \in Nat : n = Len(q) /\ head[p] = IF n = 0 THEN NULL ELSE q[1]
  BY <1>2, ThreadsFacts
<1>4. PICK i \in 1 .. n : i = 1
  BY <1>1, <1>3
<1>5. head[p] = q[i] /\ NULL = IF i = 1 THEN NULL ELSE q[i-1]
  BY <1>1, <1>3, <1>4
<1>6. Taken(p, q[i], NULL)
  BY <1>1, <1>5
<1> QED
  BY <1>1, <1>2, <1>3, <1>4, <1>5, <1>6, TakenIsTake

\* The loop ends at the sender that was asked for, never behind the last one.
LEMMA SearchEndInv == ASSUME IInv, SearchEnd PROVE IInv' /\ I!Next
<1>1. PICK p, s, a, prev : p = walk.caller /\ s = walk.peer /\ a = walk.at /\ prev = walk.prev
  OBVIOUS
<1>2. walk.op = "search" /\ halted = 0 /\ a \in {NULL, s} /\ Taken(p, s, prev)
  BY <1>1 DEF SearchEnd
<1>3. SearchCoherent /\ p \in Proc /\ s \in Proc \ {p}
  BY <1>1, <1>2, WalkGoesOn DEF IInv, WalkCoherent
<1>4. PICK q \in Seq(Proc) : q = ListOf(p) /\ Threads(q, head[p], next_sending)
  BY <1>3, ListFacts DEF IInv
<1>5. PICK n \in Nat : /\ n = Len(q) /\ DOMAIN q = 1 .. n
                       /\ \A k, l \in 1 .. n : q[k] = q[l] => k = l
                       /\ \A k \in 1 .. n : q[k] \in Proc
  BY <1>4, ThreadsFacts
<1>6. PICK k, l \in 1 .. n : /\ q[k] = a /\ q[l] = s
                             /\ prev = IF k = 1 THEN NULL ELSE q[k-1]
  BY <1>1, <1>3, <1>4, <1>5 DEF SearchCoherent
<1>7. q[k] = s /\ Taken(p, q[k], prev)
  BY <1>2, <1>5, <1>6, SendQueueAssumption DEF I!ConstantAssumption
<1>8. pc = "idle" /\ p_flags[p] = {} /\ walk.op # "append"
  BY <1>1, <1>2, <1>3 DEF SearchCoherent
<1> QED
  BY <1>2, <1>3, <1>4, <1>5, <1>6, <1>7, <1>8, TakenIsTake

----------------------------------------------------------------------------
(* The invariant and the steps of Ipc *)

LEMMA InitInv == ASSUME Init PROVE IInv /\ I!Init
<1>1. /\ head = [p \in Proc |-> NULL] /\ next_sending = [p \in Proc |-> NULL] /\ walk = NoWalk
      /\ p_flags = [p \in Proc |-> {}] /\ p_sendto = [p \in Proc |-> NO_TASK] /\ pc = "idle"
      /\ I!Init
  BY DEF Init, I!Init
<1>2. walk.op = "none"
  BY <1>1, WalkFields
<1>3. \A p \in Proc : ~Linked(p)
  BY <1>1 DEF Linked
<1>4. \A d \in Proc : ListOf(d) = <<>>
  BY <1>1, EmptyList, ChainIs DEF ListOf
<1>5. ListsCoherent
  <2>1. ASSUME NEW d \in Proc
        PROVE  /\ Threads(ListOf(d), head[d], next_sending)
               /\ ToSet(ListOf(d)) = {s \in Proc : Linked(s) /\ p_sendto[s] = d}
    BY <1>1, <1>3, <1>4, EmptyList
  <2> QED
    BY <1>1, <2>1 DEF ListsCoherent
<1>6. SendersCoherent /\ BlockCoherent /\ WalkCoherent /\ I!SendAcyclic
  BY <1>1, <1>2 DEF SendersCoherent, BlockCoherent, WalkCoherent, I!SendAcyclic
<1> QED
  BY <1>1, <1>5, <1>6 DEF IInv

LEMMA StutterInv == ASSUME IInv, UNCHANGED vars PROVE IInv' /\ UNCHANGED I!vars
<1>1. Walks /\ walk' = walk
  BY DEF vars, Walks
<1>2. \A x \in Proc : Linked(x)' <=> Linked(x)
  BY <1>1 DEF Linked, Walks
<1>3. p_flags' = p_flags /\ p_sendto' = p_sendto /\ pc' = pc
  BY <1>1, <1>2, WalksFacts
<1>4. \A d : ListOf(d)' = ListOf(d)
  BY <1>1 DEF Walks, lists, ListOf
<1>5. WalkCoherent'
  BY <1>1, <1>3, <1>4 DEF IInv, WalkCoherent, DeadlockCoherent, AppendCoherent, SearchCoherent,
                         I!Closed, I!SendsTo
<1> QED
  BY <1>1, <1>2, <1>5, WalksFacts, WalksStutter DEF IInv

\* Every step keeps the invariant and is a step of Ipc or, where the code walks on, none.
LEMMA StepInv == ASSUME IInv, [Next]_vars PROVE IInv' /\ [I!Next]_(I!vars)
<1>1. CASE \E p, d \in Proc, t \in Type : Send(p, d, t)
  BY <1>1, SendInv
<1>2. CASE SendBlock
  BY <1>2, SendBlockInv
<1>3. CASE \E p \in Proc : RecvAny(p)
  BY <1>3, RecvAnyInv
<1>4. CASE \E p, src \in Proc : RecvFromOne(p, src)
  BY <1>4, RecvFromOneInv
<1>5. CASE Loop
  BY <1>5, DeadlockOnInv, DeadlockEndsInv, AppendOnInv, AppendEndInv, SearchOnInv, SearchEndInv DEF Loop
<1>6. CASE OtherStep
  BY <1>6, OtherStepInv DEF OtherStep, I!Next, I!SendStep
<1>7. CASE InformInt
  BY <1>7, InformInv DEF InformInt, I!Next
<1>8. CASE UNCHANGED vars
  BY <1>8, StutterInv
<1> QED
  BY <1>1, <1>2, <1>3, <1>4, <1>5, <1>6, <1>7, <1>8 DEF Next

----------------------------------------------------------------------------
(* What the invariant says of links and of loops *)

LEMMA LinksFresh == ASSUME IInv PROVE NoStaleLink
<1> SUFFICES ASSUME NEW p \in Proc, next_sending[p] # NULL
             PROVE  /\ SENDING \in p_flags[p] /\ SENDING \in p_flags[next_sending[p]]
                    /\ p_sendto[next_sending[p]] = p_sendto[p]
  BY DEF NoStaleLink
<1>1. Linked(p) /\ SENDING \in p_flags[p]
  BY DEF IInv, ListsCoherent, Linked
<1>2. PICK d \in Proc : d = p_sendto[p]
  BY <1>1 DEF IInv, SendersCoherent
<1>3. PICK q \in Seq(Proc) :
        /\ Threads(q, head[d], next_sending)
        /\ ToSet(q) = {s \in Proc : Linked(s) /\ p_sendto[s] = d}
  BY ListFacts DEF IInv
<1>4. PICK n \in Nat : /\ n = Len(q) /\ ToSet(q) = {q[k] : k \in 1 .. n}
                       /\ \A k \in 1 .. n : next_sending[q[k]] = IF k < n THEN q[k+1] ELSE NULL
  BY <1>3, ThreadsFacts
<1>5. PICK k \in 1 .. n : p = q[k]
  BY <1>1, <1>2, <1>3, <1>4
<1>6. k < n /\ next_sending[p] = q[k+1] /\ k + 1 \in 1 .. n
  BY <1>4, <1>5
<1>7. next_sending[p] \in ToSet(q)
  BY <1>4, <1>6
<1> QED
  BY <1>1, <1>2, <1>3, <1>7 DEF Linked

\* Who has a place on a list and goes on along it comes to every later place.
LEMMA Reaches ==
  ASSUME NEW q, NEW h, NEW next, Threads(q, h, next), NEW k \in 1 .. Len(q), NEW l \in 1 .. Len(q),
         k <= l, NEW S, q[k] \in S, \A m \in 1 .. Len(q) : q[m] \in S /\ m < l => next[q[m]] \in S
  PROVE  q[l] \in S
<1>1. PICK n \in Nat : /\ n = Len(q) /\ k \in 1 .. n /\ l \in 1 .. n
                       /\ \A m \in 1 .. n : next[q[m]] = IF m < n THEN q[m+1] ELSE NULL
  BY ThreadsFacts
<1> DEFINE H == {m \in Nat : k + m <= l => q[k+m] \in S}
<1>2. 0 \in H
  <2>1. k + 0 = k
    BY <1>1
  <2> QED
    BY <2>1
<1>3. ASSUME NEW m \in Nat, m \in H PROVE m + 1 \in H
  <2> SUFFICES ASSUME k + (m + 1) <= l PROVE q[k + (m + 1)] \in S
    OBVIOUS
  <2>1. PICK j \in 1 .. n : j = k + m /\ j < l /\ j < n /\ j + 1 = k + (m + 1)
    BY <1>1
  <2>2. q[j] \in S
    BY <1>1, <1>3, <2>1
  <2>3. next[q[j]] \in S /\ next[q[j]] = q[j+1]
    BY <1>1, <2>1, <2>2
  <2> QED
    BY <2>1, <2>3
<1> HIDE DEF H
<1>4. \A m \in Nat : m \in H
  BY <1>2, <1>3, Induction
<1>5. l - k \in Nat /\ k + (l - k) = l
  BY <1>1
<1>6. l - k \in H
  BY <1>4, <1>5
<1> QED
  BY <1>1, <1>5, <1>6 DEF H

LEMMA LoopsEnd == ASSUME IInv PROVE WalkEnds
<1> SUFFICES ASSUME walk # NoWalk, NEW S \in SUBSET (Proc \cup {NULL}), walk.at \in S,
                    \A p \in S \cap Proc : ~Stops(p) => Onward(p) \in S,
                    \A p \in S \cap Proc : ~Stops(p)
             PROVE  FALSE
  BY DEF WalkEnds
<1>1. /\ walk.op \in {"deadlock", "append", "search"}
      /\ walk.caller \in Proc /\ walk.peer \in Proc \ {walk.caller}
  BY DEF IInv, WalkCoherent
<1>2. CASE walk.op = "deadlock"
  <2>1. walk.at \in S \cap Proc
    BY <1>2 DEF IInv, WalkCoherent, DeadlockCoherent
  <2>2. ASSUME NEW p \in S \cap Proc
        PROVE  SENDING \in p_flags[p] /\ p_sendto[p] \in S \cap Proc
    BY <1>2 DEF Stops, Onward, IInv, SendersCoherent
  <2>3. S \cap Proc \in SUBSET Proc /\ S \cap Proc # {}
    BY <2>1
  <2> QED
    BY <2>2, <2>3 DEF IInv, I!SendAcyclic
<1>3. CASE walk.op = "append"
  <2>1. PICK q \in Seq(Proc) : q = ListOf(walk.peer) /\ Threads(q, head[walk.peer], next_sending)
    BY <1>1, ListFacts DEF IInv
  <2>2. PICK n \in Nat : /\ n = Len(q) /\ ToSet(q) = {q[k] : k \in 1 .. n}
                         /\ \A k \in 1 .. n : q[k] \in Proc
                         /\ \A k \in 1 .. n : next_sending[q[k]] = IF k < n THEN q[k+1] ELSE NULL
    BY <2>1, ThreadsFacts
  <2>3. PICK k \in 1 .. n : walk.at = q[k]
    BY <1>3, <2>1, <2>2 DEF IInv, WalkCoherent, AppendCoherent
  <2>4. PICK l \in 1 .. n : l = n /\ k <= l
    BY <2>3
  <2>5. \A m \in 1 .. n : q[m] \in S => next_sending[q[m]] \in S
    BY <1>3, <2>2 DEF Onward
  <2>6. q[l] \in S
    BY <2>1, <2>2, <2>3, <2>4, <2>5, Reaches
  <2>7. Stops(q[l])
    BY <1>3, <2>2, <2>4 DEF Stops
  <2> QED
    BY <2>2, <2>6, <2>7
<1>4. CASE walk.op = "search"
  <2>1. PICK q \in Seq(Proc) : q = ListOf(walk.caller) /\ Threads(q, head[walk.caller], next_sending)
    BY <1>1, ListFacts DEF IInv
  <2>2. PICK n \in Nat : /\ n = Len(q) /\ DOMAIN q = 1 .. n /\ \A k \in 1 .. n : q[k] \in Proc
    BY <2>1, ThreadsFacts
  <2>3. PICK k, l \in 1 .. n : k <= l /\ q[k] = walk.at /\ q[l] = walk.peer
    BY <1>4, <2>1, <2>2 DEF IInv, WalkCoherent, SearchCoherent
  <2>4. \A m \in 1 .. n : q[m] \in S => next_sending[q[m]] \in S
    BY <1>4, <2>2 DEF Onward
  <2>5. q[l] \in S
    BY <2>1, <2>2, <2>3, <2>4, Reaches
  <2>6. Stops(q[l])
    BY <1>4, <2>3 DEF Stops
  <2> QED
    BY <2>2, <2>5, <2>6
<1> QED
  BY <1>1, <1>2, <1>3, <1>4

----------------------------------------------------------------------------

\* The invariant holds in every reachable state, whatever the processes send and
\* receive and wherever in a loop the interrupt of the disk comes.
THEOREM Invariance == Spec => []IInv
<1>1. Init => IInv
  BY InitInv
<1>2. IInv /\ [Next]_vars => IInv'
  BY StepInv
<1> QED
  BY <1>1, <1>2, PTL DEF Spec

\* No process keeps a link of a list it is not on (proc.c:359, 499, 504).
THEOREM LinksCorrect == Spec => []NoStaleLink
<1>1. IInv => NoStaleLink
  BY LinksFresh
<1> QED
  BY <1>1, Invariance, PTL

\* deadlock() and the loops over a list come to their end (proc.c:269-289, 352-354,
\* 465-474).
THEOREM LoopsCorrect == Spec => []WalkEnds
<1>1. IInv => WalkEnds
  BY LoopsEnd
<1> QED
  BY <1>1, Invariance, PTL

\* The lists and loops of proc.c do to the process table what Ipc does to its queues:
\* every step is one of Ipc's or, where the code only walks on, none.
THEOREM Refinement == Spec => ImplementsIpc
<1>1. Init => I!Init
  BY InitInv
<1>2. IInv /\ [Next]_vars => [I!Next]_(I!vars)
  BY StepInv
<1> QED
  BY <1>1, <1>2, Invariance, PTL DEF Spec, ImplementsIpc, I!Spec
=============================================================================
